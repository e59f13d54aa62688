--------------------------- MODULE MCPlayerSession ----------------------------
(* PlayerSession with two browsers and titles that are all different videos.  *)
EXTENDS PlayerSession

MCDistinct == [i \in Titles |-> i]
=============================================================================
