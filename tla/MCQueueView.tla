------------------------------ MODULE MCQueueView ------------------------------
(* QueueView for one browser; the bounds are plain numbers in the cfg files.   *)
EXTENDS QueueView
=============================================================================
