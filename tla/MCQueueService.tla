---------------------------- MODULE MCQueueService ----------------------------
(* QueueService on a small lobby.  The stride equals the capacity, the limit  *)
(* of the proportion the code relies on (Capacity <= Stride).                 *)
EXTENDS QueueService, TLC

CONSTANTS a, b

MCOrders ==
  {s \in UNION {[1..n -> Items] : n \in 0..Capacity} :
     \A j, k \in DOMAIN s : s[j] = s[k] => j = k}

MCFingerprints == Tracks \cup Items \cup MCOrders \cup PlaybackPayloads

MCSymmetry == Permutations(Items) \cup Permutations(Commands)
=============================================================================
