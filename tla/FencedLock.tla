------------------------------ MODULE FencedLock ------------------------------
(***************************************************************************)
(* What the player lease promises: one owner at a time, chosen among the   *)
(* browsers, and a token that grows with every grant, so that an ownership *)
(* that was lost never comes back under the token it had.                  *)
(***************************************************************************)
EXTENDS Integers

CONSTANTS Owners, NoOwner

VARIABLES owner, token, retired

lockVars == <<owner, token, retired>>

LockInit == owner = NoOwner /\ token = 0 /\ retired = FALSE

\* Free, or already its own: an owner may be granted again, with a new token.
Grant(b) ==
  /\ ~retired
  /\ owner \in {NoOwner, b}
  /\ owner' = b
  /\ token' = token + 1
  /\ UNCHANGED retired

Lapse ==
  /\ owner' = NoOwner
  /\ UNCHANGED <<token, retired>>

\* Nothing is granted any more.
Retire ==
  /\ ~retired
  /\ retired' = TRUE
  /\ owner' = NoOwner
  /\ token' = 0

LockNext == (\E b \in Owners : Grant(b)) \/ Lapse \/ Retire

LockSpec == LockInit /\ [][LockNext]_lockVars
=============================================================================
