----------------------------- MODULE PlayerLease ------------------------------
(***************************************************************************)
(* The lease of the browser that plays the music of one lobby: one row of  *)
(* playback_leases, written under the lobby's row lock by claim and        *)
(* heartbeat and deleted with the lobby.  A browser is a participant and a *)
(* device identifier.  Expiry is never written: it is the clock passing    *)
(* expires_at.                                                             *)
(***************************************************************************)
EXTENDS Integers

CONSTANTS
  Browsers,       \* <<participant, device>>
  NoBrowser,      \* there is no row
  LeaseTime,      \* PLAYER_LEASE_DURATION_MS, in ticks
  MaxNow,         \* bound: last instant of the clock
  MaxGeneration   \* bound: last generation that is claimed

ASSUME LeaseAssumption ==
  /\ NoBrowser \notin Browsers
  /\ LeaseTime \in Nat \ {0}
  /\ MaxNow \in Nat
  /\ MaxGeneration \in Nat

VARIABLES
  now,    \* the server's clock
  open,   \* the lobby is open
  lease   \* the row

leaseVars == <<now, open, lease>>

NoLease == [holder |-> NoBrowser, generation |-> 0, expiresAt |-> 0]

LeaseTypeOK ==
  /\ now \in 0..MaxNow
  /\ open \in BOOLEAN
  /\ lease \in [holder: Browsers \cup {NoBrowser}, generation: Nat, expiresAt: Nat]

LeaseInit == now = 0 /\ open = TRUE /\ lease = NoLease

Active == lease.expiresAt > now

-----------------------------------------------------------------------------
\* Slip: the row is taken over with its generation.
ClaimSameGeneration(b) ==
  /\ open
  /\ lease.generation < MaxGeneration
  /\ Active => lease.holder = b
  /\ lease' = [holder |-> b, expiresAt |-> now + LeaseTime,
               generation |-> IF lease.generation = 0 THEN 1 ELSE lease.generation]
  /\ UNCHANGED <<now, open>>

\* Also by the holder itself, which is then fenced off from its older requests.
Claim(b) ==
  /\ open
  /\ lease.generation < MaxGeneration
  /\ Active => lease.holder = b
  /\ lease' = [holder |-> b, generation |-> lease.generation + 1,
               expiresAt |-> now + LeaseTime]
  /\ UNCHANGED <<now, open>>

\* Slip: the holder and the generation are compared, the expiry is not.
HeartbeatAfterExpiry(b, g) ==
  /\ open
  /\ lease.holder = b /\ lease.generation = g
  /\ lease' = [lease EXCEPT !.expiresAt = now + LeaseTime]
  /\ UNCHANGED <<now, open>>

\* A heartbeat may have been delayed: g is any generation claimed so far.
Heartbeat(b, g) ==
  /\ open
  /\ lease.holder = b /\ lease.generation = g /\ Active
  /\ lease' = [lease EXCEPT !.expiresAt = now + LeaseTime]
  /\ UNCHANGED <<now, open>>

\* Closing or expiring the lobby deletes the row.
Release ==
  /\ open /\ ~open'
  /\ lease' = NoLease
  /\ UNCHANGED now

LeaseTick ==
  /\ now < MaxNow
  /\ now' = now + 1
  /\ UNCHANGED <<open, lease>>

LeaseNext ==
  \/ \E b \in Browsers : Claim(b)
  \/ \E b \in Browsers, g \in 1..MaxGeneration : Heartbeat(b, g)
  \/ open' = FALSE /\ Release
  \/ LeaseTick

LeaseSpec == LeaseInit /\ [][LeaseNext]_leaseVars

-----------------------------------------------------------------------------
Lock == INSTANCE FencedLock WITH
  Owners <- Browsers, NoOwner <- NoBrowser,
  owner <- IF Active THEN lease.holder ELSE NoBrowser,
  token <- lease.generation, retired <- ~open

\* The row and the clock implement the lock: no delayed or repeated claim or
\* heartbeat gives the lease to a second browser while it runs, and none revives
\* a generation that expired.
LeaseIsALock == Lock!LockSpec
=============================================================================
