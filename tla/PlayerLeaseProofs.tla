-------------------------- MODULE PlayerLeaseProofs ---------------------------
(***************************************************************************)
(* The lease implements the lock, for any browsers, any duration and any   *)
(* length of time.                                                         *)
(***************************************************************************)
EXTENDS PlayerLease, TLAPS

USE LeaseAssumption

\* Every step keeps the row, the clock and the lobby typed.
LEMMA LeaseStepTyped == LeaseTypeOK /\ [LeaseNext]_leaseVars => LeaseTypeOK'
<1> SUFFICES ASSUME LeaseTypeOK, [LeaseNext]_leaseVars
             PROVE  LeaseTypeOK'
  OBVIOUS
<1>1. ASSUME NEW b \in Browsers, Claim(b)
      PROVE  LeaseTypeOK'
  BY <1>1 DEF LeaseTypeOK, Claim
<1>2. ASSUME NEW b \in Browsers, NEW g \in 1..MaxGeneration, Heartbeat(b, g)
      PROVE  LeaseTypeOK'
  BY <1>2 DEF LeaseTypeOK, Heartbeat
<1>3. CASE open' = FALSE /\ Release
  BY <1>3 DEF LeaseTypeOK, Release, NoLease
<1>4. CASE LeaseTick
  BY <1>4 DEF LeaseTypeOK, LeaseTick
<1>5. CASE UNCHANGED leaseVars
  BY <1>5 DEF LeaseTypeOK, leaseVars
<1>. QED
  BY <1>1, <1>2, <1>3, <1>4, <1>5 DEF LeaseNext

\* Type correctness of the lease.
THEOREM LeaseTypeCorrect == LeaseSpec => []LeaseTypeOK
<1>1. LeaseInit => LeaseTypeOK
  BY DEF LeaseInit, LeaseTypeOK, NoLease
<1>. QED
  BY <1>1, LeaseStepTyped, PTL DEF LeaseSpec

-----------------------------------------------------------------------------
\* A claim is a grant: the lease was free or the claimant's, and runs from now on.
LEMMA ClaimGrants ==
  ASSUME LeaseTypeOK, NEW b \in Browsers, Claim(b)
  PROVE  Lock!Grant(b)
<1>1. Active' /\ lease'.holder = b /\ lease'.generation = lease.generation + 1
  BY DEF Claim, Active, LeaseTypeOK
<1>2. (IF Active THEN lease.holder ELSE NoBrowser) \in {NoBrowser, b}
  BY DEF Claim
<1>. QED
  BY <1>1, <1>2 DEF Claim, Lock!Grant

\* A heartbeat changes neither the owner nor the token: it needs a lease that runs.
LEMMA HeartbeatStutters ==
  ASSUME LeaseTypeOK, NEW b \in Browsers, NEW g, Heartbeat(b, g)
  PROVE  UNCHANGED Lock!lockVars
<1>1. Active /\ Active'
  BY DEF Heartbeat, Active, LeaseTypeOK
<1>2. lease'.holder = lease.holder /\ lease'.generation = lease.generation
  BY DEF Heartbeat, LeaseTypeOK
<1>. QED
  BY <1>1, <1>2 DEF Heartbeat, Lock!lockVars

\* When the clock passes expires_at, the lock lapses; nothing else happens to it.
LEMMA TickLapses ==
  ASSUME LeaseTypeOK, LeaseTick
  PROVE  Lock!Lapse \/ UNCHANGED Lock!lockVars
<1>1. lease' = lease /\ open' = open /\ (Active' => Active)
  BY DEF LeaseTick, Active, LeaseTypeOK
<1>2. CASE Active'
  BY <1>1, <1>2 DEF Lock!lockVars
<1>3. CASE ~Active'
  BY <1>1, <1>3 DEF Lock!Lapse
<1>. QED
  BY <1>2, <1>3

\* The deleted row of a closed lobby owns nothing.
LEMMA ReleaseRetires ==
  ASSUME LeaseTypeOK, LeaseTypeOK', open' = FALSE, Release
  PROVE  Lock!Retire
<1>1. ~Active' /\ lease'.generation = 0
  BY DEF Release, NoLease, Active, LeaseTypeOK
<1>. QED
  BY <1>1 DEF Release, Lock!Retire, LeaseTypeOK

\* The step lemma of the refinement.
LEMMA LeaseStepIsALockStep ==
  LeaseTypeOK /\ LeaseTypeOK' /\ [LeaseNext]_leaseVars => [Lock!LockNext]_(Lock!lockVars)
<1> SUFFICES ASSUME LeaseTypeOK, LeaseTypeOK', [LeaseNext]_leaseVars
             PROVE  Lock!LockNext \/ UNCHANGED Lock!lockVars
  OBVIOUS
<1>1. ASSUME NEW b \in Browsers, Claim(b)
      PROVE  Lock!LockNext
  BY <1>1, ClaimGrants DEF Lock!LockNext
<1>2. ASSUME NEW b \in Browsers, NEW g \in 1..MaxGeneration, Heartbeat(b, g)
      PROVE  UNCHANGED Lock!lockVars
  BY <1>2, HeartbeatStutters
<1>3. CASE open' = FALSE /\ Release
  BY <1>3, ReleaseRetires DEF Lock!LockNext
<1>4. CASE LeaseTick
  BY <1>4, TickLapses DEF Lock!LockNext
<1>5. CASE UNCHANGED leaseVars
  BY <1>5 DEF leaseVars, Lock!lockVars, Active
<1>. QED
  BY <1>1, <1>2, <1>3, <1>4, <1>5 DEF LeaseNext

\* The lease implements the lock: a delayed or repeated claim or heartbeat never
\* gives it to a second browser while it runs, and an expired generation is dead.
THEOREM LeaseImplementsLock == LeaseSpec => LeaseIsALock
<1>1. LeaseInit => Lock!LockInit
  BY DEF LeaseInit, NoLease, Active, Lock!LockInit
<1>. QED
  BY <1>1, LeaseStepIsALockStep, LeaseTypeCorrect, PTL DEF LeaseSpec, LeaseIsALock, Lock!LockSpec
=============================================================================
