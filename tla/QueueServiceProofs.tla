-------------------------- MODULE QueueServiceProofs --------------------------
(***************************************************************************)
(* Theorems of the queue, for every number of participants, commands and   *)
(* items, every capacity and every stride that is at least the capacity.   *)
(***************************************************************************)
EXTENDS QueueService, FiniteSetTheorems, TLAPS

USE StoreAssumption, QueueAssumption

-----------------------------------------------------------------------------
(* Typing.                                                                  *)

\* A request drawn for a command type is a well-formed request of that type.
LEMMA RequestTyped ==
  ASSUME version \in Nat,
         NEW t \in QueueTypes \cup PlaybackTypes, NEW r \in RequestsOf(t)
  PROVE  r \in Request /\ r.type = t /\ r.fingerprint \in Payloads(t)
<1>1. t \in CommandTypes
  BY DEF QueueTypes
<1>2. Payloads(t) \subseteq Fingerprints
  BY DEF Payloads
<1>3. Expectations(t) \subseteq Nat \cup {AnyVersion}
  BY DEF Expectations, AnyVersion
<1>. QED
  BY <1>1, <1>2, <1>3 DEF RequestsOf, Request

\* An answer to a well-formed request is a well-formed answer.
LEMMA AnswerTyped ==
  ASSUME NEW r \in Request, NEW code \in Codes, Answer(r, code)
  PROVE  ReplyTypeOK'
BY DEF Answer, ReplyTypeOK, Request

\* Every early answer of the prologue is a well-formed one.
LEMMA PrologueTyped ==
  ASSUME NEW r \in Request, NEW asOf, PrologueAnswer(r, asOf)
  PROVE  ReplyTypeOK'
<1>1. {"LOBBY_NOT_FOUND", "replayed", "IDEMPOTENCY_KEY_REUSED",
       "QUEUE_VERSION_CONFLICT"} \subseteq Codes
  BY DEF Codes
<1>. QED
  BY <1>1, AnswerTyped DEF PrologueAnswer

\* A receipt written for a well-formed request keeps the receipts typed.
LEMMA ReceiptTyped ==
  ASSUME NEW r \in Request, WriteReceipt(r),
         receipts \in [Commands -> Receipt \cup {NoReceipt}]
  PROVE  receipts' \in [Commands -> Receipt \cup {NoReceipt}]
<1>1. [actor |-> r.actor, type |-> r.type, fingerprint |-> r.fingerprint] \in Receipt
  BY DEF Request, Receipt
<1>. QED
  BY <1>1 DEF WriteReceipt

\* What every transaction that commits does to the shared rows.
LEMMA CommitTyped ==
  ASSUME NEW r \in Request, StoreTypeOK, Commit(r)
  PROVE  StoreTypeOK' /\ version' = version + 1
<1>1. "applied" \in Codes
  BY DEF Codes
<1>2. ReplyTypeOK'
  BY <1>1, AnswerTyped DEF Commit
<1>3. receipts' \in [Commands -> Receipt \cup {NoReceipt}]
  BY ReceiptTyped DEF Commit, StoreTypeOK
<1>. QED
  BY <1>2, <1>3 DEF Commit, IncrementVersion, StoreTypeOK

\* The lobby's own operations keep the rows typed, the receipts and the version's growth.
LEMMA LobbyStepTyped ==
  ASSUME StoreTypeOK, LobbyStep
  PROVE  StoreTypeOK' /\ version' \in {version, version + 1}
<1>1. ASSUME NEW asOf \in 0..now, NEW p \in Participants, Join(p, asOf)
      PROVE  StoreTypeOK' /\ version' \in {version, version + 1}
  BY <1>1 DEF Join, StoreTypeOK, ReplyTypeOK
<1>2. ASSUME NEW asOf \in 0..now, NEW p \in Participants, Close(p, asOf)
      PROVE  StoreTypeOK' /\ version' \in {version, version + 1}
  BY <1>2 DEF Close, StoreTypeOK, ReplyTypeOK
<1>3. ASSUME NEW asOf \in 0..now, NEW p \in Participants, NEW b \in BOOLEAN,
             UpdateSettings(p, b, asOf)
      PROVE  StoreTypeOK' /\ version' \in {version, version + 1}
  BY <1>3 DEF UpdateSettings, StoreTypeOK, ReplyTypeOK
<1>4. CASE Expire
  BY <1>4 DEF Expire, StoreTypeOK, ReplyTypeOK
<1>5. CASE Tick
  BY <1>5 DEF Tick, StoreTypeOK, ReplyTypeOK
<1>. QED
  BY <1>1, <1>2, <1>3, <1>4, <1>5 DEF LobbyStep

-----------------------------------------------------------------------------
(* Positions and capacity.  The room a version gives grows by Stride with    *)
(* each version, and everything stored lies within the room of its version.  *)

\* The room of a version begins where the room of the one before it ends.
LEMMA RoomGrows ==
  ASSUME version \in Nat
  PROVE  /\ Stride * version \in Nat
         /\ Stride * (version + 1) = Stride * version + Stride
OBVIOUS

\* Leaving the items alone keeps the invariant whatever the version does.
LEMMA SameRowsKeep ==
  ASSUME QueueInv, UNCHANGED itemVars, StoreTypeOK',
         version' \in {version, version + 1}
  PROVE  QueueInv'
<1>1. version \in Nat /\ position \in [Items -> Nat]
  BY DEF QueueInv, QueueTypeOK, StoreTypeOK
<1>2. Stored' = Stored /\ Queued' = Queued /\ itemState' = itemState /\ position' = position
  BY DEF itemVars, Stored, Queued
<1>3. \/ Stride * version' = Stride * version
      \/ Stride * version' = Stride * version + Stride
  <2>1. CASE version' = version
    BY <2>1
  <2>2. CASE version' = version + 1
    <3>1. Stride * version' = Stride * (version + 1)
      BY <2>2
    <3>. QED
      BY <3>1, <1>1, RoomGrows
  <2>. QED
    BY <2>1, <2>2
<1>4. Stride * version \in Nat
  BY <1>1, RoomGrows
<1>5. PositionsBounded'
  BY <1>1, <1>2, <1>3, <1>4 DEF QueueInv, PositionsBounded, Stored
<1>. QED
  BY <1>2, <1>5 DEF QueueInv, QueueTypeOK, UniquePositions, QueueBounded

\* An add takes a position above all others and not above the room of its version.
LEMMA AddKeeps ==
  ASSUME QueueInv, NEW r \in Request, NEW i \in Items, NEW asOf, Add(r, i, asOf)
  PROVE  QueueInv'
<1>1. /\ version \in Nat /\ position \in [Items -> Nat]
      /\ itemState \in [Items -> ItemStates]
  BY DEF QueueInv, QueueTypeOK, StoreTypeOK
<1>2. StoreTypeOK' /\ version' = version + 1
  BY CommitTyped DEF Add, QueueInv, QueueTypeOK
<1>3. PICK n \in NextPositions : position' = [position EXCEPT ![i] = n]
  BY DEF Add
<1>4. \A j \in Stored : position[j] < n
  BY <1>3 DEF NextPositions
<1>5. n \in 1..(Stride * version + Capacity + 1)
  <2>1. CASE n = 1
    BY <2>1, <1>1, RoomGrows
  <2>2. CASE \E j \in Stored : n = position[j] + 1
    BY <2>2, <1>1, RoomGrows DEF QueueInv, PositionsBounded, Stored
  <2>. QED
    BY <1>3, <2>1, <2>2 DEF NextPositions
<1>6. /\ i \notin Stored
      /\ Stored' = Stored \cup {i}
      /\ Queued' = Queued \cup {i}
  BY <1>1 DEF Add, Stored, Queued
<1>7. position'[i] = n /\ \A j \in Stored : position'[j] = position[j]
  BY <1>1, <1>3, <1>6 DEF Stored
<1>8. QueueTypeOK'
  BY <1>1, <1>2, <1>3, <1>5, RoomGrows DEF QueueTypeOK, Add, ItemStates
<1>9. UniquePositions'
  BY <1>1, <1>4, <1>5, <1>6, <1>7 DEF QueueInv, UniquePositions, Stored
<1>10. PositionsBounded'
  <2>1. Stride * version' = Stride * version + Stride /\ Stride * version \in Nat
    BY <1>1, <1>2, RoomGrows
  <2>2. n \in 1..(Stride * version' + Capacity)
    BY <1>5, <2>1
  <2>3. \A j \in Stored : position[j] \in 1..(Stride * version' + Capacity)
    BY <1>1, <2>1 DEF QueueInv, PositionsBounded, Stored
  <2>. QED
    BY <1>6, <1>7, <2>2, <2>3 DEF PositionsBounded
<1>11. QueueBounded'
  <2>1. IsFiniteSet(Queued) /\ Cardinality(Queued) < Capacity /\ Cardinality(Queued) \in Nat
    BY FS_CardinalityType DEF QueueInv, QueueBounded, Add
  <2>2. i \notin Queued
    BY <1>6 DEF Stored, Queued
  <2>3. /\ IsFiniteSet(Queued \cup {i})
        /\ Cardinality(Queued \cup {i}) = Cardinality(Queued) + 1
    BY <2>1, <2>2, FS_AddElement, Zenon
  <2>. QED
    BY <1>6, <2>1, <2>3 DEF QueueBounded
<1>. QED
  BY <1>8, <1>9, <1>10, <1>11 DEF QueueInv

\* Items that leave the queue or the player keep their positions.
LEMMA LeavingKeeps ==
  ASSUME QueueInv, itemState' \in [Items -> ItemStates], UNCHANGED position,
         Stored' = Stored, Queued' \subseteq Queued,
         StoreTypeOK', version' = version + 1
  PROVE  QueueInv'
<1>1. version \in Nat /\ position \in [Items -> Nat]
  BY DEF QueueInv, QueueTypeOK, StoreTypeOK
<1>2. Stride * version' = Stride * version + Stride /\ Stride * version \in Nat
  BY <1>1, RoomGrows
<1>3. PositionsBounded'
  BY <1>1, <1>2 DEF QueueInv, PositionsBounded, Stored
<1>4. QueueBounded'
  BY FS_Subset, FS_CardinalityType DEF QueueInv, QueueBounded
<1>. QED
  BY <1>1, <1>3, <1>4 DEF QueueInv, QueueTypeOK, UniquePositions

\* A removal takes one waiting item out and moves nothing.
LEMMA RemoveKeeps ==
  ASSUME QueueInv, NEW r \in Request, NEW asOf, Remove(r, asOf)
  PROVE  QueueInv'
<1>1. itemState \in [Items -> ItemStates] /\ r.fingerprint \in Items
      /\ itemState[r.fingerprint] = "queued"
  BY DEF QueueInv, QueueTypeOK, Remove, Queued
<1>2. StoreTypeOK' /\ version' = version + 1
  BY CommitTyped DEF Remove, QueueInv, QueueTypeOK
<1>3. /\ itemState' \in [Items -> ItemStates]
      /\ Stored' = Stored
      /\ Queued' \subseteq Queued
  BY <1>1 DEF Remove, Stored, Queued, ItemStates
<1>. QED
  BY <1>2, <1>3, LeavingKeeps DEF Remove

\* start, skip and report take items out of the queue and move nothing.
LEMMA AdvanceKeeps ==
  ASSUME QueueInv, NEW r \in Request, NEW asOf, PlaybackAdvances(r, asOf)
  PROVE  QueueInv'
<1>1. itemState \in [Items -> ItemStates]
  BY DEF QueueInv, QueueTypeOK
<1>2. StoreTypeOK' /\ version' = version + 1
  BY CommitTyped DEF PlaybackAdvances, QueueInv, QueueTypeOK
<1>3. PICK current \in Items \cup {NoItem}, next \in Items \cup {NoItem},
           outcome \in {"played", "failed"} :
      /\ next \in Queued \cup {NoItem}
      /\ current = NoItem \/ current \in Playing
      /\ position' = position
      /\ itemState' = [j \in Items |->
           IF j = current THEN outcome
           ELSE IF j = next THEN "playing"
           ELSE IF j \in Before(next) THEN "failed" ELSE itemState[j]]
  BY DEF PlaybackAdvances, Advance
<1>4. Before(next) \subseteq Queued
  BY DEF Before
<1>5. itemState' \in [Items -> ItemStates]
  BY <1>1, <1>3 DEF ItemStates
<1>6. Stored' = Stored
  BY <1>1, <1>3, <1>4 DEF Stored, Queued, Playing
<1>7. Queued' \subseteq Queued
  BY <1>1, <1>3 DEF Queued
<1>. QED
  BY <1>2, <1>3, <1>5, <1>6, <1>7, LeavingKeeps

\* A reorder moves the listed items to positions of its own version's room, above
\* everything stored before it, and leaves the others where they were.
LEMMA ReorderKeeps ==
  ASSUME QueueInv, NEW r \in Request, NEW asOf, Reorder(r, asOf),
         r.fingerprint \in Orders
  PROVE  QueueInv'
<1> DEFINE s == r.fingerprint
           Listed == {i \in Items : \E k \in 1..Len(s) : s[k] = i}
           Base == Stride * (version + 1)
<1>1. /\ version \in Nat /\ position \in [Items -> Nat]
      /\ itemState \in [Items -> ItemStates]
  BY DEF QueueInv, QueueTypeOK, StoreTypeOK
<1>2. StoreTypeOK' /\ version' = version + 1
  BY CommitTyped DEF Reorder, QueueInv, QueueTypeOK
<1>3. /\ s \in Seq(Items) /\ Len(s) \in Nat /\ Len(s) <= Capacity
      /\ \A j, k \in 1..Len(s) : s[j] = s[k] => j = k
  BY OrdersAssumption
<1>4. Base = Stride * version + Stride /\ Stride * version \in Nat /\ Base \in Nat
      /\ Base = Stride * version'
  BY <1>1, <1>2, RoomGrows
<1>5. \A i \in Listed : IndexIn(s, i) \in 1..Len(s) /\ s[IndexIn(s, i)] = i
  BY DEF IndexIn
<1>6. \A i \in Items : position'[i] = IF i \in Listed THEN Base + IndexIn(s, i)
                                       ELSE position[i]
  BY DEF Reorder, Placed
<1>7. Stored' = Stored /\ Queued' = Queued /\ itemState' = itemState
  BY DEF Reorder, Stored, Queued
<1>8. \A i \in Listed : position'[i] \in (Base + 1)..(Base + Capacity)
  <2>1. ASSUME NEW i \in Listed
        PROVE  position'[i] \in (Base + 1)..(Base + Capacity)
    <3>1. position'[i] = Base + IndexIn(s, i)
      BY <1>6
    <3>2. IndexIn(s, i) \in 1..Capacity
      BY <1>3, <1>5
    <3>3. Base \in Nat
      BY <1>4
    <3> HIDE DEF Base, s
    <3>. QED
      BY <3>1, <3>2, <3>3
  <2>. QED
    BY <2>1
<1>9. \A i \in Stored \ Listed : position'[i] = position[i] /\ position[i] \in 1..Base
  BY <1>1, <1>4, <1>6 DEF QueueInv, PositionsBounded, Stored
<1>10. QueueTypeOK'
  <2>1. position' = [i \in Items |-> position'[i]]
    BY DEF Reorder, Placed
  <2>2. \A i \in Items : position'[i] \in Nat
    <3> HIDE DEF Base, Listed, s
    <3>. QED
      BY <1>1, <1>4, <1>6, <1>8
  <2>. QED
    BY <1>1, <1>2, <1>7, <2>1, <2>2 DEF QueueTypeOK
<1>11. UniquePositions'
  <2>1. ASSUME NEW i \in Stored, NEW j \in Stored, position'[i] = position'[j]
        PROVE  i = j
    <3>1. CASE i \in Listed /\ j \in Listed
      <4>1. Base + IndexIn(s, i) = Base + IndexIn(s, j)
        BY <2>1, <3>1, <1>6
      <4>2. IndexIn(s, i) = IndexIn(s, j)
        <5>1. IndexIn(s, i) \in Nat /\ IndexIn(s, j) \in Nat /\ Base \in Nat
          BY <3>1, <1>3, <1>4, <1>5
        <5> HIDE DEF Base, s
        <5>. QED
          BY <4>1, <5>1
      <4>. QED
        BY <4>2, <3>1, <1>5
    <3>2. CASE i \notin Listed /\ j \notin Listed
      BY <2>1, <3>2, <1>9 DEF QueueInv, UniquePositions
    <3>3. CASE i \in Listed /\ j \notin Listed
      BY <2>1, <3>3, <1>4, <1>8, <1>9
    <3>4. CASE i \notin Listed /\ j \in Listed
      BY <2>1, <3>4, <1>4, <1>8, <1>9
    <3>. QED
      BY <3>1, <3>2, <3>3, <3>4
  <2>. QED
    BY <2>1, <1>7 DEF UniquePositions
<1>12. PositionsBounded'
  <2>1. \A i \in Stored : position'[i] \in 1..(Base + Capacity)
    BY <1>4, <1>8, <1>9
  <2>. QED
    BY <2>1, <1>4, <1>7 DEF PositionsBounded
<1>. QED
  BY <1>7, <1>10, <1>11, <1>12 DEF QueueInv, QueueBounded

-----------------------------------------------------------------------------
(* The invariant of the whole specification.                                *)

\* Every command of the queue service keeps the invariant.
LEMMA CommandKeeps ==
  ASSUME QueueInv, NEW asOf, NEW t \in QueueTypes, NEW r \in RequestsOf(t),
         QueueCommand(r, asOf)
  PROVE  QueueInv'
<1>1. version \in Nat
  BY DEF QueueInv, QueueTypeOK, StoreTypeOK
<1>2. r \in Request /\ r.type = t /\ r.fingerprint \in Payloads(t)
  BY <1>1, RequestTyped
<1>3. ASSUME UNCHANGED <<storeVars, itemVars>>, ReplyTypeOK'
      PROVE  QueueInv'
  <2>1. StoreTypeOK' /\ version' = version /\ UNCHANGED itemVars
    BY <1>3 DEF QueueInv, QueueTypeOK, StoreTypeOK, storeVars, lobbyVars
  <2>. QED
    BY <2>1, SameRowsKeep
<1>4. CASE PrologueAnswer(r, asOf) /\ UNCHANGED <<storeVars, itemVars>>
  BY <1>2, <1>3, <1>4, PrologueTyped
<1>5. ASSUME NEW code \in Codes, Refuse(r, code)
      PROVE  QueueInv'
  BY <1>2, <1>3, <1>5, AnswerTyped DEF Refuse
<1>6. ASSUME NEW i \in Items, Add(r, i, asOf)
      PROVE  QueueInv'
  BY <1>2, <1>6, AddKeeps
<1>7. CASE AddRefused(r, asOf)
  BY <1>5, <1>7 DEF AddRefused, Codes
<1>8. CASE Remove(r, asOf)
  BY <1>2, <1>8, RemoveKeeps
<1>9. CASE RemoveRefused(r, asOf)
  BY <1>5, <1>9 DEF RemoveRefused, Codes
<1>10. CASE Reorder(r, asOf)
  <2>1. r.fingerprint \in Orders
    BY <1>2, <1>10 DEF Reorder, Payloads
  <2>. QED
    BY <1>2, <1>10, <2>1, ReorderKeeps
<1>11. CASE ReorderRefused(r, asOf)
  BY <1>5, <1>11 DEF ReorderRefused, Codes
<1>. QED
  BY <1>4, <1>6, <1>7, <1>8, <1>9, <1>10, <1>11 DEF QueueCommand

\* Every command of the playback service keeps it too.
LEMMA PlaybackKeeps ==
  ASSUME QueueInv, NEW asOf, NEW t \in PlaybackTypes, NEW r \in RequestsOf(t),
         PlaybackCommand(r, asOf)
  PROVE  QueueInv'
<1>1. version \in Nat
  BY DEF QueueInv, QueueTypeOK, StoreTypeOK
<1>2. r \in Request
  BY <1>1, RequestTyped
<1>3. ASSUME UNCHANGED <<lobbyVars, itemVars>>, ReplyTypeOK',
             receipts' \in [Commands -> Receipt \cup {NoReceipt}]
      PROVE  QueueInv'
  <2>1. StoreTypeOK' /\ version' = version /\ UNCHANGED itemVars
    BY <1>3 DEF QueueInv, QueueTypeOK, StoreTypeOK, lobbyVars
  <2>. QED
    BY <2>1, SameRowsKeep
<1>4. receipts \in [Commands -> Receipt \cup {NoReceipt}]
  BY DEF QueueInv, QueueTypeOK, StoreTypeOK
<1>5. CASE PrologueAnswer(r, asOf) /\ UNCHANGED <<storeVars, itemVars>>
  BY <1>2, <1>3, <1>4, <1>5, PrologueTyped DEF storeVars
<1>6. CASE PlaybackAdvances(r, asOf)
  BY <1>2, <1>6, AdvanceKeeps
<1>7. CASE PlaybackTouches(r, asOf)
  <2>1. ReplyTypeOK'
    BY <1>2, <1>7, AnswerTyped DEF PlaybackTouches, Codes
  <2>. QED
    BY <1>2, <1>3, <1>4, <1>7, <2>1, ReceiptTyped DEF PlaybackTouches
<1>8. CASE PlaybackRefused(r, asOf)
  <2>1. PICK code \in Codes : Refuse(r, code)
    BY <1>8 DEF PlaybackRefused, Codes
  <2>2. ReplyTypeOK'
    BY <1>2, <2>1, AnswerTyped DEF Refuse
  <2>. QED
    BY <1>3, <1>4, <2>1, <2>2 DEF Refuse, storeVars
<1>. QED
  BY <1>5, <1>6, <1>7, <1>8 DEF PlaybackCommand

\* And so does every step: the inductive step.
LEMMA NextKeeps == QueueInv /\ [QueueNext]_queueVars => QueueInv'
<1> SUFFICES ASSUME QueueInv, [QueueNext]_queueVars
             PROVE  QueueInv'
  OBVIOUS
<1>1. ASSUME NEW asOf \in 0..now, NEW t \in QueueTypes, NEW r \in RequestsOf(t),
             QueueCommand(r, asOf)
      PROVE  QueueInv'
  BY <1>1, CommandKeeps
<1>2. ASSUME NEW asOf \in 0..now, NEW t \in PlaybackTypes, NEW r \in RequestsOf(t),
             PlaybackCommand(r, asOf)
      PROVE  QueueInv'
  BY <1>2, PlaybackKeeps
<1>3. CASE LobbyStep /\ UNCHANGED itemVars
  <2>1. StoreTypeOK
    BY DEF QueueInv, QueueTypeOK
  <2>. QED
    BY <1>3, <2>1, LobbyStepTyped, SameRowsKeep
<1>4. CASE UNCHANGED queueVars
  BY <1>4 DEF queueVars, storeVars, lobbyVars, itemVars, QueueInv, QueueTypeOK,
     StoreTypeOK, ReplyTypeOK, UniquePositions, PositionsBounded, QueueBounded,
     Stored, Queued
<1>. QED
  BY <1>1, <1>2, <1>3, <1>4 DEF QueueNext

\* A new lobby has no item, so nothing to collide: the base case.
LEMMA InitKeeps == QueueInit => QueueInv
<1> SUFFICES ASSUME QueueInit PROVE QueueInv
  OBVIOUS
<1>1. Stored = {} /\ Queued = {}
  BY DEF QueueInit, Stored, Queued
<1>2. QueueTypeOK
  <2>1. ReplyTypeOK
    BY DEF QueueInit, StoreInit, ReplyTypeOK
  <2>2. receipts \in [Commands -> Receipt \cup {NoReceipt}]
    BY DEF QueueInit, StoreInit
  <2>3. /\ now \in 0..MaxNow /\ status \in {"open", "closed", "expired"}
        /\ blindTest \in BOOLEAN /\ version \in Nat
        /\ members \subseteq Participants /\ Creator \in members
    <3>1. now = 0 /\ status = "open" /\ blindTest = FALSE /\ version = 0
          /\ members = {Creator}
      BY Zenon DEF QueueInit, StoreInit
    <3>2. blindTest \in BOOLEAN
      BY <3>1, Zenon
    <3>3. now \in 0..MaxNow /\ version \in Nat
      BY <3>1, SMT
    <3>4. members \subseteq Participants /\ Creator \in members
      BY <3>1, Zenon
    <3>. QED
      BY <3>1, <3>2, <3>3, <3>4, Zenon
  <2>4. StoreTypeOK
    BY <2>1, <2>2, <2>3, Zenon DEF StoreTypeOK
  <2>. QED
    BY <2>4 DEF QueueInit, QueueTypeOK, ItemStates
<1>3. QueueBounded
  BY <1>1, FS_EmptySet DEF QueueBounded
<1>. QED
  BY <1>1, <1>2, <1>3 DEF QueueInv, UniquePositions, PositionsBounded

\* The rows keep their types, their positions stay unique and within the room of
\* the lobby's version, and the queue never exceeds its capacity, whatever
\* members, the player and the expiration sweep do.
THEOREM QueueInvariant == QueueSpec => []QueueInv
BY InitKeeps, NextKeeps, PTL DEF QueueSpec

\* Type correctness of the lobby's rows, its receipts and its items.
THEOREM QueueTypeCorrect == QueueSpec => []QueueTypeOK
<1>1. QueueInv => QueueTypeOK
  BY DEF QueueInv
<1>. QED
  BY <1>1, QueueInvariant, PTL

\* UNIQUE (lobby_id, position) never rejects a write of the queue service, for any
\* capacity up to the stride, because a version's room never overlaps the next.
THEOREM PositionsStayUnique == QueueSpec => []UniquePositions
<1>1. QueueInv => UniquePositions
  BY DEF QueueInv
<1>. QED
  BY <1>1, QueueInvariant, PTL

\* Every stored position is within the room of the lobby's version: what the next
\* reorder writes is above all of them.
THEOREM PositionsStayBounded == QueueSpec => []PositionsBounded
<1>1. QueueInv => PositionsBounded
  BY DEF QueueInv
<1>. QED
  BY <1>1, QueueInvariant, PTL

\* At most Capacity items wait, in every reachable state.
THEOREM QueueStaysBounded == QueueSpec => []QueueBounded
<1>1. QueueInv => QueueBounded
  BY DEF QueueInv
<1>. QED
  BY <1>1, QueueInvariant, PTL

-----------------------------------------------------------------------------
(* What a step may never do.                                                *)

\* A version stands for one view of the queue: what waits, its order and whether
\* it is hidden only change in steps that move the version by one, so an expected
\* version equal to the current one proves that its sender saw the current queue.
THEOREM VersionStandsForView == QueueSpec => ViewChangesMoveVersion
<1> DEFINE SameView == UNCHANGED <<itemVars, blindTest>>
           Moves == version' = version + 1
<1>1. ASSUME NEW r, NEW asOf, QueueCommand(r, asOf)
      PROVE  SameView \/ Moves
  <2>1. ASSUME NEW code, Refuse(r, code) PROVE SameView
    BY <2>1 DEF Refuse, storeVars, lobbyVars
  <2>2. Commit(r) => Moves
    BY DEF Commit, IncrementVersion
  <2>. QED
    BY <1>1, <2>1, <2>2 DEF QueueCommand, Add, Remove, Reorder, AddRefused,
       RemoveRefused, ReorderRefused, storeVars, lobbyVars
<1>2. ASSUME NEW r, NEW asOf, PlaybackCommand(r, asOf)
      PROVE  SameView \/ Moves
  BY <1>2 DEF PlaybackCommand, PlaybackAdvances, PlaybackTouches, PlaybackRefused,
     Refuse, Commit, IncrementVersion, storeVars, lobbyVars
<1>3. ASSUME LobbyStep, UNCHANGED itemVars
      PROVE  SameView \/ Moves
  BY <1>3 DEF LobbyStep, Join, Close, UpdateSettings, Expire, Tick
<1>4. SameView \/ Moves =>
        (<<QueueRows, blindTest>>' # <<QueueRows, blindTest>> => Moves)
  BY DEF itemVars, QueueRows, Queued
<1>5. [QueueNext]_queueVars =>
        [<<QueueRows, blindTest>>' # <<QueueRows, blindTest>> => Moves]_queueVars
  BY <1>1, <1>2, <1>3, <1>4 DEF QueueNext
<1>. QED
  BY <1>5, PTL DEF QueueSpec, ViewChangesMoveVersion

\* An add writes one row, above all the rows there are.
LEMMA AddClears ==
  ASSUME QueueInv, NEW r \in Request, NEW k \in Items, NEW asOf, Add(r, k, asOf),
         NEW i \in Items, NEW j \in Stored, i # j, position'[i] # position[i]
  PROVE  position'[i] # position[j]
<1>1. position \in [Items -> Nat] /\ j \in Items
  BY DEF QueueInv, QueueTypeOK, Stored
<1>2. PICK n \in NextPositions : position' = [position EXCEPT ![k] = n]
  BY DEF Add
<1>3. position'[i] = n /\ position[j] < n
  BY <1>1, <1>2 DEF NextPositions
<1>4. n \in Int
  BY <1>1, <1>2 DEF NextPositions, Stored
<1>. QED
  BY <1>1, <1>3, <1>4

\* A reorder writes above the room of the version it found, where all the rows are.
LEMMA ReorderClears ==
  ASSUME QueueInv, NEW r \in Request, NEW asOf, Reorder(r, asOf), r.fingerprint \in Orders,
         NEW i \in Items, NEW j \in Stored, position'[i] # position[i]
  PROVE  position'[i] # position[j]
<1> DEFINE s == r.fingerprint
           Base == Stride * (version + 1)
<1>1. /\ version \in Nat /\ position \in [Items -> Nat]
      /\ j \in Items /\ position[j] <= Stride * version + Capacity
  BY DEF QueueInv, QueueTypeOK, StoreTypeOK, PositionsBounded, Stored
<1>2. Base = Stride * version + Stride /\ Stride * version \in Nat /\ Base \in Nat
  BY <1>1, RoomGrows
<1>3. /\ \E k \in 1..Len(s) : s[k] = i
      /\ position'[i] = Base + IndexIn(s, i)
  BY DEF Reorder, Placed
<1>4. Len(s) \in Nat
  BY OrdersAssumption
<1>5. IndexIn(s, i) \in 1..Len(s)
  BY <1>3 DEF IndexIn
<1>6. position[j] <= Base
  <2> HIDE DEF Base, s
  <2>. QED
    BY <1>1, <1>2, QueueAssumption
<1> HIDE DEF Base, s
<1>. QED
  BY <1>1, <1>2, <1>3, <1>4, <1>5, <1>6

\* No other step moves an item.
LEMMA WritesClear ==
  ASSUME QueueInv, [QueueNext]_queueVars,
         NEW i \in Items, NEW j \in Stored, i # j, position'[i] # position[i]
  PROVE  position'[i] # position[j]
<1>1. position' # position
  OBVIOUS
<1>2. ASSUME NEW t \in QueueTypes, NEW r \in RequestsOf(t), NEW asOf, QueueCommand(r, asOf)
      PROVE  position'[i] # position[j]
  <2>1. r \in Request /\ r.type = t /\ r.fingerprint \in Payloads(t)
    BY RequestTyped DEF QueueInv, QueueTypeOK, StoreTypeOK
  <2>2. CASE \E k \in Items : Add(r, k, asOf)
    BY <2>1, <2>2, AddClears
  <2>3. CASE Reorder(r, asOf)
    <3>1. r.fingerprint \in Orders
      BY <2>1, <2>3 DEF Reorder, Payloads
    <3>. QED
      BY <2>1, <2>3, <3>1, ReorderClears
  <2>4. Remove(r, asOf) => position' = position
    BY DEF Remove
  <2>5. ASSUME NEW code, Refuse(r, code) PROVE position' = position
    BY <2>5 DEF Refuse, itemVars
  <2>. QED
    BY <1>1, <1>2, <2>2, <2>3, <2>4, <2>5
       DEF QueueCommand, AddRefused, RemoveRefused, ReorderRefused, itemVars
<1>3. ASSUME NEW r, NEW asOf, PlaybackCommand(r, asOf) PROVE position' = position
  BY <1>3 DEF PlaybackCommand, PlaybackAdvances, Advance, PlaybackTouches,
     PlaybackRefused, Refuse, itemVars
<1>. QED
  BY <1>1, <1>2, <1>3 DEF QueueNext, queueVars, itemVars

\* Rows are renumbered in any order without meeting each other, for any capacity up
\* to the stride: PositionsBounded is what this rests on, the room of a version
\* ends where the positions of the next reorder begin.
THEOREM ReordersNeverCollide == QueueSpec => WritesNeverCollide
<1>1. QueueInv /\ [QueueNext]_queueVars =>
        [\A i \in Items, j \in Stored :
           i # j /\ position'[i] # position[i] => position'[i] # position[j]]_queueVars
  BY WritesClear
<1>. QED
  BY <1>1, QueueInvariant, PTL DEF QueueSpec, WritesNeverCollide

\* A command admitted with a clock read before the end has no effect after it,
\* whoever waits for the lobby's row and however long.
THEOREM EndedLobbyStays == QueueSpec => ClosedLobbyIsFrozen
<1> DEFINE Rows == <<status, version, blindTest, members, receipts, itemVars>>
<1>1. ASSUME status # "open", NEW r, NEW asOf, QueueCommand(r, asOf)
      PROVE  UNCHANGED Rows
  BY <1>1 DEF QueueCommand, Add, AddRefused, Remove, RemoveRefused, Reorder,
     ReorderRefused, Admitted, Authorized, storeVars, lobbyVars
<1>2. ASSUME status # "open", NEW r, NEW asOf, PlaybackCommand(r, asOf)
      PROVE  UNCHANGED Rows
  BY <1>2 DEF PlaybackCommand, PlaybackAdvances, PlaybackTouches, PlaybackRefused,
     Admitted, Authorized, storeVars, lobbyVars
<1>3. ASSUME status # "open", LobbyStep, UNCHANGED itemVars
      PROVE  UNCHANGED Rows
  BY <1>3 DEF LobbyStep, Join, Close, UpdateSettings, Expire, Tick, Authorized
<1>4. [QueueNext]_queueVars => [status # "open" => UNCHANGED Rows]_queueVars
  BY <1>1, <1>2, <1>3 DEF QueueNext
<1>. QED
  BY <1>4, PTL DEF QueueSpec, ClosedLobbyIsFrozen

\* A request that writes its receipt spends its identifier and no other.
LEMMA ReceiptSpends ==
  ASSUME QueueTypeOK, NEW r \in Request, NEW asOf, Admitted(r, asOf), WriteReceipt(r)
  PROVE  /\ receipts[r.command] = NoReceipt /\ receipts'[r.command] # NoReceipt
         /\ \A c \in Commands : receipts[c] # NoReceipt => receipts'[c] = receipts[c]
<1>1. /\ receipts \in [Commands -> Receipt \cup {NoReceipt}]
      /\ r.command \in Commands /\ r.type \in CommandTypes
  BY DEF QueueTypeOK, StoreTypeOK, Request
<1>2. receipts[r.command] = NoReceipt
  BY DEF Admitted, Used
<1>3. receipts'[r.command].type = r.type
  BY <1>1 DEF WriteReceipt
<1>4. NoReceipt.type = "none" /\ r.type # "none"
  BY <1>1, StoreAssumption DEF NoReceipt
<1>5. receipts'[r.command] # NoReceipt
  BY <1>3, <1>4
<1>6. \A c \in Commands : c # r.command => receipts'[c] = receipts[c]
  BY <1>1 DEF WriteReceipt
<1>. QED
  BY <1>2, <1>5, <1>6

\* Over the queue and the playback services together, a retry never applies twice:
\* whatever changes an item spends a command that was never used before.
THEOREM CommandsApplyOnce == QueueSpec => EffectsSpendACommand
<1> DEFINE Spends == \E c \in Commands : receipts[c] = NoReceipt /\ receipts'[c] # NoReceipt
           Keeps == \A c \in Commands : receipts[c] # NoReceipt => receipts'[c] = receipts[c]
           Good == (itemVars' # itemVars => Spends) /\ Keeps
<1>1. UNCHANGED <<itemVars, receipts>> => Good
  OBVIOUS
<1>2. ASSUME QueueTypeOK, NEW r \in Request, NEW asOf, Admitted(r, asOf), WriteReceipt(r)
      PROVE  Good
  <2>1. r.command \in Commands
    BY DEF Request
  <2>. QED
    BY <1>2, <2>1, ReceiptSpends
<1>3. ASSUME QueueTypeOK, NEW t \in QueueTypes, NEW r \in RequestsOf(t), NEW asOf,
             QueueCommand(r, asOf)
      PROVE  Good
  <2>1. r \in Request
    BY <1>3, RequestTyped DEF QueueTypeOK, StoreTypeOK
  <2>2. ASSUME NEW code, Refuse(r, code) PROVE UNCHANGED <<itemVars, receipts>>
    BY <2>2 DEF Refuse, storeVars
  <2>3. \/ Admitted(r, asOf) /\ WriteReceipt(r)
        \/ UNCHANGED <<itemVars, receipts>>
    BY <1>3, <2>2 DEF QueueCommand, Add, AddRefused, Remove, RemoveRefused, Reorder,
       ReorderRefused, Commit, storeVars
  <2> HIDE DEF Good
  <2>. QED
    BY <1>1, <1>2, <1>3, <2>1, <2>3
<1>4. ASSUME QueueTypeOK, NEW t \in PlaybackTypes, NEW r \in RequestsOf(t), NEW asOf,
             PlaybackCommand(r, asOf)
      PROVE  Good
  <2>1. r \in Request
    BY <1>4, RequestTyped DEF QueueTypeOK, StoreTypeOK
  <2>2. ASSUME NEW code, Refuse(r, code) PROVE UNCHANGED <<itemVars, receipts>>
    BY <2>2 DEF Refuse, storeVars
  <2>3. \/ Admitted(r, asOf) /\ WriteReceipt(r)
        \/ UNCHANGED <<itemVars, receipts>>
    BY <1>4, <2>2 DEF PlaybackCommand, PlaybackAdvances, PlaybackTouches,
       PlaybackRefused, Commit, storeVars
  <2> HIDE DEF Good
  <2>. QED
    BY <1>1, <1>2, <1>4, <2>1, <2>3
<1>5. ASSUME LobbyStep PROVE UNCHANGED receipts
  BY <1>5 DEF LobbyStep, Join, Close, UpdateSettings, Expire, Tick
<1>6. QueueInv /\ [QueueNext]_queueVars => [Good]_queueVars
  <2> HIDE DEF Good
  <2>. QED
    BY <1>1, <1>3, <1>4, <1>5 DEF QueueNext, QueueInv
<1>. QED
  BY <1>6, QueueInvariant, PTL DEF QueueSpec, EffectsSpendACommand

\* One step of one item, seen from the item.
LEMMA AdvanceFollows ==
  ASSUME QueueTypeOK, NEW r, NEW asOf, PlaybackAdvances(r, asOf),
         NEW i \in Items, itemState'[i] # itemState[i]
  PROVE  <<itemState[i], itemState'[i]>> \in Lifecycle
<1>1. PICK current \in Items \cup {NoItem}, next \in Items \cup {NoItem},
           outcome \in {"played", "failed"} :
      /\ next \in Queued \cup {NoItem}
      /\ current = NoItem \/ current \in Playing
      /\ itemState' = [j \in Items |->
           IF j = current THEN outcome
           ELSE IF j = next THEN "playing"
           ELSE IF j \in Before(next) THEN "failed" ELSE itemState[j]]
  BY DEF PlaybackAdvances, Advance
<1>2. CASE i = current
  <2>1. itemState[i] = "playing" /\ itemState'[i] = outcome
    BY <1>1, <1>2, QueueAssumption DEF Playing
  <2>. QED
    BY <2>1 DEF Lifecycle
<1>3. CASE i # current /\ i = next
  <2>1. itemState[i] = "queued" /\ itemState'[i] = "playing"
    BY <1>1, <1>3, QueueAssumption DEF Queued
  <2>. QED
    BY <2>1 DEF Lifecycle
<1>4. CASE i # current /\ i # next
  <2>1. itemState[i] = "queued" /\ itemState'[i] = "failed"
    BY <1>1, <1>4 DEF Before, Queued
  <2>. QED
    BY <2>1 DEF Lifecycle
<1>. QED
  BY <1>2, <1>3, <1>4

\* No order of removals, skips and reports brings an item back, plays it twice or
\* removes it under the player, in a queue of any size.
THEOREM ItemsLiveOnce == QueueSpec => ItemsFollowLifecycle
<1> DEFINE Follows == \A i \in Items : itemState'[i] # itemState[i] =>
                        <<itemState[i], itemState'[i]>> \in Lifecycle
<1>1. itemState' = itemState => Follows
  OBVIOUS
<1>2. ASSUME QueueTypeOK, NEW r, NEW asOf, QueueCommand(r, asOf)
      PROVE  Follows
  <2>1. itemState \in [Items -> ItemStates]
    BY <1>2 DEF QueueTypeOK
  <2>2. ASSUME NEW k \in Items, Add(r, k, asOf) PROVE Follows
    BY <2>1, <2>2 DEF Add, Lifecycle
  <2>3. ASSUME Remove(r, asOf) PROVE Follows
    BY <2>1, <2>3 DEF Remove, Queued, Lifecycle
  <2>4. Reorder(r, asOf) => itemState' = itemState
    BY DEF Reorder
  <2>5. ASSUME NEW code, Refuse(r, code) PROVE itemState' = itemState
    BY <2>5 DEF Refuse, itemVars
  <2> HIDE DEF Follows
  <2>. QED
    BY <1>1, <1>2, <2>2, <2>3, <2>4, <2>5
       DEF QueueCommand, AddRefused, RemoveRefused, ReorderRefused, itemVars
<1>3. ASSUME QueueTypeOK, NEW r, NEW asOf, PlaybackCommand(r, asOf)
      PROVE  Follows
  <2>1. PlaybackAdvances(r, asOf) => Follows
    BY <1>3, AdvanceFollows
  <2>2. ASSUME NEW code, Refuse(r, code) PROVE itemState' = itemState
    BY <2>2 DEF Refuse, itemVars
  <2> HIDE DEF Follows
  <2>. QED
    BY <1>1, <1>3, <2>1, <2>2
       DEF PlaybackCommand, PlaybackTouches, PlaybackRefused, itemVars
<1>4. QueueInv /\ [QueueNext]_queueVars => [Follows]_queueVars
  <2> HIDE DEF Follows
  <2>. QED
    BY <1>1, <1>2, <1>3 DEF QueueNext, QueueInv, itemVars
<1>. QED
  BY <1>4, QueueInvariant, PTL DEF QueueSpec, ItemsFollowLifecycle

-----------------------------------------------------------------------------
(* Hidden mode.                                                             *)

\* A title that starts takes those before it away, and those behind it stay behind.
LEMMA AdvanceTakesTheHead ==
  ASSUME QueueTypeOK, UniquePositions, NEW r, NEW asOf, PlaybackAdvances(r, asOf),
         NEW i \in Queued \ Queued', NEW j \in Queued \cap Queued'
  PROVE  position[i] < position[j]
<1>1. PICK current \in Items \cup {NoItem}, next \in Items \cup {NoItem},
           outcome \in {"played", "failed"} :
      /\ next \in Queued \cup {NoItem}
      /\ current = NoItem \/ current \in Playing
      /\ itemState' = [k \in Items |->
           IF k = current THEN outcome
           ELSE IF k = next THEN "playing"
           ELSE IF k \in Before(next) THEN "failed" ELSE itemState[k]]
  BY DEF PlaybackAdvances, Advance
<1>2. /\ i \in Items /\ j \in Items /\ i \in Queued /\ j \in Queued
      /\ position[i] \in Nat /\ position[j] \in Nat
  BY DEF Queued, QueueTypeOK
<1>3. i # current /\ j # current
  BY <1>1, <1>2, QueueAssumption DEF Queued, Playing
<1>4. j # next /\ j \notin Before(next)
  <2>1. itemState'[j] = "queued"
    BY <1>2 DEF Queued
  <2>. QED
    BY <1>1, <1>2, <1>3, <2>1
<1>5. next # NoItem
  BY <1>2, <1>4 DEF Before
<1>6. next \in Items /\ next \in Queued /\ position[next] \in Nat
  BY <1>1, <1>5 DEF Queued, QueueTypeOK
<1>7. position[next] < position[j]
  <2>1. ~(position[j] < position[next])
    BY <1>2, <1>4, <1>5 DEF Before
  <2>2. position[j] # position[next]
    BY <1>2, <1>4, <1>6 DEF UniquePositions, Stored, Queued
  <2>. QED
    BY <1>2, <1>6, <2>1, <2>2
<1>8. i = next \/ i \in Before(next)
  <2>1. itemState'[i] # "queued" /\ itemState[i] = "queued"
    BY <1>2 DEF Queued
  <2>. QED
    BY <1>1, <1>2, <1>3, <2>1
<1>9. i = next \/ position[i] < position[next]
  BY <1>5, <1>8 DEF Before
<1>. QED
  BY <1>2, <1>6, <1>7, <1>9

\* In a hidden queue of any size items leave from the head and join at the tail, and
\* nobody moves the others: uniqueness of the positions makes the head well defined.
THEOREM HiddenQueueIsFifo == QueueSpec => BlindQueueIsFifo
<1> DEFINE Kept == Queued \cap Queued'
           Fifo == blindTest /\ blindTest' =>
             /\ \A i \in Kept : position'[i] = position[i]
             /\ \A i \in Queued \ Kept, j \in Kept : position[i] < position[j]
             /\ \A i \in Kept, j \in Queued' \ Kept : position'[i] < position'[j]
<1>1. UNCHANGED itemVars => Fifo
  BY DEF itemVars, Queued
<1>2. ASSUME QueueInv, NEW r, NEW asOf, QueueCommand(r, asOf)
      PROVE  Fifo
  <2>1. ASSUME NEW k \in Items, Add(r, k, asOf) PROVE Fifo
    <3>1. /\ itemState \in [Items -> ItemStates] /\ position \in [Items -> Nat]
          /\ itemState[k] = "absent"
          /\ itemState' = [itemState EXCEPT ![k] = "queued"]
      BY <1>2, <2>1 DEF Add, QueueInv, QueueTypeOK
    <3>2. PICK n \in NextPositions : position' = [position EXCEPT ![k] = n]
      BY <2>1 DEF Add
    <3>3. k \notin Queued /\ Queued' = Queued \cup {k} /\ Queued \subseteq Stored
      BY <3>1 DEF Queued, Stored
    <3>4. \A i \in Queued : position'[i] = position[i] /\ position'[i] < n
      BY <3>1, <3>2, <3>3 DEF NextPositions, Queued
    <3>5. position'[k] = n
      BY <3>1, <3>2
    <3>. QED
      BY <3>3, <3>4, <3>5
  <2>2. ASSUME Remove(r, asOf) \/ Reorder(r, asOf) PROVE Fifo
    BY <2>2 DEF Remove, Reorder
  <2>3. ASSUME NEW code, Refuse(r, code) PROVE UNCHANGED itemVars
    BY <2>3 DEF Refuse
  <2> HIDE DEF Fifo
  <2>. QED
    BY <1>1, <1>2, <2>1, <2>2, <2>3
       DEF QueueCommand, AddRefused, RemoveRefused, ReorderRefused
<1>3. ASSUME QueueInv, NEW r, NEW asOf, PlaybackCommand(r, asOf)
      PROVE  Fifo
  <2>1. ASSUME PlaybackAdvances(r, asOf) PROVE Fifo
    <3>1. QueueTypeOK /\ UniquePositions
      BY <1>3 DEF QueueInv
    <3>2. \A i \in Queued \ Queued', j \in Queued \cap Queued' : position[i] < position[j]
      BY <2>1, <3>1, AdvanceTakesTheHead
    <3>3. position' = position
      BY <2>1 DEF PlaybackAdvances, Advance
    <3>4. Queued' \subseteq Queued
      <4>1. ASSUME NEW i \in Items, itemState'[i] = "queued" PROVE itemState[i] = "queued"
        BY <2>1, <4>1 DEF PlaybackAdvances, Advance
      <4>. QED
        BY <4>1 DEF Queued
    <3>. QED
      BY <3>2, <3>3, <3>4
  <2>2. ASSUME NEW code, Refuse(r, code) PROVE UNCHANGED itemVars
    BY <2>2 DEF Refuse
  <2> HIDE DEF Fifo
  <2>. QED
    BY <1>1, <1>3, <2>1, <2>2 DEF PlaybackCommand, PlaybackTouches, PlaybackRefused
<1>4. QueueInv /\ [QueueNext]_queueVars => [Fifo]_queueVars
  <2> HIDE DEF Fifo
  <2>. QED
    BY <1>1, <1>2, <1>3 DEF QueueNext
<1>. QED
  BY <1>4, QueueInvariant, PTL DEF QueueSpec, BlindQueueIsFifo

-----------------------------------------------------------------------------
(* Answers.                                                                 *)

\* An applied command is on record for its author.
LEMMA AppliedIsOnRecord ==
  ASSUME QueueTypeOK, NEW r \in Request, NEW asOf, Admitted(r, asOf),
         WriteReceipt(r), Answer(r, "applied")
  PROVE  AnswersMatchReceipts'
<1>1. receipts'[r.command] # NoReceipt
  BY ReceiptSpends
<1>2. receipts'[r.command].actor = r.actor
  BY DEF QueueTypeOK, StoreTypeOK, Request, WriteReceipt
<1>3. reply'.code = "applied" /\ reply'.command = r.command /\ reply'.actor = r.actor
  BY DEF Answer
<1>. QED
  BY <1>1, <1>2, <1>3 DEF AnswersMatchReceipts, Conflicts

\* A refused one is not on record.
LEMMA RefusedIsNot ==
  ASSUME NEW r, NEW asOf, Admitted(r, asOf), NEW code \in Conflicts, Refuse(r, code)
  PROVE  AnswersMatchReceipts'
<1>1. receipts'[r.command] = NoReceipt
  BY DEF Admitted, Used, Refuse, storeVars
<1>2. reply'.code = code /\ reply'.command = r.command
  BY DEF Refuse, Answer
<1>. QED
  BY <1>1, <1>2 DEF AnswersMatchReceipts, Conflicts

\* The prologue answers from the record.
LEMMA PrologueReadsTheRecord ==
  ASSUME NEW r, NEW asOf, PrologueAnswer(r, asOf), UNCHANGED <<storeVars, itemVars>>
  PROVE  AnswersMatchReceipts'
BY DEF PrologueAnswer, Answer, Used, SameCommand, AnswersMatchReceipts, Conflicts, storeVars

\* Whatever members and the player do, an answer agrees with the record: a success
\* goes to the author of the command, and a conflict means that nothing was applied.
THEOREM AnswersAgree == QueueSpec => []AnswersMatchReceipts
<1>1. QueueInit => AnswersMatchReceipts
  BY DEF QueueInit, StoreInit, AnswersMatchReceipts, Conflicts
<1>2. ASSUME QueueInv, AnswersMatchReceipts, [QueueNext]_queueVars
      PROVE  AnswersMatchReceipts'
  <2>1. {"TRACK_NOT_AUTHORIZED", "QUEUE_FULL", "BLIND_TEST_QUEUE_HIDDEN",
         "QUEUE_ITEM_NOT_FOUND", "QUEUE_ITEM_SET_CONFLICT", "LEASE_HELD", "LEASE_LOST",
         "PLAYBACK_COMMAND_REJECTED", "QUEUE_EMPTY", "PROVIDER_FAILED"} \subseteq Conflicts
    BY DEF Conflicts, Codes
  <2>2. ASSUME NEW t \in QueueTypes, NEW r \in RequestsOf(t), NEW asOf, QueueCommand(r, asOf)
        PROVE  AnswersMatchReceipts'
    <3>1. r \in Request /\ QueueTypeOK
      BY <1>2, RequestTyped DEF QueueInv, QueueTypeOK, StoreTypeOK
    <3>2. ASSUME NEW k, Add(r, k, asOf) PROVE AnswersMatchReceipts'
      BY <3>1, <3>2, AppliedIsOnRecord DEF Add, Commit
    <3>3. ASSUME Remove(r, asOf) \/ Reorder(r, asOf) PROVE AnswersMatchReceipts'
      BY <3>1, <3>3, AppliedIsOnRecord DEF Remove, Reorder, Commit
    <3>4. ASSUME AddRefused(r, asOf) \/ RemoveRefused(r, asOf) \/ ReorderRefused(r, asOf)
          PROVE  AnswersMatchReceipts'
      BY <2>1, <3>4, RefusedIsNot DEF AddRefused, RemoveRefused, ReorderRefused
    <3>. QED
      BY <2>2, <3>2, <3>3, <3>4, PrologueReadsTheRecord DEF QueueCommand
  <2>3. ASSUME NEW t \in PlaybackTypes, NEW r \in RequestsOf(t), NEW asOf,
               PlaybackCommand(r, asOf)
        PROVE  AnswersMatchReceipts'
    <3>1. r \in Request /\ QueueTypeOK
      BY <1>2, RequestTyped DEF QueueInv, QueueTypeOK, StoreTypeOK
    <3>2. ASSUME PlaybackAdvances(r, asOf) \/ PlaybackTouches(r, asOf)
          PROVE  AnswersMatchReceipts'
      BY <3>1, <3>2, AppliedIsOnRecord DEF PlaybackAdvances, PlaybackTouches, Commit
    <3>3. ASSUME PlaybackRefused(r, asOf) PROVE AnswersMatchReceipts'
      BY <2>1, <3>3, RefusedIsNot DEF PlaybackRefused
    <3>. QED
      BY <2>3, <3>2, <3>3, PrologueReadsTheRecord DEF PlaybackCommand
  <2>4. ASSUME LobbyStep \/ UNCHANGED queueVars PROVE AnswersMatchReceipts'
    <3>1. UNCHANGED <<receipts, reply>>
      BY <2>4 DEF LobbyStep, Join, Close, UpdateSettings, Expire, Tick, queueVars, storeVars
    <3>. QED
      BY <1>2, <3>1 DEF AnswersMatchReceipts
  <2>. QED
    BY <1>2, <2>2, <2>3, <2>4 DEF QueueNext
<1>. QED
  BY <1>1, <1>2, QueueInvariant, PTL DEF QueueSpec

-----------------------------------------------------------------------------
(* What a reorder leaves.                                                   *)

\* As many different waiting items as there are waiting items are all of them.
LEMMA SubmittedIsQueued ==
  ASSUME QueueInv, NEW s \in Orders, SameIdentifierSet(s)
  PROVE  Queued = {s[k] : k \in 1..Len(s)}
<1>1. /\ s \in Seq(Items) /\ Len(s) \in Nat
      /\ \A j, k \in 1..Len(s) : s[j] = s[k] => j = k
  BY OrdersAssumption
<1>2. s \in [1..Len(s) -> Queued]
  BY <1>1 DEF SameIdentifierSet
<1>3. s \in Injection(1..Len(s), Queued)
  BY <1>1, <1>2, Zenon DEF Injection, IsInjective
<1>4. Cardinality(1..Len(s)) = Cardinality(Queued)
  <2>1. Cardinality(1..Len(s)) = Len(s)
    BY <1>1, FS_Interval
  <2>. QED
    BY <2>1 DEF SameIdentifierSet
<1>5. IsFiniteSet(Queued)
  BY DEF QueueInv, QueueBounded
<1>6. s \in Surjection(1..Len(s), Queued)
  BY <1>3, <1>4, <1>5, FS_Injection
<1>7. \A i \in Queued : \E k \in 1..Len(s) : s[k] = i
  BY <1>6 DEF Surjection
<1>. QED
  BY <1>2, <1>7

\* A reorder leaves the submitted list in the submitted order.
LEMMA ReorderApplies ==
  ASSUME QueueInv, NEW r \in Request, NEW asOf, Reorder(r, asOf), r.fingerprint \in Orders
  PROVE  AppliedOrderIsTheQueue'
<1> DEFINE s == r.fingerprint
           Base == Stride * (version + 1)
<1>1. /\ s \in Seq(Items) /\ Len(s) \in Nat
      /\ \A j, k \in 1..Len(s) : s[j] = s[k] => j = k
  BY OrdersAssumption
<1>2. version \in Nat /\ Base \in Nat
  <2>1. version \in Nat
    BY DEF QueueInv, QueueTypeOK, StoreTypeOK
  <2>. QED
    BY <2>1, RoomGrows
<1>3. Queued' = Queued
  BY DEF Reorder, Queued
<1>4. Queued = {s[k] : k \in 1..Len(s)}
  BY SubmittedIsQueued DEF Reorder
<1>5. \A k \in 1..Len(s) : position'[s[k]] = Base + k
  <2>1. ASSUME NEW k \in 1..Len(s) PROVE IndexIn(s, s[k]) = k
    <3> HIDE DEF s
    <3>. QED
      BY <1>1, <2>1 DEF IndexIn
  <2>2. ASSUME NEW k \in 1..Len(s) PROVE s[k] \in Items
    BY <1>1
  <2>. QED
    BY <2>1, <2>2 DEF Reorder, Placed
<1>6. receipts'[r.command].fingerprint = s
  BY DEF QueueInv, QueueTypeOK, StoreTypeOK, Request, Reorder, Commit, WriteReceipt
<1>7. reply'.command = r.command
  BY DEF Reorder, Commit, Answer
<1>8. \A j, k \in 1..Len(s) : j < k => position'[s[j]] < position'[s[k]]
  <2> HIDE DEF Base, s
  <2>. QED
    BY <1>1, <1>2, <1>5
<1> HIDE DEF Base, s
<1>. QED
  BY <1>3, <1>4, <1>6, <1>7, <1>8 DEF AppliedOrderIsTheQueue

\* Any other answer is not that of a reorder that was applied.
LEMMA OtherAnswers ==
  ASSUME NEW r \in Request, QueueTypeOK,
         \/ reply'.code # "applied"
         \/ r.type # "queue.reorder" /\ WriteReceipt(r) /\ Answer(r, "applied")
  PROVE  AppliedOrderIsTheQueue'
<1>1. CASE reply'.code # "applied"
  BY <1>1 DEF AppliedOrderIsTheQueue
<1>2. CASE r.type # "queue.reorder" /\ WriteReceipt(r) /\ Answer(r, "applied")
  <2>1. receipts'[r.command].type = r.type /\ reply'.command = r.command
    BY <1>2 DEF QueueTypeOK, StoreTypeOK, Request, WriteReceipt, Answer
  <2>. QED
    BY <1>2, <2>1 DEF AppliedOrderIsTheQueue
<1>. QED
  BY <1>1, <1>2

\* A reorder that is told it was applied is the queue, whatever was added, removed or
\* started since its sender looked, for queues of any size.
THEOREM AppliedReorderIsTheQueue == QueueSpec => []AppliedOrderIsTheQueue
<1>1. QueueInit => AppliedOrderIsTheQueue
  BY DEF QueueInit, StoreInit, AppliedOrderIsTheQueue
<1>2. ASSUME QueueInv, AppliedOrderIsTheQueue, [QueueNext]_queueVars
      PROVE  AppliedOrderIsTheQueue'
  <2>1. ASSUME NEW r, NEW code, Refuse(r, code), code # "applied"
        PROVE  reply'.code # "applied"
    BY <2>1 DEF Refuse, Answer
  <2>2. ASSUME NEW r, NEW asOf, PrologueAnswer(r, asOf) PROVE reply'.code # "applied"
    BY <2>2 DEF PrologueAnswer, Answer
  <2>3. ASSUME NEW t \in QueueTypes, NEW r \in RequestsOf(t), NEW asOf, QueueCommand(r, asOf)
        PROVE  AppliedOrderIsTheQueue'
    <3>1. r \in Request /\ QueueTypeOK /\ r.type = t /\ r.fingerprint \in Payloads(t)
      BY <1>2, RequestTyped DEF QueueInv, QueueTypeOK, StoreTypeOK
    <3>2. ASSUME Reorder(r, asOf) PROVE AppliedOrderIsTheQueue'
      <4>1. r.fingerprint \in Orders
        BY <3>1, <3>2 DEF Reorder, Payloads
      <4>. QED
        BY <1>2, <3>1, <3>2, <4>1, ReorderApplies
    <3>3. ASSUME Remove(r, asOf) \/ \E k \in Items : Add(r, k, asOf)
          PROVE  AppliedOrderIsTheQueue'
      BY <3>1, <3>3, OtherAnswers DEF Remove, Add, Commit
    <3>4. ASSUME AddRefused(r, asOf) \/ RemoveRefused(r, asOf) \/ ReorderRefused(r, asOf)
          PROVE  AppliedOrderIsTheQueue'
      <4>1. reply'.code # "applied"
        BY <2>1, <3>4 DEF AddRefused, RemoveRefused, ReorderRefused
      <4>. QED
        BY <3>1, <4>1, OtherAnswers
    <3>. QED
      BY <2>2, <2>3, <3>1, <3>2, <3>3, <3>4, OtherAnswers DEF QueueCommand
  <2>4. ASSUME NEW t \in PlaybackTypes, NEW r \in RequestsOf(t), NEW asOf,
               PlaybackCommand(r, asOf)
        PROVE  AppliedOrderIsTheQueue'
    <3>1. r \in Request /\ QueueTypeOK /\ r.type # "queue.reorder"
      BY <1>2, RequestTyped DEF QueueInv, QueueTypeOK, StoreTypeOK
    <3>2. ASSUME PlaybackAdvances(r, asOf) \/ PlaybackTouches(r, asOf)
          PROVE  AppliedOrderIsTheQueue'
      BY <3>1, <3>2, OtherAnswers DEF PlaybackAdvances, PlaybackTouches, Commit
    <3>3. ASSUME PlaybackRefused(r, asOf) PROVE reply'.code # "applied"
      BY <2>1, <3>3 DEF PlaybackRefused
    <3>. QED
      BY <2>2, <2>4, <3>1, <3>2, <3>3, OtherAnswers DEF PlaybackCommand
  <2>5. ASSUME (LobbyStep /\ UNCHANGED itemVars) \/ UNCHANGED queueVars
        PROVE  AppliedOrderIsTheQueue'
    <3>1. UNCHANGED <<receipts, reply, itemState, position>>
      BY <2>5 DEF LobbyStep, Join, Close, UpdateSettings, Expire, Tick, queueVars,
         storeVars, itemVars
    <3>. QED
      BY <1>2, <3>1 DEF AppliedOrderIsTheQueue, Queued
  <2>. QED
    BY <1>2, <2>3, <2>4, <2>5 DEF QueueNext
<1>. QED
  BY <1>1, <1>2, QueueInvariant, PTL DEF QueueSpec
=============================================================================
