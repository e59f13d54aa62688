----------------------------- MODULE QueueService -----------------------------
(***************************************************************************)
(* The shared queue of one lobby: add, remove and reorder of the queue     *)
(* service, and what the playback service's commands do to the same rows.  *)
(* queue_items keeps finished items, so the positions of all of them       *)
(* compete for UNIQUE (lobby_id, position).                                *)
(***************************************************************************)
EXTENDS LobbyStore

CONSTANTS
  Items,             \* identifiers of queue_items
  NoItem,            \* SQL NULL
  Tracks,            \* tracks a request may carry
  AuthorizedTracks,  \* those of an authorized connection of the lobby
  Orders,            \* item lists a reorder request may carry
  Capacity,          \* most queued items, 200 in the code
  Stride,            \* room between two reorders, 1000 in the code
  PlaybackTypes,     \* command types of the playback service
  PlaybackPayloads   \* what the fingerprints of its commands cover

ASSUME QueueAssumption ==
  /\ NoItem \notin Items
  /\ AuthorizedTracks \subseteq Tracks
  /\ Capacity \in Nat \ {0}
  /\ Stride \in Nat /\ Capacity <= Stride
  /\ {"queue.add", "queue.remove", "queue.reorder"} \cup PlaybackTypes
       \subseteq CommandTypes
  /\ {"queue.add", "queue.remove", "queue.reorder"} \cap PlaybackTypes = {}
  /\ Tracks \cup Items \cup Orders \cup PlaybackPayloads \subseteq Fingerprints

\* What the request schema guarantees of a submitted order.
ASSUME OrdersAssumption ==
  \A s \in Orders :
    /\ s \in Seq(Items)
    /\ Len(s) <= Capacity
    /\ \A j, k \in 1..Len(s) : s[j] = s[k] => j = k

VARIABLES
  itemState,  \* queue_items.state, "absent" before the INSERT
  position    \* queue_items.position, 0 before the INSERT

itemVars == <<itemState, position>>
queueVars == <<storeVars, reply, itemVars>>

ItemStates == {"absent", "queued", "playing", "played", "failed", "removed"}

QueueTypeOK ==
  /\ StoreTypeOK
  /\ itemState \in [Items -> ItemStates]
  /\ position \in [Items -> Nat]

QueueInit ==
  /\ StoreInit
  /\ itemState = [i \in Items |-> "absent"]
  /\ position = [i \in Items |-> 0]

-----------------------------------------------------------------------------
Stored == {i \in Items : itemState[i] # "absent"}
Queued == {i \in Items : itemState[i] = "queued"}
Playing == {i \in Items : itemState[i] = "playing"}

\* Slip: the maximum over the items that wait.
NextAmongQueued ==
  {n \in {1} \cup {position[i] + 1 : i \in Queued} :
     \A i \in Queued : position[i] < n}

\* coalesce(max(position), 0) + 1, over the items of every state
NextPositions ==
  {n \in {1} \cup {position[i] + 1 : i \in Stored} :
     \A i \in Stored : position[i] < n}

IndexIn(s, i) == CHOOSE k \in 1..Len(s) : s[k] = i

\* A transaction that writes: the receipt goes with the effect.
Commit(r) == IncrementVersion /\ WriteReceipt(r) /\ Answer(r, "applied")

Refuse(r, code) == Answer(r, code) /\ UNCHANGED <<storeVars, itemVars>>

-----------------------------------------------------------------------------
\* Slip: the count is compared as if the new item were in it.
AddBeyondCapacity(r, i, asOf) ==
  /\ r.type = "queue.add" /\ Admitted(r, asOf)
  /\ r.fingerprint \in AuthorizedTracks
  /\ Cardinality(Queued) <= Capacity
  /\ itemState[i] = "absent"
  /\ itemState' = [itemState EXCEPT ![i] = "queued"]
  /\ \E n \in NextPositions : position' = [position EXCEPT ![i] = n]
  /\ Commit(r)

Add(r, i, asOf) ==
  /\ r.type = "queue.add" /\ Admitted(r, asOf)
  /\ r.fingerprint \in AuthorizedTracks
  /\ Cardinality(Queued) < Capacity
  /\ itemState[i] = "absent"
  /\ itemState' = [itemState EXCEPT ![i] = "queued"]
  /\ \E n \in NextPositions : position' = [position EXCEPT ![i] = n]
  /\ Commit(r)

AddRefused(r, asOf) ==
  /\ r.type = "queue.add" /\ Admitted(r, asOf)
  /\ \/ r.fingerprint \notin AuthorizedTracks /\ Refuse(r, "TRACK_NOT_AUTHORIZED")
     \/ /\ r.fingerprint \in AuthorizedTracks
        /\ Cardinality(Queued) >= Capacity
        /\ Refuse(r, "QUEUE_FULL")

\* Slip: UPDATE without AND state = 'queued'.
RemoveInAnyState(r, asOf) ==
  /\ r.type = "queue.remove" /\ Admitted(r, asOf)
  /\ ~blindTest
  /\ r.fingerprint \in Stored
  /\ itemState' = [itemState EXCEPT ![r.fingerprint] = "removed"]
  /\ UNCHANGED position
  /\ Commit(r)

Remove(r, asOf) ==
  /\ r.type = "queue.remove" /\ Admitted(r, asOf)
  /\ ~blindTest
  /\ r.fingerprint \in Queued
  /\ itemState' = [itemState EXCEPT ![r.fingerprint] = "removed"]
  /\ UNCHANGED position
  /\ Commit(r)

RemoveRefused(r, asOf) ==
  /\ r.type = "queue.remove" /\ Admitted(r, asOf)
  /\ \/ blindTest /\ Refuse(r, "BLIND_TEST_QUEUE_HIDDEN")
     \/ ~blindTest /\ r.fingerprint \notin Queued /\ Refuse(r, "QUEUE_ITEM_NOT_FOUND")

\* Slip: every submitted item waits, and those left out are not noticed.
SubmittedAreQueued(s) == \A k \in 1..Len(s) : s[k] \in Queued

SameIdentifierSet(s) ==
  Len(s) = Cardinality(Queued) /\ \A k \in 1..Len(s) : s[k] \in Queued

\* UPDATE ... FROM unnest(...) WITH ORDINALITY
Placed(s, base) ==
  [i \in Items |-> IF \E k \in 1..Len(s) : s[k] = i THEN base + IndexIn(s, i)
                                                    ELSE position[i]]

\* Slip: the waiting items are numbered from one again.
ReorderFromOne(r, asOf) ==
  /\ r.type = "queue.reorder" /\ Admitted(r, asOf)
  /\ ~blindTest
  /\ SameIdentifierSet(r.fingerprint)
  /\ position' = Placed(r.fingerprint, 0)
  /\ UNCHANGED itemState
  /\ Commit(r)

\* Slip: no look at the hidden mode.
ReorderWhileHidden(r, asOf) ==
  /\ r.type = "queue.reorder" /\ Admitted(r, asOf)
  /\ SameIdentifierSet(r.fingerprint)
  /\ position' = Placed(r.fingerprint, Stride * (version + 1))
  /\ UNCHANGED itemState
  /\ Commit(r)

Reorder(r, asOf) ==
  /\ r.type = "queue.reorder" /\ Admitted(r, asOf)
  /\ ~blindTest
  /\ SameIdentifierSet(r.fingerprint)
  /\ position' = Placed(r.fingerprint, Stride * (version + 1))
  /\ UNCHANGED itemState
  /\ Commit(r)

ReorderRefused(r, asOf) ==
  /\ r.type = "queue.reorder" /\ Admitted(r, asOf)
  /\ \/ blindTest /\ Refuse(r, "BLIND_TEST_QUEUE_HIDDEN")
     \/ /\ ~blindTest /\ ~SameIdentifierSet(r.fingerprint)
        /\ Refuse(r, "QUEUE_ITEM_SET_CONFLICT")

-----------------------------------------------------------------------------
(* The playback service on the same rows.  startNext takes queued items in  *)
(* order: those before the one that starts (all of them when none does)     *)
(* failed to start.                                                         *)

Before(next) ==
  IF next = NoItem THEN Queued
  ELSE {i \in Queued : position[i] < position[next]}

\* Slip: the row keeps the player's word for the outcome.
AdvanceInPlayerWords(current, outcome, next) ==
  /\ next \in Queued \cup {NoItem}
  /\ itemState' = [i \in Items |->
       IF i = current THEN (IF outcome = "played" THEN "ended" ELSE outcome)
       ELSE IF i = next THEN "playing"
       ELSE IF i \in Before(next) THEN "failed" ELSE itemState[i]]
  /\ UNCHANGED position

\* finishCurrent(current, outcome) followed by startNext reaching next
Advance(current, outcome, next) ==
  /\ next \in Queued \cup {NoItem}
  /\ itemState' = [i \in Items |->
       IF i = current THEN outcome
       ELSE IF i = next THEN "playing"
       ELSE IF i \in Before(next) THEN "failed" ELSE itemState[i]]
  /\ UNCHANGED position

\* start, skip and report: one item at most is playing, and it is the one finished.
PlaybackAdvances(r, asOf) ==
  /\ r.type \in PlaybackTypes /\ Admitted(r, asOf)
  /\ Commit(r)
  /\ \E current, next \in Items \cup {NoItem}, outcome \in {"played", "failed"} :
       /\ \/ current = NoItem /\ Playing = {} /\ Queued # {}
          \/ current \in Playing
       /\ Advance(current, outcome, next)

\* claim, pause and resume: a receipt and nothing of the queue.
PlaybackTouches(r, asOf) ==
  /\ r.type \in PlaybackTypes /\ Admitted(r, asOf)
  /\ WriteReceipt(r) /\ Answer(r, "applied")
  /\ UNCHANGED <<lobbyVars, itemVars>>

PlaybackRefused(r, asOf) ==
  /\ r.type \in PlaybackTypes /\ Admitted(r, asOf)
  /\ \E code \in {"LEASE_HELD", "LEASE_LOST", "PLAYBACK_COMMAND_REJECTED",
                  "QUEUE_EMPTY", "PROVIDER_FAILED"} : Refuse(r, code)

-----------------------------------------------------------------------------
Payloads(type) ==
  CASE type = "queue.add" -> Tracks
    [] type = "queue.remove" -> Items
    [] type = "queue.reorder" -> Orders
    [] OTHER -> PlaybackPayloads

\* add may omit the expected version, remove and reorder may not.  Only equality
\* with the current version counts: 0 stands for every version left behind.
Expectations(type) ==
  CASE type = "queue.add" -> {AnyVersion, 0, version}
    [] type \in {"queue.remove", "queue.reorder"} -> {0, version}
    [] OTHER -> {AnyVersion}

RequestsOf(type) ==
  [actor: Participants, command: Commands, type: {type},
   fingerprint: Payloads(type), expected: Expectations(type)]

QueueCommand(r, asOf) ==
  \/ PrologueAnswer(r, asOf) /\ UNCHANGED <<storeVars, itemVars>>
  \/ \E i \in Items : Add(r, i, asOf)
  \/ AddRefused(r, asOf)
  \/ Remove(r, asOf)
  \/ RemoveRefused(r, asOf)
  \/ Reorder(r, asOf)
  \/ ReorderRefused(r, asOf)

PlaybackCommand(r, asOf) ==
  \/ PrologueAnswer(r, asOf) /\ UNCHANGED <<storeVars, itemVars>>
  \/ PlaybackAdvances(r, asOf)
  \/ PlaybackTouches(r, asOf)
  \/ PlaybackRefused(r, asOf)

QueueTypes == {"queue.add", "queue.remove", "queue.reorder"}

QueueNext ==
  \/ \E asOf \in 0..now, t \in QueueTypes : \E r \in RequestsOf(t) :
       QueueCommand(r, asOf)
  \/ \E asOf \in 0..now, t \in PlaybackTypes : \E r \in RequestsOf(t) :
       PlaybackCommand(r, asOf)
  \/ LobbyStep /\ UNCHANGED itemVars

QueueSpec == QueueInit /\ [][QueueNext]_queueVars

-----------------------------------------------------------------------------
(* Safety.                                                                  *)

\* UNIQUE (lobby_id, position) never rejects what an add or a reorder leaves
\* behind: no two rows, finished ones included, share a position.
UniquePositions ==
  \A i, j \in Stored : position[i] = position[j] => i = j

\* A reorder at version v takes positions above v * 1000, so no earlier add or
\* reorder may have gone past the room its version gave it.
PositionsBounded ==
  \A i \in Stored : position[i] \in 1..(Stride * version + Capacity)

\* However adds, removals and playback interleave, at most 200 items wait.
QueueBounded == IsFiniteSet(Queued) /\ Cardinality(Queued) <= Capacity

\* An accepted reorder leaves exactly the submitted list waiting, in that order:
\* nothing added, removed or started meanwhile is lost or put in between.
AppliedOrderIsTheQueue ==
  reply.code = "applied" =>
    LET receipt == receipts[reply.command]
        s == receipt.fingerprint
    IN receipt.type = "queue.reorder" =>
         /\ Queued = {s[k] : k \in 1..Len(s)}
         /\ \A j, k \in 1..Len(s) : j < k => position[s[j]] < position[s[k]]

QueueInv == QueueTypeOK /\ UniquePositions /\ PositionsBounded /\ QueueBounded

Conflicts == Codes \ {"none", "applied", "replayed", "LOBBY_NOT_FOUND",
                      "IDEMPOTENCY_KEY_REUSED"}

\* A success is only told to the author of the command on record, and a client
\* told of a conflict may trust that its command never took effect, even when it
\* asks again after losing the first answer.
AnswersMatchReceipts ==
  /\ reply.code \in {"applied", "replayed"} =>
       /\ receipts[reply.command] # NoReceipt
       /\ receipts[reply.command].actor = reply.actor
  /\ reply.code \in Conflicts => receipts[reply.command] = NoReceipt

-----------------------------------------------------------------------------
(* What a step may never do.                                                *)

\* UNIQUE (lobby_id, position) is checked row by row while the UPDATE of a reorder
\* runs: the order in which it visits the rows must not matter, so every position it
\* writes is new to all the rows, and not only to what they become.
WritesNeverCollide ==
  [][\A i \in Items, j \in Stored :
       i # j /\ position'[i] # position[i] => position'[i] # position[j]]_queueVars

QueueRows == {<<i, position[i]>> : i \in Queued}

\* Two states of one lobby version show the same queue: every step that changes
\* what waits, its order or its visibility moves the version by one, so that an
\* expected version stands for the queue its sender saw.
ViewChangesMoveVersion ==
  [][<<QueueRows, blindTest>>' # <<QueueRows, blindTest>> =>
       version' = version + 1]_queueVars

\* A command identifier has at most one effect on the queue over the queue and
\* playback services together: an effect spends an identifier never used before,
\* and a receipt is never rewritten.
EffectsSpendACommand ==
  [][/\ itemVars' # itemVars =>
          \E c \in Commands : receipts[c] = NoReceipt /\ receipts'[c] # NoReceipt
     /\ \A c \in Commands :
          receipts[c] # NoReceipt => receipts'[c] = receipts[c]]_queueVars

\* A command admitted with a clock read before the end of the lobby still has no
\* effect once the lobby row says closed or expired.
ClosedLobbyIsFrozen ==
  [][status # "open" =>
       UNCHANGED <<status, version, blindTest, members, receipts, itemVars>>]_queueVars

\* While the queue is hidden it is first in, first out: items leave from the head
\* to be played, join at the tail, and nobody moves the others.
BlindQueueIsFifo ==
  [][blindTest /\ blindTest' =>
       LET kept == Queued \cap Queued' IN
       /\ \A i \in kept : position'[i] = position[i]
       /\ \A i \in Queued \ kept, j \in kept : position[i] < position[j]
       /\ \A i \in kept, j \in Queued' \ kept : position'[i] < position'[j]]_queueVars

Lifecycle == {<<"absent", "queued">>, <<"queued", "playing">>, <<"queued", "failed">>,
              <<"queued", "removed">>, <<"playing", "played">>, <<"playing", "failed">>}

\* No interleaving of removals, skips and reports brings an item back, plays it
\* twice or removes it under the player.
ItemsFollowLifecycle ==
  [][\A i \in Items : itemState'[i] # itemState[i] =>
       <<itemState[i], itemState'[i]>> \in Lifecycle]_queueVars
=============================================================================
