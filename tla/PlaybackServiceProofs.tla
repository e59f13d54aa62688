------------------------ MODULE PlaybackServiceProofs -------------------------
(***************************************************************************)
(* The playback service keeps the queue's specification and the lease's,   *)
(* and its row agrees with the queue, for any lobby and with every fault.  *)
(***************************************************************************)
EXTENDS PlaybackService, QueueServiceProofs

USE StoreAssumption, QueueAssumption, PlaybackAssumption

PlaybackRowOK ==
  playback \in [state: {"idle", "playing", "paused"},
                item: Items \cup {NoItem}, command: Commands \cup {NoCommand}]

\* PlaybackMatchesQueue with the types and the queue's own invariant: an advance of
\* the player is one of the queue's only if the current item is what is playing.
PlaybackInv == QueueInv /\ PlaybackRowOK /\ PlaybackMatchesQueue

-----------------------------------------------------------------------------
(* Every step is a step of the queue's specification, or leaves it alone.   *)

\* The player's requests are among those the queue's specification allows for.
LEMMA PlayerRequest ==
  ASSUME NEW t \in PlaybackTypes, NEW r \in PlaybackRequests(t)
  PROVE  r \in RequestsOf(t) /\ r.type = t /\ r.command \in Commands
<1>1. PayloadsOf(t) \subseteq PlaybackPayloads
  BY DEF PayloadsOf
<1>2. t \notin QueueTypes
  BY DEF QueueTypes
<1>3. Payloads(t) = PlaybackPayloads /\ Expectations(t) = {AnyVersion}
  BY <1>2 DEF Payloads, Expectations, QueueTypes
<1>. QED
  BY <1>1, <1>3 DEF PlaybackRequests, RequestsOf

\* Start, skip and report advance the queue from the item that is playing.
LEMMA AdvanceIsTheQueues ==
  ASSUME PlaybackInv, NEW r, NEW d, NEW asOf, NEW next \in Items \cup {NoItem},
         r.type \in PlaybackTypes,
         Start(r, next, asOf) \/ Skip(r, next, asOf) \/ Report(r, d, next, asOf)
  PROVE  PlaybackAdvances(r, asOf)
<1>1. Playing = {playback.item} \ {NoItem} /\ playback.item \in Items \cup {NoItem}
  BY DEF PlaybackInv, PlaybackMatchesQueue, PlaybackRowOK
<1>2. CASE Start(r, next, asOf)
  BY <1>1, <1>2 DEF Start, StartReady, ControlReady, PlaybackAdvances
<1>3. CASE Skip(r, next, asOf)
  <2>1. playback.item \in Playing
    BY <1>1, <1>3 DEF Skip, SkipReady
  <2>. QED
    BY <1>3, <2>1, <1>1 DEF Skip, SkipReady, ControlReady, PlaybackAdvances
<1>4. CASE Report(r, d, next, asOf)
  <2>1. playback.item \in Playing /\ Outcome(r.type) \in {"played", "failed"}
    BY <1>1, <1>4 DEF Report, ReportReady, Outcome
  <2>. QED
    BY <1>4, <2>1, <1>1 DEF Report, ReportReady, PlaybackAdvances
<1>. QED
  BY <1>2, <1>3, <1>4

\* Whatever the player sends, the queue sees one of its playback commands.
LEMMA PlayerCommandIsTheQueues ==
  ASSUME PlaybackInv, NEW asOf, NEW t \in PlaybackTypes, NEW r \in PlaybackRequests(t),
         PlayerCommand(r, asOf)
  PROVE  PlaybackCommand(r, asOf) \/ UNCHANGED queueVars
<1>1. r.type \in PlaybackTypes
  BY PlayerRequest
<1>2. CASE PrologueAnswer(r, asOf) /\ UNCHANGED <<storeVars, itemVars, lease, playback, known>>
  BY <1>2 DEF PlaybackCommand
<1>3. CASE Claim(r, asOf)
  BY <1>1, <1>3 DEF Claim, PlaybackCommand, PlaybackTouches
<1>4. CASE Pause(r, asOf) \/ Resume(r, asOf)
  BY <1>1, <1>4 DEF Pause, Resume, PauseOrResume, ControlReady, PlaybackCommand,
     PlaybackTouches
<1>5. CASE ClaimRefused(r, asOf)
  BY <1>1, <1>5 DEF ClaimRefused, Rejected, PlaybackCommand, PlaybackRefused
<1>6. CASE ControlRefused(r, asOf)
  BY <1>1, <1>6 DEF ControlRefused, Rejected, PlaybackCommand, PlaybackRefused
<1>7. ASSUME NEW d \in Devices, ReportRefused(r, d, asOf)
      PROVE  PlaybackCommand(r, asOf)
  BY <1>1, <1>7 DEF ReportRefused, Rejected, PlaybackCommand, PlaybackRefused
<1>8. ASSUME NEW d, NEW next \in Items \cup {NoItem},
             Start(r, next, asOf) \/ Skip(r, next, asOf) \/ Report(r, d, next, asOf)
      PROVE  PlaybackCommand(r, asOf)
  BY <1>1, <1>8, AdvanceIsTheQueues DEF PlaybackCommand
<1>9. ASSUME NEW d, NEW next, LostCommit(r, d, next, asOf)
      PROVE  UNCHANGED queueVars
  BY <1>9 DEF LostCommit
<1>. QED
  BY <1>2, <1>3, <1>4, <1>5, <1>6, <1>7, <1>8, <1>9 DEF PlayerCommand

\* The step lemma of the refinement.
LEMMA StepOfTheQueue ==
  PlaybackInv /\ [PlaybackNext]_playbackVars => [QueueNext]_queueVars
<1> SUFFICES ASSUME PlaybackInv, [PlaybackNext]_playbackVars
             PROVE  QueueNext \/ UNCHANGED queueVars
  OBVIOUS
<1>1. ASSUME NEW asOf \in 0..now, NEW t \in QueueTypes, NEW r \in RequestsOf(t),
             QueueCommand(r, asOf)
      PROVE  QueueNext
  BY <1>1 DEF QueueNext
<1>2. ASSUME NEW asOf \in 0..now, NEW t \in PlaybackTypes, NEW r \in PlaybackRequests(t),
             PlayerCommand(r, asOf)
      PROVE  QueueNext \/ UNCHANGED queueVars
  BY <1>2, PlayerRequest, PlayerCommandIsTheQueues DEF QueueNext
<1>3. ASSUME NEW p, NEW d, NEW g, NEW asOf, Heartbeat(p, d, g, asOf)
      PROVE  UNCHANGED queueVars
  BY <1>3 DEF Heartbeat, queueVars
<1>4. CASE LobbyEvent
  BY <1>4 DEF LobbyEvent, QueueNext
<1>5. CASE Restart \/ UNCHANGED playbackVars
  BY <1>5 DEF Restart, playbackVars
<1>. QED
  BY <1>1, <1>2, <1>3, <1>4, <1>5 DEF PlaybackNext

-----------------------------------------------------------------------------
(* The row keeps agreeing with the queue.                                   *)

\* Receipts are written for unused identifiers only, whoever writes them.
ReceiptsKept == \A c \in Commands : receipts[c] # NoReceipt => receipts'[c] = receipts[c]

\* An admitted request spends a fresh identifier.
LEMMA FreshReceipt ==
  ASSUME QueueTypeOK, NEW r, r.command \in Commands, ~Used(r), WriteReceipt(r)
  PROVE  ReceiptsKept /\ receipts'[r.command].type = r.type
BY DEF QueueTypeOK, StoreTypeOK, Used, WriteReceipt, ReceiptsKept

\* The row stays right as long as it, the playing item and the receipts stay.
LEMMA RowStays ==
  ASSUME PlaybackInv, UNCHANGED playback, Playing' = Playing, ReceiptsKept
  PROVE  PlaybackRowOK' /\ PlaybackMatchesQueue'
<1>1. playback.item # NoItem =>
        /\ playback.command \in Commands
        /\ receipts[playback.command] # NoReceipt
  BY DEF PlaybackInv, PlaybackRowOK, PlaybackMatchesQueue, Advancing, Reports, NoReceipt
<1>. QED
  BY <1>1 DEF PlaybackInv, PlaybackRowOK, PlaybackMatchesQueue, ReceiptsKept

\* A pause or a resume only changes which of the two busy states the row is in.
LEMMA PauseKeeps ==
  ASSUME PlaybackInv, NEW r, r.command \in Commands, NEW asOf,
         Pause(r, asOf) \/ Resume(r, asOf)
  PROVE  PlaybackRowOK' /\ PlaybackMatchesQueue'
<1>1. PICK to \in {"playing", "paused"} :
        /\ playback' = [playback EXCEPT !.state = to]
        /\ playback.item # NoItem /\ ~Used(r) /\ WriteReceipt(r)
        /\ UNCHANGED itemVars
  BY DEF Pause, Resume, PauseOrResume, ControlReady, Admitted
<1>2. ReceiptsKept
  BY <1>1, FreshReceipt DEF PlaybackInv, QueueInv
<1>3. /\ playback.command \in Commands
      /\ receipts[playback.command] # NoReceipt
      /\ receipts[playback.command].type \in Advancing
  BY <1>1 DEF PlaybackInv, PlaybackRowOK, PlaybackMatchesQueue, Advancing, Reports, NoReceipt
<1>4. /\ playback'.item = playback.item /\ playback'.command = playback.command
      /\ playback'.state = to
      /\ playback' \in [state: {"idle", "playing", "paused"},
                        item: Items \cup {NoItem}, command: Commands \cup {NoCommand}]
  BY <1>1 DEF PlaybackInv, PlaybackRowOK
<1>5. Playing' = Playing
  BY <1>1 DEF itemVars, Playing
<1>. QED
  BY <1>1, <1>2, <1>3, <1>4, <1>5
     DEF PlaybackInv, PlaybackRowOK, PlaybackMatchesQueue, ReceiptsKept

\* After an advance, the item that plays is the one startNext reached.
LEMMA AdvanceMatches ==
  ASSUME PlaybackInv, NEW r, r.command \in Commands, r.type \in Advancing, ~Used(r),
         NEW next \in Items \cup {NoItem}, NEW outcome \in {"played", "failed"},
         Advance(playback.item, outcome, next), Plays(next, r.command), Commit(r)
  PROVE  PlaybackRowOK' /\ PlaybackMatchesQueue'
<1>1. /\ itemState \in [Items -> ItemStates]
      /\ Playing = {playback.item} \ {NoItem}
  BY DEF PlaybackInv, QueueInv, QueueTypeOK, PlaybackMatchesQueue
<1>2. Playing' = {next} \ {NoItem}
  <2>1. /\ next \in Queued \cup {NoItem}
        /\ \A i \in Items : itemState'[i] =
             IF i = playback.item THEN outcome
             ELSE IF i = next THEN "playing"
             ELSE IF i \in Before(next) THEN "failed" ELSE itemState[i]
    BY DEF Advance
  <2>2. \A i \in Items : itemState[i] = "playing" => i = playback.item
    BY <1>1 DEF Playing
  <2>3. next # NoItem => next # playback.item
    BY <1>1, <2>1 DEF Playing, Queued
  <2>4. \A i \in Items : itemState'[i] = "playing" <=> i = next
    BY <2>1, <2>2, <2>3
  <2>. QED
    BY <2>4 DEF Playing
<1>3. receipts'[r.command].type \in Advancing
  BY FreshReceipt DEF Commit, PlaybackInv, QueueInv
<1>4. playback' = IF next = NoItem THEN Idle
                  ELSE [state |-> "playing", item |-> next, command |-> r.command]
  BY DEF Plays
<1>. QED
  BY <1>2, <1>3, <1>4 DEF Idle, PlaybackRowOK, PlaybackMatchesQueue

\* Commands of the queue never touch the item that plays.
LEMMA QueueCommandMatches ==
  ASSUME PlaybackInv, NEW t \in QueueTypes, NEW r \in RequestsOf(t), NEW asOf,
         QueueCommand(r, asOf), UNCHANGED playback
  PROVE  PlaybackRowOK' /\ PlaybackMatchesQueue'
<1>1. itemState \in [Items -> ItemStates] /\ QueueTypeOK
  BY DEF PlaybackInv, QueueInv, QueueTypeOK
<1>2. r.command \in Commands
  BY DEF RequestsOf
<1>3. ASSUME UNCHANGED <<storeVars, itemVars>>
      PROVE  Playing' = Playing /\ ReceiptsKept
  BY <1>3 DEF storeVars, itemVars, Playing, ReceiptsKept
<1>4. ASSUME ~Used(r), Commit(r)
      PROVE  ReceiptsKept
  BY <1>1, <1>2, <1>4, FreshReceipt DEF Commit
<1>5. ASSUME NEW i \in Items, Add(r, i, asOf)
      PROVE  Playing' = Playing /\ ReceiptsKept
  BY <1>1, <1>4, <1>5 DEF Add, Admitted, Playing
<1>6. CASE Remove(r, asOf)
  BY <1>1, <1>4, <1>6, RowStays DEF Remove, Admitted, Playing, Queued
<1>7. CASE Reorder(r, asOf)
  BY <1>4, <1>7, RowStays DEF Reorder, Admitted, Playing
<1>8. CASE AddRefused(r, asOf) \/ RemoveRefused(r, asOf) \/ ReorderRefused(r, asOf)
  BY <1>3, <1>8, RowStays DEF AddRefused, RemoveRefused, ReorderRefused, Refuse
<1>. QED
  BY <1>3, <1>5, <1>6, <1>7, <1>8, RowStays DEF QueueCommand

\* Commands of the player move the row and the queue together.
LEMMA PlayerCommandMatches ==
  ASSUME PlaybackInv, NEW t \in PlaybackTypes, NEW r \in PlaybackRequests(t), NEW asOf,
         PlayerCommand(r, asOf)
  PROVE  PlaybackRowOK' /\ PlaybackMatchesQueue'
<1>1. r.command \in Commands /\ QueueTypeOK
  BY PlayerRequest DEF PlaybackInv, QueueInv
<1>2. ASSUME UNCHANGED <<storeVars, itemVars, playback>>
      PROVE  PlaybackRowOK' /\ PlaybackMatchesQueue'
  BY <1>2, RowStays DEF storeVars, itemVars, Playing, ReceiptsKept
<1>3. CASE Claim(r, asOf)
  BY <1>1, <1>3, FreshReceipt, RowStays DEF Claim, Admitted, itemVars, Playing
<1>4. CASE Pause(r, asOf) \/ Resume(r, asOf)
  BY <1>1, <1>4, PauseKeeps
<1>5. ASSUME NEW next \in Items \cup {NoItem}, Start(r, next, asOf)
      PROVE  PlaybackRowOK' /\ PlaybackMatchesQueue'
  <2>1. playback.item = NoItem /\ r.type \in Advancing /\ ~Used(r)
    BY <1>5 DEF Start, StartReady, ControlReady, Admitted, Advancing
  <2>. QED
    BY <1>1, <1>5, <2>1, AdvanceMatches DEF Start
<1>6. ASSUME NEW next \in Items \cup {NoItem}, Skip(r, next, asOf)
      PROVE  PlaybackRowOK' /\ PlaybackMatchesQueue'
  <2>1. r.type \in Advancing /\ ~Used(r)
    BY <1>6 DEF Skip, SkipReady, ControlReady, Admitted, Advancing
  <2>. QED
    BY <1>1, <1>6, <2>1, AdvanceMatches DEF Skip
<1>7. ASSUME NEW d \in Devices, NEW next \in Items \cup {NoItem}, Report(r, d, next, asOf)
      PROVE  PlaybackRowOK' /\ PlaybackMatchesQueue'
  <2>1. r.type \in Advancing /\ ~Used(r) /\ Outcome(r.type) \in {"played", "failed"}
    BY <1>7 DEF Report, ReportReady, Admitted, Advancing, Outcome
  <2>. QED
    BY <1>1, <1>7, <2>1, AdvanceMatches DEF Report
<1>8. CASE ClaimRefused(r, asOf) \/ ControlRefused(r, asOf)
  BY <1>2, <1>8 DEF ClaimRefused, ControlRefused, Rejected, Refuse
<1>9. ASSUME NEW d \in Devices, ReportRefused(r, d, asOf)
      PROVE  PlaybackRowOK' /\ PlaybackMatchesQueue'
  BY <1>2, <1>9 DEF ReportRefused, Rejected, Refuse
<1>10. ASSUME NEW d, NEW next, LostCommit(r, d, next, asOf)
       PROVE  PlaybackRowOK' /\ PlaybackMatchesQueue'
  BY <1>2, <1>10 DEF LostCommit, queueVars
<1>. QED
  BY <1>2, <1>3, <1>4, <1>5, <1>6, <1>7, <1>8, <1>9, <1>10 DEF PlayerCommand

\* Every step keeps the invariant.
LEMMA PlaybackStep ==
  PlaybackInv /\ [PlaybackNext]_playbackVars => PlaybackInv'
<1> SUFFICES ASSUME PlaybackInv, [PlaybackNext]_playbackVars
             PROVE  PlaybackInv'
  OBVIOUS
<1>1. QueueInv'
  BY StepOfTheQueue, NextKeeps DEF PlaybackInv
<1>2. ASSUME UNCHANGED <<storeVars, itemVars, playback>>
      PROVE  PlaybackRowOK' /\ PlaybackMatchesQueue'
  BY <1>2, RowStays DEF storeVars, itemVars, Playing, ReceiptsKept
<1>3. ASSUME NEW p, NEW d, NEW g, NEW asOf, Heartbeat(p, d, g, asOf)
      PROVE  PlaybackRowOK' /\ PlaybackMatchesQueue'
  BY <1>2, <1>3 DEF Heartbeat
<1>4. ASSUME LobbyEvent
      PROVE  PlaybackRowOK' /\ PlaybackMatchesQueue'
  <2>1. UNCHANGED <<itemVars, playback, receipts>>
    BY <1>4 DEF LobbyEvent, LobbyStep, Join, Close, UpdateSettings, Expire, Tick
  <2>. QED
    BY <2>1, RowStays DEF itemVars, Playing, ReceiptsKept
<1>5. ASSUME Restart \/ UNCHANGED playbackVars
      PROVE  PlaybackRowOK' /\ PlaybackMatchesQueue'
  BY <1>2, <1>5 DEF Restart, playbackVars, queueVars
<1>6. PlaybackRowOK' /\ PlaybackMatchesQueue'
  BY <1>3, <1>4, <1>5, QueueCommandMatches, PlayerCommandMatches DEF PlaybackNext
<1>. QED
  BY <1>1, <1>6 DEF PlaybackInv

\* A lobby starts with nothing queued and nothing playing.
LEMMA PlaybackStart == PlaybackInit => PlaybackInv
<1> SUFFICES ASSUME PlaybackInit PROVE PlaybackInv
  OBVIOUS
<1>1. QueueInv
  BY InitKeeps DEF PlaybackInit
<1>2. Playing = {}
  BY DEF PlaybackInit, QueueInit, Playing
<1>. QED
  BY <1>1, <1>2 DEF PlaybackInit, Idle, PlaybackInv, PlaybackRowOK, PlaybackMatchesQueue

-----------------------------------------------------------------------------
(* The lease, as the player's commands, heartbeats and lobby events use it. *)

\* The step lemma of the refinement to the lease.
LEMMA StepOfTheLease == [PlaybackNext]_playbackVars => [Lease!LeaseNext]_(Lease!leaseVars)
<1> SUFFICES ASSUME [PlaybackNext]_playbackVars
             PROVE  Lease!LeaseNext \/ UNCHANGED Lease!leaseVars
  OBVIOUS
<1>1. ASSUME UNCHANGED <<now, status, lease>>
      PROVE  UNCHANGED Lease!leaseVars
  BY <1>1 DEF Lease!leaseVars
<1>2. ASSUME NEW t \in QueueTypes, NEW r \in RequestsOf(t), NEW asOf,
             QueueCommand(r, asOf), UNCHANGED lease
      PROVE  UNCHANGED Lease!leaseVars
  BY <1>1, <1>2 DEF QueueCommand, Add, AddRefused, Remove, RemoveRefused, Reorder,
     ReorderRefused, Refuse, Commit, IncrementVersion, storeVars, lobbyVars
<1>3. ASSUME NEW t \in PlaybackTypes, NEW r \in PlaybackRequests(t), NEW asOf,
             PlayerCommand(r, asOf)
      PROVE  Lease!LeaseNext \/ UNCHANGED Lease!leaseVars
  <2>1. CASE Claim(r, asOf)
    <3>1. t = "player.claim"
      BY <2>1 DEF Claim, PlaybackRequests
    <3>2. PayloadsOf(t) = Devices
      BY <3>1 DEF PayloadsOf, Reports
    <3>3. r.actor \in Participants /\ r.fingerprint \in Devices
      BY <3>2 DEF PlaybackRequests
    <3>4. <<r.actor, r.fingerprint>> \in Browsers
      BY <3>3 DEF Browsers
    <3>. QED
      BY <2>1, <3>4 DEF Claim, Lease!LeaseNext
  <2>2. CASE \/ PrologueAnswer(r, asOf) /\ UNCHANGED <<storeVars, itemVars, lease, playback, known>>
             \/ ClaimRefused(r, asOf) \/ ControlRefused(r, asOf)
             \/ \E d \in Devices : ReportRefused(r, d, asOf)
    BY <1>1, <2>2 DEF ClaimRefused, ControlRefused, ReportRefused, Rejected, Refuse,
       storeVars, lobbyVars
  <2>3. CASE Pause(r, asOf) \/ Resume(r, asOf)
    BY <1>1, <2>3 DEF Pause, Resume, PauseOrResume, lobbyVars
  <2>4. ASSUME NEW d, NEW next,
               Start(r, next, asOf) \/ Skip(r, next, asOf) \/ Report(r, d, next, asOf)
        PROVE  UNCHANGED Lease!leaseVars
    BY <1>1, <2>4 DEF Start, Skip, Report, Commit, IncrementVersion
  <2>5. ASSUME NEW d, NEW next, LostCommit(r, d, next, asOf)
        PROVE  UNCHANGED Lease!leaseVars
    BY <1>1, <2>5 DEF LostCommit, queueVars, storeVars, lobbyVars
  <2>. QED
    BY <1>3, <2>1, <2>2, <2>3, <2>4, <2>5 DEF PlayerCommand
<1>4. ASSUME NEW p \in Participants, NEW d \in Devices, NEW g \in Generations, NEW asOf,
             Heartbeat(p, d, g, asOf)
      PROVE  Lease!LeaseNext
  BY <1>4 DEF Heartbeat, Lease!LeaseNext, Generations, Browsers
<1>5. ASSUME LobbyEvent
      PROVE  Lease!LeaseNext \/ UNCHANGED Lease!leaseVars
  <2>1. CASE status' # status
    <3>1. (status = "open")' = FALSE /\ Lease!Release
      BY <1>5, <2>1 DEF LobbyEvent, LobbyStep, Join, UpdateSettings, Close, Expire, Tick
    <3>. QED
      BY <3>1 DEF Lease!LeaseNext
  <2>2. CASE status' = status
    <3>1. UNCHANGED <<status, lease>> /\ (Tick \/ UNCHANGED now)
      BY <1>5, <2>2 DEF LobbyEvent, LobbyStep, Join, UpdateSettings, Close, Expire, Tick
    <3>2. CASE Tick
      BY <3>1, <3>2 DEF Tick, Lease!LeaseTick, Lease!LeaseNext
    <3>. QED
      BY <1>1, <3>1, <3>2
  <2>. QED
    BY <2>1, <2>2
<1>6. ASSUME Restart \/ UNCHANGED playbackVars
      PROVE  UNCHANGED Lease!leaseVars
  BY <1>1, <1>6 DEF Restart, playbackVars, queueVars, storeVars, lobbyVars
<1>. QED
  BY <1>2, <1>3, <1>4, <1>5, <1>6 DEF PlaybackNext

-----------------------------------------------------------------------------
(* The row, the lease and what the adapters hold keep their types.          *)

KnownOK == known \in [{"fake", "youtube"} -> SUBSET Commands]

\* The provider that is told of an item is told under the command of the row.
LEMMA PlaysIsKnown ==
  ASSUME KnownOK, NEW c \in Commands, NEW next \in Items \cup {NoItem}, Plays(next, c)
  PROVE  KnownOK' /\ (playback'.item # NoItem => Reachable')
<1>1. CASE next = NoItem
  BY <1>1 DEF Plays, Idle, KnownOK
<1>2. CASE next # NoItem
  <2>1. ProviderOf[next] \in {"fake", "youtube"}
    BY <1>2
  <2>2. /\ playback'.item = next /\ playback'.command = c
        /\ known' = Informed(next, c)
    BY <1>2 DEF Plays
  <2>3. c \in known'[ProviderOf[next]] /\ KnownOK'
    BY <2>1, <2>2 DEF Informed, KnownOK
  <2>. QED
    BY <2>2, <2>3 DEF Reachable
<1>. QED
  BY <1>1, <1>2

\* The player's commands tell the adapters of commands only.
LEMMA PlayerCommandKnown ==
  ASSUME KnownOK, NEW t \in PlaybackTypes, NEW r \in PlaybackRequests(t), NEW asOf,
         PlayerCommand(r, asOf)
  PROVE  KnownOK'
<1>1. r.command \in Commands
  BY PlayerRequest
<1>2. ASSUME UNCHANGED known
      PROVE  KnownOK'
  BY <1>2 DEF KnownOK
<1>3. CASE Claim(r, asOf) \/ ClaimRefused(r, asOf) \/ ControlRefused(r, asOf)
  BY <1>2, <1>3 DEF Claim, ClaimRefused, ControlRefused, Rejected
<1>4. CASE Pause(r, asOf) \/ Resume(r, asOf)
  BY <1>2, <1>4 DEF Pause, Resume, PauseOrResume
<1>5. ASSUME NEW d, NEW next \in Items \cup {NoItem},
             Start(r, next, asOf) \/ Skip(r, next, asOf) \/ Report(r, d, next, asOf)
      PROVE  KnownOK'
  BY <1>1, <1>5, PlaysIsKnown DEF Start, Skip, Report
<1>6. ASSUME NEW d, NEW next \in Items \cup {NoItem}, LostCommit(r, d, next, asOf)
      PROVE  KnownOK'
  <2>1. next \in Items /\ known' = Informed(next, r.command)
    BY <1>6 DEF LostCommit, Queued
  <2>2. ProviderOf[next] \in {"fake", "youtube"}
    BY <2>1
  <2>. QED
    BY <1>1, <2>1, <2>2 DEF Informed, KnownOK
<1>7. ASSUME NEW d, ReportRefused(r, d, asOf)
      PROVE  KnownOK'
  BY <1>2, <1>7 DEF ReportRefused, Rejected
<1>. QED
  BY <1>2, <1>3, <1>4, <1>5, <1>6, <1>7 DEF PlayerCommand

\* Every step keeps what the adapters hold typed, restarts and lost commits too.
LEMMA KnownStep == KnownOK /\ [PlaybackNext]_playbackVars => KnownOK'
<1> SUFFICES ASSUME KnownOK, [PlaybackNext]_playbackVars
             PROVE  KnownOK'
  OBVIOUS
<1>1. ASSUME UNCHANGED known
      PROVE  KnownOK'
  BY <1>1 DEF KnownOK
<1>2. CASE LobbyEvent
  BY <1>1, <1>2 DEF LobbyEvent, Forget, KnownOK
<1>3. CASE Restart
  BY <1>3 DEF Restart, KnownOK
<1>4. ASSUME NEW p, NEW d, NEW g, NEW asOf, Heartbeat(p, d, g, asOf)
      PROVE  KnownOK'
  BY <1>1, <1>4 DEF Heartbeat
<1>. QED
  BY <1>1, <1>2, <1>3, <1>4, PlayerCommandKnown DEF PlaybackNext, playbackVars

\* Every step keeps the lease typed: each is a step of the lease.
LEMMA LeaseStaysTyped ==
  Lease!LeaseTypeOK /\ [PlaybackNext]_playbackVars => Lease!LeaseTypeOK'
<1> SUFFICES ASSUME Lease!LeaseTypeOK, Lease!LeaseNext \/ UNCHANGED Lease!leaseVars
             PROVE  Lease!LeaseTypeOK'
  BY StepOfTheLease
<1>0. MaxNow \in Nat
  BY DEF StoreAssumption
<1>1. ASSUME NEW b \in Browsers, Lease!Claim(b)
      PROVE  Lease!LeaseTypeOK'
  BY <1>0, <1>1 DEF Lease!LeaseTypeOK, Lease!Claim
<1>2. ASSUME NEW b \in Browsers, NEW g \in 1..MaxGeneration, Lease!Heartbeat(b, g)
      PROVE  Lease!LeaseTypeOK'
  BY <1>0, <1>2 DEF Lease!LeaseTypeOK, Lease!Heartbeat
<1>3. CASE Lease!Release
  BY <1>3 DEF Lease!LeaseTypeOK, Lease!Release, Lease!NoLease
<1>4. CASE Lease!LeaseTick
  BY <1>0, <1>4 DEF Lease!LeaseTypeOK, Lease!LeaseTick
<1>5. CASE UNCHANGED Lease!leaseVars
  BY <1>5 DEF Lease!LeaseTypeOK, Lease!leaseVars
<1>. QED
  BY <1>1, <1>2, <1>3, <1>4, <1>5 DEF Lease!LeaseNext

-----------------------------------------------------------------------------
(* Without faults, what plays can be controlled.                            *)

\* A lobby that ended does not open again.
LEMMA OpenStaysOpen ==
  ASSUME LobbyStep, status' = "open"
  PROVE  UNCHANGED status
BY DEF LobbyStep, Join, UpdateSettings, Close, Expire, Tick

\* No step but a fault parts the row from the adapter that plays its item.
LEMMA ControlStep ==
  ASSUME Faults = {}, KnownOK, PlaybackRowOK, ControlReachesProvider,
         [PlaybackNext]_playbackVars
  PROVE  ControlReachesProvider'
<1>1. ASSUME UNCHANGED <<status, playback, known>>
      PROVE  ControlReachesProvider'
  BY <1>1 DEF ControlReachesProvider, Reachable
<1>2. ASSUME NEW t \in QueueTypes, NEW r \in RequestsOf(t), NEW asOf,
             QueueCommand(r, asOf), UNCHANGED <<lease, playback, known>>
      PROVE  ControlReachesProvider'
  BY <1>1, <1>2 DEF QueueCommand, Add, AddRefused, Remove, RemoveRefused, Reorder,
     ReorderRefused, Refuse, Commit, IncrementVersion, storeVars, lobbyVars
<1>3. ASSUME NEW t \in PlaybackTypes, NEW r \in PlaybackRequests(t), NEW asOf,
             PlayerCommand(r, asOf)
      PROVE  ControlReachesProvider'
  <2>1. r.command \in Commands
    BY PlayerRequest
  <2>2. CASE Claim(r, asOf)
    BY <1>1, <2>2 DEF Claim, lobbyVars
  <2>3. CASE \/ PrologueAnswer(r, asOf) /\ UNCHANGED <<storeVars, itemVars, lease, playback, known>>
             \/ ClaimRefused(r, asOf) \/ ControlRefused(r, asOf)
             \/ \E d \in Devices : ReportRefused(r, d, asOf)
    BY <1>1, <2>3 DEF ClaimRefused, ControlRefused, ReportRefused, Rejected, Refuse,
       storeVars, lobbyVars
  <2>4. CASE Pause(r, asOf) \/ Resume(r, asOf)
    <3>1. /\ playback.item # NoItem /\ Reachable
          /\ \E to \in {"playing", "paused"} : playback' = [playback EXCEPT !.state = to]
          /\ UNCHANGED known
      BY <2>4 DEF Pause, Resume, PauseOrResume
    <3>2. playback'.item = playback.item /\ playback'.command = playback.command
      BY <3>1 DEF PlaybackRowOK
    <3>. QED
      BY <3>1, <3>2 DEF ControlReachesProvider, Reachable
  <2>5. ASSUME NEW d, NEW next \in Items \cup {NoItem},
               Start(r, next, asOf) \/ Skip(r, next, asOf) \/ Report(r, d, next, asOf)
        PROVE  ControlReachesProvider'
    BY <2>1, <2>5, PlaysIsKnown DEF Start, Skip, Report, ControlReachesProvider
  <2>6. ASSUME NEW d, NEW next, LostCommit(r, d, next, asOf)
        PROVE  FALSE
    BY <2>6 DEF LostCommit
  <2>. QED
    BY <1>3, <2>2, <2>3, <2>4, <2>5, <2>6 DEF PlayerCommand
<1>4. ASSUME NEW p, NEW d, NEW g, NEW asOf, Heartbeat(p, d, g, asOf)
      PROVE  ControlReachesProvider'
  BY <1>1, <1>4 DEF Heartbeat, storeVars, lobbyVars
<1>5. CASE LobbyEvent
  <2>1. CASE status' = status
    BY <1>1, <1>5, <2>1 DEF LobbyEvent
  <2>2. CASE status' # status
    BY <1>5, <2>2, OpenStaysOpen DEF LobbyEvent, ControlReachesProvider
  <2>. QED
    BY <2>1, <2>2
<1>6. CASE Restart
  BY <1>6 DEF Restart
<1>7. CASE UNCHANGED playbackVars
  BY <1>1, <1>7 DEF playbackVars, queueVars, storeVars, lobbyVars
<1>. QED
  BY <1>2, <1>3, <1>4, <1>5, <1>6, <1>7 DEF PlaybackNext

-----------------------------------------------------------------------------
(* The jukebox.                                                             *)

\* What the jukebox needs beside the invariant: a lease that runs has a holder.
LeaseHeld == Lease!LeaseTypeOK /\ (lease.expiresAt # 0 => lease.holder \in Browsers)

\* A step of the playback service turns the title, takes a waiting one out, or leaves
\* the titles alone.
Turns ==
  /\ status = "open" /\ Lease!Active /\ UNCHANGED Lease!leaseVars
  /\ \E next \in Items \cup {NoItem}, outcome \in {"played", "failed"} :
       Advance(playback.item, outcome, next) /\ playback'.item = next

Withdraws ==
  /\ status = "open" /\ UNCHANGED Lease!leaseVars /\ UNCHANGED playback
  /\ \E i \in Queued : itemState' = [itemState EXCEPT ![i] = "removed"]

KeepsTitles ==
  /\ [Lease!LeaseNext]_(Lease!leaseVars)
  /\ playback'.item = playback.item /\ Gone' = Gone

LEMMA LeaseStaysHeld ==
  ASSUME LeaseHeld, [PlaybackNext]_playbackVars
  PROVE  LeaseHeld'
<1>1. Lease!LeaseTypeOK'
  BY LeaseStaysTyped DEF LeaseHeld
<1>2. Lease!LeaseNext \/ UNCHANGED Lease!leaseVars
  BY StepOfTheLease
<1>3. ASSUME NEW b \in Browsers, Lease!Claim(b)
      PROVE  lease'.holder \in Browsers
  BY <1>3 DEF Lease!Claim
<1>4. ASSUME NEW b \in Browsers, NEW g, Lease!Heartbeat(b, g)
      PROVE  lease'.holder \in Browsers
  BY <1>4 DEF Lease!Heartbeat, LeaseHeld, Lease!LeaseTypeOK
<1>5. CASE Lease!Release
  BY <1>5, <1>1 DEF Lease!Release, Lease!NoLease, LeaseHeld
<1>6. CASE Lease!LeaseTick \/ UNCHANGED Lease!leaseVars
  BY <1>6, <1>1 DEF Lease!LeaseTick, Lease!leaseVars, LeaseHeld
<1>. QED
  BY <1>1, <1>2, <1>3, <1>4, <1>5, <1>6 DEF Lease!LeaseNext, LeaseHeld

\* The commands of the queue: only a removal, of a title that waits, takes one out.
LEMMA QueueCommandTitles ==
  ASSUME PlaybackInv, NEW t \in QueueTypes, NEW r \in RequestsOf(t), NEW asOf,
         QueueCommand(r, asOf), UNCHANGED <<lease, playback, known>>
  PROVE  Withdraws \/ KeepsTitles
<1>0. itemState \in [Items -> ItemStates]
  BY DEF PlaybackInv, QueueInv, QueueTypeOK
<1>1. UNCHANGED Lease!leaseVars
  BY DEF QueueCommand, Add, AddRefused, Remove, RemoveRefused, Reorder, ReorderRefused,
     Refuse, Commit, IncrementVersion, storeVars, lobbyVars, Lease!leaseVars
<1>2. ASSUME UNCHANGED itemState
      PROVE  KeepsTitles
  BY <1>1, <1>2 DEF KeepsTitles, Gone
<1>3. ASSUME NEW i \in Items, Add(r, i, asOf)
      PROVE  KeepsTitles
  <2>1. Gone' = Gone
    BY <1>0, <1>3 DEF Add, Gone
  <2>. QED
    BY <1>1, <2>1 DEF KeepsTitles
<1>4. CASE Remove(r, asOf)
  BY <1>1, <1>4 DEF Remove, Admitted, Authorized, Withdraws
<1>. QED
  BY <1>2, <1>3, <1>4 DEF QueueCommand, AddRefused, RemoveRefused, Reorder, ReorderRefused,
     Refuse, itemVars

\* The commands of the player: start, skip and report turn the title under a lease.
LEMMA PlayerCommandTitles ==
  ASSUME PlaybackInv, NEW t \in PlaybackTypes, NEW r \in PlaybackRequests(t),
         NEW asOf \in 0..now, PlayerCommand(r, asOf)
  PROVE  Turns \/ KeepsTitles
<1>1. [Lease!LeaseNext]_(Lease!leaseVars)
  <2>1. PlaybackNext
    BY DEF PlaybackNext
  <2>. QED
    BY <2>1, StepOfTheLease
<1>2. ASSUME UNCHANGED itemVars, playback'.item = playback.item
      PROVE  KeepsTitles
  BY <1>1, <1>2 DEF KeepsTitles, Gone, itemVars
<1>3. ASSUME NEW next \in Items \cup {NoItem}, NEW outcome \in {"played", "failed"},
             Advance(playback.item, outcome, next), Plays(next, r.command),
             Authorized(r.actor, asOf), Lease!Active, Commit(r), UNCHANGED lease
      PROVE  Turns
  <2>1. playback'.item = next
    BY <1>3 DEF Plays, Idle
  <2>2. UNCHANGED Lease!leaseVars
    BY <1>3 DEF Commit, IncrementVersion, Lease!leaseVars
  <2>. QED
    BY <1>3, <2>1, <2>2 DEF Turns, Authorized
<1>4. ASSUME NEW next \in Items \cup {NoItem}, Start(r, next, asOf) \/ Skip(r, next, asOf)
      PROVE  Turns
  <2>1. CASE Start(r, next, asOf)
    BY <1>3, <2>1 DEF Start, StartReady, ControlReady, Admitted
  <2>2. CASE Skip(r, next, asOf)
    BY <1>3, <2>2 DEF Skip, SkipReady, ControlReady, Admitted
  <2>. QED
    BY <1>4, <2>1, <2>2
<1>5. ASSUME NEW d, NEW next \in Items \cup {NoItem}, Report(r, d, next, asOf)
      PROVE  Turns
  <2>1. Outcome(r.type) \in {"played", "failed"}
    BY DEF Outcome
  <2>. QED
    BY <1>3, <1>5, <2>1 DEF Report, ReportReady, Current, Admitted
<1>6. CASE Pause(r, asOf) \/ Resume(r, asOf)
  <2>1. UNCHANGED itemVars /\ \E to : playback' = [playback EXCEPT !.state = to]
    BY <1>6 DEF Pause, Resume, PauseOrResume
  <2>2. playback'.item = playback.item
    BY <2>1 DEF PlaybackInv, PlaybackRowOK
  <2>. QED
    BY <1>2, <2>1, <2>2
<1>7. CASE Claim(r, asOf) \/ ClaimRefused(r, asOf) \/ ControlRefused(r, asOf)
  BY <1>2, <1>7 DEF Claim, ClaimRefused, ControlRefused, Rejected, Refuse
<1>8. ASSUME NEW d, NEW next, ReportRefused(r, d, asOf) \/ LostCommit(r, d, next, asOf)
      PROVE  KeepsTitles
  BY <1>2, <1>8 DEF ReportRefused, LostCommit, Rejected, Refuse, queueVars
<1>. QED
  BY <1>2, <1>4, <1>5, <1>6, <1>7, <1>8 DEF PlayerCommand

\* So does every step.
LEMMA StepOfTheTitles ==
  ASSUME PlaybackInv, [PlaybackNext]_playbackVars
  PROVE  Turns \/ Withdraws \/ KeepsTitles
<1>1. ASSUME UNCHANGED <<itemVars, playback>>
      PROVE  KeepsTitles
  BY <1>1, StepOfTheLease DEF KeepsTitles, Gone, itemVars
<1>2. ASSUME NEW p, NEW d, NEW g, NEW asOf, Heartbeat(p, d, g, asOf)
      PROVE  KeepsTitles
  BY <1>1, <1>2 DEF Heartbeat
<1>3. CASE LobbyEvent \/ Restart \/ UNCHANGED playbackVars
  BY <1>1, <1>3 DEF LobbyEvent, Restart, playbackVars, queueVars
<1>. QED
  BY <1>2, <1>3, QueueCommandTitles, PlayerCommandTitles DEF PlaybackNext

\* An advance is a turn of the jukebox: the title that was playing and those that could
\* not be started are gone, and what plays next was not.
LEMMA TurnsTheJukebox ==
  ASSUME PlaybackInv, LeaseHeld, Turns
  PROVE  Box!Turn
<1>1. PICK next \in Items \cup {NoItem}, outcome \in {"played", "failed"} :
        Advance(playback.item, outcome, next) /\ playback'.item = next
  BY DEF Turns
<1>2. itemState \in [Items -> ItemStates] /\ Playing = {playback.item} \ {NoItem}
  BY DEF PlaybackInv, QueueInv, QueueTypeOK, PlaybackMatchesQueue
<1>3. /\ next \in Queued \cup {NoItem}
      /\ \A i \in Items : itemState'[i] =
           IF i = playback.item THEN outcome
           ELSE IF i = next THEN "playing"
           ELSE IF i \in Before(next) THEN "failed" ELSE itemState[i]
  BY <1>1 DEF Advance
<1>4. playback.item # NoItem => playback.item \in Items /\ itemState[playback.item] = "playing"
  BY <1>2 DEF Playing
<1>5. next # NoItem => next \in Items /\ itemState[next] = "queued" /\ next # playback.item
  BY <1>3, <1>4 DEF Queued
<1>6. Gone \subseteq Gone'
  <2> SUFFICES ASSUME NEW i \in Items, itemState[i] \in {"played", "failed", "removed"}
               PROVE  itemState'[i] \in {"played", "failed", "removed"}
    BY DEF Gone
  <2>1. i # playback.item /\ i # next
    BY <1>4, <1>5
  <2>. QED
    BY <1>3, <2>1
<1>7. playback.item # NoItem => playback.item \in Gone' \ Gone
  BY <1>3, <1>4 DEF Gone
<1>8. next # NoItem => next \notin Gone'
  BY <1>3, <1>5 DEF Gone
<1> DEFINE passed == Gone' \ Gone
<1>9. passed \in SUBSET (Items \ Gone) /\ Gone' = Gone \cup passed
  BY <1>6 DEF Gone
<1>10. playback'.item \in (Items \ Gone') \cup {NoItem}
  BY <1>1, <1>8
<1>11. status = "open" /\ Lease!Active /\ lease.holder \in Browsers
  BY DEF Turns, Lease!Active, LeaseHeld, Lease!LeaseTypeOK
<1>12. UNCHANGED Box!lockVars
  BY DEF Turns, Lease!leaseVars, Lease!Active, Box!lockVars
<1> HIDE DEF passed
<1>. QED
  BY <1>7, <1>9, <1>10, <1>11, <1>12 DEF Box!Turn, passed

\* A removal takes a title out that waits, and not the one that plays.
LEMMA WithdrawsATitle ==
  ASSUME PlaybackInv, Withdraws
  PROVE  \E i \in Items : Box!Withdraw(i)
<1>1. PICK i \in Queued : itemState' = [itemState EXCEPT ![i] = "removed"]
  BY DEF Withdraws
<1>2. itemState \in [Items -> ItemStates] /\ Playing = {playback.item} \ {NoItem}
  BY DEF PlaybackInv, QueueInv, QueueTypeOK, PlaybackMatchesQueue
<1>3. i \in Items /\ itemState[i] = "queued" /\ i # NoItem
  BY <1>1 DEF Queued
<1>4. i \notin Gone \cup {playback.item} /\ Gone' = Gone \cup {i}
  BY <1>1, <1>2, <1>3 DEF Gone, Playing
<1>5. UNCHANGED Box!lockVars /\ UNCHANGED playback.item /\ status = "open"
  BY DEF Withdraws, Lease!leaseVars, Lease!Active, Box!lockVars
<1>. QED
  BY <1>3, <1>4, <1>5 DEF Box!Withdraw

\* Whatever leaves the titles alone grants the player, ends its lease or does nothing.
LEMMA KeepsTitlesIsALockStep ==
  ASSUME LeaseHeld, LeaseHeld', KeepsTitles
  PROVE  [Box!JukeboxNext]_(Box!jukeboxVars)
<1>0. Lease!LeaseTypeOK /\ Lease!LeaseTypeOK' /\ NoBrowser \notin Browsers
  BY DEF LeaseHeld
<1>1. ASSUME NEW b \in Browsers, Lease!Claim(b)
      PROVE  Box!Grant(b)
  <2>1. /\ lease'.holder = b /\ lease'.generation = lease.generation + 1
        /\ lease'.expiresAt > now'
    BY <1>0, <1>1 DEF Lease!Claim, Lease!LeaseTypeOK
  <2>. QED
    BY <1>1, <2>1 DEF Lease!Claim, Lease!Active, Box!Grant
<1>2. ASSUME NEW b \in Browsers, NEW g, Lease!Heartbeat(b, g)
      PROVE  UNCHANGED Box!lockVars
  <2>1. /\ lease'.holder = lease.holder /\ lease'.generation = lease.generation
        /\ lease'.expiresAt > now' /\ lease.expiresAt > now
    BY <1>0, <1>2 DEF Lease!Heartbeat, Lease!Active, Lease!LeaseTypeOK
  <2>. QED
    BY <1>2, <2>1 DEF Lease!Heartbeat, Lease!Active, Box!lockVars
<1>3. ASSUME Lease!Release
      PROVE  Box!Retire
  <2>1. ~(lease'.expiresAt > now') /\ lease'.generation = 0
    BY <1>0, <1>3 DEF Lease!Release, Lease!NoLease, Lease!LeaseTypeOK
  <2>. QED
    BY <1>3, <2>1 DEF Lease!Release, Lease!Active, Box!Retire
<1>4. ASSUME Lease!LeaseTick
      PROVE  Box!Lapse \/ UNCHANGED Box!lockVars
  <2>1. lease'.expiresAt > now' => lease.expiresAt > now
    BY <1>0, <1>4 DEF Lease!LeaseTick, Lease!LeaseTypeOK
  <2>. QED
    BY <1>4, <2>1 DEF Lease!LeaseTick, Lease!Active, Box!Lapse, Box!lockVars
<1>5. ASSUME UNCHANGED Lease!leaseVars
      PROVE  UNCHANGED Box!lockVars
  BY <1>5 DEF Lease!leaseVars, Lease!Active, Box!lockVars
<1>6. Box!LockNext \/ UNCHANGED Box!lockVars
  BY <1>1, <1>2, <1>3, <1>4, <1>5 DEF KeepsTitles, Lease!LeaseNext, Box!LockNext
<1>. QED
  BY <1>6 DEF KeepsTitles, Box!JukeboxNext, Box!jukeboxVars

-----------------------------------------------------------------------------
\* The invariant of the player and the queue together.
THEOREM PlaybackInvariant == PlaybackSpec => []PlaybackInv
BY PlaybackStart, PlaybackStep, PTL DEF PlaybackSpec

\* The playback row and the queue agree in every reachable state: the current item
\* is the only one that plays and was started by a command on record, with any
\* restarts and lost commits in between.
THEOREM RowAgreesWithQueue == PlaybackSpec => []PlaybackMatchesQueue
<1>1. PlaybackInv => PlaybackMatchesQueue
  BY DEF PlaybackInv
<1>. QED
  BY <1>1, PlaybackInvariant, PTL

\* Type correctness of the player's rows, of the lease and of what the adapters
\* hold, with any restarts and lost commits.
THEOREM PlaybackTypeCorrect == PlaybackSpec => []PlaybackTypeOK
<1>1. PlaybackInit => KnownOK /\ Lease!LeaseTypeOK
  BY DEF PlaybackInit, QueueInit, StoreInit, KnownOK, Lease!LeaseTypeOK, Lease!NoLease,
     StoreAssumption
<1>2. PlaybackInv /\ KnownOK /\ Lease!LeaseTypeOK => PlaybackTypeOK
  BY DEF PlaybackInv, QueueInv, PlaybackRowOK, KnownOK, PlaybackTypeOK
<1>. QED
  BY <1>1, <1>2, KnownStep, LeaseStaysTyped, PlaybackInvariant, PTL DEF PlaybackSpec

\* While neither a restart nor a lost commit comes in between, every title of an open
\* lobby can be paused, resumed and skipped: the adapter that plays it knows the
\* command of the row, whatever commands, reports and lobby events came before.
THEOREM ControlAlwaysReaches ==
  ASSUME Faults = {}
  PROVE  PlaybackSpec => []ControlReachesProvider
<1>1. PlaybackInit => KnownOK /\ ControlReachesProvider
  BY DEF PlaybackInit, KnownOK, Idle, ControlReachesProvider
<1>2. PlaybackInv => PlaybackRowOK
  BY DEF PlaybackInv
<1>3. KnownOK /\ PlaybackRowOK /\ ControlReachesProvider /\ [PlaybackNext]_playbackVars
        => ControlReachesProvider'
  BY ControlStep
<1>. QED
  BY <1>1, <1>2, <1>3, KnownStep, PlaybackInvariant, PTL DEF PlaybackSpec

\* The playback service implements the queue's specification, so everything proved
\* of the queue holds with the player beside it.
THEOREM PlaybackImplementsQueue == PlaybackSpec => PlaybackKeepsTheQueue
<1>1. PlaybackInit => QueueInit
  BY DEF PlaybackInit
<1>. QED
  BY <1>1, StepOfTheQueue, PlaybackInvariant, PTL
     DEF PlaybackSpec, QueueSpec, PlaybackKeepsTheQueue

\* And the lease's, so that what the lease promises is what the players get.
THEOREM PlaybackImplementsLease == PlaybackSpec => PlayerHoldsALease
<1>1. PlaybackInit => Lease!LeaseInit
  BY DEF PlaybackInit, QueueInit, StoreInit, Lease!LeaseInit, Lease!NoLease
<1>. QED
  BY <1>1, StepOfTheLease, PTL DEF PlaybackSpec, PlayerHoldsALease, Lease!LeaseSpec

\* The playback service, its queue, its lease and the lobby's end together implement the
\* jukebox, through restarts and lost commits: the title changes only under a running
\* lease of an open lobby, and a title that is over never comes back.
THEOREM PlaybackImplementsJukebox == PlaybackSpec => PlayerIsAJukebox
<1>1. PlaybackInit => LeaseHeld
  BY DEF PlaybackInit, QueueInit, StoreInit, LeaseHeld, Lease!LeaseTypeOK, Lease!NoLease,
     StoreAssumption
<1>2. PlaybackInit => Box!JukeboxInit
  BY DEF PlaybackInit, QueueInit, StoreInit, Idle, Gone, Lease!NoLease, Lease!Active,
     Box!JukeboxInit, Box!LockInit
<1>3. LeaseHeld /\ [PlaybackNext]_playbackVars => LeaseHeld'
  BY LeaseStaysHeld
<1>4. PlaybackInv /\ LeaseHeld /\ LeaseHeld' /\ [PlaybackNext]_playbackVars
        => [Box!JukeboxNext]_(Box!jukeboxVars)
  BY StepOfTheTitles, TurnsTheJukebox, WithdrawsATitle, KeepsTitlesIsALockStep
     DEF Box!JukeboxNext
<1>. QED
  BY <1>1, <1>2, <1>3, <1>4, PlaybackInvariant, PTL
     DEF PlaybackSpec, PlayerIsAJukebox, Box!JukeboxSpec
=============================================================================
