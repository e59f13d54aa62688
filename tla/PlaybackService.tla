--------------------------- MODULE PlaybackService ----------------------------
(***************************************************************************)
(* The playback service beside the queue service: the player's lease, the  *)
(* playback row and the provider adapters, which are called inside the     *)
(* transaction but remember what they play in the memory of the process.   *)
(***************************************************************************)
EXTENDS QueueService

CONSTANTS
  Devices,        \* device identifiers, one per tab
  NoBrowser,      \* no lease row
  LeaseTime,      \* lease duration, in ticks
  MaxGeneration,  \* bound: last lease generation that is claimed
  ProviderOf,     \* the provider of an item's playable variant
  NoCommand,      \* SQL NULL
  Faults          \* which of "restart" and "commit" happen

Reports == {"playback.report.ended", "playback.report.failed"}
Advancing == {"playback.start", "playback.skip"} \cup Reports
Generations == 1..MaxGeneration
Browsers == Participants \X Devices

ASSUME PlaybackAssumption ==
  /\ MaxGeneration \in Nat
  /\ NoBrowser \notin Browsers
  /\ LeaseTime \in Nat \ {0}
  /\ ProviderOf \in [Items -> {"fake", "youtube"}]
  /\ NoCommand \notin Commands
  /\ Faults \subseteq {"restart", "commit"}
  /\ Devices \cup Generations \cup {NoItem} \subseteq PlaybackPayloads

VARIABLES
  lease,     \* the playback_leases row
  playback,  \* the playback_states row
  known      \* the commands each provider adapter holds a playback for

playbackVars == <<queueVars, lease, playback, known>>

Lease == INSTANCE PlayerLease WITH open <- status = "open"

Idle == [state |-> "idle", item |-> NoItem, command |-> NoCommand]

PlaybackTypeOK ==
  /\ QueueTypeOK
  /\ Lease!LeaseTypeOK
  /\ playback \in [state: {"idle", "playing", "paused"},
                   item: Items \cup {NoItem}, command: Commands \cup {NoCommand}]
  /\ known \in [{"fake", "youtube"} -> SUBSET Commands]

PlaybackInit ==
  /\ QueueInit
  /\ lease = Lease!NoLease
  /\ playback = Idle
  /\ known = [p \in {"fake", "youtube"} |-> {}]

-----------------------------------------------------------------------------
\* The fake adapter holds one playback, the YouTube adapter one per command.
Informed(i, c) ==
  [known EXCEPT ![ProviderOf[i]] = IF ProviderOf[i] = "fake" THEN {c} ELSE @ \cup {c}]

\* requirePlayback of the adapter that plays the current item
Reachable == playback.command \in known[ProviderOf[playback.item]]

\* Slip: the row keeps the command that started the previous item.
PlaysUnderOldCommand(next, c) ==
  IF next = NoItem
    THEN playback' = Idle /\ UNCHANGED known
    ELSE /\ playback' = [state |-> "playing", item |-> next,
                         command |-> IF playback.item = NoItem THEN c
                                                               ELSE playback.command]
         /\ known' = Informed(next, c)

\* startNext reached next: the provider was told, the row follows.
Plays(next, c) ==
  IF next = NoItem
    THEN playback' = Idle /\ UNCHANGED known
    ELSE /\ playback' = [state |-> "playing", item |-> next, command |-> c]
         /\ known' = Informed(next, c)

\* What is refused or only read leaves everything but the answer.
Rejected(r, code) == Refuse(r, code) /\ UNCHANGED <<lease, playback, known>>

-----------------------------------------------------------------------------
Claim(r, asOf) ==
  /\ r.type = "player.claim" /\ Admitted(r, asOf)
  /\ UNCHANGED <<lobbyVars, itemVars, playback, known>>
  /\ Lease!Claim(<<r.actor, r.fingerprint>>)
  /\ WriteReceipt(r) /\ Answer(r, "applied")

ClaimRefused(r, asOf) ==
  /\ r.type = "player.claim" /\ Admitted(r, asOf)
  /\ Lease!Active /\ lease.holder # <<r.actor, r.fingerprint>>
  /\ Rejected(r, "LEASE_HELD")

\* No command identifier and no receipt: a heartbeat is its own retry.
Heartbeat(p, d, g, asOf) ==
  /\ Authorized(p, asOf)
  /\ UNCHANGED <<storeVars, reply, itemVars, playback, known>>
  /\ Lease!Heartbeat(<<p, d>>, g)

-----------------------------------------------------------------------------
(* The four controls, open to every member while some browser has the lease. *)

\* Slip: a control is let through whether or not a browser plays the music.
ControlReadyUnleased(r, asOf) == Admitted(r, asOf)

ControlReady(r, asOf) == Admitted(r, asOf) /\ Lease!Active

StartReady(r, asOf) ==
  /\ r.type = "playback.start" /\ ControlReady(r, asOf)
  /\ playback.item = NoItem /\ playback.state = "idle"
  /\ Queued # {}

Start(r, next, asOf) ==
  /\ StartReady(r, asOf)
  /\ Advance(NoItem, "played", next) /\ Plays(next, r.command)
  /\ Commit(r) /\ UNCHANGED lease

SkipReady(r, asOf) ==
  /\ r.type = "playback.skip" /\ ControlReady(r, asOf)
  /\ playback.item # NoItem /\ Reachable

\* Slip: finishCurrent is left out.
SkipWithoutFinish(r, next, asOf) ==
  /\ SkipReady(r, asOf)
  /\ Advance(NoItem, "played", next) /\ Plays(next, r.command)
  /\ Commit(r) /\ UNCHANGED lease

Skip(r, next, asOf) ==
  /\ SkipReady(r, asOf)
  /\ Advance(playback.item, "played", next) /\ Plays(next, r.command)
  /\ Commit(r) /\ UNCHANGED lease

PauseOrResume(r, from, to, asOf) ==
  /\ ControlReady(r, asOf)
  /\ playback.state = from /\ playback.item # NoItem /\ Reachable
  /\ playback' = [playback EXCEPT !.state = to]
  /\ WriteReceipt(r) /\ Answer(r, "applied")
  /\ UNCHANGED <<lobbyVars, itemVars, lease, known>>

Pause(r, asOf) ==
  r.type = "playback.pause" /\ PauseOrResume(r, "playing", "paused", asOf)

Resume(r, asOf) ==
  r.type = "playback.resume" /\ PauseOrResume(r, "paused", "playing", asOf)

\* The state each control expects of the playback row.
Expects(type) ==
  CASE type = "playback.start" -> {"idle"}
    [] type = "playback.pause" -> {"playing"}
    [] type = "playback.resume" -> {"paused"}
    [] OTHER -> {"playing", "paused"}

\* Paused at the end of its title, the fake adapter resumes into 'ended', which
\* the CHECK on playback_states.state rejects with the whole transaction.
EndedWhilePaused(r) ==
  r.type = "playback.resume" /\ ProviderOf[playback.item] = "fake"

ControlRefused(r, asOf) ==
  /\ r.type \in {"playback.start", "playback.pause", "playback.resume", "playback.skip"}
  /\ Admitted(r, asOf)
  /\ \/ ~Lease!Active /\ Rejected(r, "LEASE_LOST")
     \/ /\ Lease!Active /\ playback.state \notin Expects(r.type)
        /\ Rejected(r, "PLAYBACK_COMMAND_REJECTED")
     \/ /\ Lease!Active /\ r.type = "playback.start" /\ playback.state = "idle"
        /\ Queued = {} /\ Rejected(r, "QUEUE_EMPTY")
     \/ /\ Lease!Active /\ r.type # "playback.start"
        /\ playback.state \in Expects(r.type)
        /\ ~Reachable \/ EndedWhilePaused(r)
        /\ Rejected(r, "PROVIDER_FAILED")

-----------------------------------------------------------------------------
(* The player's report, for the holder of the current generation only.  It   *)
(* does not call the provider about the item that ended.                     *)

Current(r, d) ==
  Lease!Active /\ lease.holder = <<r.actor, d>> /\ lease.generation = r.fingerprint

\* Slip: the lease is believed to stand for the receipt.
ReportReadyByLease(r, d, asOf) ==
  /\ r.type \in Reports /\ Authorized(r.actor, asOf)
  /\ Current(r, d)
  /\ playback.item # NoItem

ReportReady(r, d, asOf) ==
  /\ r.type \in Reports /\ Admitted(r, asOf)
  /\ Current(r, d)
  /\ playback.item # NoItem

\* Slip: the player's word for the outcome.
OutcomeInPlayerWords(type) ==
  IF type = "playback.report.failed" THEN "failed" ELSE "ended"

Outcome(type) == IF type = "playback.report.failed" THEN "failed" ELSE "played"

Report(r, d, next, asOf) ==
  /\ ReportReady(r, d, asOf)
  /\ Advance(playback.item, Outcome(r.type), next) /\ Plays(next, r.command)
  /\ Commit(r) /\ UNCHANGED lease

ReportRefused(r, d, asOf) ==
  /\ r.type \in Reports /\ Admitted(r, asOf)
  /\ \/ ~Current(r, d) /\ Rejected(r, "LEASE_LOST")
     \/ /\ Current(r, d) /\ playback.item = NoItem
        /\ Rejected(r, "PLAYBACK_COMMAND_REJECTED")

-----------------------------------------------------------------------------
(* Faults: the adapters and the database are not one transaction.           *)

\* The provider was told to start next, then the transaction was lost.
LostCommit(r, d, next, asOf) ==
  /\ "commit" \in Faults
  /\ StartReady(r, asOf) \/ SkipReady(r, asOf) \/ ReportReady(r, d, asOf)
  /\ next \in Queued
  /\ known' = Informed(next, r.command)
  /\ UNCHANGED <<queueVars, lease, playback>>

\* The API process restarts: the rows stay, what the adapters hold does not.
Restart ==
  /\ "restart" \in Faults
  /\ known' = [p \in {"fake", "youtube"} |-> {}]
  /\ UNCHANGED <<queueVars, lease, playback>>

\* Closing also drops the lobby's fake adapter; expiring leaves it.
Forget == known' = IF status' = "closed" THEN [known EXCEPT !["fake"] = {}] ELSE known

\* Slip: the lobby ends and its lease stays.
LobbyEventKeepsLease ==
  /\ LobbyStep
  /\ UNCHANGED <<lease, known>>
  /\ UNCHANGED <<itemVars, playback>>

\* The lease goes with the lobby here, in one step; LobbyLifecycle has the
\* statements of that step and what comes between them.
LobbyEvent ==
  /\ LobbyStep
  /\ IF status' = status THEN UNCHANGED <<lease, known>> ELSE Lease!Release /\ Forget
  /\ UNCHANGED <<itemVars, playback>>

-----------------------------------------------------------------------------
PayloadsOf(type) ==
  CASE type = "player.claim" -> Devices
    [] type \in Reports -> Generations
    [] OTHER -> {NoItem}

PlaybackRequests(type) ==
  [actor: Participants, command: Commands, type: {type},
   fingerprint: PayloadsOf(type), expected: {AnyVersion}]

PlayerCommand(r, asOf) ==
  \/ PrologueAnswer(r, asOf) /\ UNCHANGED <<storeVars, itemVars, lease, playback, known>>
  \/ Claim(r, asOf)
  \/ ClaimRefused(r, asOf)
  \/ \E next \in Items \cup {NoItem} : Start(r, next, asOf) \/ Skip(r, next, asOf)
  \/ Pause(r, asOf)
  \/ Resume(r, asOf)
  \/ ControlRefused(r, asOf)
  \/ \E d \in Devices :
       \/ \E next \in Items \cup {NoItem} :
            Report(r, d, next, asOf) \/ LostCommit(r, d, next, asOf)
       \/ ReportRefused(r, d, asOf)

PlaybackNext ==
  \/ \E asOf \in 0..now, t \in QueueTypes : \E r \in RequestsOf(t) :
       QueueCommand(r, asOf) /\ UNCHANGED <<lease, playback, known>>
  \/ \E asOf \in 0..now, t \in PlaybackTypes : \E r \in PlaybackRequests(t) :
       PlayerCommand(r, asOf)
  \/ \E asOf \in 0..now, p \in Participants, d \in Devices, g \in Generations :
       Heartbeat(p, d, g, asOf)
  \/ LobbyEvent
  \/ Restart

PlaybackSpec == PlaybackInit /\ [][PlaybackNext]_playbackVars

-----------------------------------------------------------------------------
(* Safety.                                                                  *)

\* playback_states and queue_items tell one story, whatever commands, reports,
\* retries and faults follow each other: the current item is the one and only
\* item that is playing, and it carries the command that started it, a start, a
\* skip or a report on record.
PlaybackMatchesQueue ==
  /\ Playing = {playback.item} \ {NoItem}
  /\ (playback.item = NoItem) <=> (playback.state = "idle")
  /\ (playback.item = NoItem) <=> (playback.command = NoCommand)
  /\ playback.item # NoItem => receipts[playback.command].type \in Advancing

\* While the lobby is open, pause, resume and skip reach the adapter that plays
\* the current item: no member is left with a title nobody can control.
ControlReachesProvider ==
  status = "open" /\ playback.item # NoItem => Reachable

-----------------------------------------------------------------------------
(* Refinement.                                                              *)

\* The commands, heartbeats and faults of the player do nothing to the lease but
\* what the lease's own specification allows.
PlayerHoldsALease == Lease!LeaseSpec

\* Nor to the queue, its receipts and its version but what the queue's allows.
PlaybackKeepsTheQueue == QueueSpec

\* The items that will not play any more.
Gone == {i \in Items : itemState[i] \in {"played", "failed", "removed"}}

Box == INSTANCE Jukebox WITH
  Owners <- Browsers, NoOwner <- NoBrowser, Titles <- Items, NoTitle <- NoItem,
  owner <- IF Lease!Active THEN lease.holder ELSE NoBrowser,
  token <- lease.generation, retired <- status # "open",
  current <- playback.item, gone <- Gone

\* The four tables together play like one jukebox: whatever members, players, sweeps
\* and faults do, the title changes only under a running lease of an open lobby, and
\* a title that ended, failed or was taken out never plays again.
PlayerIsAJukebox == Box!JukeboxSpec
=============================================================================
