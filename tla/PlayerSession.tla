---------------------------- MODULE PlayerSession -----------------------------
(***************************************************************************)
(* The player panel of one tab, the YouTube player that it mounts while it *)
(* holds the lease, and the server that it and the other members talk to.  *)
(* The tab polls, renews its lease, presses buttons and reports what its   *)
(* player did; each is a request with an answer of its own, served and     *)
(* answered in any order, and the snapshot of every answer goes to the     *)
(* screen.  Titles are numbered in the order of the queue.                 *)
(***************************************************************************)
EXTENDS PlayerLease, FiniteSets

CONSTANTS
  Tab,         \* the browser whose panel is modelled
  TitleCount,  \* bound: titles that are added to the queue
  Video,       \* the YouTube video of each title
  Outcomes,    \* what a player can report: "ended", "failed"
  MaxPolls,    \* bound: polls under way at a time
  MaxCalls,    \* bound: its other requests under way at a time
  MaxSkips,    \* bound: skips, by anyone
  MaxLosses    \* bound: requests of the tab whose answer never comes

ASSUME SessionAssumption ==
  /\ Tab \in Browsers
  /\ TitleCount \in Nat
  /\ DOMAIN Video = 1..TitleCount
  /\ Outcomes \subseteq {"ended", "failed"}
  /\ {MaxPolls, MaxCalls, MaxSkips, MaxLosses} \subseteq Nat

Titles == 1..TitleCount
NoTitle == 0

VARIABLES
  current,       \* playback_states.current_item_id
  taken,         \* the titles up to this one have left the queue
  added,         \* the titles up to this one have been added to it
  snap,          \* what the tab shows
  player,        \* the video it has mounted, and the title it was mounted for
  calls,         \* its requests under way, and their answers
  pending,       \* its buttons are disabled
  reported,      \* reportedTransitionRef
  skips,         \* skips so far
  losses,        \* answers lost so far
  reportFailed   \* a report was refused or lost

serverVars == <<leaseVars, current, taken, added, skips>>
tabVars == <<snap, player, calls, pending, reported, losses, reportFailed>>
sessionVars == <<serverVars, tabVars>>

TitlesOrNone == Titles \cup {NoTitle}
Buttons == {"claim", "start", "skip"}

Snapshots == [generation: Nat, held: BOOLEAN, title: TitlesOrNone]

\* A request, with the generation it names and the title whose player caused it
\* (which is not sent).
Requests == [kind: {"heartbeat"} \cup Buttons \cup Outcomes,
             generation: Nat, title: TitlesOrNone]
Answers == [kind: {"poll", "heartbeat"} \cup Buttons \cup Outcomes,
            result: {"ok", "refused", "not_found"}, snapshot: Snapshots]

Blank == [generation |-> 0, held |-> FALSE, title |-> NoTitle]
NoPlayer == [title |-> NoTitle, over |-> FALSE]
NoReport == [title |-> NoTitle, generation |-> 0, outcome |-> "none"]

SessionTypeOK ==
  /\ LeaseTypeOK
  /\ current \in TitlesOrNone /\ taken \in 0..TitleCount /\ added \in 0..TitleCount
  /\ snap \in Snapshots
  /\ player \in [title: TitlesOrNone, over: BOOLEAN]
  /\ calls \subseteq Requests \cup Answers
  /\ pending \in BOOLEAN
  /\ reported \in [title: TitlesOrNone, generation: Nat, outcome: Outcomes \cup {"none"}]
  /\ skips \in 0..MaxSkips /\ losses \in 0..MaxLosses
  /\ reportFailed \in BOOLEAN

SessionInit ==
  /\ LeaseInit
  /\ current = NoTitle /\ taken = 0 /\ added = 0 /\ skips = 0
  /\ snap = Blank
  /\ player = NoPlayer
  /\ calls = {}
  /\ pending = FALSE
  /\ reported = NoReport
  /\ losses = 0 /\ reportFailed = FALSE

-----------------------------------------------------------------------------
(* The tab.                                                                 *)

IsRequest(c) == "result" \notin DOMAIN c
Polls == {c \in calls : c.kind = "poll"}
MayCall == Cardinality(calls \ Polls) < MaxCalls

Send(kind, generation, title) ==
  calls' = calls \cup {[kind |-> kind, generation |-> generation, title |-> title]}

\* Every two seconds while the screen says that this tab holds the lease.
Renew ==
  /\ snap.held /\ MayCall
  /\ Send("heartbeat", snap.generation, NoTitle)
  /\ UNCHANGED <<serverVars, snap, player, pending, reported, losses, reportFailed>>

\* The buttons that are not disabled.
Offered ==
  {k \in Buttons :
     /\ ~pending
     /\ k = "claim" => snap.generation = 0
     /\ k = "start" => snap.generation # 0 /\ snap.title = NoTitle
     /\ k = "skip" => snap.title # NoTitle}

Press(k) ==
  /\ k \in Offered /\ MayCall
  /\ Send(k, 0, NoTitle)
  /\ pending' = TRUE
  /\ UNCHANGED <<serverVars, snap, player, reported, losses, reportFailed>>

\* Slip: the key of the lease, without the title.
KeyOfLease(outcome) ==
  [title |-> NoTitle, generation |-> snap.generation, outcome |-> outcome]

\* What a report is about: one is sent for each.
ReportKey(outcome) ==
  [title |-> snap.title, generation |-> snap.generation, outcome |-> outcome]

\* What the player's callbacks do.  The title reported is the one on the screen.
ReportsOnce(outcome) ==
  /\ MayCall
  /\ player' = [player EXCEPT !.over = TRUE]
  /\ IF reported = ReportKey(outcome)
       THEN UNCHANGED <<calls, pending, reported>>
       ELSE /\ Send(outcome, snap.generation, player.title)
            /\ reported' = ReportKey(outcome)
            /\ pending' = TRUE
  /\ UNCHANGED <<serverVars, snap, losses, reportFailed>>

\* The video ends or cannot be played.
PlayerStops(outcome) == player.title # NoTitle /\ ~player.over /\ ReportsOnce(outcome)

\* It ends or fails again: an end after an error, or a replay by the player's own controls.
StopsAgain(outcome) == player.over /\ ReportsOnce(outcome)

\* Slip: the panel mounts a player for any title it shows.
MountedUnheld(s) ==
  IF s.title = NoTitle THEN NoPlayer
  ELSE IF player.title # NoTitle /\ Video[player.title] = Video[s.title]
    THEN player
    ELSE [title |-> s.title, over |-> FALSE]

\* A player is mounted while the screen has the lease and a title.  Its key is the
\* video, so the same video keeps its player.
Mounted(s) ==
  IF ~s.held \/ s.title = NoTitle THEN NoPlayer
  ELSE IF player.title # NoTitle /\ Video[player.title] = Video[s.title]
    THEN player
    ELSE [title |-> s.title, over |-> FALSE]

Show(s) == snap' = s /\ player' = Mounted(s)

\* What the end of a request changes beside the screen.
Finish(c, failed) ==
  /\ calls' = calls \ {c}
  /\ pending' = (pending /\ c.kind \notin Buttons \cup Outcomes)
  /\ IF failed /\ c.kind \in Outcomes
       THEN reported' = NoReport /\ reportFailed' = TRUE
       ELSE UNCHANGED <<reported, reportFailed>>

Answer(c) ==
  /\ ~IsRequest(c)
  /\ IF c.result = "not_found" THEN UNCHANGED <<snap, player>> ELSE Show(c.snapshot)
  /\ Finish(c, c.result # "ok")
  /\ UNCHANGED <<serverVars, losses>>

\* The network fails, before or after the server has acted.
Lose(c) ==
  /\ losses < MaxLosses
  /\ losses' = losses + 1
  /\ Finish(c, TRUE)
  /\ UNCHANGED <<serverVars, snap, player>>

-----------------------------------------------------------------------------
(* The server: one transaction under the lobby's row lock.                  *)

\* The snapshot that is read at the end of the transaction.
Read ==
  LET active == lease'.expiresAt > now' IN
  [generation |-> IF active THEN lease'.generation ELSE 0,
   held |-> active /\ lease'.holder = Tab,
   title |-> current']

Reply(c, result) ==
  calls' = (calls \ {c}) \cup
    {[kind |-> c.kind, result |-> result,
      snapshot |-> IF result = "not_found" THEN Blank ELSE Read]}

\* Any member adds a title; an empty queue may be refilled and started again.
Add ==
  /\ open /\ added < TitleCount
  /\ added' = added + 1
  /\ UNCHANGED <<leaseVars, current, taken, skips>>

\* Slip: nothing is found past the end.
AdvanceByOne == current' = taken + 1 /\ taken' = taken + 1 /\ UNCHANGED added

\* The next title that can be started; those before it fail.
Advance ==
  /\ \E i \in {j \in Titles : taken < j /\ j <= added} \cup {NoTitle} :
       /\ current' = i
       /\ taken' = IF i = NoTitle THEN added ELSE i
  /\ UNCHANGED added

\* A start that finds titles but can start none of them has failed them all, and is
\* answered like any other.
Start ==
  /\ Active /\ current = NoTitle /\ taken < added
  /\ Advance
  /\ UNCHANGED <<leaseVars, skips>>

Skip ==
  /\ Active /\ current # NoTitle
  /\ skips < MaxSkips /\ skips' = skips + 1
  /\ Advance
  /\ UNCHANGED leaseVars

\* A report names its lease; what it ends is the current title.
Report(b, generation) ==
  /\ Active /\ lease.holder = b /\ lease.generation = generation
  /\ current # NoTitle
  /\ Advance
  /\ UNCHANGED <<leaseVars, skips>>

\* What a request does when it is accepted.
Accept(c) ==
  \/ c.kind = "claim" /\ Claim(Tab) /\ UNCHANGED <<current, taken, added, skips>>
  \/ c.kind = "heartbeat" /\ Heartbeat(Tab, c.generation) /\ UNCHANGED <<current, taken, added, skips>>
  \/ c.kind = "start" /\ Start
  \/ c.kind = "skip" /\ Skip
  \/ c.kind \in Outcomes /\ Report(Tab, c.generation)

\* And when it is refused: also a claim or a skip when the model's bound on them is
\* reached.
Refused(c) ==
  \/ c.kind = "claim" /\ lease.generation = MaxGeneration
  \/ c.kind = "skip" /\ skips = MaxSkips
  \/ c.kind = "claim" /\ Active /\ lease.holder # Tab
  \/ c.kind \in {"heartbeat"} \cup Outcomes
       /\ ~(Active /\ lease.holder = Tab /\ lease.generation = c.generation)
  \/ c.kind = "start" /\ (~Active \/ current # NoTitle \/ taken = added)
  \/ c.kind \in {"skip"} \cup Outcomes /\ (~Active \/ current = NoTitle)

Serve(c) ==
  /\ IsRequest(c)
  /\ \/ open /\ Accept(c) /\ Reply(c, "ok")
     \/ open /\ Refused(c) /\ UNCHANGED serverVars /\ Reply(c, "refused")
     \/ ~open /\ UNCHANGED serverVars /\ Reply(c, "not_found")
  /\ UNCHANGED <<snap, player, pending, reported, losses, reportFailed>>

\* On mounting, every two seconds, on every playback:event, after a heartbeat that
\* failed.  What a poll is depends on the moment it is served only.
Poll ==
  /\ Cardinality(Polls) < MaxPolls
  /\ UNCHANGED serverVars
  /\ Reply([kind |-> "poll"], IF open THEN "ok" ELSE "not_found")
  /\ UNCHANGED <<snap, player, pending, reported, losses, reportFailed>>

\* What the other members, their tabs and the clock do meanwhile.
Others ==
  /\ \/ /\ \/ LeaseTick
           \/ \E b \in Browsers \ {Tab} : Claim(b) \/ Heartbeat(b, lease.generation)
           \/ open' = FALSE /\ Release
        /\ UNCHANGED <<current, taken, added, skips>>
     \/ Add
     \/ /\ open
        /\ \/ Start \/ Skip
           \/ \E b \in Browsers \ {Tab} : Report(b, lease.generation)
  /\ UNCHANGED tabVars

SessionNext ==
  \/ Poll \/ Renew
  \/ \E k \in Buttons : Press(k)
  \/ \E o \in Outcomes : PlayerStops(o) \/ StopsAgain(o)
  \/ \E c \in calls : Serve(c) \/ Answer(c) \/ Lose(c)
  \/ Others

\* Polls go on and are answered; a request arrives and is answered unless it is lost;
\* a video that stays mounted comes to its end or fails a first time: nobody pauses it for
\* ever, and the browser lets it start by itself.  That fairness is strong because MaxCalls
\* makes the end wait for a heartbeat under way, which no tab does.
SessionFairness ==
  /\ WF_sessionVars(Poll)
  /\ WF_sessionVars(\E c \in Polls : Answer(c))
  /\ WF_sessionVars(\E c \in calls \ Polls : Serve(c) \/ Answer(c))
  /\ SF_sessionVars(\E o \in Outcomes : PlayerStops(o))

SessionSpec == SessionInit /\ [][SessionNext]_sessionVars /\ SessionFairness

-----------------------------------------------------------------------------
(* Safety.                                                                  *)

\* Whatever the order in which answers arrive, a screen that says its tab holds the
\* running generation is right: no two tabs play under one generation.
HeldScreenIsRight ==
  open /\ snap.held /\ snap.generation = lease.generation => lease.holder = Tab

\* A report ends the title whose player ended or failed.
ReportEndsItsTitle ==
  [][\A c \in calls \ calls' :
       IsRequest(c) /\ c.kind \in Outcomes /\ current' # current
         => c.title = current]_sessionVars

Box == INSTANCE Jukebox WITH
  Owners <- Browsers, NoOwner <- NoBrowser,
  owner <- IF Active THEN lease.holder ELSE NoBrowser,
  token <- lease.generation, retired <- ~open,
  gone <- {i \in Titles : i <= taken /\ i # current}

\* Whatever requests are late, lost or repeated, the music is that of one jukebox: this
\* module's small server keeps the promise that PlaybackService keeps.
SessionIsAJukebox == Box!JukeboxSpec

-----------------------------------------------------------------------------
(* Liveness.                                                                *)

Holds == Active /\ lease.holder = Tab

\* A tab whose lease has gone stops its player, by polling alone.
LostLeaseSilences ==
  (player.title # NoTitle /\ ~Holds) ~> (player.title = NoTitle \/ Holds \/ ~open)

Fresh(i) == \A j \in Titles : j < i => Video[j] # Video[i]

\* The queue goes on by itself under a lease that lasts: a title whose video is not
\* that of an earlier one ends, unless a report was refused or lost.
TitleEnds ==
  \A i \in Titles :
    current = i /\ Fresh(i) ~> (current # i \/ ~Holds \/ reportFailed)
=============================================================================
