------------------------------- MODULE QueueView -------------------------------
(***************************************************************************)
(* What a member's browser shows of the queue.  The server's lobby row     *)
(* moves from version to version; what waits at a version, and whether it  *)
(* may be seen, is fixed (VersionStandsForView in QueueServiceProofs), so a *)
(* snapshot is the version it was read at.  Snapshots reach the browser by *)
(* three roads that do not wait for one another: answers to its polls,     *)
(* events of the Socket.IO room, and answers to its own edits.             *)
(***************************************************************************)
EXTENDS Integers, Sequences

CONSTANTS
  MaxVersion,  \* bound on the lobby versions that are explored
  MaxFetches,  \* bound on the queue requests of one browser under way
  MaxCuts      \* bound on network cuts and restarts of the API

ASSUME ViewAssumption ==
  /\ MaxVersion \in Nat \ {0}
  /\ MaxFetches \in Nat \ {0}
  /\ MaxCuts \in Nat

VARIABLES
  open,    \* lobbies.status is 'open'
  hidden,  \* hidden[v]: blind_test_enabled at lobby version v
  outbox,  \* committed changes whose handler has not published them yet
  room,    \* where the browser's socket stands in the lobby's room
  joinAt,  \* the version of the snapshot that queue:join has read
  wire,    \* events on their way to the browser, in the order of emission
  lobby,   \* App's lobby: the mode it knows, and minimumLobbyVersion
  view,    \* the snapshot on the screen, 0 for none
  fetches, \* GET /queue requests of the mounted panel
  edit,    \* the panel's queue mutation
  closed,  \* the final screen is shown
  cuts     \* cuts and restarts so far

serverVars == <<open, hidden, outbox>>
socketVars == <<room, joinAt, wire>>
panelVars == <<lobby, view, fetches, edit, closed>>
vars == <<serverVars, socketVars, panelVars, cuts>>

Version == Len(hidden)
Slots == 1..MaxFetches

\* A request is idle, sent, or answered with the snapshot of a version.
Idle == -1
Sent == 0
Requests == Idle..MaxVersion

Event(type, at) == [type |-> type, at |-> at]
Published == [type: {"queue.snapshot", "queue.updated", "settings.updated", "closed"},
              at: 0..MaxVersion]
Unpublished == [type: {"queue.updated", "settings.updated", "closed", "reread"},
                at: 0..MaxVersion]

\* The state of the server, the room and the browser, and the history.
ViewTypeOK ==
  /\ open \in BOOLEAN
  /\ hidden \in Seq(BOOLEAN) /\ Version \in 1..MaxVersion
  /\ outbox \subseteq Unpublished
  /\ room \in {"down", "joining", "joined", "refused"}
  /\ joinAt \in 0..MaxVersion
  /\ wire \in Seq(Published)
  /\ lobby \in [hidden: BOOLEAN, version: 1..MaxVersion]
  /\ view \in 0..MaxVersion
  /\ fetches \in [Slots -> Requests]
  /\ edit \in Requests
  /\ closed \in BOOLEAN
  /\ cuts \in 0..MaxCuts

\* A mounting panel fetches once and opens a socket.
FirstFetch == [s \in Slots |-> IF s = 1 THEN Sent ELSE Idle]

\* The page has just loaded the lobby, in its first mode.
ViewInit ==
  /\ open = TRUE
  /\ hidden = <<FALSE>>
  /\ outbox = {}
  /\ room = "down" /\ joinAt = 0 /\ wire = <<>>
  /\ lobby = [hidden |-> FALSE, version |-> 1]
  /\ view = 0 /\ fetches = FirstFetch /\ edit = Idle
  /\ closed = FALSE /\ cuts = 0

-----------------------------------------------------------------------------
(* The server: a change commits, and its handler publishes it afterwards. *)

Commit(mode) ==
  /\ open /\ Version < MaxVersion
  /\ hidden' = Append(hidden, mode)
  /\ UNCHANGED open

\* A queue command of another member, published with the snapshot it read.
ChangeQueue ==
  /\ Commit(hidden[Version])
  /\ outbox' = outbox \cup {Event("queue.updated", Version + 1)}
  /\ UNCHANGED <<socketVars, panelVars, cuts>>

\* A playback command that moved the queue: its handler reads the queue again.
AdvanceQueue ==
  /\ Commit(hidden[Version])
  /\ outbox' = outbox \cup {Event("reread", Version + 1)}
  /\ UNCHANGED <<socketVars, panelVars, cuts>>

RereadQueue(e) ==
  /\ e.type = "reread"
  /\ outbox' = (outbox \ {e}) \cup IF open THEN {Event("queue.updated", Version)} ELSE {}
  /\ UNCHANGED <<open, hidden, socketVars, panelVars, cuts>>

\* The creator's PATCH of the settings.
SwitchMode ==
  /\ Commit(~hidden[Version])
  /\ outbox' = outbox \cup {Event("settings.updated", Version + 1)}
  /\ UNCHANGED <<socketVars, panelVars, cuts>>

\* The close route publishes the end, unless its purge failed; the sweep does not.
EndLobby(published) ==
  /\ open
  /\ open' = FALSE
  /\ outbox' = outbox \cup IF published THEN {Event("closed", 0)} ELSE {}
  /\ UNCHANGED <<hidden, socketVars, panelVars, cuts>>

\* Slip: a playback handler publishes its own answer instead of reading the queue.
PublishUnread(e) ==
  /\ outbox' = outbox \ {e}
  /\ wire' = IF room = "joined" THEN Append(wire, e) ELSE wire
  /\ UNCHANGED <<open, hidden, room, joinAt, panelVars, cuts>>

\* Handlers publish in any order, and only to the sockets that are in the room.
Publish(e) ==
  /\ e.type # "reread"
  /\ outbox' = outbox \ {e}
  /\ wire' = IF room = "joined" THEN Append(wire, e) ELSE wire
  /\ UNCHANGED <<open, hidden, room, joinAt, panelVars, cuts>>

-----------------------------------------------------------------------------
(* The socket: queue:join reads a snapshot, then joins the room and sends it. *)

\* A socket refused by queue:join is disconnected by the server, and stays so.
AskToJoin ==
  /\ ~closed /\ room = "down"
  /\ room' = IF open THEN "joining" ELSE "refused"
  /\ joinAt' = IF open THEN Version ELSE 0
  /\ UNCHANGED <<serverVars, wire, panelVars, cuts>>

JoinRoom ==
  /\ room = "joining"
  /\ room' = "joined"
  /\ joinAt' = 0
  /\ wire' = Append(wire, Event("queue.snapshot", joinAt))
  /\ UNCHANGED <<serverVars, panelVars, cuts>>

-----------------------------------------------------------------------------
(* The panel. *)

\* Slip: the panel is not keyed by the mode, and shows what its old self asked for.
RemountUnkeyed(v) ==
  /\ lobby' = [hidden |-> hidden[v], version |-> v]
  /\ view' = 0
  /\ fetches' = FirstFetch /\ edit' = edit
  /\ room' = "down" /\ joinAt' = 0 /\ wire' = <<>>

\* observeLobbySettings met another mode: the panel's key changes, and a new
\* panel mounts with that version as its minimum.  The old one's socket is
\* disconnected and what its requests are answered is dropped.
Remount(v) ==
  /\ lobby' = [hidden |-> hidden[v], version |-> v]
  /\ view' = 0
  /\ fetches' = FirstFetch /\ edit' = Idle
  /\ room' = "down" /\ joinAt' = 0 /\ wire' = <<>>

\* Slip: the version of the setting itself is refused.
StaleOrEqual(v) == v <= lobby.version

\* A snapshot is ignored when it is older than the minimum, and changes the
\* mode first when it has another one.
Stale(v) == v < lobby.version
OtherMode(v) == hidden[v] # lobby.hidden

\* The timer's poll.
Poll(s) ==
  /\ ~closed /\ fetches[s] = Idle
  /\ fetches' = [fetches EXCEPT ![s] = Sent]
  /\ UNCHANGED <<serverVars, socketVars, lobby, view, edit, closed, cuts>>

\* getSnapshot, or its refusal once the lobby is not open.
ServeFetch(s) ==
  /\ fetches[s] = Sent
  /\ fetches' = [fetches EXCEPT ![s] = IF open THEN Version ELSE Idle]
  /\ UNCHANGED <<serverVars, socketVars, lobby, view, edit, closed, cuts>>

\* loadSnapshot's answer replaces the snapshot on the screen, newer or not.
AnswerFetch(s) ==
  LET v == fetches[s] IN
  /\ v > 0
  /\ \/ /\ ~Stale(v) /\ OtherMode(v) /\ Remount(v)
     \/ /\ Stale(v) \/ ~OtherMode(v)
        /\ IF Stale(v) THEN UNCHANGED view ELSE view' = v
        /\ fetches' = [fetches EXCEPT ![s] = Idle]
        /\ UNCHANGED <<lobby, edit, socketVars>>
  /\ UNCHANGED <<serverVars, closed, cuts>>

\* The member adds a track, or edits what is on the screen, one request at a time.  An
\* addition needs no snapshot, so an edit may come before the first.
Edit ==
  /\ ~closed /\ edit = Idle
  /\ edit' = Sent
  /\ UNCHANGED <<serverVars, socketVars, lobby, view, fetches, closed, cuts>>

\* It succeeds and is published like any other, or is refused with a snapshot.
ServeEdit ==
  /\ edit = Sent
  /\ \/ /\ Commit(hidden[Version])
        /\ edit' = Version + 1
        /\ outbox' = outbox \cup {Event("queue.updated", Version + 1)}
     \/ /\ edit' = IF open THEN Version ELSE Idle
        /\ UNCHANGED serverVars
  /\ UNCHANGED <<socketVars, lobby, view, fetches, closed, cuts>>

\* mutateQueue shows the answer without comparing versions or modes.
AnswerEdit ==
  /\ edit > 0
  /\ view' = edit
  /\ edit' = Idle
  /\ UNCHANGED <<serverVars, socketVars, lobby, fetches, closed, cuts>>

Received == Head(wire)

\* queue:event: an update that leaves a gap reloads, an older snapshot is ignored.
QueueEvent ==
  LET v == Received.at
      gap == /\ view # 0 /\ v > view + 1
             /\ Received.type = "queue.updated"
  IN
  /\ wire # <<>> /\ Received.type \in {"queue.snapshot", "queue.updated"}
  /\ \/ /\ ~Stale(v) /\ OtherMode(v) /\ Remount(v)
     \/ /\ Stale(v) \/ ~OtherMode(v)
        /\ wire' = Tail(wire)
        /\ \/ /\ gap /\ ~Stale(v)
              /\ \E s \in Slots : fetches[s] = Idle /\ fetches' = [fetches EXCEPT ![s] = Sent]
              /\ UNCHANGED view
           \/ /\ ~gap \/ Stale(v)
              /\ IF Stale(v) \/ v < view THEN UNCHANGED view ELSE view' = v
              /\ UNCHANGED fetches
        /\ UNCHANGED <<lobby, edit, room, joinAt>>
  /\ UNCHANGED <<serverVars, closed, cuts>>

\* lobby:event with the settings: only the mode is compared.
SettingsEvent ==
  /\ wire # <<>> /\ Received.type = "settings.updated"
  /\ IF OtherMode(Received.at)
     THEN Remount(Received.at)
     ELSE /\ wire' = Tail(wire)
          /\ UNCHANGED <<lobby, view, fetches, edit, room, joinAt>>
  /\ UNCHANGED <<serverVars, closed, cuts>>

\* lobby:event of the close: the final screen unmounts the panel.
ClosedEvent ==
  /\ wire # <<>> /\ Received.type = "closed"
  /\ closed' = TRUE
  /\ view' = 0 /\ fetches' = [s \in Slots |-> Idle] /\ edit' = Idle
  /\ room' = "down" /\ joinAt' = 0 /\ wire' = <<>>
  /\ UNCHANGED <<serverVars, lobby, cuts>>

-----------------------------------------------------------------------------
(* Faults: the network of the browser is cut, or the API stops and restarts. *)

\* The socket and the requests under way are lost; socket.io connects again.
Lose ==
  /\ ~closed /\ cuts < MaxCuts
  /\ cuts' = cuts + 1
  /\ room' = "down" /\ joinAt' = 0 /\ wire' = <<>>
  /\ fetches' = [s \in Slots |-> Idle] /\ edit' = Idle
  /\ UNCHANGED <<open, hidden, lobby, view, closed>>

CutNetwork == Lose /\ UNCHANGED outbox

RestartApi == Lose /\ outbox' = {}

-----------------------------------------------------------------------------
ServerNext ==
  \/ ChangeQueue \/ AdvanceQueue \/ SwitchMode
  \/ \E published \in BOOLEAN : EndLobby(published)
  \/ \E e \in outbox : RereadQueue(e) \/ Publish(e)

PanelNext ==
  \/ \E s \in Slots : Poll(s) \/ ServeFetch(s) \/ AnswerFetch(s)
  \/ Edit \/ ServeEdit \/ AnswerEdit
  \/ QueueEvent \/ SettingsEvent \/ ClosedEvent

ViewNext ==
  \/ ServerNext
  \/ AskToJoin \/ JoinRoom
  \/ PanelNext
  \/ CutNetwork \/ RestartApi

ViewSpec == ViewInit /\ [][ViewNext]_vars

\* setInterval polls for as long as the panel is mounted, and a request ends.
PollingFairness ==
  /\ \A s \in Slots : WF_vars(Poll(s)) /\ WF_vars(ServeFetch(s)) /\ WF_vars(AnswerFetch(s))

\* Handlers publish what they committed, socket.io connects again and delivers.
RealtimeFairness ==
  /\ WF_vars(\E e \in outbox : RereadQueue(e) \/ Publish(e))
  /\ WF_vars(AskToJoin) /\ WF_vars(JoinRoom)
  /\ WF_vars(QueueEvent) /\ WF_vars(SettingsEvent) /\ WF_vars(ClosedEvent)

PollingSpec == ViewSpec /\ PollingFairness
RealtimeSpec == PollingSpec /\ RealtimeFairness

-----------------------------------------------------------------------------
\* The snapshot on the screen is never older than the setting the panel was
\* mounted for, whichever road it took: not by an answer that a previous
\* panel asked for, and not by an event published late (App.tsx 447-449, 604).
\* What the browser is told and the render it causes are one step.
ViewNotOlderThanSetting == view # 0 => view >= lobby.version

\* Once nothing changes any more, polling alone brings the screen to the
\* queue as it is, in its mode, whatever was lost or came late (App.tsx 690).
ViewCatchesUp ==
  <>[]open => <>[](view = Version /\ lobby.hidden = hidden[Version])

\* What the documentation says of snapshots from before a setting the browser has
\* observed: once the screen shows that the queue is hidden, the visible queue of
\* an earlier version does not come back on it.
HiddenStaysHidden ==
  [][view # 0 /\ hidden[view] /\ view' # 0 /\ ~hidden'[view'] => view' > view]_vars

\* What the documentation says of a close: its event, emitted after the commit,
\* moves the browsers to the final screen.
ClosedIsShown == Event("closed", 0) \in outbox ~> closed
=============================================================================
