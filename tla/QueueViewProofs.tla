---------------------------- MODULE QueueViewProofs ----------------------------
(* QueueView: the screen never shows a snapshot older than the setting that    *)
(* its panel was mounted for, with any number of polls, versions and cuts.     *)
EXTENDS QueueView, TLAPS

\* What is under way was read from a version that has been committed.
Known(v) == v \in 1..Version

EventKnown(e) == e.type = "closed" \/ Known(e.at)

InFlightKnown ==
  /\ \A e \in outbox : EventKnown(e)
  /\ \A i \in 1..Len(wire) : EventKnown(wire[i])
  /\ room = "joining" => Known(joinAt)
  /\ \A s \in Slots : fetches[s] <= Version
  /\ edit <= Version
  /\ view <= Version
  /\ lobby.version <= Version

\* An answer on its way to the panel is no older than the panel itself.
EditsOfThisPanel == edit > 0 => edit >= lobby.version

ViewInv == ViewTypeOK /\ InFlightKnown /\ EditsOfThisPanel /\ ViewNotOlderThanSetting

USE ViewAssumption

LEMMA RemountKeeps ==
  ASSUME ViewInv, NEW v, Known(v), Remount(v), UNCHANGED <<serverVars, closed, cuts>>
  PROVE  ViewInv'
<1>1. /\ Version' = Version /\ Version \in Nat /\ v \in 1..MaxVersion
      /\ hidden[v] \in BOOLEAN
  BY DEF ViewInv, ViewTypeOK, Known, Version, serverVars
<1>2. ViewTypeOK'
  BY <1>1 DEF ViewInv, ViewTypeOK, Remount, FirstFetch, Slots, Requests, Idle, Sent, serverVars,
     Published, Version
<1>3. InFlightKnown'
  BY <1>1 DEF ViewInv, ViewTypeOK, InFlightKnown, EventKnown, Known, Remount, FirstFetch, Slots,
     Idle, Sent, serverVars
<1> QED
  BY <1>2, <1>3 DEF ViewInv, EditsOfThisPanel, ViewNotOlderThanSetting, Remount, Idle

\* A commit only adds a version: what was known stays known.
LEMMA CommitKeeps ==
  ASSUME ViewInv, NEW mode \in BOOLEAN, Commit(mode)
  PROVE  /\ Version \in Nat /\ Version' = Version + 1 /\ Version' \in 1..MaxVersion
         /\ hidden' \in Seq(BOOLEAN) /\ open' \in BOOLEAN
  BY DEF ViewInv, ViewTypeOK, Commit, Version

LEMMA ServerKeeps == ViewInv /\ ServerNext => ViewInv'
<1> SUFFICES ASSUME ViewInv, ServerNext PROVE ViewInv'
  OBVIOUS
<1> USE DEF ViewInv
<1>0. Version \in Nat /\ hidden[Version] \in BOOLEAN /\ Version \in 1..MaxVersion
  BY DEF ViewTypeOK, Version
<1>1. ASSUME NEW mode \in BOOLEAN, NEW type \in {"queue.updated", "settings.updated", "reread"},
             Commit(mode), outbox' = outbox \cup {Event(type, Version + 1)},
             UNCHANGED <<socketVars, panelVars, cuts>>
      PROVE  ViewInv'
  <2>1. /\ Version' = Version + 1 /\ Version' \in 1..MaxVersion
        /\ hidden' \in Seq(BOOLEAN) /\ open' \in BOOLEAN
    BY <1>1, CommitKeeps
  <2>2. ViewTypeOK'
    BY <1>0, <1>1, <2>1 DEF ViewTypeOK, socketVars, panelVars, Event, Unpublished
  <2>3. InFlightKnown'
    BY <1>0, <1>1, <2>1 DEF ViewTypeOK, InFlightKnown, EventKnown, Known, socketVars, panelVars, Event,
       Requests, Idle, Slots
  <2> QED
    BY <1>1, <2>2, <2>3 DEF EditsOfThisPanel, ViewNotOlderThanSetting, panelVars
<1>2. CASE ChangeQueue
  BY <1>0, <1>1, <1>2 DEF ChangeQueue
<1>3. CASE AdvanceQueue
  BY <1>0, <1>1, <1>3 DEF AdvanceQueue
<1>4. CASE SwitchMode
  BY <1>0, <1>1, <1>4 DEF SwitchMode
<1>5. ASSUME open' \in BOOLEAN, UNCHANGED <<hidden, room, joinAt, panelVars, cuts>>,
             outbox' \subseteq Unpublished, wire' \in Seq(Published),
             \A e \in outbox' : EventKnown(e), \A i \in 1..Len(wire') : EventKnown(wire'[i])
      PROVE  ViewInv'
  <2>1. ViewTypeOK'
    BY <1>5 DEF ViewTypeOK, panelVars, Version
  <2>2. InFlightKnown'
    BY <1>5 DEF InFlightKnown, EventKnown, Known, panelVars, Version
  <2> QED
    BY <1>5, <2>1, <2>2 DEF EditsOfThisPanel, ViewNotOlderThanSetting, panelVars
<1>6. ASSUME NEW published \in BOOLEAN, EndLobby(published)
      PROVE  ViewInv'
  <2>1. outbox' \subseteq Unpublished /\ \A e \in outbox' : EventKnown(e)
    BY <1>6 DEF EndLobby, ViewTypeOK, InFlightKnown, EventKnown, Event, Unpublished
  <2> QED
    BY <1>5, <1>6, <2>1 DEF EndLobby, ViewTypeOK, InFlightKnown, socketVars
<1>7. ASSUME NEW e \in outbox, RereadQueue(e)
      PROVE  ViewInv'
  <2>1. outbox' \subseteq Unpublished /\ \A f \in outbox' : EventKnown(f)
    BY <1>0, <1>7 DEF RereadQueue, ViewTypeOK, InFlightKnown, EventKnown, Known, Event, Unpublished
  <2> QED
    BY <1>5, <1>7, <2>1 DEF RereadQueue, ViewTypeOK, InFlightKnown, socketVars
<1>8. ASSUME NEW e \in outbox, Publish(e)
      PROVE  ViewInv'
  <2>1. e \in Published /\ EventKnown(e)
    BY <1>8 DEF Publish, ViewTypeOK, Unpublished, Published, InFlightKnown
  <2>2. wire' \in Seq(Published) /\ \A i \in 1..Len(wire') : EventKnown(wire'[i])
    BY <1>8, <2>1 DEF Publish, ViewTypeOK, InFlightKnown
  <2> QED
    BY <1>5, <1>8, <2>2 DEF Publish, ViewTypeOK, InFlightKnown
<1> QED
  BY <1>2, <1>3, <1>4, <1>6, <1>7, <1>8 DEF ServerNext

LEMMA SocketKeeps == ViewInv /\ (AskToJoin \/ JoinRoom) => ViewInv'
<1> SUFFICES ASSUME ViewInv, AskToJoin \/ JoinRoom PROVE ViewInv'
  OBVIOUS
<1> USE DEF ViewInv
<1>0. Version \in Nat /\ Version \in 1..MaxVersion
  BY DEF ViewTypeOK
<1>1. CASE AskToJoin
  <2>1. ViewTypeOK'
    BY <1>0, <1>1 DEF AskToJoin, ViewTypeOK, serverVars, panelVars, Version
  <2>2. InFlightKnown'
    BY <1>0, <1>1 DEF AskToJoin, InFlightKnown, EventKnown, Known, serverVars, panelVars, Version
  <2> QED
    BY <1>1, <2>1, <2>2 DEF AskToJoin, EditsOfThisPanel, ViewNotOlderThanSetting, panelVars
<1>2. CASE JoinRoom
  <2> DEFINE e == Event("queue.snapshot", joinAt)
  <2>1. e \in Published /\ EventKnown(e)
    BY <1>2 DEF JoinRoom, ViewTypeOK, InFlightKnown, EventKnown, Event, Published
  <2>2. wire' = Append(wire, e)
    BY <1>2 DEF JoinRoom
  <2>3. ViewTypeOK'
    BY <1>2, <2>1, <2>2 DEF JoinRoom, ViewTypeOK, serverVars, panelVars, Version
  <2>4. InFlightKnown'
    BY <1>2, <2>1, <2>2 DEF JoinRoom, ViewTypeOK, InFlightKnown, EventKnown, Known, serverVars,
       panelVars, Version
  <2> QED
    BY <1>2, <2>3, <2>4 DEF JoinRoom, EditsOfThisPanel, ViewNotOlderThanSetting, panelVars
<1> QED
  BY <1>1, <1>2

\* The event at the head of the wire is known, and so are the ones behind it.
LEMMA ReceivedKnown ==
  ASSUME ViewInv, wire # <<>>
  PROVE  /\ Received \in Published /\ EventKnown(Received)
         /\ Tail(wire) \in Seq(Published)
         /\ \A i \in 1..Len(Tail(wire)) : EventKnown(Tail(wire)[i])
<1>1. /\ wire \in Seq(Published) /\ Len(wire) \in Nat \ {0}
      /\ \A i \in 1..Len(wire) : EventKnown(wire[i])
  BY DEF ViewInv, ViewTypeOK, InFlightKnown
<1>2. /\ Tail(wire) \in Seq(Published) /\ Len(Tail(wire)) = Len(wire) - 1
      /\ \A i \in 1..Len(wire) - 1 : Tail(wire)[i] = wire[i + 1]
      /\ Received = wire[1]
  BY <1>1 DEF Received
<1>3. \A i \in 1..Len(Tail(wire)) : i + 1 \in 1..Len(wire) /\ Tail(wire)[i] = wire[i + 1]
  BY <1>1, <1>2
<1>4. wire[1] \in Published /\ 1 \in 1..Len(wire)
  BY <1>1
<1> QED
  BY <1>1, <1>2, <1>3, <1>4

\* Steps that leave the screen: requests go and come, events are dropped.
LEMMA ScreenKeeps ==
  ASSUME ViewInv, UNCHANGED <<serverVars, room, joinAt, lobby, view, closed, cuts>>,
         (wire' = wire) \/ (wire # <<>> /\ wire' = Tail(wire)),
         fetches' \in [Slots -> Requests], \A s \in Slots : fetches'[s] <= Version,
         edit' \in Requests, edit' <= Version, edit' > 0 => edit' >= lobby.version
  PROVE  ViewInv'
<1>0. wire' \in Seq(Published) /\ \A i \in 1..Len(wire') : EventKnown(wire'[i])
  BY ReceivedKnown DEF ViewInv, ViewTypeOK, InFlightKnown
<1>1. ViewTypeOK'
  BY <1>0 DEF ViewInv, ViewTypeOK, serverVars, Version
<1>2. InFlightKnown'
  BY <1>0 DEF ViewInv, InFlightKnown, EventKnown, Known, serverVars, Version
<1> QED
  BY <1>1, <1>2 DEF ViewInv, EditsOfThisPanel, ViewNotOlderThanSetting

\* Steps that show the snapshot of a known version not older than the panel.
LEMMA ShowKeeps ==
  ASSUME ViewInv, NEW v, Known(v), v >= lobby.version, view' = v,
         UNCHANGED <<serverVars, room, joinAt, lobby, closed, cuts>>,
         fetches' \in [Slots -> Requests], \A s \in Slots : fetches'[s] <= Version,
         edit' \in {edit, Idle}, (wire' = wire) \/ (wire # <<>> /\ wire' = Tail(wire))
  PROVE  ViewInv'
<1>1. Version \in 1..MaxVersion /\ Version' = Version
  BY DEF ViewInv, ViewTypeOK, serverVars, Version
<1>2. wire' \in Seq(Published) /\ \A i \in 1..Len(wire') : EventKnown(wire'[i])
  <2>1. CASE wire' = wire
    BY <2>1 DEF ViewInv, ViewTypeOK, InFlightKnown
  <2>2. CASE wire # <<>> /\ wire' = Tail(wire)
    BY <2>2, ReceivedKnown
  <2> QED
    BY <2>1, <2>2
<1>3. ViewTypeOK'
  BY <1>1, <1>2 DEF ViewInv, ViewTypeOK, serverVars, Known, Requests, Idle
<1>4. InFlightKnown'
  BY <1>1, <1>2 DEF ViewInv, ViewTypeOK, InFlightKnown, EventKnown, Known, serverVars, Idle,
     Requests
<1> QED
  BY <1>3, <1>4 DEF ViewInv, EditsOfThisPanel, ViewNotOlderThanSetting, Idle

LEMMA FetchesKeep ==
  ASSUME ViewInv, NEW s \in Slots, Poll(s) \/ ServeFetch(s) \/ AnswerFetch(s)
  PROVE  ViewInv'
<1>0. /\ Version \in 1..MaxVersion /\ MaxVersion \in Nat /\ fetches \in [Slots -> Requests]
      /\ lobby.version \in 1..MaxVersion /\ edit \in Requests /\ edit <= Version
      /\ edit > 0 => edit >= lobby.version
      /\ \A t \in Slots : fetches[t] <= Version
  BY DEF ViewInv, ViewTypeOK, InFlightKnown, EditsOfThisPanel
<1>1. CASE Poll(s)
  <2>1. fetches' \in [Slots -> Requests] /\ \A t \in Slots : fetches'[t] <= Version
    BY <1>0, <1>1 DEF Poll, Requests, Sent, Idle
  <2> QED
    BY <1>0, <1>1, <2>1, ScreenKeeps DEF Poll, socketVars
<1>2. CASE ServeFetch(s)
  <2>1. fetches' \in [Slots -> Requests] /\ \A t \in Slots : fetches'[t] <= Version
    BY <1>0, <1>2 DEF ServeFetch, Requests, Sent, Idle
  <2> QED
    BY <1>0, <1>2, <2>1, ScreenKeeps DEF ServeFetch, socketVars
<1>3. CASE AnswerFetch(s)
  <2> DEFINE v == fetches[s]
  <2>1. Known(v)
    BY <1>0, <1>3 DEF AnswerFetch, Known, Requests, Idle
  <2>2. CASE Remount(v)
    BY <1>3, <2>1, <2>2, RemountKeeps DEF AnswerFetch
  <2>3. CASE ~Remount(v)
    <3>1. fetches' \in [Slots -> Requests] /\ \A t \in Slots : fetches'[t] <= Version
      BY <1>0, <1>3, <2>3 DEF AnswerFetch, Requests, Idle
    <3>2. CASE Stale(v)
      BY <1>0, <1>3, <2>3, <3>1, <3>2, ScreenKeeps DEF AnswerFetch, socketVars
    <3>3. CASE ~Stale(v)
      <4>1. v >= lobby.version
        BY <1>0, <2>1, <3>3 DEF Stale, Known
      <4> QED
        BY <1>3, <2>1, <2>3, <3>1, <3>3, <4>1, ShowKeeps DEF AnswerFetch, socketVars
    <3> QED
      BY <3>2, <3>3
  <2> QED
    BY <2>2, <2>3
<1> QED
  BY <1>1, <1>2, <1>3

LEMMA EditsKeep == ViewInv /\ (Edit \/ ServeEdit \/ AnswerEdit) => ViewInv'
<1> SUFFICES ASSUME ViewInv, Edit \/ ServeEdit \/ AnswerEdit PROVE ViewInv'
  OBVIOUS
<1>0. /\ Version \in 1..MaxVersion /\ MaxVersion \in Nat /\ fetches \in [Slots -> Requests]
      /\ lobby.version \in 1..MaxVersion /\ edit \in Requests /\ edit <= Version
      /\ edit > 0 => edit >= lobby.version
      /\ lobby.version <= Version
      /\ \A t \in Slots : fetches[t] <= Version
  BY DEF ViewInv, ViewTypeOK, InFlightKnown, EditsOfThisPanel
<1>1. CASE Edit
  BY <1>0, <1>1, ScreenKeeps DEF Edit, socketVars, Requests, Sent, Idle
<1>2. CASE ServeEdit
  <2>1. CASE edit' = (IF open THEN Version ELSE Idle) /\ UNCHANGED serverVars
    BY <1>0, <1>2, <2>1, ScreenKeeps DEF ServeEdit, socketVars, Requests, Idle
  <2>2. CASE /\ Commit(hidden[Version]) /\ edit' = Version + 1
             /\ outbox' = outbox \cup {Event("queue.updated", Version + 1)}
    <3>1. hidden[Version] \in BOOLEAN
      BY <1>0 DEF ViewInv, ViewTypeOK, Version
    <3>2. /\ Version' = Version + 1 /\ Version' \in 1..MaxVersion
          /\ hidden' \in Seq(BOOLEAN) /\ open' \in BOOLEAN
      BY <2>2, <3>1, CommitKeeps
    <3>3. ViewTypeOK'
      BY <1>0, <1>2, <2>2, <3>2 DEF ServeEdit, ViewInv, ViewTypeOK, socketVars, Event, Unpublished,
         Requests, Idle
    <3>4. InFlightKnown'
      BY <1>0, <1>2, <2>2, <3>2 DEF ServeEdit, ViewInv, ViewTypeOK, InFlightKnown, EventKnown, Known,
         socketVars, Event, Requests, Idle, Slots
    <3> QED
      BY <1>0, <1>2, <2>2, <3>3, <3>4 DEF ServeEdit, ViewInv, EditsOfThisPanel,
         ViewNotOlderThanSetting
  <2> QED
    BY <1>2, <2>1, <2>2 DEF ServeEdit
<1>3. CASE AnswerEdit
  <2>1. Known(edit) /\ edit >= lobby.version
    BY <1>0, <1>3 DEF AnswerEdit, Known, Requests, Idle
  <2> QED
    BY <1>0, <1>3, <2>1, ShowKeeps DEF AnswerEdit, socketVars
<1> QED
  BY <1>1, <1>2, <1>3

LEMMA EventsKeep == ViewInv /\ (QueueEvent \/ SettingsEvent \/ ClosedEvent) => ViewInv'
<1> SUFFICES ASSUME ViewInv, QueueEvent \/ SettingsEvent \/ ClosedEvent PROVE ViewInv'
  OBVIOUS
<1>0. /\ Version \in 1..MaxVersion /\ MaxVersion \in Nat /\ fetches \in [Slots -> Requests]
      /\ lobby.version \in 1..MaxVersion /\ edit \in Requests /\ edit <= Version
      /\ edit > 0 => edit >= lobby.version
      /\ \A t \in Slots : fetches[t] <= Version
  BY DEF ViewInv, ViewTypeOK, InFlightKnown, EditsOfThisPanel
<1> DEFINE v == Received.at
<1>1. CASE QueueEvent
  <2>1. Known(v) /\ wire # <<>>
    BY <1>1, ReceivedKnown DEF QueueEvent, EventKnown
  <2>2. CASE Remount(v)
    BY <1>1, <2>1, <2>2, RemountKeeps DEF QueueEvent
  <2>3. CASE ~Remount(v)
    <3>1. /\ wire' = Tail(wire)
          /\ UNCHANGED <<serverVars, room, joinAt, lobby, edit, closed, cuts>>
          /\ fetches' \in [Slots -> Requests] /\ \A t \in Slots : fetches'[t] <= Version
          /\ view' = view \/ (~Stale(v) /\ view' = v)
      BY <1>0, <1>1, <2>3 DEF QueueEvent, Requests, Sent, Idle
    <3>2. CASE view' = view
      <4>1. edit' = edit
        BY <3>1
      <4> QED
        BY <1>0, <2>1, <3>1, <3>2, <4>1, ScreenKeeps
    <3>3. CASE ~Stale(v) /\ view' = v
      <4>1. v >= lobby.version
        BY <1>0, <2>1, <3>3 DEF Stale, Known
      <4> QED
        BY <2>1, <3>1, <3>3, <4>1, ShowKeeps
    <3> QED
      BY <3>1, <3>2, <3>3
  <2> QED
    BY <2>2, <2>3
<1>2. CASE SettingsEvent
  <2>1. Known(v) /\ wire # <<>>
    BY <1>2, ReceivedKnown DEF SettingsEvent, EventKnown
  <2>2. CASE OtherMode(v)
    BY <1>2, <2>1, <2>2, RemountKeeps DEF SettingsEvent
  <2>3. CASE ~OtherMode(v)
    BY <1>0, <1>2, <2>1, <2>3, ScreenKeeps DEF SettingsEvent
  <2> QED
    BY <2>2, <2>3
<1>3. CASE ClosedEvent
  <2>1. ViewTypeOK'
    BY <1>0, <1>3 DEF ClosedEvent, ViewInv, ViewTypeOK, serverVars, Requests, Idle, Version
  <2>2. InFlightKnown'
    BY <1>0, <1>3 DEF ClosedEvent, ViewInv, InFlightKnown, EventKnown, Known, serverVars, Idle,
       Version, Slots
  <2> QED
    BY <1>3, <2>1, <2>2 DEF ClosedEvent, ViewInv, EditsOfThisPanel, ViewNotOlderThanSetting, Idle
<1> QED
  BY <1>1, <1>2, <1>3

LEMMA FaultsKeep == ViewInv /\ (CutNetwork \/ RestartApi) => ViewInv'
<1> SUFFICES ASSUME ViewInv, CutNetwork \/ RestartApi PROVE ViewInv'
  OBVIOUS
<1>0. /\ Version \in 1..MaxVersion /\ MaxVersion \in Nat /\ Lose /\ outbox' \in {outbox, {}}
      /\ cuts \in 0..MaxCuts /\ MaxCuts \in Nat
  BY DEF ViewInv, ViewTypeOK, CutNetwork, RestartApi
<1>1. ViewTypeOK'
  BY <1>0 DEF Lose, ViewInv, ViewTypeOK, Requests, Idle, Version
<1>2. InFlightKnown'
  BY <1>0 DEF Lose, ViewInv, InFlightKnown, EventKnown, Known, Idle, Version, Slots
<1> QED
  BY <1>0, <1>1, <1>2 DEF Lose, ViewInv, EditsOfThisPanel, ViewNotOlderThanSetting, Idle

\* The inductive invariant: types, and nothing under way is from the future
\* or, when the panel will show it unread, from before the panel.
THEOREM ViewInvariant == ViewSpec => []ViewInv
<1>1. ViewInit => ViewInv
  <2> SUFFICES ASSUME ViewInit PROVE ViewInv
    OBVIOUS
  <2>1. hidden \in Seq(BOOLEAN) /\ Version = 1 /\ wire \in Seq(Published) /\ Len(wire) = 0
    BY DEF ViewInit, Version
  <2>2. fetches \in [Slots -> Requests] /\ \A s \in Slots : fetches[s] <= 1
    BY DEF ViewInit, FirstFetch, Slots, Requests, Idle, Sent
  <2>3. ViewTypeOK
    <3>1. lobby \in [hidden: BOOLEAN, version: 1..MaxVersion]
      BY DEF ViewInit
    <3>2. edit \in Requests
      BY DEF ViewInit, Requests, Idle
    <3>3. open \in BOOLEAN /\ closed \in BOOLEAN
      BY DEF ViewInit
    <3>4. /\ joinAt \in 0..MaxVersion /\ view \in 0..MaxVersion
          /\ cuts \in 0..MaxCuts /\ Version \in 1..MaxVersion /\ outbox \subseteq Unpublished
          /\ room \in {"down", "joining", "joined", "refused"}
      BY <2>1 DEF ViewInit
    <3> QED
      BY <2>1, <2>2, <3>1, <3>2, <3>3, <3>4 DEF ViewTypeOK
  <2>4. InFlightKnown
    BY <2>1, <2>2 DEF ViewInit, InFlightKnown, EventKnown, Known, Idle
  <2> QED
    BY <2>3, <2>4 DEF ViewInit, ViewInv, EditsOfThisPanel, ViewNotOlderThanSetting, Idle
<1>2. ViewInv /\ [ViewNext]_vars => ViewInv'
  <2> SUFFICES ASSUME ViewInv, [ViewNext]_vars PROVE ViewInv'
    OBVIOUS
  <2>1. CASE ServerNext
    BY <2>1, ServerKeeps
  <2>2. CASE AskToJoin \/ JoinRoom
    BY <2>2, SocketKeeps
  <2>3. CASE PanelNext
    BY <2>3, FetchesKeep, EditsKeep, EventsKeep DEF PanelNext
  <2>4. CASE CutNetwork \/ RestartApi
    BY <2>4, FaultsKeep
  <2>5. CASE UNCHANGED vars
    BY <2>5 DEF vars, serverVars, socketVars, panelVars, ViewInv, ViewTypeOK, InFlightKnown,
       EventKnown, Known, EditsOfThisPanel, ViewNotOlderThanSetting, Version
  <2> QED
    BY <2>1, <2>2, <2>3, <2>4, <2>5 DEF ViewNext
<1> QED
  BY <1>1, <1>2, PTL DEF ViewSpec

\* ViewTypeOK, for any number of versions, requests and cuts.
THEOREM ViewTypeCorrect == ViewSpec => []ViewTypeOK
  BY ViewInvariant, PTL DEF ViewInv

\* ViewNotOlderThanSetting: answers that outlive their panel, late polls and
\* late events never bring back a queue from before the setting.
THEOREM SettingComesFirst == ViewSpec => []ViewNotOlderThanSetting
  BY ViewInvariant, PTL DEF ViewInv
=============================================================================
