------------------------- MODULE LobbyLifecycleProofs -------------------------
(***************************************************************************)
(* Lobbies end once and are closed by one request, for any number of       *)
(* lobbies and of closes and any batch size.  Liveness is only checked.    *)
(***************************************************************************)
EXTENDS LobbyLifecycle, TLAPS

USE LifecycleAssumption

\* A close that has ended the lobby, whether it has answered yet or not.
Won(c) == close[c].pc = "revoking" \/ close[c].answer = "closed"

\* What makes OneCloseSucceeds and ClosedMeansPurged inductive: the close that
\* won is known from the moment it wrote the lobby row.
ClosesOK ==
  /\ \A c \in Closes : Won(c) => status[close[c].lobby] = "closed"
  /\ \A c, d \in Closes :
       Won(c) /\ Won(d) /\ close[c].lobby = close[d].lobby => c = d
  /\ \A c \in Closes : close[c].answer = "closed" => ~connections[close[c].lobby]
  /\ \A c \in Closes : close[c].pc # "done" => close[c].answer = "none"

LifecycleInv == LifecycleTypeOK /\ NoCommandOnEndedLobby /\ ClosesOK

EndOnce == \A l \in Lobbies : status[l] # "open" => status'[l] = status[l]

-----------------------------------------------------------------------------
\* Nothing to show of the closes when they and the rows they speak of stay.
LEMMA ClosesStay ==
  ASSUME ClosesOK, UNCHANGED <<close, status, connections>>
  PROVE  ClosesOK'
BY DEF ClosesOK, Won

\* A command locks an open lobby only.
LEMMA CommandsKeep ==
  ASSUME LifecycleInv, NEW l \in Lobbies,
         \/ AskForLobby(l) \/ LockLobby(l) \/ EndCommand(l) \/ FallDue(l)
  PROVE  LifecycleInv' /\ EndOnce
<1>1. UNCHANGED <<close, status, connections>>
  BY DEF AskForLobby, LockLobby, EndCommand, CommitCommand, RollBackCommand, FallDue
<1>2. ClosesOK' /\ EndOnce
  BY <1>1, ClosesStay DEF LifecycleInv, EndOnce
<1>3. CASE AskForLobby(l)
  BY <1>2, <1>3 DEF LifecycleInv, LifecycleTypeOK, NoCommandOnEndedLobby, AskForLobby
<1>4. CASE LockLobby(l)
  <2>1. (status[l] = "open") \in BOOLEAN
    OBVIOUS
  <2>2. held' \in [Lobbies -> BOOLEAN] /\ asked' \in [Lobbies -> BOOLEAN]
    BY <1>4, <2>1 DEF LockLobby, LifecycleInv, LifecycleTypeOK
  <2>3. NoCommandOnEndedLobby'
    BY <1>4 DEF LockLobby, LifecycleInv, LifecycleTypeOK, NoCommandOnEndedLobby
  <2>. QED
    BY <1>2, <1>4, <2>2, <2>3 DEF LockLobby, LifecycleInv, LifecycleTypeOK
<1>5. ASSUME NEW claims \in BOOLEAN, CommitCommand(l, claims)
      PROVE  LifecycleInv'
  <2>1. (lease[l] \/ claims) \in BOOLEAN
    OBVIOUS
  <2>2. lease' \in [Lobbies -> BOOLEAN] /\ held' \in [Lobbies -> BOOLEAN]
    BY <1>5, <2>1 DEF CommitCommand, LifecycleInv, LifecycleTypeOK
  <2>3. NoCommandOnEndedLobby'
    BY <1>5 DEF CommitCommand, LifecycleInv, LifecycleTypeOK, NoCommandOnEndedLobby
  <2>. QED
    BY <1>2, <1>5, <2>2, <2>3 DEF CommitCommand, LifecycleInv, LifecycleTypeOK
<1>6. CASE RollBackCommand(l)
  BY <1>2, <1>6 DEF LifecycleInv, LifecycleTypeOK, NoCommandOnEndedLobby, RollBackCommand
<1>7. CASE FallDue(l)
  BY <1>2, <1>7 DEF LifecycleInv, LifecycleTypeOK, NoCommandOnEndedLobby, FallDue
<1>. QED
  BY <1>2, <1>3, <1>4, <1>5, <1>6, <1>7 DEF EndCommand

\* Of the closes of one lobby, the first to write wins and the others find it ended.
LEMMA CloseKeeps ==
  ASSUME LifecycleInv, NEW c \in Closes, Close(c)
  PROVE  LifecycleInv' /\ EndOnce
<1> DEFINE l == close[c].lobby
<1>1. /\ close \in [Closes -> [pc: Pcs, lobby: Lobbies, sawLease: BOOLEAN, answer: Answers]]
      /\ status \in [Lobbies -> {"open", "closed", "expired"}]
      /\ connections \in [Lobbies -> BOOLEAN] /\ lease \in [Lobbies -> BOOLEAN]
      /\ l \in Lobbies
  BY DEF LifecycleInv, LifecycleTypeOK
<1>2. ASSUME NEW pc \in Pcs, NEW answer \in Answers, Goes(c, pc, answer)
      PROVE  /\ close' \in [Closes -> [pc: Pcs, lobby: Lobbies, sawLease: BOOLEAN,
                                       answer: Answers]]
             /\ \A d \in Closes \ {c} : close'[d] = close[d]
             /\ close'[c].lobby = l /\ close'[c].pc = pc /\ close'[c].answer = answer
  BY <1>1, <1>2 DEF Goes
<1>3. CASE CloseReads(c)
  <2>1. CASE status[l] = "open" /\ ~due[l]
    <3>1. close' = [close EXCEPT ![c].pc = "waiting", ![c].sawLease = lease[l]]
      BY <1>3, <2>1 DEF CloseReads
    <3>2. lease[l] \in BOOLEAN
      BY <1>1
    <3>3. /\ close' \in [Closes -> [pc: Pcs, lobby: Lobbies, sawLease: BOOLEAN,
                                    answer: Answers]]
          /\ \A d \in Closes \ {c} : close'[d] = close[d]
          /\ close'[c].lobby = l /\ close'[c].pc = "waiting"
          /\ close'[c].answer = close[c].answer
      BY <1>1, <3>1, <3>2 DEF Pcs
    <3>4. close[c].answer = "none"
      BY <1>3 DEF CloseReads, LifecycleInv, ClosesOK
    <3>5. UNCHANGED <<up, status, due, asked, held, lease, connections, sweep>>
      BY <1>3 DEF CloseReads
    <3>6. LifecycleTypeOK'
      BY <3>3, <3>5 DEF LifecycleInv, LifecycleTypeOK
    <3>7. ~Won(c)'
      BY <3>3, <3>4 DEF Won
    <3>8. ClosesOK'
      BY <3>3, <3>4, <3>5, <3>7 DEF LifecycleInv, ClosesOK, Won
    <3>. QED
      BY <3>5, <3>6, <3>8 DEF LifecycleInv, NoCommandOnEndedLobby, EndOnce
  <2>2. CASE ~(status[l] = "open" /\ ~due[l])
    <3>1. Goes(c, "done", "LOBBY_NOT_FOUND")
      BY <1>3, <2>2 DEF CloseReads
    <3>2. UNCHANGED <<up, status, due, asked, held, lease, connections, sweep>>
      BY <1>3 DEF CloseReads
    <3>3. LifecycleTypeOK'
      BY <1>2, <3>1, <3>2 DEF LifecycleInv, LifecycleTypeOK, Pcs, Answers
    <3>4. ClosesOK'
      BY <1>2, <3>1, <3>2 DEF LifecycleInv, ClosesOK, Won, Pcs, Answers
    <3>. QED
      BY <3>2, <3>3, <3>4 DEF LifecycleInv, NoCommandOnEndedLobby, EndOnce
  <2>. QED
    BY <2>1, <2>2
<1>4. CASE CloseWrites(c)
  <2>1. CASE status[l] = "open"
    <3>1. PICK pc \in {"revoking", "done"} : Goes(c, pc, "none")
      BY <1>4, <2>1 DEF CloseWrites
    <3>2. /\ status' = [status EXCEPT ![l] = "closed"] /\ ~held[l]
          /\ UNCHANGED <<up, due, asked, held, connections, sweep>>
      BY <1>4, <2>1 DEF CloseWrites
    <3>3. lease' \in [Lobbies -> BOOLEAN]
      <4>1. (lease[l] /\ ~close[c].sawLease) \in BOOLEAN
        OBVIOUS
      <4>2. lease' = [lease EXCEPT ![l] = lease[l] /\ ~close[c].sawLease]
        BY <1>4, <2>1 DEF CloseWrites
      <4>. QED
        BY <1>1, <4>1, <4>2
    <3>4. \A d \in Closes \ {c} : Won(d)' => close[d].lobby # l
      BY <1>2, <2>1, <3>1 DEF LifecycleInv, ClosesOK, Won, Pcs, Answers
    <3>5. ClosesOK'
      BY <1>1, <1>2, <3>1, <3>2, <3>4 DEF LifecycleInv, ClosesOK, Won, Pcs, Answers
    <3>6. NoCommandOnEndedLobby' /\ EndOnce
      BY <1>1, <2>1, <3>2 DEF LifecycleInv, NoCommandOnEndedLobby, EndOnce
    <3>7. LifecycleTypeOK'
      BY <1>1, <1>2, <3>1, <3>2, <3>3 DEF LifecycleInv, LifecycleTypeOK, Pcs, Answers
    <3>. QED
      BY <3>5, <3>6, <3>7 DEF LifecycleInv
  <2>2. CASE status[l] # "open"
    <3>1. Goes(c, "done", "LOBBY_CREATOR_REQUIRED")
      BY <1>4, <2>2 DEF CloseWrites
    <3>2. UNCHANGED <<up, status, due, asked, held, lease, connections, sweep>>
      BY <1>4, <2>2 DEF CloseWrites
    <3>3. LifecycleTypeOK'
      BY <1>2, <3>1, <3>2 DEF LifecycleInv, LifecycleTypeOK, Pcs, Answers
    <3>4. ClosesOK'
      BY <1>2, <3>1, <3>2 DEF LifecycleInv, ClosesOK, Won, Pcs, Answers
    <3>. QED
      BY <3>2, <3>3, <3>4 DEF LifecycleInv, NoCommandOnEndedLobby, EndOnce
  <2>. QED
    BY <2>1, <2>2
<1>5. CASE ClosePurges(c)
  <2>1. PICK purged \in BOOLEAN :
          /\ Goes(c, "done", IF purged THEN "closed" ELSE "UNAVAILABLE")
          /\ connections' = [connections EXCEPT ![l] = IF purged THEN FALSE ELSE @]
    <3>1. CASE connections' = [connections EXCEPT ![l] = FALSE] /\ Goes(c, "done", "closed")
      BY <3>1
    <3>2. CASE UNCHANGED connections /\ Goes(c, "done", "UNAVAILABLE")
      BY <1>1, <3>2
    <3>. QED
      BY <1>5, <3>1, <3>2 DEF ClosePurges
  <2>2. /\ UNCHANGED <<up, status, due, asked, held, lease, sweep>>
        /\ close[c].pc = "revoking"
    BY <1>5 DEF ClosePurges
  <2>3. \A k \in Lobbies : connections'[k] \in BOOLEAN /\ (connections'[k] => connections[k])
    BY <1>1, <2>1
  <2>4. LifecycleTypeOK'
    <3>1. connections' \in [Lobbies -> BOOLEAN]
      BY <1>1, <2>1, <2>3
    <3>. QED
      BY <1>2, <2>1, <2>2, <3>1 DEF LifecycleInv, LifecycleTypeOK, Pcs, Answers
  <2>5. ClosesOK'
    <3>1. /\ \A d \in Closes \ {c} : close'[d] = close[d]
          /\ close'[c].lobby = l /\ close'[c].pc = "done"
          /\ close'[c].answer = (IF purged THEN "closed" ELSE "UNAVAILABLE")
          /\ UNCHANGED status
      BY <1>2, <2>1, <2>2 DEF Pcs, Answers
    <3>2. \A d \in Closes : close'[d].lobby = close[d].lobby /\ (Won(d)' => Won(d))
      BY <2>2, <3>1 DEF Won
    <3>3. \A d \in Closes : close'[d].answer = "closed" => ~connections'[close[d].lobby]
      <4>1. ASSUME NEW d \in Closes \ {c}, close'[d].answer = "closed"
            PROVE  ~connections'[close[d].lobby]
        <5>1. close[d].lobby \in Lobbies
          BY <1>1
        <5>. QED
          BY <2>3, <3>1, <4>1, <5>1 DEF LifecycleInv, ClosesOK
      <4>2. ASSUME purged
            PROVE  ~connections'[l]
        BY <1>1, <2>1, <4>2
      <4>. QED
        BY <3>1, <4>1, <4>2
    <3>4. \A d \in Closes : close'[d].pc # "done" => close'[d].answer = "none"
      BY <3>1 DEF LifecycleInv, ClosesOK
    <3>. QED
      BY <3>1, <3>2, <3>3, <3>4 DEF LifecycleInv, ClosesOK
  <2>. QED
    BY <2>2, <2>4, <2>5 DEF LifecycleInv, NoCommandOnEndedLobby, EndOnce
<1>. QED
  BY <1>3, <1>4, <1>5 DEF Close

\* A sweep writes free rows, as they are by then and not as they were matched.
LEMMA SweepKeeps ==
  ASSUME LifecycleInv, SweepReads \/ SweepWrites \/ SweepFails
  PROVE  LifecycleInv' /\ EndOnce
<1>1. CASE SweepReads
  <2>0. PICK matched \in SUBSET Lobbies : Matching(matched)
    BY <1>1 DEF SweepReads
  <2>1. sweep' \in [running: BOOLEAN, matched: SUBSET Lobbies, leases: SUBSET Lobbies,
                    connections: SUBSET Lobbies]
    BY <2>0 DEF Matching
  <2>2. ClosesOK'
    BY <2>0, ClosesStay DEF Matching, LifecycleInv
  <2>. QED
    BY <2>0, <2>1, <2>2 DEF Matching, LifecycleInv, LifecycleTypeOK,
       NoCommandOnEndedLobby, EndOnce
<1>2. CASE SweepFails
  <2>1. ClosesOK'
    BY <1>2, ClosesStay DEF SweepFails, LifecycleInv
  <2>. QED
    BY <1>2, <2>1 DEF SweepFails, LifecycleInv, LifecycleTypeOK, NoSweep,
       NoCommandOnEndedLobby, EndOnce
<1>3. CASE SweepWrites
  <2>1. Batch \subseteq {l \in Lobbies : ~held[l]}
    BY DEF Batch, Lockable, LifecycleInv, LifecycleTypeOK
  <2>2. /\ status \in [Lobbies -> {"open", "closed", "expired"}]
        /\ status' = [l \in Lobbies |->
             IF l \in Batch /\ status[l] = "open" THEN "expired" ELSE status[l]]
        /\ UNCHANGED <<up, due, asked, held, close>>
    BY <1>3 DEF SweepWrites, LifecycleInv, LifecycleTypeOK
  <2>3. EndOnce /\ status' \in [Lobbies -> {"open", "closed", "expired"}]
    BY <2>2 DEF EndOnce
  <2>4. NoCommandOnEndedLobby'
    BY <2>1, <2>2 DEF LifecycleInv, NoCommandOnEndedLobby
  <2>5. /\ connections' \in [Lobbies -> BOOLEAN] /\ lease' \in [Lobbies -> BOOLEAN]
        /\ \A l \in Lobbies : connections'[l] => connections[l]
    <3>1. connections' = [l \in Lobbies |->
            connections[l] /\ l \notin Batch \cap sweep.connections]
      BY <1>3 DEF SweepWrites
    <3>2. lease' = [l \in Lobbies |-> lease[l] /\ l \notin Batch \cap sweep.leases]
      BY <1>3 DEF SweepWrites
    <3>. QED
      BY <3>1, <3>2, Zenon
  <2>6. LifecycleTypeOK'
    BY <1>3, <2>2, <2>3, <2>5 DEF SweepWrites, LifecycleInv, LifecycleTypeOK, NoSweep
  <2>7. \A c \in Closes : close[c].lobby \in Lobbies
    BY DEF LifecycleInv, LifecycleTypeOK
  <2>8. ClosesOK'
    BY <2>2, <2>5, <2>7 DEF LifecycleInv, ClosesOK, Won
  <2>. QED
    BY <2>3, <2>4, <2>6, <2>8 DEF LifecycleInv
<1>. QED
  BY <1>1, <1>2, <1>3

\* A crash loses the close that had won, never the state of the lobby it closed.
LEMMA CrashKeeps ==
  ASSUME LifecycleInv, Crash \/ Restart
  PROVE  LifecycleInv' /\ EndOnce
<1>1. CASE Crash
  <2>1. close \in [Closes -> [pc: Pcs, lobby: Lobbies, sawLease: BOOLEAN, answer: Answers]]
    BY DEF LifecycleInv, LifecycleTypeOK
  <2>2. ASSUME NEW c \in Closes
        PROVE  /\ close'[c] \in [pc: Pcs, lobby: Lobbies, sawLease: BOOLEAN, answer: Answers]
               /\ close'[c].lobby = close[c].lobby /\ close'[c].answer = close[c].answer
               /\ close'[c].pc \in {close[c].pc, "orphaned", "done"}
               /\ close'[c].pc # "done" => close[c].pc # "done"
    BY <1>1, <2>1 DEF Crash, Pcs
  <2>3. close' \in [Closes -> [pc: Pcs, lobby: Lobbies, sawLease: BOOLEAN, answer: Answers]]
    BY <1>1, <2>2 DEF Crash
  <2>4. ClosesOK'
    <3>1. UNCHANGED <<status, connections>>
      BY <1>1 DEF Crash
    <3>2. \A c \in Closes : Won(c)' => Won(c)
      BY <2>2 DEF Won
    <3>. QED
      BY <2>2, <3>1, <3>2 DEF LifecycleInv, ClosesOK
  <2>. QED
    BY <1>1, <2>3, <2>4 DEF Crash, LifecycleInv, LifecycleTypeOK, NoSweep,
       NoCommandOnEndedLobby, EndOnce
<1>2. CASE Restart
  <2>1. ClosesOK'
    BY <1>2, ClosesStay DEF Restart, LifecycleInv
  <2>. QED
    BY <1>2, <2>1 DEF Restart, LifecycleInv, LifecycleTypeOK,
       NoCommandOnEndedLobby, EndOnce
<1>. QED
  BY <1>1, <1>2

\* Every step keeps the invariant and ends no lobby twice.
LEMMA LifecycleStep ==
  LifecycleInv /\ [LifecycleNext]_vars => LifecycleInv' /\ (EndOnce \/ UNCHANGED vars)
<1>1. ASSUME LifecycleInv, UNCHANGED vars
      PROVE  LifecycleInv'
  BY <1>1 DEF vars, LifecycleInv, LifecycleTypeOK, NoCommandOnEndedLobby, ClosesOK, Won
<1>. QED
  BY <1>1, CommandsKeep, CloseKeeps, SweepKeeps, CrashKeeps DEF LifecycleNext

\* The API starts with open lobbies and no request.
LEMMA LifecycleStart == LifecycleInit => LifecycleInv
<1> SUFFICES ASSUME LifecycleInit PROVE LifecycleInv
  OBVIOUS
<1>1. LifecycleTypeOK
  BY DEF LifecycleInit, LifecycleTypeOK, NoSweep, Pcs, Answers
<1>2. NoCommandOnEndedLobby
  BY DEF LifecycleInit, NoCommandOnEndedLobby
<1>3. \A c \in Closes : close[c].pc = "idle" /\ close[c].answer = "none"
  BY DEF LifecycleInit
<1>. QED
  BY <1>1, <1>2, <1>3 DEF LifecycleInv, ClosesOK, Won

-----------------------------------------------------------------------------
\* The inductive invariant: the types, and the facts about the closes the theorems below rest on.
THEOREM LifecycleInvariant == LifecycleSpec => []LifecycleInv
BY LifecycleStart, LifecycleStep, PTL DEF LifecycleSpec

\* Type correctness: of the rows, of every close under way and of the sweep's lists.
THEOREM LifecycleTypeCorrect == LifecycleSpec => []LifecycleTypeOK
<1>1. LifecycleInv => LifecycleTypeOK
  BY DEF LifecycleInv
<1>. QED
  BY <1>1, LifecycleInvariant, PTL

\* No command commits on a lobby that was closed or expired.
THEOREM CommandsEndFirst == LifecycleSpec => []NoCommandOnEndedLobby
<1>1. LifecycleInv => NoCommandOnEndedLobby
  BY DEF LifecycleInv
<1>. QED
  BY <1>1, LifecycleInvariant, PTL

\* However many closes race, with sweeps and crashes, one at most succeeds.
THEOREM OneCloseWins == LifecycleSpec => []OneCloseSucceeds
<1>1. LifecycleInv => OneCloseSucceeds
  BY DEF LifecycleInv, ClosesOK, Won, OneCloseSucceeds
<1>. QED
  BY <1>1, LifecycleInvariant, PTL

\* A close that reports success has purged the connections of a lobby that is
\* closed and stays so.
THEOREM SuccessMeansPurged == LifecycleSpec => []ClosedMeansPurged
<1>1. LifecycleInv => ClosedMeansPurged
  BY DEF LifecycleInv, ClosesOK, Won, ClosedMeansPurged
<1>. QED
  BY <1>1, LifecycleInvariant, PTL

\* A lobby is closed or expired once, whatever the sweep and the closes had read.
THEOREM LobbiesEndOnce == LifecycleSpec => EndsOnce
<1>1. LifecycleInv /\ [LifecycleNext]_vars => [EndOnce]_vars
  BY LifecycleStep
<1>2. EndOnce <=> \A l \in Lobbies : status[l] # "open" => status'[l] = status[l]
  BY DEF EndOnce
<1>3. [EndOnce]_vars => [\A l \in Lobbies : status[l] # "open" => status'[l] = status[l]]_vars
  BY <1>2
<1>. QED
  BY <1>1, <1>3, LifecycleInvariant, PTL DEF LifecycleSpec, EndsOnce
-----------------------------------------------------------------------------
(* The lease of a closed lobby.                                             *)

\* This close ended lobby l and had seen no lease of it.
Spared(c, l) == close[c].lobby = l /\ Ended(c) /\ ~close[c].sawLease

\* What a close that ended its lobby had seen is not read again.
LEMMA SparedStays ==
  ASSUME LifecycleInv, [LifecycleNext]_vars, NEW c \in Closes, NEW l \in Lobbies,
         Spared(c, l)
  PROVE  Spared(c, l)'
<1>0. /\ close \in [Closes -> [pc: Pcs, lobby: Lobbies, sawLease: BOOLEAN, answer: Answers]]
      /\ close[c].pc \in {"revoking", "done"} /\ close[c].lobby = l /\ ~close[c].sawLease
      /\ close[c].answer \notin {"LOBBY_NOT_FOUND", "LOBBY_CREATOR_REQUIRED"}
  BY DEF Spared, Ended, LifecycleInv, LifecycleTypeOK
<1>1. ASSUME NEW d \in Closes, Close(d)
      PROVE  Spared(c, l)'
  <2>1. CASE d # c
    <3>1. close'[c] = close[c]
      BY <1>0, <1>1, <2>1 DEF Close, CloseReads, CloseWrites, ClosePurges, Goes
    <3>. QED
      BY <1>0, <3>1 DEF Spared, Ended
  <2>2. CASE d = c
    <3>1. ClosePurges(c)
      BY <1>0, <1>1, <2>2 DEF Close, CloseReads, CloseWrites
    <3>2. PICK answer \in {"closed", "UNAVAILABLE"} : Goes(c, "done", answer)
      BY <3>1 DEF ClosePurges
    <3>3. /\ close'[c].lobby = l /\ close'[c].sawLease = close[c].sawLease
          /\ close'[c].pc = "done" /\ close'[c].answer = answer
      BY <1>0, <3>2 DEF Goes
    <3>. QED
      BY <1>0, <3>3 DEF Spared, Ended
  <2>. QED
    BY <2>1, <2>2
<1>2. CASE Crash
  <2>1. /\ close'[c].lobby = l /\ close'[c].sawLease = close[c].sawLease
        /\ close'[c].pc = "done" /\ close'[c].answer = close[c].answer
    BY <1>0, <1>2 DEF Crash
  <2>. QED
    BY <1>0, <2>1 DEF Spared, Ended
<1>3. CASE UNCHANGED close
  BY <1>3 DEF Spared, Ended
<1>4. ~Crash /\ ~(\E d \in Closes : Close(d)) => UNCHANGED close
  BY DEF LifecycleNext, vars, AskForLobby, LockLobby, EndCommand, CommitCommand,
     RollBackCommand, FallDue, SweepReads, Matching, SweepWrites, SweepFails, Restart
<1>. QED
  BY <1>1, <1>2, <1>3, <1>4

\* A lobby becomes closed by the write of a close, which keeps what it did not see.
LEMMA ClosedByAClose ==
  ASSUME LifecycleInv, [LifecycleNext]_vars, NEW l \in Lobbies,
         status[l] # "closed", status'[l] = "closed", lease'[l]
  PROVE  \E c \in Closes : Spared(c, l)'
<1>0. /\ close \in [Closes -> [pc: Pcs, lobby: Lobbies, sawLease: BOOLEAN, answer: Answers]]
      /\ status \in [Lobbies -> {"open", "closed", "expired"}]
      /\ lease \in [Lobbies -> BOOLEAN]
  BY DEF LifecycleInv, LifecycleTypeOK
<1>1. ~SweepWrites
  BY <1>0 DEF SweepWrites
<1>2. PICK c \in Closes : CloseWrites(c) /\ status[close[c].lobby] = "open"
  BY <1>0, <1>1 DEF LifecycleNext, vars, AskForLobby, LockLobby, EndCommand, CommitCommand,
     RollBackCommand, FallDue, Close, CloseReads, CloseWrites, ClosePurges, SweepReads,
     Matching, SweepFails, Crash, Restart
<1>3. close[c].lobby \in Lobbies /\ status' = [status EXCEPT ![close[c].lobby] = "closed"]
  BY <1>0, <1>2 DEF CloseWrites
<1>4. close[c].lobby = l
  BY <1>0, <1>3
<1>5. ~close[c].sawLease
  <2>1. lease' = [lease EXCEPT ![l] = lease[l] /\ ~close[c].sawLease]
    BY <1>2, <1>4 DEF CloseWrites
  <2>. QED
    BY <1>0, <2>1, Zenon
<1>6. PICK pc \in {"revoking", "done"} : Goes(c, pc, "none")
  BY <1>2 DEF CloseWrites
<1>7. /\ close'[c].lobby = l /\ close'[c].sawLease = close[c].sawLease
      /\ close'[c].pc = pc /\ close'[c].answer = "none"
  BY <1>0, <1>4, <1>6 DEF Goes
<1>. QED
  BY <1>5, <1>7 DEF Spared, Ended

\* No lease appears on a lobby that has ended: the command that claims holds its row.
LEMMA LeaseIsOlder ==
  ASSUME LifecycleInv, [LifecycleNext]_vars, NEW l \in Lobbies,
         status[l] = "closed", lease'[l]
  PROVE  lease[l]
<1>0. /\ lease \in [Lobbies -> BOOLEAN]
      /\ close \in [Closes -> [pc: Pcs, lobby: Lobbies, sawLease: BOOLEAN, answer: Answers]]
      /\ ~held[l]
  BY DEF LifecycleInv, LifecycleTypeOK, NoCommandOnEndedLobby
<1>1. ASSUME NEW k \in Lobbies, NEW claims \in BOOLEAN, CommitCommand(k, claims)
      PROVE  lease[l]
  <2>1. k # l
    BY <1>0, <1>1 DEF CommitCommand
  <2>2. lease' = [lease EXCEPT ![k] = lease[k] \/ claims]
    BY <1>1 DEF CommitCommand
  <2>. QED
    BY <1>0, <2>1, <2>2
<1>2. ASSUME NEW c \in Closes, CloseWrites(c)
      PROVE  lease[l]
  <2>1. CASE UNCHANGED lease
    BY <2>1
  <2>2. CASE lease' = [lease EXCEPT ![close[c].lobby] = lease[close[c].lobby] /\ ~close[c].sawLease]
    BY <1>0, <2>2, Zenon
  <2>. QED
    BY <1>2, <2>1, <2>2 DEF CloseWrites
<1>3. CASE SweepWrites
  BY <1>3 DEF SweepWrites
<1>4. CASE UNCHANGED lease
  BY <1>4
<1>. QED
  BY <1>1, <1>2, <1>3, <1>4 DEF LifecycleNext, vars, AskForLobby, LockLobby, EndCommand,
     RollBackCommand, FallDue, Close, CloseReads, ClosePurges, SweepReads, Matching,
     SweepFails, Crash, Restart

\* A lease that is left on a closed lobby was committed after the close's snapshot:
\* no claim is accepted later, and none that the close saw is kept.
THEOREM SurvivorWasUnseen == LifecycleSpec => []OnlyUnseenLeaseSurvives
<1>1. LifecycleInit => OnlyUnseenLeaseSurvives
  BY DEF LifecycleInit, OnlyUnseenLeaseSurvives
<1>2. ASSUME LifecycleInv, OnlyUnseenLeaseSurvives, [LifecycleNext]_vars
      PROVE  OnlyUnseenLeaseSurvives'
  <2>1. ASSUME NEW l \in Lobbies, status'[l] = "closed", lease'[l]
        PROVE  \E c \in Closes : Spared(c, l)'
    <3>1. CASE status[l] # "closed"
      BY <1>2, <2>1, <3>1, ClosedByAClose
    <3>2. CASE status[l] = "closed"
      <4>1. lease[l]
        BY <1>2, <2>1, <3>2, LeaseIsOlder
      <4>2. PICK c \in Closes : Spared(c, l)
        BY <1>2, <3>2, <4>1 DEF OnlyUnseenLeaseSurvives, Spared
      <4>. QED
        BY <1>2, <4>2, SparedStays
    <3>. QED
      BY <3>1, <3>2
  <2>. QED
    BY <2>1 DEF OnlyUnseenLeaseSurvives, Spared
<1>. QED
  BY <1>1, <1>2, LifecycleInvariant, PTL DEF LifecycleSpec
=============================================================================
