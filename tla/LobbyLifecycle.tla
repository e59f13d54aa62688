---------------------------- MODULE LobbyLifecycle ----------------------------
(***************************************************************************)
(* How lobbies end: the creator's close, the expiration sweep and the      *)
(* transactions of members on the same rows, statement by statement under  *)
(* READ COMMITTED.  A statement sees the rows of the moment it started; it *)
(* takes a row lock later, and then sees that row, and no other, as it is. *)
(* The API may crash and restart between any two statements.               *)
(***************************************************************************)
EXTENDS Integers, FiniteSets

CONSTANTS
  LobbyCount,  \* lobbies, numbered in the order of expires_at
  Closes,      \* close requests of the creators
  Target,      \* the lobby that each is for
  Limit        \* LOBBY_EXPIRATION_BATCH_SIZE

Lobbies == 1..LobbyCount

ASSUME LifecycleAssumption ==
  /\ LobbyCount \in Nat \ {0} /\ Limit \in Nat \ {0}
  /\ Target \in [Closes -> Lobbies]

VARIABLES
  up,           \* the API process runs
  status,       \* lobbies.status
  due,          \* expires_at has passed
  asked,        \* a command has read its clock and waits for the lobby row
  held,         \* a command's transaction holds the lobby row
  lease,        \* a playback_leases row is committed
  connections,  \* provider_connections rows are stored
  close,        \* the close requests, and what each answers, heard or not
  sweep         \* the sweep statement in progress

vars == <<up, status, due, asked, held, lease, connections, close, sweep>>

Pcs == {"idle", "waiting", "orphaned", "revoking", "done"}
Answers == {"none", "closed", "LOBBY_NOT_FOUND", "LOBBY_CREATOR_REQUIRED", "UNAVAILABLE"}
NoSweep == [running |-> FALSE, matched |-> {}, leases |-> {}, connections |-> {}]

LifecycleTypeOK ==
  /\ up \in BOOLEAN
  /\ status \in [Lobbies -> {"open", "closed", "expired"}]
  /\ due \in [Lobbies -> BOOLEAN]
  /\ asked \in [Lobbies -> BOOLEAN]
  /\ held \in [Lobbies -> BOOLEAN]
  /\ lease \in [Lobbies -> BOOLEAN]
  /\ connections \in [Lobbies -> BOOLEAN]
  /\ close \in [Closes -> [pc: Pcs, lobby: Lobbies, sawLease: BOOLEAN, answer: Answers]]
  /\ sweep \in [running: BOOLEAN, matched: SUBSET Lobbies, leases: SUBSET Lobbies,
                connections: SUBSET Lobbies]

LifecycleInit ==
  /\ up = TRUE
  /\ status = [l \in Lobbies |-> "open"]
  /\ due = [l \in Lobbies |-> FALSE]
  /\ asked = [l \in Lobbies |-> FALSE]
  /\ held = [l \in Lobbies |-> FALSE]
  /\ lease = [l \in Lobbies |-> FALSE]
  /\ connections \in [Lobbies -> BOOLEAN]
  /\ close = [c \in Closes |-> [pc |-> "idle", lobby |-> Target[c],
                                sawLease |-> FALSE, answer |-> "none"]]
  /\ sweep = NoSweep

-----------------------------------------------------------------------------
(* Transactions of members: they lock the open row, then commit or roll back. *)

\* lockAuthorizedLobby compares its clock with expires_at, then waits for the row.
AskForLobby(l) ==
  /\ up /\ ~asked[l]
  /\ status[l] = "open" /\ ~due[l]
  /\ asked' = [asked EXCEPT ![l] = TRUE]
  /\ UNCHANGED <<up, status, due, held, lease, connections, close, sweep>>

\* Once it has the row it tests the status again, not the clock.
LockLobby(l) ==
  /\ up /\ asked[l] /\ ~held[l]
  /\ asked' = [asked EXCEPT ![l] = FALSE]
  /\ held' = [held EXCEPT ![l] = status[l] = "open"]
  /\ UNCHANGED <<up, status, due, lease, connections, close, sweep>>

\* A claim that found no lease row inserts one; any other command leaves it be.
CommitCommand(l, claims) ==
  /\ up /\ held[l]
  /\ held' = [held EXCEPT ![l] = FALSE]
  /\ lease' = [lease EXCEPT ![l] = @ \/ claims]
  /\ UNCHANGED <<up, status, due, asked, connections, close, sweep>>

RollBackCommand(l) ==
  /\ up /\ held[l]
  /\ held' = [held EXCEPT ![l] = FALSE]
  /\ UNCHANGED <<up, status, due, asked, lease, connections, close, sweep>>

-----------------------------------------------------------------------------
(* The creator's close.                                                     *)

Goes(c, pc, answer) == close' = [close EXCEPT ![c].pc = pc, ![c].answer = answer]

\* The statement starts: it reads the membership of an open lobby and the leases.
CloseReads(c) ==
  LET l == close[c].lobby IN
  /\ up /\ close[c].pc = "idle"
  /\ IF status[l] = "open" /\ ~due[l]
       THEN close' = [close EXCEPT ![c].pc = "waiting", ![c].sawLease = lease[l]]
       ELSE Goes(c, "done", "LOBBY_NOT_FOUND")
  /\ UNCHANGED <<up, status, due, asked, held, lease, connections, sweep>>

\* Slip: the row is not locked.
CloseWritesUnlocked(c) ==
  LET l == close[c].lobby IN
  /\ close[c].pc \in {"waiting", "orphaned"} /\ status[l] = "open"
  /\ status' = [status EXCEPT ![l] = "closed"]
  /\ lease' = [lease EXCEPT ![l] = @ /\ ~close[c].sawLease]
  /\ Goes(c, IF close[c].pc = "waiting" THEN "revoking" ELSE "done", "none")
  /\ UNCHANGED <<up, due, asked, held, connections, sweep>>

\* Slip: the status read before the lock was granted is trusted.
CloseWritesUnchecked(c) ==
  LET l == close[c].lobby IN
  /\ close[c].pc \in {"waiting", "orphaned"} /\ ~held[l]
  /\ status' = [status EXCEPT ![l] = "closed"]
  /\ lease' = [lease EXCEPT ![l] = @ /\ ~close[c].sawLease]
  /\ Goes(c, IF close[c].pc = "waiting" THEN "revoking" ELSE "done", "none")
  /\ UNCHANGED <<up, due, asked, held, connections, sweep>>

\* It has the row: the UPDATE tests the status again, the DELETE only finds a
\* lease that the statement saw, and a statement without lobby is a refusal.  A
\* crash of the API does not stop a statement that waits in the database.
CloseWrites(c) ==
  LET l == close[c].lobby IN
  /\ close[c].pc \in {"waiting", "orphaned"} /\ ~held[l]
  /\ IF status[l] = "open"
       THEN /\ status' = [status EXCEPT ![l] = "closed"]
            /\ lease' = [lease EXCEPT ![l] = @ /\ ~close[c].sawLease]
            /\ Goes(c, IF close[c].pc = "waiting" THEN "revoking" ELSE "done", "none")
       ELSE /\ UNCHANGED <<status, lease>>
            /\ Goes(c, "done", "LOBBY_CREATOR_REQUIRED")
  /\ UNCHANGED <<up, due, asked, held, connections, sweep>>

\* Slip: a purge that failed is answered like one that did not.
PurgeFailureIgnored(c) ==
  LET l == close[c].lobby IN
  /\ up /\ close[c].pc = "revoking"
  /\ connections' \in {connections, [connections EXCEPT ![l] = FALSE]}
  /\ Goes(c, "done", "closed")
  /\ UNCHANGED <<up, status, due, asked, held, lease, sweep>>

\* Slip: the database's own error reaches the answer.
PurgeErrorAnswered(c) ==
  /\ up /\ close[c].pc = "revoking"
  /\ Goes(c, "done", "ECONNRESET")
  /\ UNCHANGED <<up, status, due, asked, held, lease, connections, sweep>>

\* After the adapters, whether or not they could revoke; the purge may fail.
ClosePurges(c) ==
  LET l == close[c].lobby IN
  /\ up /\ close[c].pc = "revoking"
  /\ \/ /\ connections' = [connections EXCEPT ![l] = FALSE]
        /\ Goes(c, "done", "closed")
     \/ /\ UNCHANGED connections
        /\ Goes(c, "done", "UNAVAILABLE")
  /\ UNCHANGED <<up, status, due, asked, held, lease, sweep>>

-----------------------------------------------------------------------------
(* The expiration sweep: one at a time, at startup and on a timer.          *)

\* A statement that matches these lobbies also sees their leases and connections.
Matching(lobbies) ==
  /\ up /\ ~sweep.running
  /\ sweep' = [running |-> TRUE, matched |-> lobbies,
               leases |-> {l \in lobbies : lease[l]},
               connections |-> {l \in lobbies : connections[l]}]
  /\ UNCHANGED <<up, status, due, asked, held, lease, connections, close>>

\* Slip: the lobbies that already ended are not looked at.
SweepReadsOpenOnly == Matching({l \in Lobbies : status[l] = "open" /\ due[l]})

\* Slip: an inner join with provider_connections.
SweepReadsJoined ==
  Matching({l \in Lobbies : connections[l] /\ (status[l] = "open" => due[l])})

SweepReads ==
  Matching({l \in Lobbies : IF status[l] = "open" THEN due[l] ELSE connections[l]})

\* A matched row that is free and still matches once it is locked.
Lockable ==
  {l \in sweep.matched : ~held[l] /\
     (status[l] # "open" => l \in sweep.connections)}

Batch == {l \in Lockable : Cardinality({k \in Lockable : k < l}) < Limit}

\* Slip: every lobby of the batch becomes expired.
SweepExpiresAll ==
  /\ up /\ sweep.running
  /\ status' = [l \in Lobbies |-> IF l \in Batch THEN "expired" ELSE status[l]]
  /\ lease' = [l \in Lobbies |-> lease[l] /\ l \notin Batch \cap sweep.leases]
  /\ connections' = [l \in Lobbies |->
       connections[l] /\ l \notin Batch \cap sweep.connections]
  /\ sweep' = NoSweep
  /\ UNCHANGED <<up, due, asked, held, close>>

SweepWrites ==
  /\ up /\ sweep.running
  /\ status' = [l \in Lobbies |->
       IF l \in Batch /\ status[l] = "open" THEN "expired" ELSE status[l]]
  /\ lease' = [l \in Lobbies |-> lease[l] /\ l \notin Batch \cap sweep.leases]
  /\ connections' = [l \in Lobbies |->
       connections[l] /\ l \notin Batch \cap sweep.connections]
  /\ sweep' = NoSweep
  /\ UNCHANGED <<up, due, asked, held, close>>

SweepFails ==
  /\ up /\ sweep.running
  /\ sweep' = NoSweep
  /\ UNCHANGED <<up, status, due, asked, held, lease, connections, close>>

-----------------------------------------------------------------------------
\* Lobbies fall due in the order of their expires_at.
FallDue(l) ==
  /\ ~due[l] /\ \A k \in Lobbies : k < l => due[k]
  /\ due' = [due EXCEPT ![l] = TRUE]
  /\ UNCHANGED <<up, status, asked, held, lease, connections, close, sweep>>

Crash ==
  /\ up /\ up' = FALSE
  /\ asked' = [l \in Lobbies |-> FALSE]
  /\ held' = [l \in Lobbies |-> FALSE]
  /\ close' = [c \in Closes |->
       [close[c] EXCEPT !.pc = IF @ = "waiting" THEN "orphaned"
                               ELSE IF @ = "revoking" THEN "done" ELSE @]]
  /\ sweep' = NoSweep
  /\ UNCHANGED <<status, due, lease, connections>>

Restart ==
  /\ ~up /\ up' = TRUE
  /\ UNCHANGED <<status, due, asked, held, lease, connections, close, sweep>>

Close(c) == CloseReads(c) \/ CloseWrites(c) \/ ClosePurges(c)
EndCommand(l) == (\E claims \in BOOLEAN : CommitCommand(l, claims)) \/ RollBackCommand(l)

LifecycleNext ==
  \/ \E l \in Lobbies :
       \/ AskForLobby(l) \/ LockLobby(l)
       \/ EndCommand(l)
       \/ FallDue(l)
  \/ \E c \in Closes : Close(c)
  \/ SweepReads \/ SweepWrites \/ SweepFails
  \/ Crash \/ Restart

\* A transaction ends and a crashed API is started again; the timer keeps asking
\* for a sweep, and the database does not fail every sweep for ever.
Fairness ==
  /\ \A l \in Lobbies : WF_vars(EndCommand(l))
  /\ WF_vars(Restart)
  /\ SF_vars(SweepReads)
  /\ SF_vars(SweepWrites)

LifecycleSpec == LifecycleInit /\ [][LifecycleNext]_vars /\ Fairness

-----------------------------------------------------------------------------
(* Safety.                                                                  *)

\* No command is in the middle of an ended lobby: whatever the order of the lock,
\* it committed before the end or it is refused.
NoCommandOnEndedLobby == \A l \in Lobbies : status[l] # "open" => ~held[l]

\* Two closes of one lobby are never both told that they closed it.
OneCloseSucceeds ==
  \A c, d \in Closes :
    close[c].answer = "closed" /\ close[d].answer = "closed"
      /\ close[c].lobby = close[d].lobby => c = d

\* The screen of a closed lobby says its connections were purged: so they are, and
\* no sweep has changed how it ended.
ClosedMeansPurged ==
  \A c \in Closes : close[c].answer = "closed" =>
    status[close[c].lobby] = "closed" /\ ~connections[close[c].lobby]

\* The close that ended the lobby, heard of or not: its statement found it open.
Ended(c) ==
  /\ close[c].pc \in {"revoking", "done"}
  /\ close[c].answer \notin {"LOBBY_NOT_FOUND", "LOBBY_CREATOR_REQUIRED"}

\* The lease goes with the lobby that is closed, save a claim's first lease that was
\* committed between the close's snapshot and its lock.
OnlyUnseenLeaseSurvives ==
  \A l \in Lobbies : status[l] = "closed" /\ lease[l] =>
    \E c \in Closes : close[c].lobby = l /\ Ended(c) /\ ~close[c].sawLease

\* A lobby ends once: a sweep that matched it while it was open does not expire it
\* after a close, nor a close after a sweep.
EndsOnce ==
  [][\A l \in Lobbies : status[l] # "open" => status'[l] = status[l]]_vars

-----------------------------------------------------------------------------
(* Liveness.                                                                *)

\* Through crashes, failed purges and full batches, a lobby that ended loses its
\* stored connections.
EndedLobbyIsPurged ==
  \A l \in Lobbies : status[l] # "open" ~> ~connections[l]

\* A lobby whose time has come ends, however its row was locked meanwhile.
DueLobbyEnds == \A l \in Lobbies : due[l] ~> status[l] # "open"
=============================================================================
