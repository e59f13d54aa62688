------------------------- MODULE PlayerSessionProofs --------------------------
(***************************************************************************)
(* The panel keeps the lease's specification and shows no lease that it    *)
(* has lost as its own under the running generation, for any browsers, any *)
(* queue and any number of requests under way.                             *)
(***************************************************************************)
EXTENDS PlayerSession, PlayerLeaseProofs

USE LeaseAssumption, SessionAssumption

\* What makes a snapshot right is kept for the answers on their way too: one that
\* says the tab holds a generation was true when it was read, and a generation has
\* one holder and is never claimed again.
RightFor(s, o, l) ==
  o /\ s.held => /\ s.generation <= l.generation
                 /\ s.generation = l.generation => l.holder = Tab

\* A generation is claimed within the bound, and a row that ever ran was claimed.
LeaseBounded ==
  /\ lease.generation <= MaxGeneration
  /\ lease.expiresAt # 0 => lease.generation # 0 /\ lease.holder \in Browsers

SessionInv ==
  /\ SessionTypeOK
  /\ LeaseBounded
  /\ RightFor(snap, open, lease)
  /\ \A c \in calls : ~IsRequest(c) => RightFor(c.snapshot, open, lease)

-----------------------------------------------------------------------------
(* The server's side.                                                       *)

\* A request carries no answer, an answer carries a snapshot.
LEMMA CallTyped ==
  ASSUME SessionTypeOK, NEW c \in calls
  PROVE  /\ IsRequest(c) => c \in Requests
         /\ ~IsRequest(c) => c \in Answers /\ c.snapshot \in Snapshots
<1>1. c \in Requests \/ c \in Answers
  BY DEF SessionTypeOK
<1>2. c \in Requests => IsRequest(c)
  BY DEF Requests, IsRequest
<1>3. c \in Answers => ~IsRequest(c) /\ c.snapshot \in Snapshots
  BY DEF Answers, IsRequest
<1>. QED
  BY <1>1, <1>2, <1>3

\* The types of the server's rows beside the lease.
ServerRowsTyped ==
  /\ current \in TitlesOrNone
  /\ taken \in 0..TitleCount /\ added \in 0..TitleCount
  /\ skips \in 0..MaxSkips

\* Whatever the next title is, it is one of the queue.
LEMMA AdvanceTyped ==
  ASSUME SessionTypeOK, Advance
  PROVE  /\ current' \in TitlesOrNone
         /\ taken' \in 0..TitleCount /\ added' \in 0..TitleCount
BY DEF Advance, SessionTypeOK, TitlesOrNone, Titles, NoTitle

\* A heartbeat that is accepted names a generation that was claimed.
LEMMA HeartbeatIsALeaseStep ==
  ASSUME LeaseTypeOK, LeaseBounded, NEW b \in Browsers, NEW g, Heartbeat(b, g)
  PROVE  LeaseNext
<1>1. g \in 1..MaxGeneration
  BY DEF Heartbeat, Active, LeaseTypeOK, LeaseBounded
<1>. QED
  BY <1>1 DEF LeaseNext

\* An accepted request does to the lease what the lease allows, and leaves the other
\* rows typed.
LEMMA AcceptIsALeaseStep ==
  ASSUME SessionTypeOK, LeaseBounded, NEW c \in Requests, Accept(c)
  PROVE  /\ [LeaseNext]_leaseVars
         /\ ServerRowsTyped'
<1>0. LeaseTypeOK /\ Tab \in Browsers
  BY DEF SessionTypeOK
<1>1. CASE c.kind = "claim" /\ Claim(Tab) /\ UNCHANGED <<current, taken, added, skips>>
  BY <1>0, <1>1 DEF LeaseNext, SessionTypeOK, ServerRowsTyped
<1>2. CASE c.kind = "heartbeat" /\ Heartbeat(Tab, c.generation) /\ UNCHANGED <<current, taken, added, skips>>
  BY <1>0, <1>2, HeartbeatIsALeaseStep DEF SessionTypeOK, ServerRowsTyped
<1>3. CASE Start
  BY <1>3, AdvanceTyped DEF Start, SessionTypeOK, ServerRowsTyped
<1>4. CASE Skip
  BY <1>4, AdvanceTyped DEF Skip, SessionTypeOK, ServerRowsTyped
<1>5. CASE Report(Tab, c.generation)
  BY <1>5, AdvanceTyped DEF Report, SessionTypeOK, ServerRowsTyped
<1>. QED
  BY <1>1, <1>2, <1>3, <1>4, <1>5 DEF Accept

\* So do the other members and the clock.
LEMMA OthersIsALeaseStep ==
  ASSUME SessionTypeOK, LeaseBounded, Others
  PROVE  /\ [LeaseNext]_leaseVars
         /\ ServerRowsTyped'
<1>0. LeaseTypeOK
  BY DEF SessionTypeOK
<1>1. CASE LeaseTick /\ UNCHANGED <<current, taken, added, skips>>
  BY <1>1 DEF LeaseNext, SessionTypeOK, ServerRowsTyped
<1>2. ASSUME NEW b \in Browsers \ {Tab}, UNCHANGED <<current, taken, added, skips>>,
             (Claim(b) \/ Heartbeat(b, lease.generation))
      PROVE  /\ [LeaseNext]_leaseVars
             /\ ServerRowsTyped'
  BY <1>0, <1>2, HeartbeatIsALeaseStep DEF LeaseNext, SessionTypeOK, ServerRowsTyped
<1>3. CASE open' = FALSE /\ Release /\ UNCHANGED <<current, taken, added, skips>>
  BY <1>3 DEF LeaseNext, SessionTypeOK, ServerRowsTyped
<1>4. CASE Start
  BY <1>4, AdvanceTyped DEF Start, SessionTypeOK, ServerRowsTyped
<1>5. CASE Skip
  BY <1>5, AdvanceTyped DEF Skip, SessionTypeOK, ServerRowsTyped
<1>6. ASSUME NEW b \in Browsers \ {Tab}, Report(b, lease.generation)
      PROVE  /\ [LeaseNext]_leaseVars
             /\ ServerRowsTyped'
  BY <1>6, AdvanceTyped DEF Report, SessionTypeOK, ServerRowsTyped
<1>7. CASE Add
  BY <1>7 DEF Add, SessionTypeOK, ServerRowsTyped
<1>. QED
  BY <1>1, <1>2, <1>3, <1>4, <1>5, <1>6, <1>7 DEF Others

\* No step of the lease makes a snapshot wrong that was right, however old it is.
LEMMA LeaseKeepsRight ==
  ASSUME LeaseTypeOK, LeaseBounded, [LeaseNext]_leaseVars,
         NEW s \in Snapshots, RightFor(s, open, lease)
  PROVE  RightFor(s, open', lease')
<1>0. s.generation \in Nat /\ lease.generation \in Nat
  BY DEF Snapshots, LeaseTypeOK
<1>1. ASSUME NEW b \in Browsers, Claim(b)
      PROVE  RightFor(s, open', lease')
  BY <1>0, <1>1 DEF Claim, RightFor
<1>2. ASSUME NEW b \in Browsers, NEW g, Heartbeat(b, g)
      PROVE  RightFor(s, open', lease')
  <2>1. lease'.generation = lease.generation /\ lease'.holder = lease.holder
    BY <1>2 DEF Heartbeat, LeaseTypeOK
  <2>. QED
    BY <1>2, <2>1 DEF Heartbeat, RightFor
<1>3. CASE open' = FALSE /\ Release
  BY <1>3 DEF RightFor
<1>4. CASE LeaseTick
  BY <1>4 DEF LeaseTick, RightFor
<1>5. CASE UNCHANGED leaseVars
  BY <1>5 DEF leaseVars, RightFor
<1>. QED
  BY <1>1, <1>2, <1>3, <1>4, <1>5 DEF LeaseNext

LEMMA LeaseStaysBounded ==
  ASSUME LeaseTypeOK, LeaseBounded, [LeaseNext]_leaseVars
  PROVE  LeaseBounded'
<1>1. ASSUME NEW b \in Browsers, Claim(b)
      PROVE  LeaseBounded'
  BY <1>1 DEF Claim, LeaseBounded, LeaseTypeOK
<1>2. ASSUME NEW b \in Browsers, NEW g, Heartbeat(b, g)
      PROVE  LeaseBounded'
  <2>1. /\ lease'.generation = lease.generation /\ lease'.holder = lease.holder
        /\ lease.expiresAt # 0
    BY <1>2 DEF Heartbeat, LeaseTypeOK, Active
  <2>. QED
    BY <2>1 DEF LeaseBounded
<1>3. CASE Release
  BY <1>3 DEF Release, NoLease, LeaseBounded
<1>4. CASE LeaseTick \/ UNCHANGED leaseVars
  BY <1>4 DEF LeaseTick, leaseVars, LeaseBounded
<1>. QED
  BY <1>1, <1>2, <1>3, <1>4 DEF LeaseNext

\* A snapshot is right when it is read.
LEMMA ReadIsRight ==
  ASSUME LeaseTypeOK', current' \in TitlesOrNone
  PROVE  Read \in Snapshots /\ RightFor(Read, open', lease')
<1>1. Read \in Snapshots
  BY DEF Read, Snapshots, LeaseTypeOK
<1>2. Read.held => lease'.expiresAt > now' /\ lease'.holder = Tab
  BY DEF Read
<1>3. Read.held => Read.generation = lease'.generation
  BY <1>2 DEF Read
<1>. QED
  BY <1>1, <1>2, <1>3 DEF RightFor, LeaseTypeOK

-----------------------------------------------------------------------------
(* The requests under way and the screen.                                   *)

Kinds == {"poll", "heartbeat"} \cup Buttons \cup Outcomes

\* What holds of the requests under way and what they carry.
CallsRight ==
  /\ calls \subseteq Requests \cup Answers
  /\ \A c \in calls : ~IsRequest(c) => RightFor(c.snapshot, open, lease)

\* A request that is answered leaves a right snapshot in its place.
LEMMA ReplyIsRight ==
  ASSUME SessionTypeOK, LeaseTypeOK', current' \in TitlesOrNone,
         \A d \in calls : ~IsRequest(d) => RightFor(d.snapshot, open', lease'),
         NEW c, c.kind \in Kinds, NEW result \in {"ok", "refused", "not_found"},
         Reply(c, result)
  PROVE  CallsRight'
<1> DEFINE s == IF result = "not_found" THEN Blank ELSE Read
           a == [kind |-> c.kind, result |-> result, snapshot |-> s]
<1>1. Blank \in Snapshots /\ RightFor(Blank, open', lease')
  BY DEF Blank, Snapshots, RightFor, TitlesOrNone
<1>2. s \in Snapshots /\ RightFor(s, open', lease')
  BY <1>1, ReadIsRight
<1>3. a \in Answers /\ a.snapshot = s
  BY <1>2 DEF Answers, Kinds
<1>4. calls' = (calls \ {c}) \cup {a}
  BY DEF Reply
<1> HIDE DEF s, a
<1>5. \A d \in calls' : ~IsRequest(d) => RightFor(d.snapshot, open', lease')
  BY <1>2, <1>3, <1>4
<1>6. calls' \subseteq Requests \cup Answers
  BY <1>3, <1>4 DEF SessionTypeOK
<1>. QED
  BY <1>5, <1>6 DEF CallsRight, IsRequest

\* Neither the server's row nor the answers change: only requests are added.
LEMMA SendIsRight ==
  ASSUME SessionInv, UNCHANGED leaseVars,
         NEW kind \in Kinds \ {"poll"}, NEW g \in Nat, NEW t \in TitlesOrNone,
         Send(kind, g, t)
  PROVE  CallsRight'
<1> DEFINE r == [kind |-> kind, generation |-> g, title |-> t]
<1>1. r \in Requests
  BY DEF Requests, Kinds
<1>2. IsRequest(r)
  BY DEF IsRequest
<1>3. calls' = calls \cup {r}
  BY DEF Send
<1> HIDE DEF r
<1>4. calls' \subseteq Requests \cup Answers
  BY <1>1, <1>3 DEF SessionInv, SessionTypeOK
<1>5. \A d \in calls' : ~IsRequest(d) => RightFor(d.snapshot, open', lease')
  BY <1>2, <1>3 DEF SessionInv, leaseVars
<1>. QED
  BY <1>4, <1>5 DEF CallsRight, IsRequest

\* An answer that has arrived, or is lost, takes nothing with it.
LEMMA FinishIsRight ==
  ASSUME SessionInv, UNCHANGED leaseVars, NEW c \in calls, NEW failed \in BOOLEAN,
         Finish(c, failed)
  PROVE  /\ CallsRight'
         /\ pending' \in BOOLEAN /\ reportFailed' \in BOOLEAN
         /\ reported' \in [title: TitlesOrNone, generation: Nat, outcome: Outcomes \cup {"none"}]
<1>1. calls' = calls \ {c}
  BY DEF Finish
<1>2. CallsRight'
  BY <1>1 DEF SessionInv, SessionTypeOK, CallsRight, leaseVars, IsRequest
<1>3. pending' \in BOOLEAN
  BY DEF Finish
<1>4. NoReport \in [title: TitlesOrNone, generation: Nat, outcome: Outcomes \cup {"none"}]
  BY DEF NoReport, TitlesOrNone
<1>5. /\ reportFailed' \in BOOLEAN
      /\ reported' \in [title: TitlesOrNone, generation: Nat, outcome: Outcomes \cup {"none"}]
  BY <1>4 DEF Finish, SessionInv, SessionTypeOK
<1>. QED
  BY <1>2, <1>3, <1>5

LEMMA MountedTyped ==
  ASSUME SessionTypeOK, NEW s \in Snapshots
  PROVE  Mounted(s) \in [title: TitlesOrNone, over: BOOLEAN]
BY DEF SessionTypeOK, Snapshots, Mounted, NoPlayer, TitlesOrNone

-----------------------------------------------------------------------------
(* The invariant.                                                           *)

\* The parts of the invariant that a step of the server's rows can disturb.
ServerTyped ==
  LeaseTypeOK /\ LeaseBounded /\ ServerRowsTyped

\* The parts that a step of the tab can disturb.
TabTyped ==
  /\ snap \in Snapshots /\ RightFor(snap, open, lease)
  /\ player \in [title: TitlesOrNone, over: BOOLEAN]
  /\ pending \in BOOLEAN /\ losses \in 0..MaxLosses /\ reportFailed \in BOOLEAN
  /\ reported \in [title: TitlesOrNone, generation: Nat, outcome: Outcomes \cup {"none"}]

LEMMA SessionParts == SessionInv <=> ServerTyped /\ TabTyped /\ CallsRight
BY DEF SessionInv, SessionTypeOK, ServerTyped, ServerRowsTyped, TabTyped, CallsRight

LEMMA SessionPartsNext == ServerTyped' /\ TabTyped' /\ CallsRight' => SessionInv'
BY SessionParts, PTL

\* Whatever the server does to the lease, what was read before stays right.
LEMMA ServerStep ==
  ASSUME SessionInv, [LeaseNext]_leaseVars,
         ServerRowsTyped'
  PROVE  /\ ServerTyped' /\ LeaseTypeOK'
         /\ RightFor(snap, open', lease')
         /\ \A c \in calls : ~IsRequest(c) => RightFor(c.snapshot, open', lease')
<1>1. LeaseTypeOK /\ LeaseBounded /\ snap \in Snapshots
  BY DEF SessionInv, SessionTypeOK
<1>2. LeaseTypeOK' /\ LeaseBounded'
  BY <1>1, LeaseStepTyped, LeaseStaysBounded
<1>3. RightFor(snap, open', lease')
  BY <1>1, LeaseKeepsRight DEF SessionInv
<1>4. ASSUME NEW c \in calls, ~IsRequest(c)
      PROVE  RightFor(c.snapshot, open', lease')
  <2>1. c.snapshot \in Snapshots /\ RightFor(c.snapshot, open, lease)
    BY <1>4, CallTyped DEF SessionInv
  <2>. QED
    BY <1>1, <2>1, LeaseKeepsRight
<1>. QED
  BY <1>2, <1>3, <1>4 DEF ServerTyped

\* A step of the tab alone.
LEMMA ServerUntouched ==
  ASSUME SessionInv, UNCHANGED serverVars
  PROVE  /\ [LeaseNext]_leaseVars /\ UNCHANGED leaseVars
         /\ ServerTyped' /\ LeaseTypeOK' /\ RightFor(snap, open', lease')
         /\ \A c \in calls : ~IsRequest(c) => RightFor(c.snapshot, open', lease')
<1>1. UNCHANGED leaseVars /\ UNCHANGED <<current, taken, added, skips>>
  BY DEF serverVars
<1>2. ServerRowsTyped'
  BY <1>1 DEF SessionInv, SessionTypeOK, ServerRowsTyped
<1>. QED
  BY <1>1, <1>2, ServerStep

\* Every step keeps the invariant and is a step of the lease.
LEMMA SessionStep ==
  SessionInv /\ [SessionNext]_sessionVars => SessionInv' /\ [LeaseNext]_leaseVars
<1> SUFFICES ASSUME SessionInv, [SessionNext]_sessionVars
             PROVE  SessionInv' /\ [LeaseNext]_leaseVars
  OBVIOUS
<1>0. SessionTypeOK /\ LeaseTypeOK /\ LeaseBounded
  BY DEF SessionInv, SessionTypeOK
<1>1. CASE Poll
  <2> DEFINE p == [kind |-> "poll"]
  <2>1. UNCHANGED serverVars /\ p.kind \in Kinds
    BY <1>1 DEF Poll, Kinds
  <2>2. current' \in TitlesOrNone
    BY <2>1 DEF serverVars, SessionInv, SessionTypeOK
  <2>3. PICK result \in {"ok", "not_found"} : Reply(p, result)
    BY <1>1 DEF Poll
  <2>4. CallsRight'
    BY <1>0, <2>1, <2>2, <2>3, ServerUntouched, ReplyIsRight
  <2>5. TabTyped'
    BY <1>1, <2>1, ServerUntouched DEF Poll, TabTyped, SessionInv, SessionTypeOK
  <2>. QED
    BY <2>1, <2>4, <2>5, ServerUntouched, SessionPartsNext
<1>2. CASE Renew
  <2>1. UNCHANGED serverVars /\ Send("heartbeat", snap.generation, NoTitle)
    BY <1>2 DEF Renew
  <2>2. snap.generation \in Nat /\ NoTitle \in TitlesOrNone /\ "heartbeat" \in Kinds \ {"poll"}
    BY DEF SessionInv, SessionTypeOK, Snapshots, TitlesOrNone, Kinds
  <2>3. CallsRight'
    BY <2>1, <2>2, ServerUntouched, SendIsRight
  <2>4. TabTyped'
    BY <1>2, <2>1, ServerUntouched DEF Renew, TabTyped, SessionInv, SessionTypeOK
  <2>. QED
    BY <2>1, <2>3, <2>4, ServerUntouched, SessionPartsNext
<1>3. ASSUME NEW k \in Buttons, Press(k)
      PROVE  SessionInv' /\ [LeaseNext]_leaseVars
  <2>1. UNCHANGED serverVars /\ Send(k, 0, NoTitle)
    BY <1>3 DEF Press
  <2>2. NoTitle \in TitlesOrNone /\ k \in Kinds \ {"poll"}
    BY DEF TitlesOrNone, Kinds, Buttons
  <2>3. CallsRight'
    BY <2>1, <2>2, ServerUntouched, SendIsRight
  <2>4. TabTyped'
    BY <1>3, <2>1, ServerUntouched DEF Press, TabTyped, SessionInv, SessionTypeOK
  <2>. QED
    BY <2>1, <2>3, <2>4, ServerUntouched, SessionPartsNext
<1>4. ASSUME NEW o \in Outcomes, ReportsOnce(o)
      PROVE  SessionInv' /\ [LeaseNext]_leaseVars
  <2>1. UNCHANGED serverVars
    BY <1>4 DEF ReportsOnce
  <2>2. /\ snap.generation \in Nat /\ player.title \in TitlesOrNone /\ snap.title \in TitlesOrNone
        /\ o \in Kinds \ {"poll"}
    BY DEF SessionInv, SessionTypeOK, Snapshots, Kinds
  <2>3. CASE UNCHANGED <<calls, pending, reported>>
    <3>1. CallsRight'
      BY <2>1, <2>3, ServerUntouched DEF CallsRight, SessionInv, SessionTypeOK, IsRequest
    <3>2. TabTyped'
      BY <1>4, <2>1, <2>3, ServerUntouched DEF ReportsOnce, TabTyped, SessionInv, SessionTypeOK
    <3>. QED
      BY <2>1, <3>1, <3>2, ServerUntouched, SessionPartsNext
  <2>4. CASE Send(o, snap.generation, player.title) /\ reported' = ReportKey(o) /\ pending' = TRUE
    <3>1. CallsRight'
      BY <2>1, <2>2, <2>4, ServerUntouched, SendIsRight
    <3>2. reported' \in [title: TitlesOrNone, generation: Nat, outcome: Outcomes \cup {"none"}]
      BY <2>2, <2>4 DEF ReportKey
    <3>3. TabTyped'
      BY <1>4, <2>1, <2>4, <3>2, ServerUntouched DEF ReportsOnce, TabTyped, SessionInv, SessionTypeOK
    <3>. QED
      BY <2>1, <3>1, <3>3, ServerUntouched, SessionPartsNext
  <2>. QED
    BY <1>4, <2>3, <2>4 DEF ReportsOnce
<1>5. ASSUME NEW c \in calls, Serve(c)
      PROVE  SessionInv' /\ [LeaseNext]_leaseVars
  <2>1. c \in Requests /\ c.kind \in Kinds
    BY <1>0, <1>5, CallTyped DEF Serve, Requests, Kinds
  <2>2. /\ [LeaseNext]_leaseVars
        /\ ServerRowsTyped'
    <3>1. CASE Accept(c)
      BY <1>0, <2>1, <3>1, AcceptIsALeaseStep
    <3>2. CASE UNCHANGED serverVars
      BY <3>2 DEF serverVars, SessionInv, SessionTypeOK, ServerRowsTyped
    <3>. QED
      BY <1>5, <3>1, <3>2 DEF Serve
  <2>3. PICK result \in {"ok", "refused", "not_found"} : Reply(c, result)
    BY <1>5 DEF Serve
  <2>4. CallsRight'
    BY <1>0, <2>1, <2>2, <2>3, ServerStep, ReplyIsRight DEF ServerRowsTyped
  <2>5. TabTyped'
    BY <1>5, <2>2, ServerStep DEF Serve, TabTyped, SessionInv, SessionTypeOK
  <2>. QED
    BY <2>2, <2>4, <2>5, ServerStep, SessionPartsNext
<1>6. ASSUME NEW c \in calls, Answer(c)
      PROVE  SessionInv' /\ [LeaseNext]_leaseVars
  <2>1. UNCHANGED serverVars /\ UNCHANGED losses /\ Finish(c, c.result # "ok")
    BY <1>6 DEF Answer
  <2>2. c.snapshot \in Snapshots
    BY <1>0, <1>6, CallTyped DEF Answer
  <2>3. RightFor(c.snapshot, open', lease')
    BY <1>6, <2>1, ServerUntouched DEF Answer
  <2>4. /\ snap' \in Snapshots /\ RightFor(snap', open', lease')
        /\ player' \in [title: TitlesOrNone, over: BOOLEAN]
    <3>1. CASE UNCHANGED <<snap, player>>
      BY <2>1, <3>1, ServerUntouched DEF SessionInv, SessionTypeOK
    <3>2. CASE Show(c.snapshot)
      BY <1>0, <2>2, <2>3, <3>2, MountedTyped DEF Show
    <3>. QED
      BY <1>6, <3>1, <3>2 DEF Answer
  <2>5. CallsRight' /\ TabTyped'
    BY <2>1, <2>4, ServerUntouched, FinishIsRight DEF TabTyped, SessionInv, SessionTypeOK
  <2>. QED
    BY <2>1, <2>5, ServerUntouched, SessionPartsNext
<1>7. ASSUME NEW c \in calls, Lose(c)
      PROVE  SessionInv' /\ [LeaseNext]_leaseVars
  <2>1. UNCHANGED serverVars /\ UNCHANGED <<snap, player>> /\ Finish(c, TRUE)
    BY <1>7 DEF Lose
  <2>2. losses' \in 0..MaxLosses
    BY <1>7 DEF Lose, SessionInv, SessionTypeOK
  <2>3. CallsRight' /\ TabTyped'
    BY <2>1, <2>2, ServerUntouched, FinishIsRight DEF TabTyped, SessionInv, SessionTypeOK
  <2>. QED
    BY <2>1, <2>3, ServerUntouched, SessionPartsNext
<1>8. CASE Others
  <2>1. /\ [LeaseNext]_leaseVars
        /\ ServerRowsTyped'
    BY <1>0, <1>8, OthersIsALeaseStep
  <2>2. UNCHANGED tabVars
    BY <1>8 DEF Others
  <2>3. CallsRight'
    BY <2>1, <2>2, ServerStep DEF tabVars, CallsRight, SessionInv, SessionTypeOK, IsRequest
  <2>4. TabTyped'
    BY <2>1, <2>2, ServerStep DEF tabVars, TabTyped, SessionInv, SessionTypeOK
  <2>. QED
    BY <2>1, <2>3, <2>4, ServerStep, SessionPartsNext
<1>9. CASE UNCHANGED sessionVars
  <2>1. UNCHANGED serverVars /\ UNCHANGED tabVars
    BY <1>9 DEF sessionVars
  <2>2. CallsRight'
    BY <2>1, ServerUntouched DEF tabVars, CallsRight, SessionInv, SessionTypeOK, IsRequest
  <2>3. TabTyped'
    BY <2>1, ServerUntouched DEF tabVars, TabTyped, SessionInv, SessionTypeOK
  <2>. QED
    BY <2>1, <2>2, <2>3, ServerUntouched, SessionPartsNext
<1>. QED
  BY <1>1, <1>2, <1>3, <1>4, <1>5, <1>6, <1>7, <1>8, <1>9
     DEF SessionNext, PlayerStops, StopsAgain

LEMMA SessionStarts == SessionInit => SessionInv
<1> SUFFICES ASSUME SessionInit PROVE SessionInv
  OBVIOUS
<1>1. LeaseTypeOK /\ LeaseBounded
  BY DEF SessionInit, LeaseInit, LeaseTypeOK, LeaseBounded, NoLease
<1>2. snap \in Snapshots /\ RightFor(snap, open, lease)
  BY DEF SessionInit, Blank, Snapshots, TitlesOrNone, RightFor
<1>3. ServerRowsTyped
  BY DEF SessionInit, TitlesOrNone, ServerRowsTyped
<1>4. player \in [title: TitlesOrNone, over: BOOLEAN] /\ losses \in 0..MaxLosses
  BY DEF SessionInit, TitlesOrNone, NoPlayer
<1>5. reported \in [title: TitlesOrNone, generation: Nat, outcome: Outcomes \cup {"none"}]
  BY DEF SessionInit, TitlesOrNone, NoReport
<1>6. calls = {} /\ pending = FALSE /\ reportFailed = FALSE
  BY DEF SessionInit
<1>. QED
  BY <1>1, <1>2, <1>3, <1>4, <1>5, <1>6 DEF SessionInv, SessionTypeOK, ServerRowsTyped

-----------------------------------------------------------------------------
\* The invariant holds of every behaviour, and every behaviour keeps the lease's rules.
LEMMA SessionAlwaysRight == SessionSpec => []SessionInv /\ [][LeaseNext]_leaseVars
<1>. QED
  BY SessionStarts, SessionStep, PTL DEF SessionSpec

\* Type correctness of the panel, its requests and the server's rows.
THEOREM SessionTypeCorrect == SessionSpec => []SessionTypeOK
<1>1. SessionInv => SessionTypeOK
  BY DEF SessionInv
<1>. QED
  BY <1>1, SessionAlwaysRight, PTL

\* However late and in whatever order answers arrive, a screen that says its tab holds
\* the running generation is right.
THEOREM HeldScreenIsAlwaysRight == SessionSpec => []HeldScreenIsRight
<1>1. SessionInv => HeldScreenIsRight
  BY DEF SessionInv, RightFor, HeldScreenIsRight
<1>. QED
  BY <1>1, SessionAlwaysRight, PTL

\* The panel, the other members and the clock together implement the lock: no request
\* that is late, lost or repeated gives the lease to two browsers.
THEOREM SessionImplementsLock == SessionSpec => LeaseIsALock
<1>1. SessionInit => LeaseInit
  BY DEF SessionInit
<1>. QED
  BY <1>1, SessionAlwaysRight, LeaseImplementsLock, PTL DEF SessionSpec, LeaseSpec

-----------------------------------------------------------------------------
(* The jukebox.                                                             *)

\* The current title is among those that were taken, and those were added: what comes
\* next comes after it, and what is added after all of them.
CurrentTaken == current <= taken /\ taken <= added

\* Starts, skips and reports advance under a lease that runs; every other step leaves
\* the title alone.
Advances == open /\ Active /\ Advance /\ UNCHANGED leaseVars
KeepsTitle == [LeaseNext]_leaseVars /\ UNCHANGED <<current, taken>> /\ added' \in {added, added + 1}

LEMMA AdvancesOrKeeps ==
  SessionInv /\ [SessionNext]_sessionVars => Advances \/ KeepsTitle
<1> SUFFICES ASSUME SessionInv, [SessionNext]_sessionVars
             PROVE  Advances \/ KeepsTitle
  OBVIOUS
<1>1. [LeaseNext]_leaseVars /\ LeaseTypeOK /\ LeaseBounded
  BY SessionStep DEF SessionInv, SessionTypeOK
<1>2. ASSUME open, Start \/ Skip \/ (\E b, g : Report(b, g))
      PROVE  Advances
  BY <1>2 DEF Start, Skip, Report, Advances
<1>3. ASSUME UNCHANGED <<current, taken>>, added' \in {added, added + 1}
      PROVE  KeepsTitle
  BY <1>1, <1>3 DEF KeepsTitle
<1>4. ASSUME NEW c, Serve(c)
      PROVE  Advances \/ UNCHANGED <<current, taken, added>>
  BY <1>2, <1>4 DEF Serve, Accept, serverVars
<1>5. CASE Others
  BY <1>2, <1>3, <1>5 DEF Others, Add
<1>6. CASE Poll \/ Renew \/ (\E k \in Buttons : Press(k)) \/ (\E o : ReportsOnce(o))
  BY <1>3, <1>6 DEF Poll, Renew, Press, ReportsOnce, serverVars
<1>7. ASSUME NEW c, Answer(c) \/ Lose(c)
      PROVE  UNCHANGED <<current, taken, added>>
  BY <1>7 DEF Answer, Lose, serverVars
<1>8. CASE UNCHANGED sessionVars
  BY <1>3, <1>8 DEF sessionVars, serverVars
<1>. QED
  BY <1>3, <1>4, <1>5, <1>6, <1>7, <1>8 DEF SessionNext, PlayerStops, StopsAgain

\* An advance is a turn: the title that was playing and those that could not be started
\* are gone, and what plays comes after them.
LEMMA AdvanceTurns ==
  ASSUME SessionTypeOK, LeaseBounded, CurrentTaken, Advances
  PROVE  CurrentTaken' /\ Box!Turn
<1> DEFINE goneNow == {i \in Titles : i <= taken /\ i # current}
           goneNext == {i \in Titles : i <= taken' /\ i # current'}
           passed == goneNext \ goneNow
<1>1. /\ TitleCount \in Nat /\ taken \in 0..TitleCount
      /\ current \in 0..TitleCount /\ current <= taken
      /\ added \in 0..TitleCount /\ taken <= added
  BY DEF SessionTypeOK, TitlesOrNone, Titles, NoTitle, CurrentTaken
<1>2. PICK i \in 0..TitleCount :
        /\ current' = i
        /\ i = 0 \/ (i > taken /\ i <= added)
        /\ taken' = IF i = 0 THEN added ELSE i
        /\ added' = added
  BY DEF Advances, Advance, Titles, NoTitle
<1>3. CurrentTaken'
  BY <1>1, <1>2 DEF CurrentTaken
<1>4. goneNow \subseteq goneNext
  BY <1>1, <1>2 DEF Titles
<1>5. current # NoTitle => current \in passed
  BY <1>1, <1>2 DEF Titles, NoTitle
<1>6. passed \in SUBSET (Titles \ goneNow) /\ goneNext = goneNow \cup passed
  BY <1>4
<1>7. current' \in (Titles \ goneNext) \cup {NoTitle}
  BY <1>2 DEF Titles, NoTitle
<1>8. open /\ Active /\ lease.holder \in Browsers /\ Active' /\ UNCHANGED leaseVars
  BY DEF Advances, LeaseBounded, Active, SessionTypeOK, LeaseTypeOK, leaseVars
<1>9. UNCHANGED Box!lockVars
  BY <1>8 DEF Box!lockVars, leaseVars
<1> HIDE DEF passed
<1>. QED
  BY <1>3, <1>5, <1>6, <1>7, <1>8, <1>9 DEF Box!Turn

\* Whatever leaves the title alone is a step of the lock or nothing.
LEMMA KeepsTitleIsALockStep ==
  ASSUME LeaseTypeOK, LeaseTypeOK', KeepsTitle
  PROVE  [Box!JukeboxNext]_(Box!jukeboxVars)
<1>1. [Lock!LockNext]_(Lock!lockVars) /\ UNCHANGED <<current, taken>>
  BY LeaseStepIsALockStep DEF KeepsTitle
<1>2. CASE UNCHANGED Lock!lockVars
  BY <1>1, <1>2 DEF Lock!lockVars, Box!lockVars, Box!jukeboxVars
<1>3. CASE Lock!LockNext
  <2>1. Box!LockNext
    BY <1>3 DEF Lock!LockNext, Lock!Grant, Lock!Lapse, Lock!Retire,
       Box!LockNext, Box!Grant, Box!Lapse, Box!Retire
  <2>. QED
    BY <1>1, <2>1 DEF Box!JukeboxNext
<1>. QED
  BY <1>1, <1>2, <1>3

\* The panel's server, with every request delayed, lost or repeated, plays like the
\* jukebox: no report or skip that comes late changes the title without a lease, or
\* brings back a title that is over.
THEOREM SessionImplementsJukebox == SessionSpec => SessionIsAJukebox
<1>1. SessionInit => Box!JukeboxInit /\ CurrentTaken
  BY DEF SessionInit, LeaseInit, NoLease, Active, Box!JukeboxInit, Box!LockInit, Titles,
     NoTitle, CurrentTaken
<1>2. SessionInv => SessionTypeOK /\ LeaseTypeOK /\ LeaseBounded
  BY DEF SessionInv, SessionTypeOK
<1>3. SessionInv /\ CurrentTaken /\ [SessionNext]_sessionVars => CurrentTaken'
  <2>1. SessionInv /\ CurrentTaken /\ KeepsTitle => CurrentTaken'
    BY DEF KeepsTitle, CurrentTaken, SessionInv, SessionTypeOK
  <2>. QED
    BY <1>2, <2>1, AdvancesOrKeeps, AdvanceTurns
<1>4. SessionInv /\ SessionInv' /\ CurrentTaken /\ [SessionNext]_sessionVars
        => [Box!JukeboxNext]_(Box!jukeboxVars)
  <2>1. SessionInv' => LeaseTypeOK'
    BY <1>2, PTL
  <2>. QED
    BY <1>2, <2>1, AdvancesOrKeeps, AdvanceTurns, KeepsTitleIsALockStep DEF Box!JukeboxNext
<1>. QED
  BY <1>1, <1>3, <1>4, SessionAlwaysRight, PTL
     DEF SessionSpec, SessionIsAJukebox, Box!JukeboxSpec
=============================================================================
