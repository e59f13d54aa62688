------------------------------- MODULE Jukebox --------------------------------
(***************************************************************************)
(* What a lobby promises its members about the music: one title at a time, *)
(* each at most once, and the title changes only while some browser holds  *)
(* the lobby's player, that is to say the fenced lock.                     *)
(***************************************************************************)
EXTENDS FencedLock

CONSTANTS Titles, NoTitle

VARIABLES
  current,  \* the title that plays
  gone      \* the titles that will not play any more

jukeboxVars == <<lockVars, current, gone>>

JukeboxInit == LockInit /\ current = NoTitle /\ gone = {}

\* The current title is over, others may be passed over with it, and one of those
\* left, or none, comes next.
Turn ==
  /\ ~retired /\ owner # NoOwner
  /\ \E passed \in SUBSET (Titles \ gone) :
       /\ current # NoTitle => current \in passed
       /\ gone' = gone \cup passed
  /\ current' \in (Titles \ gone') \cup {NoTitle}
  /\ UNCHANGED lockVars

\* A title that waits is taken out, whoever holds the player.
Withdraw(i) ==
  /\ ~retired
  /\ i \notin gone \cup {current}
  /\ gone' = gone \cup {i}
  /\ UNCHANGED <<lockVars, current>>

JukeboxNext ==
  \/ Turn
  \/ \E i \in Titles : Withdraw(i)
  \/ LockNext /\ UNCHANGED <<current, gone>>

JukeboxSpec == JukeboxInit /\ [][JukeboxNext]_jukeboxVars
=============================================================================
