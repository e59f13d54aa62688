-------------------------- MODULE MCPlaybackService ---------------------------
(* PlaybackService with one member on two tabs, so that the lease moves, and  *)
(* as many command identifiers as the longest story of the run needs.         *)
EXTENDS PlaybackService, TLC

CONSTANTS a, d1, d2, i1, i2

MCCommandTypes == QueueTypes \cup {"player.claim", "playback.pause", "playback.resume"} \cup Advancing

MCPlaybackTypes == MCCommandTypes \ QueueTypes

MCPayloads == Devices \cup Generations \cup {NoItem}

MCFingerprints == Tracks \cup Items \cup MCPayloads

MCProviders == (i1 :> "fake") @@ (i2 :> "youtube")

\* The fake is documented to lose its state: the restart run leaves it out.
MCYoutubeOnly == [i \in Items |-> "youtube"]

\* No property of these runs reads the last answer.
MCView == <<storeVars, itemVars, lease, playback, known>>

MCSymmetry == Permutations(Commands) \cup Permutations(Devices)
=============================================================================
