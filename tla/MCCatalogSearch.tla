--------------------------- MODULE MCCatalogSearch ----------------------------
(* CatalogSearch over YouTube, two other sources, and two that are left out.  *)
EXTENDS CatalogSearch

CONSTANTS youtube, fake, third, unlent, mute, k1, k2, t1, t2, odd

Title(key, track, fits) == [key |-> key, track |-> track, fits |-> fits]

MCSources == <<youtube, unlent, fake, mute, third>>
MCConsented == {youtube, fake, third, mute}
MCSearchable == {youtube, unlent, fake, third}
MCTwoRequests == {youtube}
MCKeys == {k1, k2}
MCTracks == {t1, t2, odd}
MCMalformed == {odd}

\* Nothing; one title, and more to fetch; the same track twice with a shard missing;
\* two tracks of one title; a title, a track and a cursor that the schema refuses.
MCPages ==
  {NoPage,
   [cursor |-> "short", issues |-> <<>>, results |-> <<Title(k1, t1, TRUE)>>],
   [cursor |-> "none", issues |-> <<TRUE>>,
    results |-> <<Title(k2, t2, TRUE), Title(k2, t2, TRUE)>>],
   [cursor |-> "none", issues |-> <<>>,
    results |-> <<Title(k2, t1, TRUE), Title(k1, t1, TRUE), Title(k1, t2, TRUE)>>],
   [cursor |-> "none", issues |-> <<>>, results |-> <<Title(k1, t2, FALSE)>>],
   [cursor |-> "none", issues |-> <<>>, results |-> <<Title(k1, odd, TRUE)>>],
   [cursor |-> "long", issues |-> <<>>, results |-> <<>>]}
=============================================================================
