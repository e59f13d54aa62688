----------------------------- MODULE CatalogSearch -----------------------------
(***************************************************************************)
(* A member's search panel and the search that answers it: every source of *)
(* the lobby is asked at the same time under a timeout of its own, and the *)
(* pages and failures that come back become one response.  The catalog     *)
(* hands over one source today; the service, its tests and this module     *)
(* take any list.                                                          *)
(***************************************************************************)
EXTENDS Integers, FiniteSets, SequencesExt

CONSTANTS
  Sources,      \* the lobby's connections, in the order of the list
  Consented,    \* those whose owner lends them to the lobby
  Searchable,   \* those with the capability catalog_search
  TwoRequests,  \* those that ask for ids and then for details (YouTube)
  Keys, Tracks, \* of the titles
  Malformed,    \* the tracks whose identifier the schema refuses
  Pages,        \* the pages a source can answer
  MaxVariants,  \* the schema's limit on the variants of a result
  MaxQueries    \* bound: searches of the panel

\* A candidate by what tells it from another: its key for deduplication, its track, and
\* whether the schema accepts what it says of its title.
Candidate == [key: Keys, track: Tracks, fits: BOOLEAN]

\* A page, whose cursor the schema may find too long.
Cursors == {"none", "short", "long"}
Page == [cursor: Cursors, issues: Seq(BOOLEAN), results: Seq(Candidate)]

\* What a source that answered nothing stands for.
NoPage == [cursor |-> "none", issues |-> <<>>, results |-> <<>>]

ASSUME SearchAssumption ==
  /\ Sources \in Seq(ToSet(Sources)) /\ IsInjective(Sources)
  /\ Consented \cup Searchable \cup TwoRequests \subseteq ToSet(Sources)
  /\ Pages \subseteq Page /\ NoPage \in Pages
  /\ Malformed \subseteq Tracks
  /\ {MaxVariants, MaxQueries} \subseteq Nat \ {0}

VARIABLES
  panel,     \* SearchPanel's state
  asked,     \* the number of its last query
  shown,     \* its response, and the query that response answers
  adding,    \* a result is being added to the queue, and how
  searches   \* the searches under way whose answer can still reach the panel

vars == <<panel, asked, shown, adding, searches>>

\* The elements of a sequence at the places of a set, in their order.
Pick(seq, places) ==
  LET upTo[n \in 0..Len(seq)] ==
        IF n = 0 THEN <<>>
        ELSE IF n \in places THEN Append(upTo[n - 1], seq[n])
        ELSE upTo[n - 1]
  IN  upTo[Len(seq)]

\* Slip: the capability is looked at, the consent is not.
EligibleWithoutConsent == Pick(Sources, {n \in DOMAIN Sources : Sources[n] \in Searchable})

Eligible ==
  Pick(Sources, {n \in DOMAIN Sources : Sources[n] \in Consented \cap Searchable})

Waiting(kind) == [kind |-> kind, page |-> NoPage]
Settled(o) == o.kind \in {"page", "failure", "timeout"}
AllSettled(r) == \A s \in ToSet(Eligible) : Settled(r.outcome[s])

Empty == [results |-> <<>>, issues |-> <<>>, cursors |-> <<>>]
NoResponse == [query |-> 0, response |-> Empty]

-----------------------------------------------------------------------------
(* One response out of the outcomes.                                        *)

\* Each value of a sequence once, where it first occurs: the order of insertion of a Map.
Firsts(seq) == Pick(seq, {n \in DOMAIN seq : \A m \in 1..(n - 1) : seq[m] # seq[n]})

\* The sequences of a sequence, one after the other.
Flatten(seqs) ==
  LET upTo[n \in 0..Len(seqs)] == IF n = 0 THEN <<>> ELSE upTo[n - 1] \o seqs[n]
  IN  upTo[Len(seqs)]

Found(source, page) ==
  [i \in DOMAIN page.results |-> [source |-> source, candidate |-> page.results[i]]]

Candidates(outcome, sources) ==
  Flatten([n \in DOMAIN sources |-> Found(sources[n], outcome[sources[n]].page)])

Variants(found) ==
  [i \in DOMAIN found |-> [source |-> found[i].source, track |-> found[i].candidate.track]]

\* Slip: the variants are not compared.
VariantsRepeated(found) == Variants(found)

VariantsOf(found) == Firsts(Variants(found))

Keyed(found, key) == Pick(found, {i \in DOMAIN found : found[i].candidate.key = key})

\* The first candidate of a key describes the result.
Results(found) ==
  LET keys == Firsts([i \in DOMAIN found |-> found[i].candidate.key])
  IN  [n \in DOMAIN keys |->
         [key |-> keys[n], about |-> Keyed(found, keys[n])[1],
          variants |-> VariantsOf(Keyed(found, keys[n]))]]

Issues(source, outcome) ==
  IF outcome.kind = "page"
    THEN [i \in DOMAIN outcome.page.issues |->
            [source |-> source, type |-> "provider",
             retryable |-> outcome.page.issues[i]]]
    ELSE <<[source |-> source, type |-> outcome.kind, retryable |-> TRUE]>>

NextPages(outcome, sources) ==
  LET more == Pick(sources, {n \in DOMAIN sources : outcome[sources[n]].page.cursor # "none"})
  IN  [n \in DOMAIN more |-> [source |-> more[n], cursor |-> outcome[more[n]].page.cursor]]

Aggregate(outcome, sources) ==
  [results |-> Results(Candidates(outcome, sources)),
   issues |-> Flatten([n \in DOMAIN sources |-> Issues(sources[n], outcome[sources[n]])]),
   cursors |-> NextPages(outcome, sources)]

\* Slip: the outcomes are taken as they arrive.
AggregateArrivals(r) == Aggregate(r.outcome, r.arrival)

AggregateOutcomes(r) == Aggregate(r.outcome, Eligible)

\* CatalogSearchResponseSchema, on what it may refuse: what describes a result, each of
\* its variants, their number, and a cursor.
ResultParses(result) ==
  /\ result.about.candidate.fits
  /\ \A v \in ToSet(result.variants) : v.track \notin Malformed
  /\ Len(result.variants) <= MaxVariants

Parses(response) ==
  /\ \A i \in DOMAIN response.results : ResultParses(response.results[i])
  /\ \A n \in DOMAIN response.cursors : response.cursors[n].cursor # "long"

-----------------------------------------------------------------------------
(* The server.                                                              *)

\* A search moves on; the panel does not see it.
Becomes(r, t) ==
  /\ searches' = (searches \ {r}) \cup {t}
  /\ UNCHANGED <<panel, asked, shown, adding>>

\* lobbyService.get, then one request for each eligible source.
LooksUp(r) ==
  /\ r.stage = "sent"
  /\ \E stage \in {"asking", "not_found", "down"} :
       Becomes(r, [r EXCEPT !.stage = stage])

Settles(r, s, outcome) ==
  /\ r.stage = "asking"
  /\ Becomes(r, [r EXCEPT !.outcome[s] = outcome, !.arrival = Append(@, s)])

\* A page of details, or the only page.  YouTube's adapter drops a long cursor.
SourceAnswers(r, s) ==
  /\ r.outcome[s].kind = IF s \in TwoRequests THEN "details" ELSE "asked"
  /\ \E p \in Pages :
       /\ s \in TwoRequests => p.cursor # "long"
       /\ Settles(r, s, [kind |-> "page", page |-> p])

\* YouTube's first answer: ids to ask the details of, or none.
SourceNames(r, s) ==
  /\ s \in TwoRequests /\ r.outcome[s].kind = "asked"
  /\ \/ /\ r.stage = "asking"
        /\ Becomes(r, [r EXCEPT !.outcome[s] = Waiting("details")])
     \/ \E cursor \in {"none", "short"} :
          Settles(r, s, [kind |-> "page", page |-> [NoPage EXCEPT !.cursor = cursor]])

SourceFails(r, s) ==
  /\ ~Settled(r.outcome[s])
  /\ Settles(r, s, Waiting("failure"))

\* Slip: the calls are not bounded.
TimerNeverStrikes(r, s) == FALSE

\* A timer strikes: that of the source, or that of YouTube's first request, which is
\* shorter and ends the search of the source as a failure.
TimerStrikes(r, s) ==
  /\ ~Settled(r.outcome[s])
  /\ Settles(r, s, Waiting(IF s \in TwoRequests /\ r.outcome[s].kind = "asked"
                             THEN "failure" ELSE "timeout"))

\* Slip: one source's exception rejects them all.
RespondsAllOrNone(r) ==
  /\ r.stage = "asking" /\ AllSettled(r)
  /\ LET response == AggregateOutcomes(r)
     IN  Becomes(r, IF /\ Parses(response)
                       /\ \A s \in ToSet(Eligible) : r.outcome[s].kind # "failure"
                      THEN [r EXCEPT !.stage = "ok", !.response = response]
                      ELSE [r EXCEPT !.stage = "unavailable"])

Responds(r) ==
  /\ r.stage = "asking" /\ AllSettled(r)
  /\ LET response == AggregateOutcomes(r)
     IN  Becomes(r, IF Parses(response)
                      THEN [r EXCEPT !.stage = "ok", !.response = response]
                      ELSE [r EXCEPT !.stage = "unavailable"])

-----------------------------------------------------------------------------
(* The panel.                                                               *)

NewSearch ==
  [query |-> asked + 1, stage |-> "sent", arrival |-> <<>>, response |-> Empty,
   outcome |-> [s \in ToSet(Eligible) |-> Waiting("asked")]]

\* Slip: the button stays enabled.
SubmitAnyTime ==
  /\ asked < MaxQueries
  /\ panel' = "loading" /\ asked' = asked + 1 /\ shown' = NoResponse
  /\ searches' = searches \cup {NewSearch}
  /\ UNCHANGED adding

\* The button is disabled while a search is loading.
Submit ==
  /\ panel # "loading" /\ asked < MaxQueries
  /\ panel' = "loading" /\ asked' = asked + 1 /\ shown' = NoResponse
  /\ searches' = searches \cup {NewSearch}
  /\ UNCHANGED adding

Receive(r) ==
  /\ r.stage \in {"ok", "not_found", "down", "unavailable"}
  /\ searches' = searches \ {r}
  /\ IF r.stage = "ok"
       THEN panel' = "idle" /\ shown' = [query |-> r.query, response |-> r.response]
       ELSE panel' = "unavailable" /\ UNCHANGED shown
  /\ UNCHANGED <<asked, adding>>

\* Slip: the exception of fetch is not caught.
LoseUncaught(r) ==
  /\ searches' = searches \ {r}
  /\ UNCHANGED <<panel, asked, shown, adding>>

\* The network or the process goes; what the server still does reaches nobody.
Lose(r) ==
  /\ panel' = "unavailable" /\ searches' = searches \ {r}
  /\ UNCHANGED <<asked, shown, adding>>

\* The panel remembers the mode of the lobby as it was at the click.
AddResult ==
  /\ adding = "none" /\ shown.response.results # <<>>
  /\ adding' \in {"plain", "blind"}
  /\ UNCHANGED <<panel, asked, shown, searches>>

\* The lobby's mode is switched: the queue's panel, and this one in it, is mounted anew.
\* The search that was under way goes on at the server, and is answered to nobody.
Remount ==
  /\ panel' = "idle" /\ shown' = NoResponse /\ adding' = "none" /\ searches' = {}
  /\ UNCHANGED asked

\* In blind mode an addition clears the results, those of a later search included.
Added ==
  /\ adding # "none" /\ adding' = "none"
  /\ shown' \in {shown} \cup (IF adding = "blind" THEN {NoResponse} ELSE {})
  /\ UNCHANGED <<panel, asked, searches>>

-----------------------------------------------------------------------------
Init ==
  /\ panel = "idle" /\ asked = 0 /\ shown = NoResponse
  /\ adding = "none" /\ searches = {}

Server(r) ==
  \/ LooksUp(r) \/ Responds(r)
  \/ \E s \in ToSet(Eligible) :
       SourceAnswers(r, s) \/ SourceNames(r, s) \/ SourceFails(r, s) \/ TimerStrikes(r, s)

Next ==
  \/ Submit \/ AddResult \/ Added \/ Remount
  \/ \E r \in searches : Server(r) \/ Receive(r) \/ Lose(r)

\* Nothing is asked of a source.  The lobby is looked up and every timer strikes; when
\* all sources have settled the response is put together, unless the request is lost,
\* and what is answered reaches the panel.
Concludes(r) ==
  \/ LooksUp(r) \/ Receive(r)
  \/ r.stage = "asking" /\ AllSettled(r) /\ Lose(r)
  \/ Responds(r)

Fairness ==
  /\ WF_vars(\E r \in searches : Concludes(r))
  /\ WF_vars(\E r \in searches, s \in ToSet(Eligible) : TimerStrikes(r, s))

Spec == Init /\ [][Next]_vars /\ Fairness

-----------------------------------------------------------------------------
(* Safety.                                                                  *)

Outcomes == [kind: {"asked", "details", "failure", "timeout", "page"},
             page: Pages \cup {[NoPage EXCEPT !.cursor = "short"]}]

\* The state of the panel and of the search it waits for: one, while it is loading.  A
\* search that lost its panel or its request may still run, and is answered to nobody.
SearchTypeOK ==
  /\ panel \in {"idle", "loading", "unavailable"}
  /\ asked \in 0..MaxQueries
  /\ shown.query \in 0..asked
  /\ adding \in {"none", "plain", "blind"}
  /\ panel = "loading" <=> Cardinality(searches) = 1
  /\ panel # "loading" <=> searches = {}
  /\ \A r \in searches :
       /\ r.query \in 1..asked
       /\ r.stage \in {"sent", "asking", "ok", "not_found", "down", "unavailable"}
       /\ \A s \in ToSet(Eligible) : r.outcome[s] \in Outcomes

\* The results on the screen answer the query that was typed last.
ShownAnswersLastQuery == shown.query \in {0, asked}

\* Where a source is in a response.
Entries(response, s) ==
  {e \in (1..Len(response.results)) \X (1..MaxVariants) :
     /\ e[2] <= Len(response.results[e[1]].variants)
     /\ response.results[e[1]].variants[e[2]].source = s}

\* Every source that consents and can search is in the response once, and no other:
\* all it found, each track once under each of its keys, or one issue.
EachSourceAccounted ==
  \A r \in searches, s \in ToSet(Sources) : r.stage = "ok" =>
    LET results == r.response.results
        issues == r.response.issues
        entries == Entries(r.response, s)
        blames == {n \in DOMAIN issues : issues[n].source = s /\ issues[n].type # "provider"}
    IN  IF s \in Consented \cap Searchable
          THEN /\ {<<results[e[1]].key, results[e[1]].variants[e[2]].track>> : e \in entries}
                    = {<<c.key, c.track>> : c \in ToSet(r.outcome[s].page.results)}
               /\ \A d, e \in entries :
                    /\ results[d[1]].key = results[e[1]].key
                    /\ results[d[1]].variants[d[2]] = results[e[1]].variants[e[2]]
                    => d = e
               /\ Cardinality(blames) = IF r.outcome[s].kind = "page" THEN 0 ELSE 1
          ELSE entries = {} /\ blames = {}

\* A result is described by the first source of the list that found it, whichever
\* answered first.
FirstSourceDescribes ==
  LET place(s) == CHOOSE n \in DOMAIN Sources : Sources[n] = s
  IN  \A r \in searches : \A i \in DOMAIN r.response.results :
        LET result == r.response.results[i]
        IN  \A v \in ToSet(result.variants) : place(result.about.source) <= place(v.source)

\* A source that fails or is late takes nothing from what the others found: a response
\* is refused only for a cursor, a track or a title's description that the schema refuses
\* in a page that came, or for a title with more variants than it allows.
OneFailureIsIsolated ==
  \A r \in searches : r.stage = "unavailable" =>
    LET finds(s) == ToSet(r.outcome[s].page.results)
        titled(k) == {v \in ToSet(Eligible) \X Tracks :
                        \E c \in finds(v[1]) : c.key = k /\ c.track = v[2]}
    IN  \E s \in ToSet(Eligible) :
          \/ r.outcome[s].page.cursor = "long"
          \/ \E c \in finds(s) : \/ ~c.fits \/ c.track \in Malformed
                                \/ Cardinality(titled(c.key)) > MaxVariants

-----------------------------------------------------------------------------
(* Liveness.                                                                *)

\* A search ends, though a source never answers.
SearchEnds == panel = "loading" ~> panel # "loading"
=============================================================================
