# EasyPlaylist, specified in TLA+

EasyPlaylist is a shared music queue: guests join a *lobby*, add tracks to its queue, and one
browser, the *player*, plays them. An API (Express, Socket.IO, PostgreSQL) holds the state, a React
client shows it. This directory holds models of the parts where order, concurrency and failure
matter, the TLC configurations that check them, and proofs that TLAPS checks.

Paths below are relative to the repository. `queue-service.ts`, `app.ts` and so on are under
`src/apps/api/src/`, `App.tsx` is `src/apps/web/src/App.tsx`, and documents are under `src/Docs/`.

## 1. Inventory

| Component | State | Operations | What makes it correct | Modelled in |
|---|---|---|---|---|
| Lobby service (`lobby/lobby-service.ts`) | `lobbies` (status, hidden mode, version, expiry), `lobby_memberships` | create, join, get, updateSettings | a change that members see moves `version`; nothing changes after the end | `LobbyStore` |
| Command prologue (in the queue and playback services) | `command_receipts` | lock the lobby row, authorize, replay, compare the expected version, write a receipt | an identifier has one effect; its retries are answered alike | `LobbyStore` |
| Queue service (`queue/queue-service.ts`) | `queue_items` (state, position) | add, remove, reorder, snapshot | positions stay unique without a gap-free numbering; at most 200 items wait; hidden mode lets nobody reorder or remove | `QueueService` |
| Player lease (part of `playback/playback-service.ts`) | `playback_leases` | claim, heartbeat, expiry by the clock, deletion with the lobby | one browser at a time; a lost lease never comes back under its old generation | `PlayerLease`, `FencedLock` |
| Playback service (`playback/playback-service.ts`) | `playback_states` | start, pause, resume, skip, report ended / failed | agrees with the queue and with the adapters | `PlaybackService` |
| Provider adapters (`provider/`) | what each plays, in the memory of the process; `provider_connections` | play, pause, resume, stop, revoke, resolve, search | the adapter of the current item can be reached | partly, in `PlaybackService` and `CatalogSearch` |
| Lifecycle (`lobby/lobby-lifecycle-service.ts`) and sweep (`server.ts`) | the rows above | close, expireBatch, purgeConnections | a lobby ends once; its lease and its stored connections go | `LobbyLifecycle` |
| HTTP and rooms (`app.ts`) | Socket.IO rooms | commit, then publish to the room; a snapshot on joining | what is missed or comes late does not leave a browser wrong | partly, in `QueueView`, `PlayerSession` and `CatalogSearch` |
| Queue panel (`App.tsx`) | mode, `minimumLobbyVersion`, snapshot, requests under way | poll, apply events, edit, remount | the screen is never older than the setting it shows, and catches up | `QueueView` |
| Player panel and YouTube player (`App.tsx`, `YoutubePlayer.tsx`) | snapshot, mounted video, requests under way, the last report | poll, heartbeat, claim, start, skip, report | one tab plays; a tab that lost its lease falls silent; the queue goes on by itself | `PlayerSession` |
| Catalog search (`search/catalog-search-service.ts`) | the outcomes of one search | ask every source under a timer, aggregate | one failure takes nothing from the others; each source is accounted for; a search ends | `CatalogSearch` |
| Search panel (`App.tsx`) | state, response, the addition under way | search, add a result | what it shows answers the last query | `CatalogSearch` |
| Guest identity, secret vault, migrations, scripts, configuration | | | | no; section 8 |

**Interactions.** Every mutation of a lobby is one PostgreSQL transaction that starts by locking the
lobby's row `FOR UPDATE`; `version` is incremented in it when what members see changes. The HTTP
handler publishes *after* the commit, without any lock, so events overtake one another and the
answers of the browser's own requests. The playback service calls an adapter *inside* its
transaction, but the adapter's memory is not part of it. The close and the sweep are single SQL
statements that do not go through the prologue.

**What is hard.** (1) The clock compared with `expires_at` is read before the wait for the lock.
(2) Two services write into one receipts table and one queue. (3) Reorders derive positions from the
version, adds from the largest position, and both meet one unique constraint checked row by row.
(4) A restart or a lost commit separates the adapters from the rows. (5) Under READ COMMITTED a
statement that waits for a lock re-reads the locked row and no other. (6) Purges fail, the process
stops between two steps, a sweep skips locked rows and takes a limited batch. (7) Snapshots reach a
browser by three roads that do not wait for one another. (8) A report names its lease and not its title, and the
player that sends it hears of other members' skips later. (9) Sources answer a search in any order, late, or never. `PROJECT.json` lists each hazard at its
line with the properties that watch it.

## 2. Modules

Each state module has a `*Proofs` module beside it (except `LobbyStore`, `FencedLock` and
`Jukebox`, which have none of their own) and an `MC*` module for TLC.

    LobbyStore          lobby row, memberships, receipts, clock; the command prologue
      `- QueueService       + queue_items; commands of the queue, playback as an environment
           `- PlaybackService   + lease, playback_states, adapters     (implements QueueSpec,
                                                                        PlayerLease!LeaseSpec and Jukebox)
    FencedLock          abstract: one owner at a time, a token that grows
      `- Jukebox            + one title at a time, each once, turned only under the lock
    PlayerLease         the lease row and the clock                    (implements FencedLock)
         `- PlayerSession       + the current title, one tab's panel and its player   (implements Jukebox)
    LobbyLifecycle      close, sweep, transactions and crashes, statement by statement
    QueueView           server versions, room, socket, and one member's queue panel
    CatalogSearch       one member's search panel, the search service and its sources

How the models relate to each other:

* **One action per transaction** in `LobbyStore`, `QueueService` and `PlaybackService`. The row lock
  serializes them, so an interleaving of requests is an order of actions. A request is any record of
  `Request`: any member may send, resend or delay any of them. `asOf \in 0..now` is the clock the
  transaction read *before* it waited for the lock. Guards follow the order of the code: authorization,
  replay, expected version, then the operation's own refusals; a refusal only changes `reply`, the last answer.
* **`QueueService` contains playback twice**: as three loose actions (`PlaybackAdvances`,
  `PlaybackTouches`, `PlaybackRefused`) that say what a playback command may do to the queue, and in
  `PlaybackService` as the code does it. `PlaybackKeepsTheQueue == QueueSpec` says the second is an
  instance of the first, so what is proved of the queue holds with the real player beside it.
* **`PlayerLease` is used in `PlaybackService`** by `INSTANCE` with `open <- status = "open"`: its
  `Claim`, `Heartbeat` and `Release` are the lease half of the service's actions.
* **`Jukebox` is what the members are promised**: who may play (the lock), what plays (`current`) and what is over (`gone`).
  A `Turn` needs an owner and a lobby that has not ended; it puts the current title and any others that were passed over into `gone` and
  takes one of the rest, or none. `Withdraw` takes out a title that waits. Two very different modules implement it: `PlaybackService`, whose
  rows are those of the database (`gone` is the items played, failed or removed; an order that members change), and `PlayerSession`, whose
  server is reduced to what a panel can tell apart (`gone` is what `taken` has passed). That reduction is thereby held to the same promise.
* **`LobbyLifecycle` opens the step that `PlaybackService` takes as one** (`LobbyEvent`: the lobby ends and its
  lease goes). A command is `AskForLobby` (it read its clock), `LockLobby` (it has the row, and tests
  the status again), then a commit or a rollback. A close is `CloseReads` (the statement's snapshot),
  `CloseWrites` (the lock was granted) and `ClosePurges`. A sweep is `SweepReads` and `SweepWrites`.
  The step is not atomic in one respect: a lease row inserted while the close waits survives it (section 4, "Also seen").
* **`PlayerSession` extends `PlayerLease`** with the panel of one tab. The tab's requests and their answers are a set
  `calls`: a request is served in one step (one transaction) and answered in another, in any order, and either may be lost.
  The snapshot of an answer is the one read at the end of its transaction, as in `readSnapshot`. What the other members, their
  tabs and the clock do is `Others`. Titles are numbered in the order in which they are added, so `added` and `taken` say which wait; an
  emptied queue is refilled and started again. A video reports its first end or failure (`PlayerStops`), and may report again (`StopsAgain`).
* **`CatalogSearch` has the outcomes of one search as a function of the sources**: one source settles in one step, and
  the response is computed from all of them at once, as `Promise.all` and `aggregateOutcomes` do. Everything it needs of sequences is
  `Pick` (the elements at given places) and `Flatten`, both recursive functions, so that the prover can reach them.
  `arrival`, the order in which sources settled, is read by no action.
* **`QueueView` takes a snapshot to be a version number.** That is sound because two states of one lobby
  version show the same queue, which is `ViewChangesMoveVersion`, proved as `VersionStandsForView`. `hidden` is
  the sequence of the modes of all versions so far.

Operators introduced by a comment that begins with `Slip:` (for instance `AddBeyondCapacity`)
are not used by any specification. Each is a plausible mistake in the code; replacing the definition
it stands before by it makes TLC find the property that guards against it (`mutants` of `PROJECT.json`).

### Correspondence

| Model | Code |
|---|---|
| `Authorized`, `Used`, `SameCommand`, `VersionMatches`, `PrologueAnswer` | `lockAuthorizedLobby`, `readReplay`, `requireExpectedVersion` (`queue-service.ts` 383–471, `playback-service.ts` 843–915) |
| `WriteReceipt`, `IncrementVersion` | `writeReceipt`, `incrementVersion` / `incrementQueueVersion` |
| `Join`, `UpdateSettings`, `Close`, `Expire` | `lobby-service.ts` 142–197, 240–295; `lobby-lifecycle-service.ts` |
| `Add`, `Remove`, `Reorder` and their `...Refused` | `queue-service.ts` 106–381 |
| `NextPositions`, `Placed` | `coalesce(max(position), 0) + 1`; `version * 1000 + ordinality` |
| `Claim`, `Heartbeat`, `Start`, `Skip`, `Pause`, `Resume`, `Report`, `Advance`, `Plays` | `playback-service.ts` 132–635 |
| `known`, `Reachable` | the maps of `provider/` adapters and their `requirePlayback` |
| `CloseReads`, `CloseWrites`, `ClosePurges` | `lobby-lifecycle-service.ts` 41–107, 186–191 |
| `SweepReads`, `SweepWrites`, `SweepFails` | `lobby-lifecycle-service.ts` 109–184, `server.ts` 113–155 |
| `Crash`, `Restart` | `server.ts` 101–125 and the deployment's `restart: unless-stopped` |
| `Publish`, `RereadQueue` | `app.ts` 269–505, 597–838, 887–947 |
| `AskToJoin`, `JoinRoom` | `queue:join`, `app.ts` 144–180 |
| `Renew`, `Press`, `ReportKey`, `ReportsOnce`, `Mounted`, `Answer`, `Lose` | `App.tsx` 945–1235 |
| `PlayerStops`, `StopsAgain`, `Show` | `YoutubePlayer.tsx` 74–148 |
| `Read`, `Reply`, `Serve`, `Refused` | `playback-service.ts` 637–707, 802–841; `app.ts` 707–838, 990–1024 |
| `PlayerSession!Add`, `Advance` | `queue-service.ts` 106–218, `playback-service.ts` 518–614 |
| `Eligible`, `Settles`, `TimerStrikes`, `AggregateOutcomes`, `VariantsOf`, `NextPages`, `ResultParses`, `Parses` | `catalog-search-service.ts` 46–250, `contracts/src/index.ts` 174–214 |
| `SourceNames`, `SourceAnswers`, `SourceFails` | `youtube-music-provider.ts` 94–188, 280–317 |
| `Submit`, `Receive`, `AddResult`, `Added` | `App.tsx` 1279–1446 |
| `CatalogSearch!Remount` | the panel's `key`, `App.tsx` 445–453 |
| `Poll`, `AnswerFetch`, `Edit`, `AnswerEdit`, `QueueEvent`, `SettingsEvent`, `ClosedEvent`, `Remount` | `App.tsx` 281–299, 446–453, 553–736 |

`PROJECT.json` (`map`) has the lines of every definition.

## 3. Runs

Each cfg is checked by TLC against the `MC*` module named in `PROJECT.json`.

| Run (cfg) | Question | Properties |
|---|---|---|
| `queue_admission` (`MCQueueAdmission`) | who is admitted, what a retry or a conflict is answered, what an admitted command may change, with hidden mode, close and expiry in between | `QueueTypeOK`, `AnswersMatchReceipts`, `ViewChangesMoveVersion`, `EffectsSpendACommand`, `ClosedLobbyIsFrozen`, `BlindQueueIsFifo` |
| `queue_positions` (`MCQueuePositions`) | adds, reorders, removals and playback never collide on a position | `UniquePositions`, `PositionsBounded`, `QueueBounded`, `AppliedOrderIsTheQueue`, `WritesNeverCollide`, `ItemsFollowLifecycle` |
| `playback_faults` (`MCPlaybackFaults`) | with restarts and lost commits, the playback row agrees with the queue, and the player obeys the queue's and the lease's specifications, and plays like a jukebox | `PlaybackTypeOK`, `PlaybackMatchesQueue`, `PlayerHoldsALease`, `PlaybackKeepsTheQueue`, `PlayerIsAJukebox` |
| `playback_control` (`MCPlaybackControl`) | without faults, every control reaches its adapter | `ControlReachesProvider` |
| `playback_restart` (`MCPlaybackRestart`) | and after a restart? *Violated*, finding 1 | `ControlReachesProvider` |
| `lobby_lifecycle` (`MCLobbyLifecycle`) | closes, sweeps, commands, failed purges and crashes race to end two lobbies: does each end once, and lose its connections? | `LifecycleTypeOK`, `NoCommandOnEndedLobby`, `OneCloseSucceeds`, `ClosedMeansPurged`, `OnlyUnseenLeaseSurvives`, `EndsOnce`, `EndedLobbyIsPurged`, `DueLobbyEnds` |
| `player_session` (`MCPlayerSession`) | a tab's requests are answered in any order or lost: what may it show, when does it fall silent, does the queue go on? | `SessionTypeOK`, `HeldScreenIsRight`, `SessionIsAJukebox`, `LostLeaseSilences`, `TitleEnds` |
| `player_report` (`MCPlayerReport`) | does a report end the title it is about? *Violated*, finding 2 | `ReportEndsItsTitle` |
| `catalog_search` (`MCCatalogSearch`) | sources answer, fail or stay silent in any order: what does the response say, and does it come? | `SearchTypeOK`, `ShownAnswersLastQuery`, `EachSourceAccounted`, `FirstSourceDescribes`, `OneFailureIsIsolated`, `SearchEnds` |
| `queue_view` (`MCQueueView`) | polls, events and edits in any order: what may the screen show, and does it catch up? | `ViewTypeOK`, `ViewNotOlderThanSetting`, `ViewCatchesUp` |
| `queue_view_hidden` (`MCQueueViewHidden`) | does a hidden queue stay hidden? *Violated*, finding 3 | `HiddenStaysHidden` |
| `queue_view_closed` (`MCQueueViewClosed`) | does a close reach every browser? *Violated*, finding 4 | `ClosedIsShown` |

### Bounds, and why they are enough

* **`queue_admission`.** Two members, one the creator; three command identifiers, so that an identifier is
  used, used again by another member or another type, and two others act in between; no settings change from
  version two on, so hidden mode may be switched on while an item waits, then off or acted on (`MaxVersion` caps settings changes only, commands are capped by their identifiers); the lobby
  expires at the last of two instants, so a command may have read its clock before and be served after.
* **`queue_positions`.** Four commands on four items. Capacity 3 with Stride 3 is the *tightest* proportion the
  code allows (200 and 1000 there): a position that strayed one room too far would collide here and might
  not with slack. Four items are more than the capacity, so one has to leave before the fourth is added.
  Every list of distinct items is submitted, right or wrong. Filling the queue, losing an item and meeting the limit again takes a fifth
  command, which does not fit the time of a run: that case is left to the theorem `QueueStaysBounded`.
* **`player_session`.** Two browsers, the modelled tab and another; a lease of one tick that expires and is claimed again
  (two generations, two instants); two titles, added at any time, so that one follows another or starts an emptied queue again; one poll and one other request under
  way, one skip, one lost answer. One poll is enough to be late: a heartbeat or a command is answered beside it. `player_report`
  needs one generation and no loss. The lobby may be closed and the clock stops, so deadlock is not checked.
* **`catalog_search`.** Three eligible sources, one that asks twice (YouTube), one that is not lent and one that cannot search;
  pages that are empty, have a cursor, an issue, a repeated track, two tracks under one title, a title another source has too, or a
  description, a track or a cursor that the schema refuses; at most three variants, so that three sources can find four. Two queries: the second meets what the first left behind.
* **`playback_*`.** One member with two tabs (a lease is per tab), two items, one per adapter: the fake
  remembers one playback and YouTube one per command. Four identifiers cover add, claim, start and one
  skip or report, or two adds and a start that passes over the first; `playback_control` has five, so that a skip or a report starts a second title on the other adapter. `MCView` leaves the last
  answer out of the fingerprint because no property of these runs reads it. `playback_restart` has only
  YouTube items because the fake's loss of memory is documented (`project/decision-log.md:183`).
* **`lobby_lifecycle`.** Two lobbies and batches of one, so that one lobby stands in front of
  another; two closes on the same lobby. The lobbies start with any combination of stored connections.
* **`queue_view`.** Three versions (a switch there and back, or a gap), two polls under way, one edit, one cut or
  restart. The final screen and an exhausted budget of versions really stop the panel, so deadlock is not checked.
* Identifiers are symmetric (`SYMMETRY`) only in runs without liveness.

### Fairness

Seven properties need it: `EndedLobbyIsPurged`, `DueLobbyEnds`, `ViewCatchesUp`, `ClosedIsShown`, `LostLeaseSilences`,
`TitleEnds` and `SearchEnds`.

* `LobbyLifecycle!Fairness`: a transaction that holds a row ends (weak); a crashed process is restarted
  (`compose.yaml`, `restart: unless-stopped`); `server.ts` sweeps at startup and on a timer, so a sweep is
  asked for again and again *between crashes* (strong, since a crash interrupts it), and not every sweep fails (strong).
  No close is assumed to finish and no purge of a close to succeed: the sweep alone has to bring the lobby to its end.
* `QueueView!PollingFairness`: `setInterval` polls every 5 seconds for as long as the panel is mounted
  (`App.tsx` 690) and a request under way is answered. Nothing is assumed of the socket or of publication, so
  `ViewCatchesUp` says that polling alone repairs whatever was lost.
* `RealtimeFairness` adds publication, reconnection and delivery. It makes finding 4 stronger: the
  final screen is missed although every event that is emitted to the browser's socket arrives.

* `PlayerSession!SessionFairness`: the two-second poll goes on and is answered (`App.tsx` 997); a request arrives and is
  answered unless it is lost (and at most `MaxLosses` are); a video that stays mounted comes to its end or
  fails. The last is strong, since the bound on requests under way makes the end wait for a heartbeat, which no browser does.
  It is fair because nobody is assumed to pause for ever and the browser to let a video start by itself (`onAutoplayBlocked` only shows a message); a second end is not assumed (`StopsAgain`).
  Nobody is assumed to press a button, to claim or to keep the lease: `TitleEnds` holds of a lease that lasts, of a video that differs from the earlier ones, and of reports that are not lost.
* `CatalogSearch!Fairness`: a search goes on by itself (`Concludes`: the lobby is looked up, a response is put together once all sources have
  settled, and reaches the panel, unless the request is lost) and the timers strike (`setTimeout`, `AbortSignal.timeout`). Nothing is assumed of any source.

## 4. Findings

Four sentences of the documentation that the code does not keep. Each has a run that TLC ends with a counterexample.

1. **A restart disconnects the controls** (`playback_restart`). `technical-design.md:96` opens start, pause,
   resume and skip to every member while a lease is valid. The YouTube adapter keeps what it plays in memory; after a restart of
   the API `playback_states` still names the item, and pause, resume and skip throw. Only the player's own
   report (ended or failed) moves on. `PlaybackMatchesQueue` still holds: the rows agree, the adapter does not.
2. **A report ends another title** (`player_report`). `provider-model.md:70` says that an end or an error reported by the
   player archives *the item*. A report carries the lease's generation and the outcome, not the item. If another member skips while it is
   under way, or the player reports twice before its screen follows, the title that has just begun is archived as played.
3. **A late poll shows a hidden queue** (`queue_view_hidden`). `backlog.md:237` says that clients ignore snapshots older
   than the setting they observed. `mutateQueue` shows the snapshot of its answer, hidden mode included, without
   raising `minimumLobbyVersion`; an earlier poll answered after it is then accepted. `ViewNotOlderThanSetting`, which is
   about settings that arrive by the other roads, does hold, and is proved.
4. **A browser may miss the end** (`queue_view_closed`). `decision-log.md:215` says `lobby.closed` moves the browsers to
   the final screen. It is emitted once to the sockets in the room; a browser that is joining or
   reconnecting at that moment polls for ever and is only refused.

Also seen, and not claimed as divergences:

* Two titles in a row with the same video keep one player, since its key is the video (`App.tsx:1229`). It has
  ended and does not end again: the queue stops until somebody skips. `TitleEnds` leaves such titles out (`Fresh`).
* A report whose answer is lost is never sent again, because a video ends once (`App.tsx:1104`); the queue stops if the request was lost too.
  `TitleEnds` excludes it by `reportFailed`.
* A player goes on playing after its lobby has ended: its polls are answered 404, which only sets an error. `LostLeaseSilences` ends with `~open`.
* While a tab is cut off it goes on playing, so two can be heard once another has claimed. `decision-log.md:117` says that the lease prevents
  simultaneous outputs; what the code gives is `LostLeaseSilences`: it lasts until a poll of the cut off tab is answered.
* The row of a first claim that commits while a close waits for the lobby's lock survives the close: the statement re-reads the lobby
  row, but the inserted lease is not in its snapshot. `OnlyUnseenLeaseSurvives` says that no other lease does; no command can use it.
* A close that waited while the lobby ended is answered `LOBBY_CREATOR_REQUIRED`, although its sender is the creator (`lobby-lifecycle-service.ts:90`).
* One candidate that the schema refuses (also when an earlier one describes its title), a cursor of more than 200 characters from an adapter that does not check it, or a
  title with more than 20 variants refuses a whole search (503).
* In hidden mode an addition that ends after a later search clears the results of that search (`App.tsx:1333`).

## 5. Proofs

Checked by TLAPS for every value of the constants that satisfies the `ASSUME`s: any number of members,
items, commands, lobbies, closes, versions and polls, any capacity up to the stride, any lease duration.

* **`QueueServiceProofs`.** `QueueInv` is `QueueTypeOK`, `UniquePositions`, `PositionsBounded` and `QueueBounded`
  together. Uniqueness alone is not inductive: a reorder at version *v* + 1 writes the positions from `Stride * (v + 1) + 1`, and
  nothing would say that they are free. `PositionsBounded` says no stored position exceeds `Stride * v + Capacity`, and
  `Capacity <= Stride` makes the new room disjoint from all the old ones; an add goes at most one above the bound
  of its version, and its command moves the version. The bound on a reorder is the length of its list, hence `QueueBounded`.
  `WritesNeverCollide`, `ViewChangesMoveVersion`, `ClosedLobbyIsFrozen`, `EffectsSpendACommand` and `ItemsFollowLifecycle`
  are action properties that follow from it step by step, and so does `BlindQueueIsFifo`. `AnswersMatchReceipts` and `AppliedOrderIsTheQueue`
  speak of the last answer: each is an invariant of the steps that write `reply`, and the others leave receipts and queue in place or clear the case.
* **`PlayerLeaseProofs`.** `LeaseImplementsLock`: the lock's owner is the row's holder *while the clock has not
  passed its expiry*. A claim maps to `Grant`, a heartbeat to a stutter (it needs the type invariant to show that
  the lease stays active), a tick to a stutter or `Lapse`, the end of the lobby to `Retire`.
  No run lists `LeaseIsALock` itself: `SessionIsAJukebox`, which `player_session` checks, contains it under the same mapping.
* **`PlaybackServiceProofs`.** `PlaybackInv` adds to `QueueInv` the type of the row and `PlaybackMatchesQueue`.
  The latter is needed for refinement: `Advance(playback.item, ...)` is a step of the queue's
  specification only if that item is the one that is playing. `PlaybackImplementsQueue` and
  `PlaybackImplementsLease` then hold with restarts and lost commits included. `ControlAlwaysReaches` assumes `Faults = {}`: with the types of
  what the adapters hold, `ControlReachesProvider` is inductive, so a restart or a lost commit is the only way to finding 1.
  `PlaybackImplementsJukebox` sorts the steps into three (`StepOfTheTitles`): `Turns` (start, skip, report, under a lease that runs), `Withdraws`
  (a removal) and `KeepsTitles` (everything else, which is at most a step of the lease), and maps each. It needs `PlaybackMatchesQueue`, or the
  title that an advance finishes might not be the one that plays and a removed one might be, and that a lease that runs has a holder (`LeaseHeld`).
* **`PlayerSessionProofs`.** `HeldScreenIsRight` is not inductive: an answer under way may be old when it reaches the screen. `SessionInv` says
  the same of every answer in `calls`, and that generations only grow. No step of the lease can then make a snapshot wrong that was right
  (`LeaseKeepsRight`), however late it is shown. `SessionImplementsLock` goes through the lease's own steps.
  `SessionImplementsJukebox` adds that the current title is among those taken, and those among the added (`CurrentTaken`): what an advance reaches comes after it, and so was not gone.
* **`LobbyLifecycleProofs`.** `LifecycleInv` is the types, `NoCommandOnEndedLobby` and `ClosesOK`, which ties a close to
  its lobby: one that is purging or has answered `closed` has a lobby that is `closed`, at most one close of a lobby
  is past its write, and a success means there are no connections left. `SurvivorWasUnseen` ties the lease of a closed lobby to
  what the snapshot of its close had seen.
* **`QueueViewProofs`.** `ViewInv` adds to `ViewNotOlderThanSetting` that whatever is under way (a poll's
  answer, an event, a join) carries an existing version (`InFlightKnown`), and that an answered
  edit was asked for by the panel that will show it (`EditsOfThisPanel`), which is what the `key` of
  the panel is for.

* **`CatalogSearchProofs`.** What a response says is a matter of data: of what recursive functions compute on sequences of any length.
  The library's induction theorems take an operator and cannot be used, so `SetInduction` states induction over the natural numbers for a *set*, and proves it from the
  pigeonhole principle. By it the functions inside `Pick` and `Flatten` exist (`PickFunction`, `FlattenFunction`), hence compute step by step
  (`PickSteps`, `FlattenSteps`), hence return what they should: each element's place in the original sequence, in order and once
  (`PickProperties`, `FlattenProperties`). On these rest lemmas about the parts of the response: the eligible sources are in the order of the list, `Firsts` keeps
  each value once, the candidates are the findings of all sources in order, the results describe them (`DescribesAll`), the issues blame each source once.
  `SearchInv` says that at most one search can still reach the panel and that it asks the last query, and ties its response to outcomes that have all settled; the
  five theorems follow, for any list of sources, any consent and capabilities, and pages of any length.

**Only model-checked.** `EndedLobbyIsPurged`, `DueLobbyEnds`, `ViewCatchesUp`, `LostLeaseSilences`, `TitleEnds` and `SearchEnds` rest on fairness,
which TLAPS does not reach. Every other property of a passing run is also a theorem.

## 6. Abstractions

* A track, a payload and a participant are model values; a fingerprint is the payload it covers. Text, durations, artwork and provider metadata are left out.
* `queue.add` asks once, inside the transaction, whether the track comes from an authorized connection of the lobby; here a track is authorized or is not.
* Playback positions in milliseconds are left out. What depends on them is a nondeterministic choice: resuming a fake title may always
  find it at its end (`EndedWhilePaused`), which is more than the code does.
* *Any* queued item may fail to start, whatever its provider, so `Advance` may skip to any item of the queue or to none.
* Expected versions other than the current one are all equal, so 0 stands for them.
* A heartbeat that is refused changes nothing and answers outside `receipts`; it is not an action.
* The connections of a lobby, and the commands on it, are one Boolean each in `LobbyLifecycle`. A sweep statement whose client crashed is
  taken as not executed; a close statement is not (`"orphaned"`).
* `QueueView` has one member's browser (not the creator's, which sends settings and applies their answers), one edit at a time,
  and the room of the queue. A cut loses the socket and all requests of the browser at once. What the browser is told and the render it causes are one step: two
  switches of the mode that React batched before a render would leave the `key` as it was, and the old screen until the next poll.
* `PlayerSession`: all titles are YouTube's, and the lobby's settings do not change in a sitting, so the panel's `minimumLobbyVersion` never rises.
  Pause and resume are left out (they change neither the title nor the lease). A `503`, which leaves the screen as it is, counts as lost. A poll is
  one step up to its answer, because what it answers depends on the moment it is served only. A request's `title` is a note of the model; it is not sent, and no server action reads it.
  The runs have one outcome, `"ended"`, for size: a failure followed by an end is covered by the proofs, which take any set of outcomes.
* `CatalogSearch` takes any list of sources, as the service and its tests do; `searchForLobby` hands over one today. A candidate is its deduplication key, its track
  (or one whose identifier the schema refuses) and whether the schema accepts what it says of its title. A source that answers after its timer changes nothing and is no action.
  `searches` holds those whose answer can still reach the panel: the search of a panel that was mounted anew, or that lost its request, goes on at the server and is answered to nobody.
  The capability proxy that `searchSource` builds before its `try` (`catalog-search-service.ts` 65–70) throws on an adapter that does not belong to its connection; `ProviderCatalog` only hands over pairs that match, so no action stands for it.
* Rate limits, invitation codes, the format of answers and logging are left out.

## 7. Plan

Done, in this order: `LobbyStore`, `QueueService`, `PlayerLease` with `FencedLock`, `PlaybackService`, `LobbyLifecycle`, `QueueView`,
`PlayerSession`, `CatalogSearch`, the proofs of every safety property, and `Jukebox`, implemented by `PlaybackService` and by `PlayerSession`.

Next:

1. The creator's browser: its `PATCH` and the answer, which updates mode and version beside the events.
2. `LobbyLifecycle`'s end of a lobby as the `LobbyEvent` of `PlaybackService`, for everything but the lease.

## 8. Not modelled

* **Guest identity** (`identity/`): signed tokens and cookies; one insert per visitor.
* **Secret vault** (`security/`): encryption without state.
* **Migrations** (`persistence/`): one transaction per file under one advisory lock, at deployment; nothing of the running system interleaves with them.
* **Provider resolution and the content of YouTube's answers**: I/O whose result is any success or failure.
* **Rendering, forms, styles, scripts, tests, deployment files**: no state of their own, apart from the restart policy used above.
