# Verification of cyber-odds

cyber-odds collects football results and bookmaker odds of virtual and e-sport
matches, decides which events of two sources are the same match, predicts
outcomes, sends betting calls to a Telegram chat and settles them. This project
models the parts of it that keep state across several processes, checks them
with TLC on small instances and proves the main safety properties for all
instances with TLAPS. Every definition is written from the Python source under
`src/src/app` (written `app/` below); `PROJECT.json` maps each definition to
its lines.

- [The system](#the-system)
- [Modules, and how they correspond to the code](#modules-and-how-they-correspond-to-the-code)
- [Runs and bounds](#runs-and-bounds)
- [Fairness](#fairness)
- [Proofs](#proofs)
- [What the code does and the documents say otherwise](#what-the-code-does-and-the-documents-say-otherwise)
- [Not modelled](#not-modelled)
- [Plan](#plan)
- [Running it](#running-it)

## The system

Three services of `docker-compose.yml` share one PostgreSQL database and
nothing else. `app` runs the odds job; `worker` runs the history, matching,
prediction, corridor and settlement jobs; `telegram` runs the admin bot and the
publisher. Every job is an asyncio task of its own, restarted by
`IsolatedScheduler` whatever its last run did, and nearly every call of a job is
one READ COMMITTED transaction. Most jobs can also be run from the command line
at any moment, beside the scheduled one. No row is locked while it is worked on:
what keeps the data right is unique indexes, `ON CONFLICT DO NOTHING`, and the
order in which things are read and written.

| Component | State it keeps | Operations | What makes it correct |
|---|---|---|---|
| Odds collector (`workers/odds_worker`, `FonbetCatalogRepository`) | `events` (kickoff, status), `odds_snapshots` | one poll: upsert events, insert quotes | quotes are never changed; the kickoff is the one announced last |
| History collectors (`uel_history_worker`, `h2h_history_worker`, `history_worker`) | `events`, `results`, participants, page cursor | one page: upsert tournaments, matches, results | a result is known from its first observation; every page is visited in the end |
| Raw archive (`storage/raw`) | files | body, then metadata | no half-written file; a row names an existing file |
| Normalizer (`normalization/repository`) | `players`, `teams`, aliases, reviews, participant ids | name the participants of a source | one player per alias; doubtful names wait for a review |
| Event matcher (`normalization/event_repository`, `events`) | `event_matches` | match live, completed or all events | matched pairs have the same players; no event is matched twice; a played pair is matched in the end |
| Corridors (`corridors/repository`) | observations, aggregates | rebuild, look up | aggregates rest on matched pairs and on results known at the cutoff |
| Generator (`workers/prediction_worker`, `features`, `models`, `value`) | `model_predictions`, `signals` | predict once | one live alert per bet; no decision on stale or future data |
| Publisher (`telegram/publisher`, `telegram/repository`) | `signals.sent_at`, `telegram_message_id`, `telegram_notified_at`; the chat | expire, send, acknowledge, edit | a call is announced once, in time; the chat and the accounts agree |
| Settler (`workers/settlement_worker`, `backtest/settlement`) | `settlements` | settle once | every delivered call is settled once, by the rules, in the frozen orientation |
| Scheduler (`workers/scheduler`, `__main__`) | UEL page cursor | run jobs for ever | a failing job stops no other job |
| Backtest (`backtest/*`, `features`, `value`, `models/ml_v1`) | none (a bankroll while it runs) | replay, bet, train, report | no future data in the past; a bet means what it was priced for; stakes need an edge |
| Audit (`database/audit`), admin bot (`telegram/handlers`) | none | read | reports agree with each other and with the chat |

How they interact: collectors write events, quotes and results; the normalizer
names their players; the matcher joins a source event to a bookmaker event; the
generator reads matched pairs that have not started and writes predictions and
signals; the publisher turns queued signals into messages; the settler joins
delivered signals to results; the publisher tells the chat. The matcher also
decides which *sides* of a pair correspond (`components["reversed_sides"]`), and
decides it anew in each run, so a prediction freezes it.

What is hard about it, and what the properties are for:

- *reads that outlive their transaction*: the publisher's queue is sent message
  by message after the transaction that read it; generators, settlers and
  matchers decide on rows other workers change before they write;
- *overlapping runs of the same job*, scheduled and from the command line, or an
  old and a restarted service;
- *an unreliable partner*: Telegram may refuse a message, accept it and lose the
  answer, and refuses an edit that changes nothing; the acknowledging
  transaction may fail after the message is out;
- *crashes* between any two steps;
- *moving facts*: kickoffs are moved, players named late, sides turned, results
  corrected;
- *queues with a limit* whose head may be undeliverable;
- *answers stored out of order*, by a scheduled collector and a backfill, though
  "when was this known" decides what a backtest may use;
- *collections of many requests*, each of which may fail, with a cursor that
  lives in memory only;
- *identities made from look-alike names* by transactions that do not see each
  other.

`PROJECT.json` lists each of these at its line, under "hazards", with the
property that is about it, or why there is none yet.

## Modules, and how they correspond to the code

| Module | Models |
|---|---|
| `SettlementRules` | `settle_market`, `normalize_market_selection`: the verdict of a bet, as operators |
| `SettledMatch` | the rules along a match, goal by goal: what must hold of them at every score |
| `AlertLedger` | the abstract promise of the alert pipeline: the stages of one call |
| `AlertLifecycle` | generators, publishers, settlers, the chat and the collectors' effects on them |
| `EventScoring` | `score_event_pair`, `choose_event_match`, as operators |
| `EventMatching` | `match_sources` in three modes over the table `event_matches` |
| `Corridors` | `CorridorRepository`: rebuilds of observations and corridors beside the workers they read from, and the look-up |
| `Ingest` | the parsers and the `persist` transactions of the four repositories of sources, beside each other |
| `Collectors` | the history jobs request by request: pages, participants, days, the archive, the page cursor |
| `Normalization` | `SourceParticipantNormalizer`: aliases, entities, reviews and links, in overlapping transactions |
| `Backtest` | the replay of baselines, its market bets, and `train`: features, cutoffs and walk-forward folds |
| `BacktestEngine` | `BacktestEngine.run` along a match: filters, value, stakes, bankroll, and its metrics |
| `MC*` | instances for TLC |
| `*_proofs` | theorems |

`AlertLifecycle` uses `SettlementRules` for what the settler writes, `Corridors`
for the outcome of an observation, `Backtest` for a bet's. `BacktestEngine`
extends `SettledMatch`: its bets are settled at the score the match has reached.
`AlertLifecycle` implements `AlertLedger` (`Ledger == INSTANCE AlertLedger WITH
...`). The other modules meet in the database, and each takes what the others
write as steps of its environment: `Ingest` shows what `Backtest` and
`Corridors` assume of `observed_at`, `Normalization` that names are only added,
which `EventMatching` assumes.

**AlertLifecycle.** An odds snapshot stands for its prediction and its signal,
which `uq_prediction_snapshot_model_selection` makes unique per snapshot and
model. The variables are the columns: `decision`, `alertKey`, `frozen`
(`mapping_reversed_sides`), `expiresAt`, `sentMsg`, `outcome`, `settledAt`,
`notified`; `posts`, `edited` and `replies` are what the chat has seen; `gen`,
`pub` and `settler` are what a worker holds in memory.

| Action | Code |
|---|---|
| `GenerateRead`, `GenerateCommit`, `GenerateAbort` | `PredictionSignalWorker.generate_once` in its transaction, with `_insert_alert_atomic` |
| `PublishRead` | the transaction that opens `publish_once`: `expire_pending_alerts`, `pending_alerts`, `pending_settlements` |
| `SendAlert`, `SendAlertFails`, `SendAlertAnswerLost`, `AckAlert`, `AckFails` | `_send_alert`, `mark_alert_sent` |
| `EditSettlement`, `ReplySettlement`, `SendSettlementFails`, `SettlementAnswerLost`, `AckSettlement` | `_send_settlement`, `mark_settlement_sent` |
| `PublishDone`, `PublisherCrash` | the end of a cycle; the service dies and is restarted (`restart: unless-stopped`) |
| `SettleRead`, `SettleCommit`, `SettleAbort` | `SettlementWorker.settle_once`, `_insert_settlement_atomic` |
| `QuoteArrives`, `Reschedule`, `Rematch`, `ResultArrives`, `Tick` | what collectors, matcher and clock change meanwhile |

A transaction is two steps, its reads and its commit: what it writes becomes
visible at once, and what it read may be out of date by then. The transaction
that opens a publisher cycle is one step. Between its SELECT and its UPDATE
another publisher's acknowledgement could fall; the deployment has one
publisher, so the runs have one; the proofs, `Refines` among them, hold for any
number, such as a restart that overlaps.
Which timely candidates a generator calls (probability, value, sample size,
corridor, ranking) is left open: any subset with at most one per event, so the
safety results hold whatever the models predict. One strategy is modelled; it
has one market (`generate_once` refuses others), so `max_alerts_per_event` never
binds. A concurrent generator that meets the unique constraint of predictions
either loses its transaction (`GenerateAbort`) or the candidate. The plain-text
retry of an alert is part of the outcome of its send. `Summary`, `Stats`,
`RecentResults` and `Status` are the queries behind the admin bot's commands,
each as the set of signals it counts.

**EventMatching.** `status` and `rowId` are the rows of `event_matches`, by
pair; `run[m]` is the open transaction of job `m`, with the writes it has
decided on. `MatchRead` is all of `match_sources` up to the flush; the windows,
candidates, margins and collisions are those of the code. `MatchCommit` and
`MatchRefused` are the flush: SQLAlchemy emits the UPDATEs in the order of
primary keys and then the INSERTs, and PostgreSQL checks the two partial unique
indexes statement by statement, so whether a flush goes through depends on the
ids. Kickoffs are in minutes; a piece of evidence counts 0 to 300, which makes
the slopes of `_time_score` and the thresholds whole. The likeness of two
tournament names is a constant of a pair. A bookmaker event always has a quote
from before its kickoff, since it is stored with its first quotes.

**Corridors.** `observations` and `corridors` are the active rows of
`corridor_observations` and `odds_corridors`; retired rows are left out, since
no reader looks at them and one that comes back is overwritten in every column.

| Action | Code |
|---|---|
| `StartRebuild` | `rebuild` up to the first UPDATE: the advisory lock, `current`, and the observations of unmatched pairs retired |
| `MaterializeObservations` | the rest of `_materialize_observations` |
| `RebuildAggregates`, `RebuildRefused` | `_rebuild_aggregates` and the commit, or the CHECK of the table and the rollback |
| `ConnectionLost` | the transaction ends for another reason |
| `Collect`, `StoreResult`, `Rematch`, `Tick` | what the other workers commit between the statements |
| `Lookup` (an operator) | `lookup`: a query for any cutoff up to now |

At PostgreSQL's READ COMMITTED each statement of the rebuild sees what was
committed before it, so as_of, the matches and the quotes of one rebuild are of
different moments. Another bucket width is a changed setting. The two spellings
of a selection are one bet, because the rebuild writes candidates in the order
they were received and the newest wins. Rates and the verdict are left out.

**Ingest.** `kind` says whose source it is, and with it which parser and which
repository are at work. `Fetch` is a download; `ReadEvents` the SELECTs that open
a transaction; `FonbetPersist`, `UELPersist`, `ESBPersist` and `SISPersist` its
upserts and commit; `Rollback` anything that ends it before. SQLAlchemy writes
the columns that differ from what was read (`StoredStart`, `StoredStatus`) and
always the payload's id, and takes the row's lock by it, so results and
participants, read after that, are up to date. `overtaken` (a variable of the
model only) remembers the events whose last writer had read an outdated row. The
two documents ESportsBattle answers for a tour are one, tours are stored in any
order, and sports, tournaments and `parser_runs` are left out. A result is never
removed, and a corrected score keeps its first `observed_at`, as in the code.

**Collectors.** A job is at a target (a page of UEL's list of tours, a
participant of `ESB_PARTICIPANTS`, today's SIS schedule), downloads the list,
then the chosen tours in any order, and stores them in one transaction.

| Action | Code |
|---|---|
| `StartCycle` | `uel_job`, `esb_job`, `sis_h2h_job` |
| `Download` | a request, and `RawArchive.save` of its answer before it is parsed |
| `Fail`, `NotFound` | a request, the archive or a parser raises: a tour of a UEL page is left out (`return_exceptions`), anything else ends the cycle |
| `Persist`, `PersistFails` | the repository's transaction; then the next participant, the older page, and `uel_backfill_page` |
| `Restart` | the worker process starts again, its cursor at page 2 |
| `List`, `End`, `Midnight` | what happens at the sources |

SIS is asked for today only, so a day whose last cycle failed is not asked for
again; nothing is stated of it. A page whose transaction always fails keeps the
cursor where it is; `MaxFaults` bounds the failures.

**Normalization.** A run is `normalize_source`: `Begin` reads the tables,
`NormalizeNext` decides one participant (player, team, the team's other name) on
what was read and decided so far, `Commit` inserts it all or is `Refused` by a
unique constraint. Reviews are only ever made: nothing in the repository decides
one. Names are abstract, their likeness in thousandths is a constant.

**Backtest.** A run is a sequence of statements of one session, between which
collectors and the normalizer commit (`Store`, `Link`). `Start` reads the rows,
`Replay` builds the features of one (`Features` is the set of matches they are
computed from), `EvaluateFold` and `TrainFold` slice them, `LookAt` takes one
price of `_market_backtest`. Probabilities are left open: a price may or may not
be good.

**BacktestEngine.** One step per opportunity: `Skip`, `Place`,
`PlaceAndSettle`, or `Fail` for a `ValueError` that throws the run away. Odds,
probabilities and multipliers are in tenths, money in cents rounded down
(the code keeps 28 digits). One match is replayed, so opportunities of equal
decision time are taken in any order (the code goes on by event id). A strategy
without `max_stake` has one out of reach; the reasons of a refusal are not kept.

**SettlementRules.** Lines are in quarter goals. The spelling of a selection
(Latin or Cyrillic letters, case) is left out; the words, the line inside an old
text and the line column beside it are kept, because the code checks them
against each other. A total's text takes no sign (`IsTotalText`): one with a
negative line is refused by both legacy paths, and `LegacyAgrees` says so.

## Runs and bounds

| Run | Instance | Shows |
|---|---|---|
| `AlertLifecycle` | 2 quotes of a bet, sides that turn, 2 generators, 1 publisher, 2 settlers, 1 fault | `OneLiveAlertPerPick`, `DeliveredStaysAlert`, `AnnouncedOncePerFault`, `RepliedOncePerFault`, `AccountsFollowTheChat`, `ReadsStayValid`, `ShownScoreExplainsOutcome`, `SettlementWrittenOnce`, `ImplementsLedger` |
| `QueueProgress` | 2 matches, one call always refused, a moved kickoff | `QueuedIsSentInTime`, `ExpiredIsDropped` |
| `SettlementProgress` | 2 bets, one settlement always refused, one correction | `DeliveredIsSettled`, `SettledIsTold` |
| `EventMatching` | 3 source events, 1 bookmaker event, all 3 jobs, 1 fault | `MatchedPlayersAgree`, `MatchedOnce`, `FinishedPairIsMatched` |
| `Corridors` | 2 pairs, 1 bet, 2 builders of different widths, 2 changes, 1 fault | `CorridorsPartition`, `AsOfNeverMovesBack`, `DecisionRestsOnKnownResults`, `ObservationsCatchUp` |
| `Ingest` | 2 matches, 2 collectors, each kind of source, 1 correction | `FirstObserved`, `RowsOfOnePayload` |
| `Collectors` | 3 UEL tours, 3 participants, 2 days, 1 fault | `RowsHaveTheirBodies`, `CatalogueCovered`, `ParticipantsCovered` |
| `Normalization` | 3 participants of 2 sources, 3 runs, 1 renaming | `NoSilentMerge`, `OnlyRacesDisagree`, `NamedAsListed`, `NamesAreDecided` |
| `Backtest` | 13 matches of 3 players, 4 prices, one of them a handicap that is passed over, both commands | `NothingFromTheFuture`, `TestedOnce`, `BetsMeanWhatTheyPrice` |
| `BacktestEngine` | scores to 2:2, lines -9 to 17 by quarters, 4 strategies, 9 opportunities, 3 of them a run | `OppositeSidesCancel`, `OneMainResultWins`, `OrientationDoesNotMatter`, `LegacyAgrees`, `GoalsHelpTheirSide`, `KellyNeverRuins`, `StakesNeedAnEdge`, `MetricsExplainBankroll` |
| `RepairRefused`, `CatalogueSkipped` | smallest that shows it | a statement of a document the code does not keep (below) |

The type invariants `TypeOK` of all modules but the abstract `AlertLedger` are
proved (below), not run.

Why these bounds are enough to be worth something:

- *Two quotes of a bet* let an alert expire, give up its key, and the key be
  taken anew. *Two workers* of a kind are what it takes to interleave a
  transaction with another; the proofs cover any number of quotes, bets and
  workers.
- `MaxTime = 3` with `StaleAfter = 2` and `MinAlertLead = 1` lets a quote be
  fresh, about to expire, expired, and lets kickoff come before and after that.
  In the code these are 120 s and 15 s.
- `MaxFaults = 1` is one lost answer, failed acknowledgement, rollback or crash
  at any point; the bounds on repeated messages are stated in terms of it.
  `Limit = 2` of a queue is reached by the instances with two calls.
- Rescheduling moves a kickoff by one unit and back (`AlertLifecycle`) or to a
  listed minute (`EventMatching`), enough to pass the clock, an expiry, the
  matching window and another event.
- In `EventMatching` the three source events are two meetings of the same
  players twenty minutes apart and a match of one of them with a third, and the
  one bookmaker event is named late, listed in reverse, and moved to halfway
  between the two meetings (a tie) or out of reach. `MaxTime = 15` with
  `Step = 5` covers the kickoffs and the windows around them; scores and
  thresholds are those of the code.
- In `Corridors` two pairs share a bet, one with a tournament family and one
  without, so buckets hold one observation or two. The scheduler has the default
  width of 0.25, the operator 0.10: odds 1.30 and 1.40 are in one bucket of the
  former and on the lower bounds of two of the latter, and odds 1.10 are in the
  bucket from 1.00, which the table refuses, of the scheduler only.
  `MaxChanges = 2` is any two of: a new quote, a kickoff moved past the freshness
  of the closing quote, a result, its correction, a match taken apart, turned or
  made, at any statement of a rebuild. `MinSamples = 1` stands for 20; `Init` has
  the first quotes stored already, at 1.40 and 1.30.
- In `Ingest` each match is a tour of its own or both are in one answer. A
  listing is one of three or four per kind, among them one without a score or
  with one side of it, one that a parser rejects or downgrades, and one with the
  sides exchanged. Two collectors with `MaxTime = 1` hold answers of different
  moments and store them in either order.
- In `Collectors` a page is one tour, fetched whole (as with
  `HISTORY_MAX_TOURNAMENTS` of 10 or more); the third tour, listed at any moment,
  moves the others a page on. Two participants share a tour, one of theirs is
  too old to be chosen once both are over, and the source has forgotten the
  third. The jobs share nothing the properties speak of, so an instance runs one
  of the three at a time.
- In `Normalization` two players' names are 0.89 alike (a review), two team
  names 0.985 (one entity), and one team's other name in one source is its only
  name in the other. Two sources' jobs and an operator's run overlap in any way;
  the operator's may be lost.
- In `Backtest` the results become public two units after the kickoff, one of
  them is corrected, one is stored while the run goes on, one match is named
  late, and the last match comes after a break, so folds are empty or hold all
  three main results. `Train, Validation, Test, Step` of 6, 3, 2, 2 make five
  folds whose bounds fall on kickoffs.
- In `BacktestEngine` each stake mode has a strategy, the opportunities are a
  plain bet, a certainty, fair odds, an open bet, both sides of a total on a half
  and a whole line, a quarter handicap, a stale quote and one from the future,
  three in a row at any score. Here TLC checks the settlement rules at every
  score and line on the way.
- Symmetry is used over generators, settlers, and in `Ingest` over collectors and
  matches, in runs without liveness.

`ShownScoreExplainsOutcome` and `QueuedIsSentInTime` come with a condition each:
no stored result is corrected (`MaxCorrections = 0`), and the bookmaker does not
move the match out of the window. `DeliveredStaysAlert`,
`AnnouncedOncePerFault` and `RepliedOncePerFault` are about one publisher, as
deployed: with two, each of them fails, because acknowledgements do not look at
what the other did.

## Fairness

Liveness is checked under `FairSpec` only.

- `AlertLifecycle`: weak fairness of a publisher's steps and of the settler's
  reads and commits. `run_forever` and `IsolatedScheduler._run_job` loop for
  ever, catch every exception, and the services restart. Strong fairness of
  `SendAlert` and `TellSettlement`: a message Telegram would accept is tried
  anew in every cycle, and is taken for accepted once rather than lost each
  time. Nothing is assumed of the clock, the collectors or the generators, and
  `QueuedIsSentInTime` lets a call expire. No fairness holds of calls in
  `Unsendable` or `Untellable`.
- `EventMatching`: weak fairness of each job's read and of its flush (which
  succeeds or is refused). Nothing is assumed of the environment: it may stop
  moving at any point, and `FinishedPairIsMatched` speaks of pairs that are
  plain from some time on.
- `Corridors`: weak fairness of the statements of an open rebuild, strong
  fairness of the scheduler's start: PostgreSQL's advisory lock is queued for, so
  a builder that waits is not passed over for ever. Nothing is assumed of the
  operator. The scheduler has the default width, so either the observations catch
  up or low odds have all its rebuilds refused from some time on; TLC finds
  behaviours of both kinds.
- `Collectors`: weak fairness of each job's own steps, not of their failures: a
  job is started again after anything, a request that is repeated succeeds in
  the end, and `MaxFaults` bounds how often one fails. Nothing is assumed of the
  sources.
- `Normalization`: weak fairness of each job's cycle, its refusals included.
  Every refusal rests on another run's commit, of which there are finitely many
  until all names are decided; the operator may be lost at any time, without
  fairness and without a bound.

## Proofs

All theorems hold for every value of the constants that satisfies the named
assumptions (`ConstantsAssumption`, `NoneAssumption`, `EventsAssumption`,
`NoLineAssumption`, `LineAssumption`, `GoalAssumption`, `CorridorAssumption`,
`SourceAssumption`, `ListingAssumption`, `CollectorsAssumption`,
`NamesAssumption`, `StrategyAssumption`, `OpportunityAssumption`,
`RunAssumption`, `CorpusAssumption`, `FoldAssumption`, `QuoteAssumption`), which
say no more than that the data are of their types (odds above one, widths
positive, likenesses in thousandths, strategies as the settings accept them),
that `None` is not a datum, that tours do not share a match and none is listed
twice, that pages, participants and days are not confused, that a job that is enabled has something to collect, that participants
have ids of their own (`Rank`), that no time of a results row is before
its source had the score, that prices have ids of their own, and that events,
pairs, bets and tours are finitely many.

Every safety property a run checks is stated by a theorem.

- `Settlement_proofs` has the rules, the match and the engine.
  - `TypeCorrect`, `OppositesCancel`, `MainResults`, `Orientation`, `Legacy`,
    `GoalsHelp`: the only fact about scores they need is that they are pairs of
    naturals, which goals preserve; the rest is arithmetic of `Compare`.
    `EngineWatches` says that a run of the engine is a match, so that all of them
    hold of the bets it replays.
  - `NeverRuined`, `EdgeBeforeStake`, for any strategies the settings accept and
    any opportunities. A Kelly fraction is at most a quarter of a share of at
    most one (`EdgeBound`, `ShareBound`), rounding included, so a stake is less
    than the bankroll.
  - `MetricsHold`: the metrics are a recursion over the predictions, and what
    such a recursion computes is proved by induction, which is out of reach. It
    is not needed: the predictions grow by one at a time, a book of all of them,
    restricted, is a book of those before (`BookBefore`), and is extended by one
    entry to a book of one more (`BookAfter`). So the invariant of the run does
    the induction: a book exists, and every book explains the bankroll
    (`BookInv`).
- `AlertLifecycle_proofs`: `TypeCorrect` and every safety property of the run
  `AlertLifecycle`. None of the invariants is inductive alone.
  - `OneLive` needs that an alert carries the key of its own bet and that others
    carry none, so that "no row has this key" at the insert means "no live alert
    has it".
  - `Accounts` and `Reads` rest on each other: a settlement is of a delivered
    call because the settler's rows were delivered when read and *stay* so, which
    holds because expiry takes unsent calls only; a notified settlement was shown
    because the message was sent before the acknowledgement. That the reports
    agree is a fact about the tables in this state.
  - `StaysAlert`, `AnnouncedOnce` and `RepliedOnce` assume one publisher
    (`OnePublisher`), for any restarts. `CycleInv` says that a call on its way is
    still an alert, since the only expiry is at the start of the publisher's own
    cycle. The other two pay for each message: `Afforded` and `PaidFor` say that
    the messages of a bet (of a settlement) are no more than the faults, or one
    more if the database knows of one or is just being told. `AnnouncedOnce` also
    assumes finitely many snapshots, since it counts.
  - `ShownScore` assumes `MaxCorrections = 0`: results stay, and so does the
    orientation frozen at the decision, so what was read explains what is shown
    (`ScoreInv`).
  - `Refines`: each step of a worker changes `Stage` by one action of
    `AlertLedger` or not at all. It uses `Accounts` (a settled call is delivered)
    and `OneLive` (the ledger's `Free`), and holds with any number of publishers.
  - Frame lemmas say which worker writes which table, so that an invariant is
    disturbed by few actions.
- `EventMatching_proofs`: `TypeCorrect`, `PlayersAgree`, `MatchedOnceAlways`.
  The invariant adds `RunsAgree`: what an open run is about to match has the
  same players. It rests on arithmetic (without one player, full marks for
  tournament and time leave a confidence of 0.72, below the 0.90 needed) and on
  names being only added between the read and the flush. `MatchedOnce` holds
  because a flush that would leave two matched rows of an event is refused,
  whatever the runs read.
- `Corridors_proofs`: `TypeCorrect`, `NeverBack`, `KnownAtCutoff`, `Partition`.
  The invariant `Timely` says that an open rebuild holds the lock, is as new as
  every stored corridor and counts nothing first seen after its own time; that is
  what the second statement of a rebuild needs about the first, and why as_of
  must be read after the lock. `Partition` rests on the arithmetic of
  `bucket_bounds` for every width (`BucketHoldsOdds`, `BucketsApart`). A closing
  quote exists because a set of naturals has a least member.
- `Ingest_proofs`: `TypeCorrect`, `Observed`, `OnePayload`, for any number of
  collectors, any listings and all four kinds. `IngestInv` adds that what a
  collector holds are documents of different tours, so a match is in one of
  them, and that what it read of the events is of events that are there.
  `TypedInv` follows a listing through its parser into the rows.
- `Backtest_proofs`: `TypeCorrect`, `PastOnly`, `Tested`, `Meaning`, for any
  history, any lengths of the intervals, any prices, and whatever is stored
  while a run goes on. `DatabaseInv` says that every time of a stored row is one
  at which its source had the score, the first receipt that a new row keeps
  included; a row known before a cutoff was public before it (`EligibleIsPast`).
  `FoldInv` adds that a fold's parts lie in its intervals and that no fold is
  taken twice; folds are apart by arithmetic (`TestsApart`).
  `TurnedBetMeansTheSame` is about the two markets the models price, and the
  last price of a pick is one because ids are (`LastPriceIsOne`). `RowsInv`, for
  `TypeCorrect`, says that rows are read once, before anything is made of them.
- `Collectors_proofs`: `OwnTargets`, `RowsAreArchived` (and `TypeCorrect`, a
  lemma), for any sources, settings, failures and restarts. What a job holds in
  memory is archived (`HeldIsArchived`), because every failure that loses an
  answer also keeps it out of the documents to be stored. `OwnTargets` says that
  a job asks only for what its source has by then (`AsksForItsOwn`): the older
  page was counted when page one was read, and is still there because the
  catalogue only grows and more tours take no fewer pages (`PagesGrow`,
  `PagesBound`); `AskInv` adds the count to the invariant.
- `Normalization_proofs`: `TypeCorrect`, `MergesAreJustified`, `OnlyRacesPart`,
  `LinksHold`, for any names, likenesses and overlapping runs. The tables and
  what an open run has worked out satisfy the same condition (`Sound`), each
  decision about a participant leads from sound work to sound work that takes
  nothing back and stays free of doubles if it was (`Leads`), and what a run read
  at its start is still in the tables (`Grown`). A run is refused when it would
  insert what another has inserted meanwhile, so its work and the tables agree
  where they overlap and their union is sound again. That the union is free of
  doubles needs tables that did not change under the run: this is `raced`.

Model-checked only: the liveness properties. Fairness and ENABLED are beyond
the prover, so that queued calls are sent in time or dropped, delivered ones
settled and told, finished pairs matched, observations up to date, catalogues
and participants covered and names decided is shown on the instances above.

## What the code does and the documents say otherwise

Two runs check one sentence of the repository each, and TLC finds a behaviour
of the code that breaks it; `PROJECT.json` quotes the sentences.

- `RepairRefused`: when the bookmaker lists the players twice, the repair of a
  finished pair is refused by the unique index in every run, because the UPDATE
  that matches the older row comes before the one that demotes the newer; the
  corridor job, which runs the repair first, is then never reached.
- `CatalogueSkipped`: a page has at least 10 tours, of which only
  `HISTORY_MAX_TOURNAMENTS` (default 5) are fetched; the walk that "eventually
  covers the full UEL catalogue" never fetches the others while the catalogue
  stands still.

Others were met while modelling and have no run. The models do as the code does,
and the properties are stated so that they let these be:

- *A late call.* The queue is read once per cycle and not looked at again before
  each send (`publisher.py:162-183`), so a call may go out after its quote
  expired; `models.py:360-362` says it must not.
- *Two calls of one match.* The alert key names the selection, and the best one
  is chosen within one run (`prediction_worker.py:447`); `FINAL_CHECK.md:12`
  speaks of one 1X2 alert per event and strategy.
- *A matched pair given up for a while.* Between the two announced kickoffs a
  live run rejects it (`event_repository.py:228`), though the class docstring
  (33-36) calls it immutable for automatic jobs. A completed run repairs it.
- *A bucket from 1.00.* With the default width, closing odds below 1.25 make the
  bucket that the docstring of `bucket_bounds` (`calculator.py:26-28`) says is
  avoided; CHECK `odds_min > 1` (`models.py:524`) refuses it once it has enough
  observations, and with it every later rebuild. This is the case that
  `ObservationsCatchUp` names (`IsRefused`); it is reached in the run, and without
  it the property fails.
- *A stale observation.* One whose pair stays matched, but whose kickoff moved so
  far that it has no fresh closing quote, is neither updated nor retired, though
  the class docstring (`repository.py:124-127`) says an observation is the latest
  quote before kickoff. `IsStranded` names these, and only these may stay as they
  are in `ObservationsCatchUp`.
- *A source by another name.* The ESportsBattle repository stores its events
  under the source `esb` (`repositories.py:349`), `esb_job` normalizes `esb_ef`
  (`__main__.py:947`), which raises for an unknown source in each cycle. The SIS
  repository stores under `sis_h2h_` and the parser's name of the game
  (`repositories.py:860`, `h2h.py:74-81`): `nba2k`, `madden` or `esoccer`;
  `sis_h2h_job` normalizes `sis_h2h_ebasketball`, `sis_h2h_eamericanfootball` or
  `sis_h2h_esoccer` (`__main__.py:932-935`), so only the last is its own. In
  `Normalization` a job normalizes the source its participants are stored under.
- *The end of a training label.* Training and test rows are apart by kickoff, not
  by the time a result is public (`ml_v1.py:249`): the score of the last training
  match may be newer than the first test match. Features are from before, as
  `NothingFromTheFuture` says.
- *A bankroll from the future.* `BacktestEngine` books a bet's profit at once
  (`engine.py:115`), before a later decision that precedes the match's end. Only
  tests pass it several matches.

## Not modelled

- The HTTP of providers and the shapes of JSON, message formatting, command
  handlers, health check, the parsing of settings: no state, or text only.
- The statistical models and the evaluation report: floating-point arithmetic
  without state. Their choices appear as nondeterminism of the generator and of
  the backtest.
- Stakes, payouts and profits of signals beside the outcome that determines them.
- Sports, tournaments and `parser_runs` rows; the database audit, which reads.
- Migrations, `research/` and `fix_dump/` (an older copy of some files).
- Any promise about a day of the SIS schedule that was not collected before
  midnight, or about a page whose transaction always fails: the code makes none.

## Plan

What would come next, in this order:

1. A composition of `EventMatching` and `Corridors` over one table of matches
   (`corridor_job` as a whole), and of `Normalization` with `EventMatching`.
2. Several matches in `BacktestEngine`, with a property about what a stake may
   know.
3. The races of `sports` and `tournaments` rows in `Ingest`.

## Running it

    tlc -workers 2 -config AlertLifecycle.cfg MCAlertLifecycle.tla
    tlapm AlertLifecycle_proofs.tla

Each run takes between a second and four minutes, the proofs about ten minutes
together.
