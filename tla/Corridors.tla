----------------------------- MODULE Corridors -----------------------------
(***************************************************************************)
(* Odds corridors: app/corridors/repository.py and calculator.py.          *)
(*                                                                         *)
(* A rebuild is one transaction under an advisory lock.  It retires the    *)
(* observations of pairs that are matched no longer, takes one observation *)
(* of every finished pair and bet from the last quote before kickoff, and  *)
(* replaces the corridors by counts of the observations, bucket by bucket. *)
(* Between its statements the collector, the history workers and the       *)
(* matcher commit changes of their own, which the next statement sees.  A  *)
(* decision takes its cutoff first and reads a corridor later.             *)
(*                                                                         *)
(* Only active rows are kept here: no reader looks at a retired one, and   *)
(* one that comes back is overwritten column by column.  Odds and bucket   *)
(* bounds are in hundredths.  Two spellings of one selection are one bet:  *)
(* the rebuild writes them in the order they were received.                *)
(***************************************************************************)
EXTENDS SettlementRules, FiniteSets, Functions

CONSTANTS
    None,
    Pair,        \* event matches: a history event and a bookmaker event
    Bets,        \* the canonical selections the bookmaker quotes
    Odds,        \* the odds it quotes, more than 100
    FirstOdds,   \* what it may quote of a pair's bets first
    Scores,      \* the final scores a history source reports
    Kickoffs,    \* the start times the bookmaker lists
    StartsAt,    \* the one it lists first
    Family,      \* tournament families
    FamilyOf,    \* the family of a pair's tournament, None without one
    Builder,     \* processes that rebuild
    Scheduler,   \* those of them that do so again and again
    WidthOf,     \* the bucket width each one is configured with
    MinSamples,  \* the fewest observations a stored corridor rests on
    LookupMin,   \* the fewest a decision accepts
    MaxOddsAge,  \* the oldest closing quote that counts
    MaxTime,     \* bound: the clock
    MaxChanges,  \* bound: changes by collector, history and matcher
    MaxFaults    \* bound: rebuilds that lose their connection

ASSUME CorridorAssumption ==
    /\ IsFiniteSet(Pair)
    /\ IsFiniteSet(Bets)
    /\ Bets \subseteq Bet
    /\ Odds \subseteq {o \in Nat : o > 100}
    /\ FirstOdds \subseteq [Pair \X Bets -> Odds]
    /\ Scores \subseteq Score
    /\ Kickoffs \subseteq Nat
    /\ StartsAt \in [Pair -> Kickoffs]
    /\ FamilyOf \in [Pair -> Family \cup {None}]
    /\ WidthOf \in [Builder -> Nat \ {0}]
    /\ Scheduler \subseteq Builder
    /\ {MinSamples, LookupMin} \subseteq Nat \ {0}
    /\ {MaxOddsAge, MaxTime, MaxChanges, MaxFaults} \subseteq Nat
    /\ None \notin Pair \cup Builder \cup Family \cup Nat
    /\ "global" \notin Family

VARIABLES
    now,         \* the clock
    quotes,      \* odds_snapshots: insert-only
    kickoff,     \* events.started_at of the bookmaker event
    results,     \* results: the score on file and when it was first seen
    mapping,     \* event_matches: matched or not, and which way round
    observations, \* corridor_observations, the active rows
    corridors,   \* odds_corridors, the active rows
    lock,        \* who holds pg_advisory_xact_lock(_LOCK_ID)
    rebuild,     \* the open transaction of each builder
    changes, faults

\* status other than 'matched', or reversed_sides false or true.
Mapping == {"unmatched", "straight", "reversed"}

world == <<quotes, kickoff, results, mapping>>
derived == <<observations, corridors>>
vars == <<now, world, derived, lock, rebuild, changes, faults>>

-----------------------------------------------------------------------------
(* Observations.                                                           *)

Quoted(p, b) == {q \in quotes : q.pair = p /\ q.bet = b /\ q.at < kickoff[p]}

ClosingQuote(p, b) ==
    CHOOSE q \in Quoted(p, b) : \A r \in Quoted(p, b) : r.at <= q.at

Matched(p) == mapping[p] # "unmatched"

OutcomeOf(p, b) ==
    SettleMarket(b, Orient(results[p].score, mapping[p] = "reversed"))

\* The result counts from when it was first seen, not from its last change.
ResultKnown(p, asOf) == results[p] # None /\ results[p].at <= asOf

Observable(p, b, asOf) ==
    /\ Matched(p)
    /\ kickoff[p] <= asOf
    /\ ResultKnown(p, asOf)
    /\ b.market \in {"1x2", "total"}
    /\ Quoted(p, b) # {}
    /\ kickoff[p] - ClosingQuote(p, b).at <= MaxOddsAge
    /\ OutcomeOf(p, b) # "ValueError"

Observe(p, b) ==
    [odds |-> ClosingQuote(p, b).odds, outcome |-> OutcomeOf(p, b),
     available |-> results[p].at]

Materialize(seen, asOf) ==
    LET fresh == {x \in Pair \X Bets : Observable(x[1], x[2], asOf)}
    IN  [x \in fresh \cup DOMAIN seen |->
            IF x \in fresh THEN Observe(x[1], x[2]) ELSE seen[x]]

RetireNothing(seen) == seen
RetireUnmatched(seen) ==
    Restrict(seen, {x \in DOMAIN seen : Matched(x[1])})

-----------------------------------------------------------------------------
(* Corridors: the buckets of the observations.                             *)

BucketLow(odds, width) == 100 + ((odds - 100) \div width) * width

Scopes(p) == {"global"} \cup ({FamilyOf[p]} \ {None})

KeysOf(x, odds, width) ==
    {[scope |-> s, bet |-> x[2], low |-> BucketLow(odds, width),
      high |-> BucketLow(odds, width) + width] : s \in Scopes(x[1])}

Members(seen, key, width) ==
    {x \in DOMAIN seen : key \in KeysOf(x, seen[x].odds, width)}

Groups(seen, width) == UNION {KeysOf(x, seen[x].odds, width) : x \in DOMAIN seen}

Row(seen, members, asOf) ==
    LET With(outcome) == {x \in members : seen[x].outcome = outcome}
    IN  [n       |-> Cardinality(members),
         wins    |-> Cardinality(With("win")),
         returns |-> Cardinality(With("return")),
         asOf    |-> asOf]

Aggregate(seen, width, asOf) ==
    LET known == Restrict(seen, {x \in DOMAIN seen : seen[x].available <= asOf})
    IN  [key \in {k \in Groups(known, width) :
                    Cardinality(Members(known, k, width)) >= MinSamples} |->
            Row(known, Members(known, key, width), asOf)]

\* The table's check odds_corridor_bounds.
Accepted(rows) == \A k \in DOMAIN rows : k.low > 100 /\ k.high > k.low

-----------------------------------------------------------------------------
Init ==
    /\ now = 0
    /\ \E first \in FirstOdds :
            quotes = {[pair |-> x[1], bet |-> x[2], odds |-> first[x], at |-> 0] :
                        x \in Pair \X Bets}
    /\ kickoff = StartsAt
    /\ results = [p \in Pair |-> None]
    /\ mapping \in [Pair -> Mapping]
    /\ observations = <<>> /\ corridors = <<>>
    /\ lock = None
    /\ rebuild = [b \in Builder |-> None]
    /\ changes = 0 /\ faults = 0

-----------------------------------------------------------------------------
(* What other workers commit.                                              *)

Change ==
    /\ changes < MaxChanges
    /\ changes' = changes + 1
    /\ UNCHANGED <<now, derived, lock, rebuild, faults>>

\* FonbetCatalogRepository.persist: a catalog lists the event's start time
\* and quotes its bets, all received at one time.
Collect ==
    /\ Change
    /\ \E p \in Pair, start \in Kickoffs, offered \in SUBSET Bets :
        \E odds \in [offered -> Odds] :
            /\ \A q \in quotes : q.pair = p => q.at < now
            /\ offered # {} \/ start # kickoff[p]
            /\ kickoff' = [kickoff EXCEPT ![p] = start]
            /\ quotes' = quotes \cup
                {[pair |-> p, bet |-> b, odds |-> odds[b], at |-> now] : b \in offered}
    /\ UNCHANGED <<results, mapping>>

\* UELHistoryRepository.persist: a score replaces the one on file; when it
\* was first seen is the earliest time a page showed one.  Pages are
\* downloaded at once and stored one after the other.
StoreResult ==
    /\ Change
    /\ \E p \in Pair, score \in Scores, at \in 0 .. now :
        /\ kickoff[p] <= at
        /\ results' = [results EXCEPT ![p] =
                [score |-> score,
                 at |-> IF @ = None \/ at < @.at THEN at ELSE @.at]]
        /\ results' # results
    /\ UNCHANGED <<quotes, kickoff, mapping>>

\* EventMatcher.match_events, as module EventMatching details it.
Rematch ==
    /\ Change
    /\ \E p \in Pair, m \in Mapping :
        /\ m # mapping[p]
        /\ mapping' = [mapping EXCEPT ![p] = m]
    /\ UNCHANGED <<quotes, kickoff, results>>

Tick ==
    /\ now < MaxTime
    /\ now' = now + 1
    /\ UNCHANGED <<world, derived, lock, rebuild, changes, faults>>

-----------------------------------------------------------------------------
(* CorridorRepository.rebuild.                                             *)

\* Mutant: the lock is given up once the observations are materialized.
LockFreeEarly(b) ==
    rebuild[b] = None /\ \A c \in Builder : rebuild[c] # None => rebuild[c].ready

LockFree(b) == rebuild[b] = None /\ lock = None

\* Takes the lock, then the time, and retires what is unmatched.
StartRebuild(b) ==
    /\ LockFree(b)
    /\ lock' = b
    /\ rebuild' = [rebuild EXCEPT ![b] =
            [asOf |-> now, seen |-> RetireUnmatched(observations), ready |-> FALSE]]
    /\ UNCHANGED <<now, world, derived, changes, faults>>

MaterializeObservations(b) ==
    /\ rebuild[b] # None
    /\ ~ rebuild[b].ready
    /\ rebuild' = [rebuild EXCEPT ![b] =
            [asOf |-> @.asOf, seen |-> Materialize(@.seen, @.asOf), ready |-> TRUE]]
    /\ UNCHANGED <<now, world, derived, lock, changes, faults>>

Rows(b) == Aggregate(rebuild[b].seen, WidthOf[b], rebuild[b].asOf)

\* The lock goes with the transaction.
EndRebuild(b) ==
    /\ rebuild' = [rebuild EXCEPT ![b] = None]
    /\ lock' = None

WriteOnTop(rows) ==
    [k \in DOMAIN corridors \cup DOMAIN rows |->
        IF k \in DOMAIN rows THEN rows[k] ELSE corridors[k]]
RetireAndWrite(rows) == rows

RebuildAggregates(b) ==
    /\ rebuild[b] # None
    /\ rebuild[b].ready
    /\ Accepted(Rows(b))
    /\ observations' = rebuild[b].seen
    /\ corridors' = RetireAndWrite(Rows(b))
    /\ EndRebuild(b)
    /\ UNCHANGED <<now, world, changes, faults>>

\* One refused row takes the whole transaction with it.
RebuildRefused(b) ==
    /\ rebuild[b] # None
    /\ rebuild[b].ready
    /\ ~ Accepted(Rows(b))
    /\ EndRebuild(b)
    /\ UNCHANGED <<now, world, derived, changes, faults>>

ConnectionLost(b) ==
    /\ faults < MaxFaults
    /\ rebuild[b] # None
    /\ faults' = faults + 1
    /\ EndRebuild(b)
    /\ UNCHANGED <<now, world, derived, changes>>

-----------------------------------------------------------------------------
(* CorridorRepository.lookup, a query that changes nothing.                *)

LookupRowsAnyTime(b, odds, family, cutoff) ==
    {k \in DOMAIN corridors :
        /\ k.bet = b
        /\ k.low <= odds /\ odds < k.high
        /\ corridors[k].n >= LookupMin
        /\ k.scope \in {"global", family}}
LookupRows(b, odds, family, cutoff) ==
    {k \in DOMAIN corridors :
        /\ k.bet = b
        /\ k.low <= odds /\ odds < k.high
        /\ corridors[k].asOf <= cutoff
        /\ corridors[k].n >= LookupMin
        /\ k.scope \in {"global", family}}

\* A family's own corridor comes before the global one, then the larger.
Preferred(rows) ==
    LET own == {k \in rows : k.scope # "global"}
        first == IF own # {} THEN own ELSE rows
    IN  {k \in first : \A other \in first : corridors[other].n <= corridors[k].n}

Lookup(b, odds, family, cutoff) == Preferred(LookupRows(b, odds, family, cutoff))

-----------------------------------------------------------------------------
RebuildStep(b) ==
    \/ MaterializeObservations(b)
    \/ RebuildAggregates(b)
    \/ RebuildRefused(b)

Next ==
    \/ Collect \/ StoreResult \/ Rematch \/ Tick
    \/ \E b \in Builder : StartRebuild(b) \/ RebuildStep(b) \/ ConnectionLost(b)

Spec == Init /\ [][Next]_vars

\* A transaction goes on once it has begun.  The scheduler's job comes
\* round again and waits in line for the lock, which others may take again
\* and again; nobody promises that an operator rebuilds.
FairSpec ==
    /\ Spec
    /\ \A b \in Builder : WF_vars(RebuildStep(b))
    /\ \A b \in Scheduler : SF_vars(StartRebuild(b))

-----------------------------------------------------------------------------
(* Properties.                                                             *)

Quote == [pair : Pair, bet : Bets, odds : Odds, at : Nat]
ResultRow == [score : Scores, at : Nat]
Observation == [odds : Odds, outcome : Outcome, available : Nat]
Key == [scope : Family \cup {"global"}, bet : Bets, low : Nat, high : Nat]
CorridorRow == [n : Nat, wins : Nat, returns : Nat, asOf : Nat]
IsObserved(seen) ==
    /\ DOMAIN seen \subseteq Pair \X Bets
    /\ seen \in [DOMAIN seen -> Observation]

\* The rows of the tables and the open transactions have their types; an
\* observation's outcome is a settled one, never a refused market.
TypeOK ==
    /\ now \in Nat
    /\ quotes \subseteq Quote
    /\ kickoff \in [Pair -> Kickoffs]
    /\ results \in [Pair -> ResultRow \cup {None}]
    /\ mapping \in [Pair -> Mapping]
    /\ IsObserved(observations)
    /\ \A k \in DOMAIN corridors : k \in Key /\ corridors[k] \in CorridorRow
    /\ lock \in Builder \cup {None}
    /\ DOMAIN rebuild = Builder
    /\ \A b \in Builder : rebuild[b] # None =>
            /\ rebuild[b] = [asOf  |-> rebuild[b].asOf, seen |-> rebuild[b].seen,
                             ready |-> rebuild[b].ready]
            /\ rebuild[b].asOf \in Nat
            /\ IsObserved(rebuild[b].seen)
            /\ rebuild[b].ready \in BOOLEAN
    /\ changes \in Nat
    /\ faults \in Nat

\* The observations a corridor should rest on.
InBucket(k) ==
    {x \in DOMAIN observations :
        /\ x[2] = k.bet
        /\ k.scope \in Scopes(x[1])
        /\ k.low <= observations[x].odds
        /\ observations[x].odds < k.high}

\* Whatever process wrote them and with whatever width: a corridor counts
\* the observations between its bounds, every one and no other, and no
\* odds has two corridors to choose from in one scope.
CorridorsPartition ==
    /\ \A k \in DOMAIN corridors : corridors[k].n = Cardinality(InBucket(k))
    /\ \A j, k \in DOMAIN corridors :
        j # k /\ j.scope = k.scope /\ j.bet = k.bet =>
            j.high <= k.low \/ k.high <= j.low

\* A rebuild never puts older corridors in the place of newer ones.
AsOfNeverMovesBack ==
    [][\A j \in DOMAIN corridors, k \in DOMAIN corridors' :
            corridors[j].asOf <= corridors'[k].asOf]_vars

\* The corridor a decision reads rests on results that were seen by the
\* decision's cutoff, although it queries later, when more results have
\* come in and corridors have been rebuilt: its cutoff is any past time.
DecisionRestsOnKnownResults ==
    \A b \in Bets, odds \in Odds, family \in Family \cup {None}, cutoff \in 0 .. now :
        \A k \in Lookup(b, odds, family, cutoff) : \A x \in InBucket(k) :
            observations[x].available <= cutoff

\* Why that is so.  The lock keeps rebuilds apart, each takes its time once
\* it has the lock, and counts no result first seen after that time.
RebuildsApart ==
    \A b \in Builder : rebuild[b] # None =>
        /\ lock = b
        /\ rebuild[b].asOf <= now
        /\ \A k \in DOMAIN corridors : corridors[k].asOf <= rebuild[b].asOf
        /\ \A x \in DOMAIN rebuild[b].seen :
                rebuild[b].seen[x].available <= rebuild[b].asOf

StoredInTime ==
    /\ \A x \in DOMAIN observations : observations[x].available <= now
    /\ \A k \in DOMAIN corridors :
        /\ corridors[k].asOf <= now
        /\ \A x \in DOMAIN observations :
                observations[x].available <= corridors[k].asOf
        /\ \A j \in DOMAIN corridors : corridors[j].asOf = corridors[k].asOf

\* A matched pair that has an observation but, after its kickoff or its last
\* quote moved, no fresh closing quote any more.
IsStranded(p, b) ==
    \/ kickoff[p] > now \/ Quoted(p, b) = {}
    \/ kickoff[p] - ClosingQuote(p, b).at > MaxOddsAge

\* What the rebuild would find in the world as it is: every active observation
\* is of a matched pair, and says what an observation made now would say, row
\* for row, except that of a stranded pair, of which none would be made.
UpToDate ==
    \A p \in Pair, b \in Bets :
        LET x == <<p, b>> IN
        /\ Observable(p, b, now) => x \in DOMAIN observations
        /\ x \in DOMAIN observations =>
                /\ Matched(p)
                /\ observations[x] = Observe(p, b) \/ IsStranded(p, b)

\* Of what a rebuild would observe now, it would make a corridor that begins
\* at 1.00, and the table refuses it.  (Whatever it observes is known by now.)
IsRefused(b) ==
    \E seen \in {Materialize(RetireUnmatched(observations), now)} :
        \E k \in Groups(seen, WidthOf[b]) :
            k.low <= 100 /\ Cardinality(Members(seen, k, WidthOf[b])) >= MinSamples

\* However quotes, results and matches change around the rebuilds: once they
\* rest, the active observations are those of the matched pairs, each at its
\* closing odds, with the score on file in the pair's orientation and the time
\* that score was first seen.  One thing alone keeps them from it for ever:
\* low odds in a bucket that begins at 1.00.  A stranded pair's observation is
\* let be, as the code lets it.
ObservationsCatchUp == <>[]UpToDate \/ <>[](\A b \in Scheduler : IsRefused(b))

=============================================================================
