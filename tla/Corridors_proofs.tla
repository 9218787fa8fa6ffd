-------------------------- MODULE Corridors_proofs --------------------------
(***************************************************************************)
(* Corridors proved for any number of pairs, quotes and rebuilders.        *)
(***************************************************************************)
EXTENDS Corridors, FiniteSetTheorems, WellFoundedInduction, TLAPS

\* Every bet of the structured contract gets a verdict.
LEMMA VerdictType ==
    ASSUME NEW b \in Bet, NEW s \in Score
    PROVE  SettleMarket(b, s) \in Verdict
  BY NoLineAssumption DEF Bet, Market, SelectionsOf, Score, SettleMarket, MatchResult, WinIf,
       Total, Handicap, Compare, IsQuarter, Verdict, Outcome

\* A score seen from the other side is a score.
LEMMA OrientType ==
    ASSUME NEW s \in Score, NEW r \in BOOLEAN
    PROVE  Orient(s, r) \in Score
  BY DEF Orient, Swap, Score

\* A set of natural numbers has a least member.
LEMMA LeastNatural ==
    ASSUME NEW T \in SUBSET Nat, T # {}
    PROVE  \E x \in T : \A y \in T : x <= y
<1>. DEFINE R == OpToRel(<, Nat)
<1>1. IsWellFoundedOn(R, Nat)
  BY NatLessThanWellFounded
<1>2. \A x, y \in Nat : y < x => <<y, x>> \in R
  BY DEF OpToRel
<1>. HIDE DEF R
<1>3. PICK x \in T : \A y \in T : ~ (<<y, x>> \in R)
  BY <1>1, WFMin
<1>4. ASSUME NEW y \in T
      PROVE  x <= y
  <2>1. ~ (y < x)
    BY <1>2, <1>3
  <2>. QED
    BY <2>1
<1>. QED
  BY <1>4

\* Odds lie in their bucket, and a bucket starts at 100 at the earliest.
LEMMA BucketHoldsOdds ==
    ASSUME NEW odds \in Nat, odds > 100, NEW width \in Nat \ {0}
    PROVE  /\ BucketLow(odds, width) \in Nat
           /\ BucketLow(odds, width) <= odds
           /\ odds < BucketLow(odds, width) + width
<1>. DEFINE a == odds - 100
            steps == a \div width
<1>1. a \in Nat /\ steps \in Nat
  BY SMT
<1>2. steps * width \in Nat
  BY <1>1
<1>3. steps * width <= a /\ a < steps * width + width
  BY <1>1, SMT
<1>4. BucketLow(odds, width) = 100 + steps * width
  BY DEF BucketLow
<1>. HIDE DEF steps
<1>. QED
  BY <1>1, <1>2, <1>3, <1>4

-----------------------------------------------------------------------------
(* What the operators return.                                              *)

\* A closing quote exists as soon as one quote precedes the kickoff.
LEMMA ClosingQuoteExists ==
    ASSUME TypeOK, NEW p \in Pair, NEW b \in Bets, Quoted(p, b) # {}
    PROVE  ClosingQuote(p, b) \in Quoted(p, b)
<1>. DEFINE T == {kickoff[p] - q.at : q \in Quoted(p, b)}
<1>1. kickoff[p] \in Nat
  BY CorridorAssumption DEF TypeOK
<1>2. \A q \in Quoted(p, b) : q.at \in Nat /\ q.at < kickoff[p]
  BY DEF Quoted, TypeOK, Quote
<1>3. T \subseteq Nat /\ T # {}
  BY <1>1, <1>2
<1>4. PICK least \in T : \A t \in T : least <= t
  BY <1>3, LeastNatural
<1>5. PICK q \in Quoted(p, b) : least = kickoff[p] - q.at
  OBVIOUS
<1>6. ASSUME NEW r \in Quoted(p, b)
      PROVE  r.at <= q.at
  <2>1. kickoff[p] - r.at \in T
    OBVIOUS
  <2>2. kickoff[p] - q.at <= kickoff[p] - r.at
    BY <1>4, <1>5, <2>1
  <2>. HIDE DEF T
  <2>. QED
    BY <1>1, <1>2, <2>2
<1>. QED
  BY <1>6 DEF ClosingQuote

LEMMA ObserveType ==
    ASSUME TypeOK, NEW p \in Pair, NEW b \in Bets, NEW asOf \in Nat,
           Observable(p, b, asOf)
    PROVE  Observe(p, b) \in Observation /\ Observe(p, b).available <= asOf
<1>1. results[p] \in ResultRow /\ results[p].at <= asOf
  BY DEF Observable, ResultKnown, TypeOK
<1>2. results[p].score \in Score /\ results[p].at \in Nat
  BY <1>1, CorridorAssumption DEF ResultRow
<1>3. OutcomeOf(p, b) \in Outcome
  <2>1. b \in Bet
    BY CorridorAssumption
  <2>2. Orient(results[p].score, mapping[p] = "reversed") \in Score
    BY <1>2, OrientType
  <2>3. OutcomeOf(p, b) \in Verdict
    BY <2>1, <2>2, VerdictType DEF OutcomeOf
  <2>. QED
    BY <2>3 DEF Verdict, Observable
<1>4. ClosingQuote(p, b).odds \in Odds
  BY ClosingQuoteExists DEF Observable, Quoted, TypeOK, Quote
<1>. QED
  BY <1>1, <1>2, <1>3, <1>4 DEF Observe, Observation

LEMMA MaterializeType ==
    ASSUME TypeOK, NEW seen, IsObserved(seen), NEW asOf \in Nat
    PROVE  /\ IsObserved(Materialize(seen, asOf))
           /\ (\A x \in DOMAIN seen : seen[x].available <= asOf) =>
                \A x \in DOMAIN Materialize(seen, asOf) :
                    Materialize(seen, asOf)[x].available <= asOf
<1>. DEFINE fresh == {x \in Pair \X Bets : Observable(x[1], x[2], asOf)}
            all == Materialize(seen, asOf)
<1>1. all = [x \in fresh \cup DOMAIN seen |->
                IF x \in fresh THEN Observe(x[1], x[2]) ELSE seen[x]]
  BY DEF Materialize
<1>2. ASSUME NEW x \in fresh
      PROVE  Observe(x[1], x[2]) \in Observation /\ Observe(x[1], x[2]).available <= asOf
  BY ObserveType
<1>3. DOMAIN seen \subseteq Pair \X Bets /\ seen \in [DOMAIN seen -> Observation]
  BY DEF IsObserved
<1>. HIDE DEF fresh
<1>4. \A x \in DOMAIN all : all[x] \in Observation
  BY <1>1, <1>2, <1>3
<1>5. DOMAIN all \subseteq Pair \X Bets
  BY <1>1, <1>3 DEF fresh
<1>6. IsObserved(all)
  BY <1>1, <1>4, <1>5 DEF IsObserved
<1>7. ASSUME \A x \in DOMAIN seen : seen[x].available <= asOf, NEW x \in DOMAIN all
      PROVE  all[x].available <= asOf
  BY <1>1, <1>2, <1>7
<1>. QED
  BY <1>6, <1>7

LEMMA RestrictType ==
    ASSUME NEW seen, IsObserved(seen), NEW S \in SUBSET DOMAIN seen
    PROVE  IsObserved(Restrict(seen, S))
  BY DEF IsObserved, Restrict

LEMMA KeyType ==
    ASSUME NEW x \in Pair \X Bets, NEW odds \in Odds, NEW width \in Nat \ {0}
    PROVE  KeysOf(x, odds, width) \subseteq Key
<1>1. odds \in Nat /\ odds > 100
  BY CorridorAssumption
<1>2. BucketLow(odds, width) \in Nat /\ BucketLow(odds, width) + width \in Nat
  BY <1>1, BucketHoldsOdds
<1>3. Scopes(x[1]) \subseteq Family \cup {"global"}
  BY CorridorAssumption DEF Scopes
<1>. QED
  BY <1>2, <1>3 DEF KeysOf, Key

LEMMA AggregateType ==
    ASSUME NEW seen, IsObserved(seen), NEW width \in Nat \ {0}, NEW asOf \in Nat,
           NEW k \in DOMAIN Aggregate(seen, width, asOf)
    PROVE  /\ k \in Key
           /\ Aggregate(seen, width, asOf)[k] \in CorridorRow
           /\ Aggregate(seen, width, asOf)[k].asOf = asOf
<1>. DEFINE known == Restrict(seen, {x \in DOMAIN seen : seen[x].available <= asOf})
            members == Members(known, k, width)
<1>1. IsObserved(known)
  BY RestrictType
<1>. HIDE DEF known
<1>2. k \in Groups(known, width) /\ Aggregate(seen, width, asOf)[k] = Row(known, members, asOf)
  BY DEF Aggregate, known
<1>3. k \in Key
  <2>1. PICK x \in DOMAIN known : k \in KeysOf(x, known[x].odds, width)
    BY <1>2 DEF Groups
  <2>2. x \in Pair \X Bets /\ known[x].odds \in Odds
    BY <1>1 DEF IsObserved, Observation
  <2>. QED
    BY <2>1, <2>2, KeyType
<1>4. IsFiniteSet(DOMAIN known)
  BY <1>1, CorridorAssumption, FS_Product, FS_Subset DEF IsObserved
<1>5. ASSUME NEW S \in SUBSET DOMAIN known
      PROVE  Cardinality(S) \in Nat
  BY <1>4, FS_Subset, FS_CardinalityType
<1>6. members \subseteq DOMAIN known
  BY DEF Members
<1>7. Row(known, members, asOf) \in CorridorRow /\ Row(known, members, asOf).asOf = asOf
  <2>. DEFINE With(outcome) == {x \in members : known[x].outcome = outcome}
  <2>1. Cardinality(members) \in Nat /\ Cardinality(With("win")) \in Nat
        /\ Cardinality(With("return")) \in Nat
    BY <1>5, <1>6
  <2>. QED
    BY <2>1 DEF Row, CorridorRow
<1>. QED
  BY <1>2, <1>3, <1>7

-----------------------------------------------------------------------------
(* Types.                                                                  *)

\* What a builder has in its open transaction has a type.
RebuildType(b) ==
    rebuild[b] # None =>
        /\ rebuild[b] = [asOf  |-> rebuild[b].asOf, seen |-> rebuild[b].seen,
                         ready |-> rebuild[b].ready]
        /\ rebuild[b].asOf \in Nat
        /\ IsObserved(rebuild[b].seen)
        /\ rebuild[b].ready \in BOOLEAN

\* The tables that only collector, history and matcher write.
WorldType ==
    /\ quotes \subseteq Quote
    /\ kickoff \in [Pair -> Kickoffs]
    /\ results \in [Pair -> ResultRow \cup {None}]
    /\ mapping \in [Pair -> Mapping]

\* The tables the rebuild writes, and its lock.
DerivedType ==
    /\ IsObserved(observations)
    /\ \A k \in DOMAIN corridors : k \in Key /\ corridors[k] \in CorridorRow
    /\ lock \in Builder \cup {None}
    /\ DOMAIN rebuild = Builder
    /\ \A b \in Builder : RebuildType(b)

LEMMA TypeParts ==
    TypeOK <=> /\ WorldType /\ DerivedType
               /\ now \in Nat /\ changes \in Nat /\ faults \in Nat
  BY DEF TypeOK, WorldType, DerivedType, RebuildType

LEMMA InitType == Init => TypeOK
<1>. SUFFICES ASSUME Init PROVE TypeOK
  OBVIOUS
<1>1. WorldType
  <2>1. PICK first \in FirstOdds :
            quotes = {[pair |-> x[1], bet |-> x[2], odds |-> first[x], at |-> 0] :
                        x \in Pair \X Bets}
    BY DEF Init
  <2>2. first \in [Pair \X Bets -> Odds]
    BY CorridorAssumption
  <2>3. quotes \subseteq Quote
    BY <2>1, <2>2 DEF Quote
  <2>. QED
    BY <2>3, CorridorAssumption DEF Init, WorldType
<1>2. DerivedType
  BY DEF Init, DerivedType, RebuildType, IsObserved
<1>. QED
  BY <1>1, <1>2, TypeParts DEF Init

LEMMA WorldStepType ==
    TypeOK /\ (Collect \/ StoreResult \/ Rematch) => WorldType'
<1>. SUFFICES ASSUME TypeOK, Collect \/ StoreResult \/ Rematch PROVE WorldType'
  OBVIOUS
<1>. now \in Nat /\ WorldType
  BY TypeParts
<1>1. CASE Collect
  <2>1. PICK p \in Pair, start \in Kickoffs, offered \in SUBSET Bets :
        \E odds \in [offered -> Odds] :
            /\ \A q \in quotes : q.pair = p => q.at < now
            /\ offered # {} \/ start # kickoff[p]
            /\ kickoff' = [kickoff EXCEPT ![p] = start]
            /\ quotes' = quotes \cup
                {[pair |-> p, bet |-> b, odds |-> odds[b], at |-> now] : b \in offered}
    BY <1>1 DEF Collect
  <2>2. PICK odds \in [offered -> Odds] :
            /\ kickoff' = [kickoff EXCEPT ![p] = start]
            /\ quotes' = quotes \cup
                {[pair |-> p, bet |-> b, odds |-> odds[b], at |-> now] : b \in offered}
    BY <2>1
  <2>3. {[pair |-> p, bet |-> b, odds |-> odds[b], at |-> now] : b \in offered} \subseteq Quote
    BY DEF Quote
  <2>. QED
    BY <1>1, <2>2, <2>3 DEF Collect, WorldType
<1>2. CASE StoreResult
  <2>1. PICK p \in Pair, score \in Scores, at \in 0 .. now :
            results' = [results EXCEPT ![p] =
                [score |-> score, at |-> IF @ = None \/ at < @.at THEN at ELSE @.at]]
    BY <1>2 DEF StoreResult
  <2>2. (IF results[p] = None \/ at < results[p].at THEN at ELSE results[p].at) \in Nat
    BY DEF WorldType, ResultRow
  <2>. QED
    BY <1>2, <2>1, <2>2 DEF StoreResult, WorldType, ResultRow
<1>3. CASE Rematch
  BY <1>3 DEF Rematch, WorldType
<1>. QED
  BY <1>1, <1>2, <1>3

LEMMA RebuildStepType ==
    ASSUME TypeOK, NEW b \in Builder,
           StartRebuild(b) \/ RebuildStep(b) \/ ConnectionLost(b)
    PROVE  DerivedType'
<1>. DerivedType /\ now \in Nat
  BY TypeParts
<1>1. CASE StartRebuild(b)
  <2>. DEFINE open == [asOf |-> now, seen |-> RetireUnmatched(observations), ready |-> FALSE]
  <2>1. IsObserved(open.seen)
    BY RestrictType DEF RetireUnmatched, DerivedType
  <2>2. rebuild' = [rebuild EXCEPT ![b] = open]
    BY <1>1 DEF StartRebuild
  <2>3. \A c \in Builder : RebuildType(c)'
    BY <2>1, <2>2 DEF DerivedType, RebuildType, IsObserved
  <2>. QED
    BY <1>1, <2>2, <2>3 DEF StartRebuild, DerivedType, derived, IsObserved
<1>2. CASE MaterializeObservations(b)
  <2>. DEFINE asOf == rebuild[b].asOf
              seen == rebuild[b].seen
              open == [asOf |-> asOf, seen |-> Materialize(seen, asOf), ready |-> TRUE]
  <2>1. asOf \in Nat /\ IsObserved(seen)
    BY <1>2 DEF MaterializeObservations, DerivedType, RebuildType
  <2>2. IsObserved(Materialize(seen, asOf))
    BY <2>1, MaterializeType
  <2>3. rebuild' = [rebuild EXCEPT ![b] = open]
    BY <1>2 DEF MaterializeObservations
  <2>4. \A c \in Builder : RebuildType(c)'
    BY <2>1, <2>2, <2>3 DEF DerivedType, RebuildType, IsObserved
  <2>. QED
    BY <1>2, <2>3, <2>4 DEF MaterializeObservations, DerivedType, derived, IsObserved
<1>3. CASE RebuildAggregates(b)
  <2>1. rebuild[b].asOf \in Nat /\ IsObserved(rebuild[b].seen)
    BY <1>3 DEF RebuildAggregates, DerivedType, RebuildType
  <2>2. corridors' = Rows(b) /\ observations' = rebuild[b].seen
    BY <1>3 DEF RebuildAggregates, RetireAndWrite
  <2>3. WidthOf[b] \in Nat \ {0}
    BY CorridorAssumption
  <2>4. \A k \in DOMAIN Rows(b) : k \in Key /\ Rows(b)[k] \in CorridorRow
    BY <2>1, <2>3, AggregateType DEF Rows
  <2>5. \A c \in Builder : RebuildType(c)'
    BY <1>3 DEF RebuildAggregates, EndRebuild, DerivedType, RebuildType, IsObserved
  <2>. QED
    BY <1>3, <2>1, <2>2, <2>4, <2>5
       DEF RebuildAggregates, EndRebuild, DerivedType, IsObserved
<1>4. CASE RebuildRefused(b) \/ ConnectionLost(b)
  <2>1. \A c \in Builder : RebuildType(c)'
    BY <1>4 DEF RebuildRefused, ConnectionLost, EndRebuild, DerivedType, RebuildType,
                IsObserved
  <2>. QED
    BY <1>4, <2>1 DEF RebuildRefused, ConnectionLost, EndRebuild, DerivedType, derived,
                      IsObserved
<1>. QED
  BY <1>1, <1>2, <1>3, <1>4 DEF RebuildStep

\* Every table and every open transaction keeps its type, whoever writes
\* and in whatever order.
THEOREM TypeCorrect == Spec => []TypeOK
<1>1. TypeOK /\ [Next]_vars => TypeOK'
  <2>. SUFFICES ASSUME TypeOK, [Next]_vars PROVE TypeOK'
    OBVIOUS
  <2>. now \in Nat /\ changes \in Nat /\ faults \in Nat /\ WorldType /\ DerivedType
    BY TypeParts
  <2>0. WorldType' /\ DerivedType' /\ now' \in Nat /\ changes' \in Nat /\ faults' \in Nat
            => TypeOK'
    BY DEF TypeOK, WorldType, DerivedType, RebuildType
  <2>1. CASE Collect \/ StoreResult \/ Rematch
    <3>1. WorldType'
      BY <2>1, WorldStepType
    <3>2. UNCHANGED <<observations, corridors, lock, rebuild, now, faults>> /\ changes' \in Nat
      BY <2>1 DEF Collect, StoreResult, Rematch, Change, derived
    <3>3. DerivedType'
      BY <3>2 DEF DerivedType, RebuildType, IsObserved
    <3>. QED
      BY <3>1, <3>2, <3>3, <2>0
  <2>2. CASE Tick \/ UNCHANGED vars
    <3>1. UNCHANGED <<world, derived, lock, rebuild, changes, faults>> /\ now' \in Nat
      BY <2>2 DEF Tick, vars
    <3>. QED
      BY <3>1 DEF TypeOK, world, derived, IsObserved
  <2>3. ASSUME NEW b \in Builder, StartRebuild(b) \/ RebuildStep(b) \/ ConnectionLost(b)
        PROVE  TypeOK'
    <3>1. DerivedType'
      BY <2>3, RebuildStepType
    <3>2. UNCHANGED <<quotes, kickoff, results, mapping, now, changes>> /\ faults' \in Nat
      BY <2>3 DEF StartRebuild, RebuildStep, ConnectionLost, MaterializeObservations,
                  RebuildAggregates, RebuildRefused, world
    <3>3. WorldType'
      BY <3>2 DEF WorldType
    <3>. QED
      BY <3>1, <3>2, <3>3, <2>0
  <2>. QED
    BY <2>1, <2>2, <2>3 DEF Next
<1>. QED
  BY <1>1, InitType, PTL DEF Spec

-----------------------------------------------------------------------------
(* Time.                                                                   *)

Timely == RebuildsApart /\ StoredInTime

\* Who writes what: each step leaves the tables of the others alone.
LEMMA OthersFrame ==
    ASSUME TypeOK, Collect \/ StoreResult \/ Rematch \/ Tick \/ UNCHANGED vars
    PROVE  UNCHANGED <<observations, corridors, lock, rebuild>> /\ now' \in Nat /\ now <= now'
  BY DEF TypeOK, Collect, StoreResult, Rematch, Change, Tick, vars, derived

LEMMA RebuilderFrame ==
    ASSUME NEW b \in Builder, StartRebuild(b) \/ RebuildStep(b) \/ ConnectionLost(b)
    PROVE  /\ now' = now
           /\ RebuildAggregates(b) \/ UNCHANGED <<observations, corridors>>
  BY DEF StartRebuild, RebuildStep, ConnectionLost, MaterializeObservations,
         RebuildAggregates, RebuildRefused, derived

LEMMA TimelyStep == TypeOK /\ Timely /\ [Next]_vars => Timely'
<1>. SUFFICES ASSUME TypeOK, RebuildsApart, StoredInTime, [Next]_vars
              PROVE  RebuildsApart' /\ StoredInTime'
  BY DEF Timely
<1>. now \in Nat /\ DerivedType
  BY TypeParts
<1>. /\ \A k \in DOMAIN corridors : corridors[k].asOf \in Nat
     /\ \A x \in DOMAIN observations : observations[x].available \in Nat
     /\ \A b \in Builder : rebuild[b] # None =>
            /\ rebuild[b].asOf \in Nat
            /\ \A x \in DOMAIN rebuild[b].seen : rebuild[b].seen[x].available \in Nat
  BY DEF DerivedType, RebuildType, CorridorRow, IsObserved, Observation
<1>1. CASE Collect \/ StoreResult \/ Rematch \/ Tick \/ UNCHANGED vars
  <2>. UNCHANGED <<observations, corridors, lock, rebuild>> /\ now' \in Nat /\ now <= now'
    BY <1>1, OthersFrame
  <2>1. RebuildsApart'
    BY DEF RebuildsApart
  <2>2. StoredInTime'
    BY DEF StoredInTime
  <2>. QED
    BY <2>1, <2>2
<1>2. ASSUME NEW b \in Builder, StartRebuild(b)
      PROVE  RebuildsApart' /\ StoredInTime'
  <2>. DEFINE open == [asOf |-> now, seen |-> RetireUnmatched(observations), ready |-> FALSE]
  <2>1. /\ rebuild' = [rebuild EXCEPT ![b] = open] /\ lock' = b /\ lock = None
        /\ UNCHANGED <<now, observations, corridors>>
    BY <1>2 DEF StartRebuild, LockFree, derived
  <2>2. \A x \in DOMAIN open.seen : open.seen[x].available <= now
    BY DEF RetireUnmatched, Restrict, StoredInTime
  <2>3. \A c \in Builder : c # b => rebuild[c] = None
    BY <2>1, CorridorAssumption DEF RebuildsApart
  <2>. HIDE DEF open
  <2>4. \A c \in Builder : rebuild'[c] = IF c = b THEN open ELSE None
    BY <2>1, <2>3 DEF DerivedType
  <2>5. open.asOf = now
    BY DEF open
  <2>6. RebuildsApart'
    BY <2>1, <2>2, <2>4, <2>5 DEF RebuildsApart, StoredInTime
  <2>. QED
    BY <2>1, <2>6 DEF StoredInTime
<1>3. ASSUME NEW b \in Builder, MaterializeObservations(b)
      PROVE  RebuildsApart' /\ StoredInTime'
  <2>. DEFINE seen == rebuild[b].seen
              asOf == rebuild[b].asOf
              open == [asOf |-> asOf, seen |-> Materialize(seen, asOf), ready |-> TRUE]
  <2>1. /\ rebuild[b] # None /\ rebuild' = [rebuild EXCEPT ![b] = open]
        /\ UNCHANGED <<now, observations, corridors, lock>>
    BY <1>3 DEF MaterializeObservations, derived
  <2>2. asOf \in Nat /\ IsObserved(seen) /\ \A x \in DOMAIN seen : seen[x].available <= asOf
    BY <2>1 DEF DerivedType, RebuildType, RebuildsApart
  <2>3. \A x \in DOMAIN open.seen : open.seen[x].available <= asOf
    BY <2>2, MaterializeType
  <2>4. open.asOf = asOf
    OBVIOUS
  <2>. HIDE DEF open
  <2>5. \A c \in Builder : rebuild'[c] = IF c = b THEN open ELSE rebuild[c]
    BY <2>1 DEF DerivedType
  <2>6. open # None => lock = b /\ asOf <= now
                       /\ \A k \in DOMAIN corridors : corridors[k].asOf <= asOf
    BY <2>1 DEF RebuildsApart
  <2>7. RebuildsApart'
    BY <2>1, <2>3, <2>4, <2>5, <2>6 DEF RebuildsApart
  <2>. QED
    BY <2>1, <2>7 DEF StoredInTime
<1>4. ASSUME NEW b \in Builder, RebuildAggregates(b)
      PROVE  RebuildsApart' /\ StoredInTime'
  <2>. DEFINE seen == rebuild[b].seen
              asOf == rebuild[b].asOf
  <2>1. /\ rebuild[b] # None /\ rebuild' = [rebuild EXCEPT ![b] = None]
        /\ now' = now /\ observations' = seen /\ corridors' = Rows(b)
    BY <1>4 DEF RebuildAggregates, EndRebuild, RetireAndWrite
  <2>2. /\ lock = b /\ asOf \in Nat /\ asOf <= now /\ IsObserved(seen)
        /\ \A x \in DOMAIN seen : seen[x].available <= asOf
    BY <2>1 DEF RebuildsApart, DerivedType, RebuildType
  <2>3. \A k \in DOMAIN Rows(b) : Rows(b)[k].asOf = asOf
    BY <2>2, CorridorAssumption, AggregateType DEF Rows
  <2>4. \A c \in Builder : rebuild'[c] = None
    BY <2>1, <2>2 DEF RebuildsApart, DerivedType
  <2>5. RebuildsApart'
    BY <2>4 DEF RebuildsApart
  <2>6. \A x \in DOMAIN seen : seen[x].available \in Nat
    BY <2>1
  <2>. HIDE DEF seen, asOf
  <2>7. StoredInTime'
    BY <2>1, <2>2, <2>3, <2>6 DEF StoredInTime
  <2>. QED
    BY <2>5, <2>7
<1>5. ASSUME NEW b \in Builder, RebuildRefused(b) \/ ConnectionLost(b)
      PROVE  RebuildsApart' /\ StoredInTime'
  <2>1. /\ rebuild[b] # None /\ rebuild' = [rebuild EXCEPT ![b] = None]
        /\ UNCHANGED <<now, observations, corridors>>
    BY <1>5 DEF RebuildRefused, ConnectionLost, EndRebuild, derived
  <2>2. \A c \in Builder : rebuild'[c] = None
    BY <2>1 DEF RebuildsApart, DerivedType
  <2>3. RebuildsApart'
    BY <2>2 DEF RebuildsApart
  <2>. QED
    BY <2>1, <2>3 DEF StoredInTime
<1>. QED
  BY <1>1, <1>2, <1>3, <1>4, <1>5 DEF Next, RebuildStep

THEOREM TimelyAlways == Spec => []Timely
<1>1. Init => Timely
  BY DEF Init, Timely, RebuildsApart, StoredInTime
<1>. QED
  BY <1>1, TimelyStep, TypeCorrect, PTL DEF Spec

\* No corridor is older than one that it takes the place of or that it
\* lies beside: a rebuild that waited for the lock took its time after it.
THEOREM NeverBack == Spec => AsOfNeverMovesBack
<1>1. TypeOK /\ Timely /\ [Next]_vars =>
        [\A j \in DOMAIN corridors, k \in DOMAIN corridors' :
            corridors[j].asOf <= corridors'[k].asOf]_vars
  <2>. SUFFICES ASSUME TypeOK, Timely, Next
                PROVE  \/ \A j \in DOMAIN corridors, k \in DOMAIN corridors' :
                              corridors[j].asOf <= corridors'[k].asOf
                       \/ UNCHANGED vars
    OBVIOUS
  <2>. DerivedType
    BY TypeParts
  <2>1. ASSUME NEW b \in Builder, RebuildAggregates(b)
        PROVE  \A j \in DOMAIN corridors, k \in DOMAIN corridors' :
                    corridors[j].asOf <= corridors'[k].asOf
    <3>1. /\ rebuild[b].asOf \in Nat /\ IsObserved(rebuild[b].seen)
          /\ \A j \in DOMAIN corridors : corridors[j].asOf <= rebuild[b].asOf
      BY <2>1 DEF RebuildAggregates, Timely, RebuildsApart, DerivedType, RebuildType
    <3>2. \A k \in DOMAIN corridors' : corridors'[k].asOf = rebuild[b].asOf
      BY <2>1, <3>1, CorridorAssumption, AggregateType
         DEF RebuildAggregates, RetireAndWrite, Rows
    <3>. QED
      BY <3>1, <3>2
  <2>2. CASE UNCHANGED corridors
    BY <2>2 DEF Timely, StoredInTime, DerivedType, CorridorRow
  <2>3. CASE Collect \/ StoreResult \/ Rematch \/ Tick
    BY <2>2, <2>3, OthersFrame
  <2>4. ASSUME NEW b \in Builder, StartRebuild(b) \/ RebuildStep(b) \/ ConnectionLost(b)
        PROVE  RebuildAggregates(b) \/ UNCHANGED corridors
    BY <2>4, RebuilderFrame
  <2>. QED
    BY <2>1, <2>2, <2>3, <2>4 DEF Next
<1>. QED
  BY <1>1, TimelyAlways, TypeCorrect, PTL DEF Spec, AsOfNeverMovesBack

\* Whatever a decision reads was aggregated by its cutoff, and whatever was
\* aggregated was seen by then.
THEOREM KnownAtCutoff == Spec => []DecisionRestsOnKnownResults
<1>1. TypeOK /\ Timely => DecisionRestsOnKnownResults
  <2>. SUFFICES ASSUME TypeOK, Timely,
                       NEW b \in Bets, NEW odds \in Odds, NEW family \in Family \cup {None},
                       NEW cutoff \in 0 .. now,
                       NEW k \in Lookup(b, odds, family, cutoff), NEW x \in InBucket(k)
                PROVE  observations[x].available <= cutoff
    BY DEF DecisionRestsOnKnownResults
  <2>1. k \in DOMAIN corridors /\ corridors[k].asOf <= cutoff
    BY DEF Lookup, Preferred, LookupRows
  <2>2. x \in DOMAIN observations /\ observations[x].available <= corridors[k].asOf
    BY <2>1 DEF InBucket, Timely, StoredInTime
  <2>3. observations[x].available \in Nat /\ corridors[k].asOf \in Nat /\ cutoff \in Int
    BY <2>1, <2>2, TypeParts DEF DerivedType, IsObserved, Observation, CorridorRow
  <2>. QED
    BY <2>1, <2>2, <2>3
<1>. QED
  BY <1>1, TimelyAlways, TypeCorrect, PTL

-----------------------------------------------------------------------------
(* Counts.                                                                 *)

\* Multiples of the width are at least a width apart.
LEMMA StepsApart ==
    ASSUME NEW i \in Nat, NEW j \in Nat, NEW width \in Nat \ {0}, i < j
    PROVE  i * width + width <= j * width
<1>1. i + 1 <= j
  OBVIOUS
<1>2. (i + 1) * width <= j * width
  BY <1>1, Z3
<1>3. (i + 1) * width = i * width + width
  BY Z3
<1>. QED
  BY <1>2, <1>3

\* Two buckets of one width are the same or apart.
LEMMA BucketsApart ==
    ASSUME NEW odds1 \in Nat, odds1 > 100, NEW odds2 \in Nat, odds2 > 100,
           NEW width \in Nat \ {0},
           BucketLow(odds1, width) < BucketLow(odds2, width) + width,
           BucketLow(odds2, width) < BucketLow(odds1, width) + width
    PROVE  BucketLow(odds1, width) = BucketLow(odds2, width)
<1>. DEFINE i == (odds1 - 100) \div width
            j == (odds2 - 100) \div width
<1>1. i \in Nat /\ j \in Nat
  BY SMT
<1>2. i * width \in Nat /\ j * width \in Nat
  BY <1>1
<1>3. BucketLow(odds1, width) = 100 + i * width /\ BucketLow(odds2, width) = 100 + j * width
  BY DEF BucketLow
<1>. HIDE DEF i, j
<1>4. ~ (i < j)
  BY <1>1, <1>2, <1>3, StepsApart
<1>5. ~ (j < i)
  BY <1>1, <1>2, <1>3, StepsApart
<1>. QED
  BY <1>1, <1>3, <1>4, <1>5

\* The members of a group are the observations between its bounds.
LEMMA MembersByBounds ==
    ASSUME NEW seen, IsObserved(seen), NEW width \in Nat \ {0},
           NEW k \in Groups(seen, width)
    PROVE  Members(seen, k, width) =
             {x \in DOMAIN seen :
                /\ x[2] = k.bet
                /\ k.scope \in Scopes(x[1])
                /\ k.low <= seen[x].odds
                /\ seen[x].odds < k.high}
<1>1. PICK y \in DOMAIN seen : k \in KeysOf(y, seen[y].odds, width)
  BY DEF Groups
<1>2. \A x \in DOMAIN seen : seen[x].odds \in Nat /\ seen[x].odds > 100
  BY CorridorAssumption DEF IsObserved, Observation
<1>3. /\ k.low = BucketLow(seen[y].odds, width) /\ k.high = k.low + width
      /\ k = [scope |-> k.scope, bet |-> k.bet, low |-> k.low, high |-> k.high]
  BY <1>1 DEF KeysOf
<1>4. k.low \in Nat
  BY <1>2, <1>3, BucketHoldsOdds
<1>5. ASSUME NEW x \in DOMAIN seen
      PROVE  k.low = BucketLow(seen[x].odds, width)
                <=> k.low <= seen[x].odds /\ seen[x].odds < k.high
  <2>. DEFINE low == BucketLow(seen[x].odds, width)
  <2>1. low \in Nat /\ low <= seen[x].odds /\ seen[x].odds < low + width
    BY <1>2, BucketHoldsOdds
  <2>2. k.low < low + width /\ low < k.low + width => k.low = low
    BY <1>2, <1>3, BucketsApart
  <2>. HIDE DEF low
  <2>3. seen[x].odds \in Nat
    BY <1>2
  <2>4. k.low = low <=> k.low <= seen[x].odds /\ seen[x].odds < k.high
    BY <1>3, <1>4, <2>1, <2>2, <2>3
  <2>. QED
    BY <2>4 DEF low
<1>6. ASSUME NEW x \in DOMAIN seen
      PROVE  k \in KeysOf(x, seen[x].odds, width)
                <=> /\ k.scope \in Scopes(x[1]) /\ k.bet = x[2]
                    /\ k.low = BucketLow(seen[x].odds, width)
  BY <1>3 DEF KeysOf
<1>. QED
  BY <1>5, <1>6 DEF Members

\* The groups of one rebuild do not overlap.
LEMMA GroupsApart ==
    ASSUME NEW seen, IsObserved(seen), NEW width \in Nat \ {0},
           NEW j \in Groups(seen, width), NEW k \in Groups(seen, width),
           j # k, j.scope = k.scope, j.bet = k.bet
    PROVE  j.high <= k.low \/ k.high <= j.low
<1>1. PICK x \in DOMAIN seen : j \in KeysOf(x, seen[x].odds, width)
  BY DEF Groups
<1>2. PICK y \in DOMAIN seen : k \in KeysOf(y, seen[y].odds, width)
  BY DEF Groups
<1>. DEFINE lowX == BucketLow(seen[x].odds, width)
            lowY == BucketLow(seen[y].odds, width)
<1>3. /\ seen[x].odds \in Nat /\ seen[x].odds > 100
      /\ seen[y].odds \in Nat /\ seen[y].odds > 100
  BY CorridorAssumption DEF IsObserved, Observation
<1>4. lowX \in Nat /\ lowY \in Nat
  BY <1>3, BucketHoldsOdds
<1>5. lowX < lowY + width /\ lowY < lowX + width => lowX = lowY
  BY <1>3, BucketsApart
<1>6. /\ j = [scope |-> j.scope, bet |-> j.bet, low |-> lowX, high |-> lowX + width]
      /\ k = [scope |-> k.scope, bet |-> k.bet, low |-> lowY, high |-> lowY + width]
  BY <1>1, <1>2 DEF KeysOf
<1>. HIDE DEF lowX, lowY
<1>7. lowX # lowY
  BY <1>6
<1>8. j.low = lowX /\ j.high = lowX + width /\ k.low = lowY /\ k.high = lowY + width
  BY <1>6
<1>. QED
  BY <1>4, <1>5, <1>7, <1>8

\* Corridors count the observations between their bounds, for every width
\* and however often the width changes: the rebuild replaces them all.
THEOREM Partition == Spec => []CorridorsPartition
<1>1. Init => CorridorsPartition
  BY DEF Init, CorridorsPartition
<1>2. TypeOK /\ Timely /\ CorridorsPartition /\ [Next]_vars => CorridorsPartition'
  <2>. SUFFICES ASSUME TypeOK, Timely, CorridorsPartition, [Next]_vars
                PROVE  CorridorsPartition'
    OBVIOUS
  <2>1. CASE UNCHANGED <<observations, corridors>>
    BY <2>1 DEF CorridorsPartition, InBucket
  <2>2. ASSUME NEW b \in Builder, RebuildAggregates(b)
        PROVE  CorridorsPartition'
    <3>. DEFINE seen == rebuild[b].seen
                asOf == rebuild[b].asOf
                width == WidthOf[b]
                known == Restrict(seen, {x \in DOMAIN seen : seen[x].available <= asOf})
    <3>1. /\ rebuild[b] # None /\ observations' = seen /\ corridors' = Aggregate(seen, width, asOf)
      BY <2>2 DEF RebuildAggregates, RetireAndWrite, Rows
    <3>2. IsObserved(seen) /\ \A x \in DOMAIN seen : seen[x].available <= asOf
      BY <3>1, TypeParts DEF Timely, RebuildsApart, DerivedType, RebuildType
    <3>3. known = seen
      BY <3>2 DEF Restrict, IsObserved
    <3>4. width \in Nat \ {0}
      BY CorridorAssumption
    <3>. HIDE DEF seen, asOf, width, known
    <3>5. \A k \in DOMAIN corridors' :
            /\ k \in Groups(seen, width)
            /\ corridors'[k].n = Cardinality(Members(seen, k, width))
      BY <3>1, <3>3 DEF Aggregate, Row, known
    <3>6. \A k \in DOMAIN corridors' : Members(seen, k, width) = InBucket(k)'
      BY <3>1, <3>2, <3>4, <3>5, MembersByBounds DEF InBucket
    <3>7. \A k \in DOMAIN corridors' : corridors'[k].n = Cardinality(InBucket(k)')
      BY <3>5, <3>6
    <3>8. \A j, k \in DOMAIN corridors' :
            j # k /\ j.scope = k.scope /\ j.bet = k.bet =>
                j.high <= k.low \/ k.high <= j.low
      BY <3>2, <3>4, <3>5, GroupsApart
    <3>. QED
      BY <3>7, <3>8 DEF CorridorsPartition, InBucket
  <2>3. CASE Collect \/ StoreResult \/ Rematch \/ Tick \/ UNCHANGED vars
    BY <2>1, <2>3, OthersFrame
  <2>4. ASSUME NEW b \in Builder, StartRebuild(b) \/ RebuildStep(b) \/ ConnectionLost(b)
        PROVE  RebuildAggregates(b) \/ UNCHANGED <<observations, corridors>>
    BY <2>4, RebuilderFrame
  <2>. QED
    BY <2>1, <2>2, <2>3, <2>4 DEF Next
<1>. QED
  BY <1>1, <1>2, TimelyAlways, TypeCorrect, PTL DEF Spec

=============================================================================
