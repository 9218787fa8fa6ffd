---------------------------- MODULE Backtest_proofs ----------------------------
(***************************************************************************)
(* Backtest proved for every history, every fold length and every price,   *)
(* whatever is stored while a run goes on.                                 *)
(***************************************************************************)
EXTENDS Backtest, WellFoundedInduction, TLAPS

\* Every time a row holds is one at which the source had the score.
DatabaseInv ==
    /\ DOMAIN results \subseteq Match
    /\ \A m \in DOMAIN results :
          /\ results[m] \in ResultRow
          /\ \A t \in Times(results[m]) : PublicAt[m] <= t

\* What was replayed was replayed from the past.
ReplayInv ==
    /\ left \subseteq Match
    /\ \A p \in made : p.match \in Match /\ FromThePast(p.from, p.match, StartOf[p.match])

\* A fold's parts lie in its intervals, and each fold was taken once.
InItsIntervals(s) ==
    /\ s.fold \in Nat /\ s.fold < fold
    /\ \A m \in s.train :
          StartOf[m] \in Nat /\ TrainStart(s.fold) <= StartOf[m] /\ StartOf[m] < ValidationStart(s.fold)
    /\ \A m \in s.validation :
          StartOf[m] \in Nat /\ ValidationStart(s.fold) <= StartOf[m] /\ StartOf[m] < TestStart(s.fold)
    /\ \A m \in s.test :
          StartOf[m] \in Nat /\ TestStart(s.fold) <= StartOf[m] /\ StartOf[m] < TestEnd(s.fold)

FoldInv ==
    /\ fold \in Nat
    /\ \A s \in folds : InItsIntervals(s)
    /\ \A s, t \in folds : s.fold = t.fold => s = t

\* A bet that means what it was priced for.
Meant(b) ==
    b.outcome = Rules!SettleMarket([QuoteOf[b.quote].bet EXCEPT !.selection = b.priced], b.source)

MarketInv ==
    /\ pc \in {"ready", "features"} => prices = {} /\ bets = {}
    /\ \A x \in prices :
          x.quote \in Quote /\ x.score \in Rules!Score /\ Priceable(QuoteOf[x.quote].bet)
    /\ \A b \in bets :
          /\ b.quote \in Quote /\ Meant(b)
          /\ FromThePast(b.from, QuoteOf[b.quote].match, QuoteOf[b.quote].at)
    /\ \A x, y \in prices \cup bets : SamePick(x.quote, y.quote) => x.quote = y.quote

(***************************************************************************)
(* The operators.                                                          *)
(***************************************************************************)

\* A row of which any time is before the cutoff was public before it, and so
\* was every match the features are computed from.
LEMMA EligibleIsPast ==
    ASSUME DatabaseInv, NEW target \in Match, NEW cutoff \in Nat
    PROVE  FromThePast(Eligible(target, cutoff), target, cutoff)
<1>. SUFFICES ASSUME NEW m \in Eligible(target, cutoff)
              PROVE  m # target /\ StartOf[m] < cutoff /\ PublicAt[m] < cutoff
  BY DEF FromThePast
<1>1. m \in DOMAIN results /\ m # target /\ StartOf[m] < cutoff /\ KnownBefore(results[m], cutoff)
  BY DEF Eligible
<1>2. PICK t \in Times(results[m]) : t < cutoff
  BY <1>1 DEF KnownBefore
<1>3. m \in Match /\ results[m] \in ResultRow /\ PublicAt[m] <= t
  BY <1>1, <1>2 DEF DatabaseInv
<1>4. t \in Nat /\ PublicAt[m] \in Nat
  BY <1>2, <1>3, CorpusAssumption DEF Times, ResultRow, Time
<1>. QED
  BY <1>1, <1>2, <1>3, <1>4

LEMMA FeaturesArePast ==
    ASSUME DatabaseInv, NEW target \in Match, NEW cutoff \in Nat
    PROVE  FromThePast(ReadBy(Features(target, cutoff)), target, cutoff)
<1>. DEFINE among == Eligible(target, cutoff)
            f == Features(target, cutoff)
<1>1. f.h2h \subseteq among
  BY DEF Features, HeadToHead
<1>2. \A p \in DOMAIN f.form : f.form[p] \subseteq among
  BY DEF Features, Form
<1>3. ReadBy(f) \subseteq among
  BY <1>1, <1>2 DEF ReadBy
<1>. QED
  BY <1>3, EligibleIsPast DEF FromThePast

\* The score a bet is settled with, seen from the bookmaker's side, gives
\* what the source's score gives the selection that was priced.
LEMMA TurnedBetMeansTheSame ==
    ASSUME NEW b \in Rules!Bet, Priceable(b), NEW s \in Rules!Score, NEW r \in BOOLEAN
    PROVE  Rules!SettleMarket(b, Rules!Orient(s, r)) =
           Rules!SettleMarket(
              [b EXCEPT !.selection = IF r THEN Mirrored(b.selection) ELSE b.selection], s)
<1>. DEFINE c == [b EXCEPT !.selection = IF r THEN Mirrored(b.selection) ELSE b.selection]
<1>1. s.s1 \in Nat /\ s.s2 \in Nat
  BY DEF Rules!Score
<1>2. CASE ~r
  <2>1. c = b
    BY <1>2 DEF Rules!Bet
  <2>. QED
    BY <1>2, <2>1 DEF Rules!Orient
<1>3. CASE r /\ b.market = "1x2"
  <2>1. b.selection \in {"P1", "X", "P2"}
    BY <1>3 DEF Rules!Bet, Rules!SelectionsOf, Rules!Market
  <2>2. c.market = "1x2" /\ c.selection = Mirrored(b.selection)
    BY <1>3 DEF Rules!Bet
  <2>3. Rules!MatchResult(b.selection, Rules!Swap(s)) = Rules!MatchResult(Mirrored(b.selection), s)
    BY <1>1, <2>1 DEF Rules!MatchResult, Rules!WinIf, Rules!Swap, Mirrored
  <2>. QED
    BY <1>3, <2>2, <2>3 DEF Rules!SettleMarket, Rules!Orient
<1>4. CASE r /\ b.market = "total" /\ b.line # NoLine
  <2>1. b.selection \in {"over", "under"} /\ b.line \in Int
    BY <1>4 DEF Rules!Bet, Rules!SelectionsOf, Rules!Market
  <2>2. Mirrored(b.selection) = b.selection
    BY <2>1 DEF Mirrored
  <2>3. c = b
    BY <2>2 DEF Rules!Bet
  <2>4. Rules!Total(b.selection, Rules!Swap(s), b.line) = Rules!Total(b.selection, s, b.line)
    BY <1>1 DEF Rules!Total, Rules!Swap
  <2>5. Rules!Orient(s, r) = Rules!Swap(s)
    BY <1>4 DEF Rules!Orient
  <2>6. ASSUME NEW x \in Rules!Score
        PROVE  Rules!SettleMarket(b, x) = Rules!Total(b.selection, x, b.line)
    BY <1>4 DEF Rules!SettleMarket
  <2>7. Rules!Swap(s) \in Rules!Score
    BY DEF Rules!Swap, Rules!Score
  <2>. QED
    BY <2>3, <2>4, <2>5, <2>6, <2>7
<1>. QED
  BY <1>2, <1>3, <1>4 DEF Priceable

-----------------------------------------------------------------------------
(* The folds.                                                              *)

LEMMA FirstExists == First \in Nat
<1>. DEFINE T == {StartOf[m] : m \in Match}
            R == OpToRel(<, Nat)
<1>1. T \subseteq Nat /\ T # {}
  BY CorpusAssumption DEF Time
<1>2. IsWellFoundedOn(R, Nat)
  BY NatLessThanWellFounded
<1>3. \A x, y \in Nat : y < x => <<y, x>> \in R
  BY DEF OpToRel
<1>. HIDE DEF R
<1>4. PICK x \in T : \A y \in T : ~ (<<y, x>> \in R)
  BY <1>1, <1>2, WFMin
<1>5. ASSUME NEW y \in T
      PROVE  x <= y
  <2>1. x \in Nat /\ y \in Nat
    BY <1>1
  <2>2. ~ (y < x)
    BY <1>3, <1>4, <2>1
  <2>. QED
    BY <2>1, <2>2
<1>6. \A m \in Match : x <= StartOf[m]
  BY <1>5
<1>. QED
  <2>1. \E t \in {StartOf[m] : m \in Match} : \A m \in Match : t <= StartOf[m]
    BY <1>4, <1>6
  <2>2. First \in {StartOf[m] : m \in Match}
    BY <2>1, Zenon DEF First
  <2>. QED
    BY <1>1, <2>2

LEMMA Bounds ==
    ASSUME NEW n \in Nat
    PROVE  /\ TrainStart(n) \in Nat /\ ValidationStart(n) \in Nat
           /\ TestStart(n) \in Nat /\ TestEnd(n) \in Nat
           /\ TrainStart(n) < ValidationStart(n) /\ ValidationStart(n) < TestStart(n)
<1>1. n * Step \in Nat
  BY FoldAssumption
<1>. QED
  BY <1>1, FirstExists, FoldAssumption DEF TrainStart, ValidationStart, TestStart, TestEnd

\* With a step not shorter than the test interval, a later fold tests from
\* where an earlier one has ended.
LEMMA TestsApart ==
    ASSUME NEW n \in Nat, NEW k \in Nat, n < k, Step >= Test
    PROVE  TestEnd(n) <= TestStart(k)
<1>1. n * Step \in Nat /\ k * Step \in Nat /\ Step \in Nat /\ Test \in Nat
  BY FoldAssumption
<1>2. (k - n) * Step >= Step
  <2>1. k - n \in Nat \ {0}
    OBVIOUS
  <2>. QED
    BY <1>1, <2>1, SMT
<1>3. k * Step >= n * Step + Step
  BY <1>1, <1>2, SMT
<1>. QED
  BY <1>1, <1>3, FirstExists, FoldAssumption DEF TestEnd, TestStart, ValidationStart, TrainStart

(***************************************************************************)
(* The invariants.                                                         *)
(***************************************************************************)

\* A result keeps its first receipt or takes the new row's: both are times
\* at which the source had the score.
LEMMA DatabaseStep == DatabaseInv /\ [Next]_vars => DatabaseInv'
<1>. SUFFICES ASSUME DatabaseInv, [Next]_vars PROVE DatabaseInv'
  OBVIOUS
<1>1. ASSUME NEW m \in Match, Store(m)
      PROVE  DatabaseInv'
  <2>1. PICK r \in Known[m] :
          results' = [n \in DOMAIN results \cup {m} |->
             IF n # m THEN results[n]
             ELSE IF m \in DOMAIN results /\ results[m].observed <= r.observed
                  THEN [r EXCEPT !.observed = results[m].observed] ELSE r]
    BY <1>1 DEF Store
  <2>2. r \in ResultRow /\ \A t \in Times(r) : PublicAt[m] <= t
    BY CorpusAssumption
  <2>. DEFINE kept == [r EXCEPT !.observed = results[m].observed]
  <2>3. ASSUME m \in DOMAIN results
        PROVE  kept \in ResultRow /\ \A t \in Times(kept) : PublicAt[m] <= t
    <3>1. results[m] \in ResultRow /\ \A t \in Times(results[m]) : PublicAt[m] <= t
      BY <2>3 DEF DatabaseInv
    <3>2. results[m].observed \in Nat /\ results[m].observed # None
      BY <3>1, CorpusAssumption DEF ResultRow, Time
    <3>3. results[m].observed \in Times(results[m])
      BY <3>2 DEF Times
    <3>4. /\ kept.observed = results[m].observed
          /\ kept.settled = r.settled /\ kept.updated = r.updated
      BY <2>2 DEF ResultRow
    <3>5. Times(kept) \subseteq Times(r) \cup Times(results[m])
      BY <3>3, <3>4 DEF Times
    <3>6. kept \in ResultRow
      BY <2>2, <3>2 DEF ResultRow, Time
    <3>. QED
      BY <2>2, <3>1, <3>5, <3>6
  <2>4. \A n \in DOMAIN results' :
           \/ n \in DOMAIN results /\ results'[n] = results[n]
           \/ n = m /\ results'[n] = r
           \/ n = m /\ m \in DOMAIN results /\ results'[n] = kept
    BY <2>1
  <2>5. DOMAIN results' \subseteq Match
    BY <2>1 DEF DatabaseInv
  <2>6. ASSUME NEW n \in DOMAIN results'
        PROVE  results'[n] \in ResultRow /\ \A t \in Times(results'[n]) : PublicAt[n] <= t
    <3>1. CASE n \in DOMAIN results /\ results'[n] = results[n]
      BY <3>1 DEF DatabaseInv
    <3>2. CASE n = m /\ results'[n] = r
      BY <2>2, <3>2
    <3>3. CASE n = m /\ m \in DOMAIN results /\ results'[n] = kept
      BY <2>3, <3>3
    <3>. QED
      BY <2>4, <3>1, <3>2, <3>3
  <2>. QED
    BY <2>5, <2>6 DEF DatabaseInv
<1>2. CASE UNCHANGED results
  BY <1>2 DEF DatabaseInv
<1>3. UNCHANGED results \/ \E m \in Match : Store(m)
  BY DEF Next, Environment, Link, Start, Replay, EvaluateFold, TrainFold, FoldsDone, LookAt,
         Finish, vars, database
<1>. QED
  BY <1>1, <1>2, <1>3

LEMMA ReplayStep == DatabaseInv /\ ReplayInv /\ [Next]_vars => ReplayInv'
<1>. SUFFICES ASSUME DatabaseInv, ReplayInv, [Next]_vars PROVE ReplayInv'
  OBVIOUS
<1>1. CASE Start
  <2>1. \/ left' = left
        \/ left' = DOMAIN rows' /\ rows' = Rows(DOMAIN results \cap linked)
    BY <1>1 DEF Start
  <2>2. left' \subseteq Match
    BY <2>1 DEF ReplayInv, DatabaseInv, Rows
  <2>. QED
    BY <1>1, <2>2 DEF Start, ReplayInv, FromThePast
<1>2. CASE Replay
  <2>1. PICK m \in left :
          /\ left' = left \ {m}
          /\ \/ made' = made \cup
                   {[match |-> m, actual |-> rows[m], from |-> ReadBy(Features(m, StartOf[m]))]}
             \/ made' = made
    BY <1>2 DEF Replay
  <2>2. m \in Match /\ StartOf[m] \in Nat
    BY CorpusAssumption DEF ReplayInv, Time
  <2>3. FromThePast(ReadBy(Features(m, StartOf[m])), m, StartOf[m])
    BY <2>2, FeaturesArePast
  <2>4. \A p \in made' : p.match \in Match /\ FromThePast(p.from, p.match, StartOf[p.match])
    BY <2>1, <2>2, <2>3 DEF ReplayInv
  <2>. QED
    BY <2>1, <2>4 DEF ReplayInv, FromThePast
<1>3. CASE UNCHANGED <<left, made>>
  BY <1>3 DEF ReplayInv, FromThePast
<1>4. Start \/ Replay \/ UNCHANGED <<left, made>>
  BY DEF Next, Environment, Store, Link, EvaluateFold, TrainFold, FoldsDone, LookAt, Finish, vars
<1>. QED
  BY <1>1, <1>2, <1>3, <1>4

\* What Between selects of the replayed matches starts between its bounds.
LEMMA SplitInIntervals ==
    ASSUME ReplayInv, FoldInv, fold' = fold + 1, NEW s, s = Split(fold)
    PROVE  InItsIntervals(s)'
<1>1. fold \in Nat /\ fold < fold + 1 /\ s.fold = fold
  BY DEF FoldInv, Split
<1>2. \A p \in made : StartOf[p.match] \in Nat
  BY CorpusAssumption DEF ReplayInv, Time
<1>3. /\ s.train = {p.match : p \in Between(TrainStart(fold), ValidationStart(fold))}
      /\ s.validation = {p.match : p \in Between(ValidationStart(fold), TestStart(fold))}
      /\ s.test = {p.match : p \in Between(TestStart(fold), TestEnd(fold))}
  BY DEF Split
<1>4. \A m \in s.train :
         StartOf[m] \in Nat /\ TrainStart(fold) <= StartOf[m] /\ StartOf[m] < ValidationStart(fold)
  BY <1>2, <1>3 DEF Between
<1>5. \A m \in s.validation :
         StartOf[m] \in Nat /\ ValidationStart(fold) <= StartOf[m] /\ StartOf[m] < TestStart(fold)
  BY <1>2, <1>3 DEF Between
<1>6. \A m \in s.test :
         StartOf[m] \in Nat /\ TestStart(fold) <= StartOf[m] /\ StartOf[m] < TestEnd(fold)
  BY <1>2, <1>3 DEF Between
<1>. QED
  BY <1>1, <1>4, <1>5, <1>6 DEF InItsIntervals

LEMMA FoldStep == ReplayInv /\ FoldInv /\ [Next]_vars => FoldInv'
<1>. SUFFICES ASSUME ReplayInv, FoldInv, [Next]_vars PROVE FoldInv'
  OBVIOUS
<1>1. CASE fold' = fold + 1 /\ folds' \in {folds, folds \cup {Split(fold)}}
  <2>1. fold \in Nat /\ fold' \in Nat
    BY <1>1 DEF FoldInv
  <2>2. ASSUME NEW s \in folds
        PROVE  InItsIntervals(s)' /\ s.fold < fold
    <3>1. InItsIntervals(s)
      BY DEF FoldInv
    <3>. QED
      BY <1>1, <2>1, <3>1 DEF InItsIntervals
  <2>3. ASSUME NEW s, s = Split(fold)
        PROVE  InItsIntervals(s)' /\ s.fold = fold
    BY <1>1, <2>3, SplitInIntervals DEF Split
  <2>4. \A s \in folds' : InItsIntervals(s)'
    BY <1>1, <2>2, <2>3
  <2>5. \A s, t \in folds' : s.fold = t.fold => s = t
    <3>1. \A s \in folds' : s \in folds \/ s = Split(fold)
      BY <1>1
    <3>2. \A s \in folds : s.fold # fold
      BY <2>1, <2>2 DEF FoldInv, InItsIntervals
    <3>. QED
      BY <3>1, <3>2, <2>3 DEF FoldInv
  <2>. QED
    BY <2>1, <2>4, <2>5 DEF FoldInv
<1>2. CASE UNCHANGED <<fold, folds>>
  BY <1>2 DEF FoldInv, InItsIntervals
<1>3. \/ fold' = fold + 1 /\ folds' \in {folds, folds \cup {Split(fold)}}
      \/ UNCHANGED <<fold, folds>>
  BY DEF Next, Environment, Store, Link, Start, Replay, EvaluateFold, TrainFold, FoldsDone,
         LookAt, Finish, vars
<1>. QED
  BY <1>1, <1>2, <1>3

\* Two prices of one pick that are both in time: the older, or of two of one
\* time the one with the lower id, is not a last price.
LEMMA LastPriceIsOne ==
    ASSUME NEW q \in LastPrices, NEW r \in LastPrices, SamePick(q, r)
    PROVE  q = r
<1>1. q \in Quote /\ r \in Quote /\ InTime(q) /\ InTime(r)
  BY DEF LastPrices
<1>2. SamePick(r, q)
  BY DEF SamePick
<1>3. ~Newer(r, q) /\ ~Newer(q, r)
  BY <1>1, <1>2 DEF LastPrices
<1>4. QuoteOf[q].at \in Nat /\ QuoteOf[r].at \in Nat /\ QuoteOf[q].id \in Nat /\ QuoteOf[r].id \in Nat
  BY <1>1, QuoteAssumption DEF Time
<1>5. QuoteOf[q].id = QuoteOf[r].id
  BY <1>3, <1>4 DEF Newer
<1>. QED
  BY <1>1, <1>5, QuoteAssumption

\* A price looked at is bet on once, with features from before it was
\* received, and the bet is settled as what it was priced for.
LEMMA BetIsMeant ==
    ASSUME DatabaseInv, NEW x, x.quote \in Quote, x.score \in Rules!Score,
           Priceable(QuoteOf[x.quote].bet), NEW b,
           b = BetOn(x, Features(QuoteOf[x.quote].match, QuoteOf[x.quote].at))
    PROVE  /\ b.quote = x.quote /\ Meant(b)
           /\ FromThePast(b.from, QuoteOf[b.quote].match, QuoteOf[b.quote].at)
<1>. DEFINE q == QuoteOf[x.quote]
<1>1. /\ q.match \in Match /\ q.at \in Nat /\ q.bet \in Rules!Bet /\ q.reversed \in BOOLEAN
  BY QuoteAssumption, CorpusAssumption DEF Time
<1>2. /\ b.quote = x.quote
      /\ b.from = ReadBy(Features(q.match, q.at))
      /\ b.priced = IF q.reversed THEN Mirrored(q.bet.selection) ELSE q.bet.selection
      /\ b.source = x.score
      /\ b.outcome = Rules!SettleMarket(q.bet, Rules!Orient(x.score, q.reversed))
  BY DEF BetOn, Priced
<1>3. Meant(b)
  BY <1>1, <1>2, TurnedBetMeansTheSame DEF Meant
<1>4. FromThePast(ReadBy(Features(q.match, q.at)), q.match, q.at)
  BY <1>1, FeaturesArePast
<1>. QED
  BY <1>2, <1>3, <1>4

LEMMA MarketStep == DatabaseInv /\ MarketInv /\ [Next]_vars => MarketInv'
<1>. SUFFICES ASSUME DatabaseInv, MarketInv, [Next]_vars PROVE MarketInv'
  OBVIOUS
<1>1. CASE Start
  BY <1>1 DEF Start, MarketInv, Meant, FromThePast
<1>2. CASE TrainFold
  BY <1>2 DEF TrainFold, MarketInv, Meant, FromThePast
<1>3. CASE FoldsDone
  <2>1. pc = "features" /\ bets' = bets /\ pc' \in {"market", "done", "failed"}
    BY <1>3 DEF FoldsDone
  <2>2. prices = {} /\ bets = {}
    BY <2>1 DEF MarketInv
  <2>3. \/ prices' = prices
        \/ prices' = {[quote |-> q, score |-> results[QuoteOf[q].match].score] : q \in LastPrices}
    BY <1>3 DEF FoldsDone
  <2>4. ASSUME NEW x \in prices'
        PROVE  /\ x.quote \in LastPrices /\ x.quote \in Quote /\ x.score \in Rules!Score
               /\ Priceable(QuoteOf[x.quote].bet)
    <3>1. PICK q \in LastPrices : x = [quote |-> q, score |-> results[QuoteOf[q].match].score]
      BY <2>2, <2>3
    <3>2. q \in Quote /\ Priceable(QuoteOf[q].bet) /\ QuoteOf[q].match \in DOMAIN results
      BY DEF LastPrices
    <3>3. results[QuoteOf[q].match] \in ResultRow
      BY <3>2 DEF DatabaseInv
    <3>4. results[QuoteOf[q].match].score \in Rules!Score
      BY <3>3 DEF ResultRow
    <3>. QED
      BY <3>1, <3>2, <3>4
  <2>5. \A x, y \in prices' : SamePick(x.quote, y.quote) => x.quote = y.quote
    BY <2>4, LastPriceIsOne
  <2>. QED
    BY <2>1, <2>2, <2>4, <2>5 DEF MarketInv
<1>4. CASE LookAt
  <2>1. PICK x \in prices :
          /\ pc = "market" /\ pc' = pc
          /\ prices' = prices \ {x}
          /\ \/ bets' = bets \cup
                   {BetOn(x, Features(QuoteOf[x.quote].match, QuoteOf[x.quote].at))}
             \/ bets' = bets
    BY <1>4 DEF LookAt
  <2>2. /\ x.quote \in Quote /\ x.score \in Rules!Score
        /\ Priceable(QuoteOf[x.quote].bet)
    BY DEF MarketInv
  <2>3. ASSUME NEW b \in bets'
        PROVE  /\ b.quote \in Quote /\ Meant(b)
               /\ FromThePast(b.from, QuoteOf[b.quote].match, QuoteOf[b.quote].at)
               /\ b \in bets \/ b.quote = x.quote
    <3>1. CASE b \in bets
      BY <3>1 DEF MarketInv
    <3>2. CASE b = BetOn(x, Features(QuoteOf[x.quote].match, QuoteOf[x.quote].at))
      BY <2>2, <3>2, BetIsMeant
    <3>. QED
      BY <2>1, <3>1, <3>2
  <2>4. \A y \in prices' \cup bets' :
           \/ y \in prices \cup bets
           \/ y.quote = x.quote
    BY <2>1, <2>3
  <2>5. \A y, z \in prices' \cup bets' : SamePick(y.quote, z.quote) => y.quote = z.quote
    <3>1. \A y \in prices \cup bets :
             /\ SamePick(y.quote, x.quote) => y.quote = x.quote
             /\ SamePick(x.quote, y.quote) => x.quote = y.quote
      BY DEF MarketInv
    <3>2. \A y, z \in prices \cup bets : SamePick(y.quote, z.quote) => y.quote = z.quote
      BY DEF MarketInv
    <3>. QED
      BY <2>4, <3>1, <3>2
  <2>6. \A y \in prices' :
           /\ y.quote \in Quote /\ y.score \in Rules!Score
           /\ Priceable(QuoteOf[y.quote].bet)
    BY <2>1 DEF MarketInv
  <2>. QED
    BY <2>1, <2>3, <2>5, <2>6 DEF MarketInv
<1>5. CASE Finish
  BY <1>5 DEF Finish, MarketInv, Meant, FromThePast
<1>6. CASE UNCHANGED <<pc, prices, bets>>
  BY <1>6 DEF MarketInv, Meant, FromThePast
<1>7. \/ Start \/ TrainFold \/ FoldsDone \/ LookAt \/ Finish
      \/ UNCHANGED <<pc, prices, bets>>
  BY DEF Next, Environment, Store, Link, Replay, EvaluateFold, vars
<1>. QED
  BY <1>1, <1>2, <1>3, <1>4, <1>5, <1>6, <1>7

BacktestInv == DatabaseInv /\ ReplayInv /\ FoldInv /\ MarketInv

LEMMA BacktestInit == Init => BacktestInv
<1>. SUFFICES ASSUME Init PROVE BacktestInv
  OBVIOUS
<1>1. DatabaseInv
  <2>1. results = Early
    BY DEF Init
  <2>2. \A m \in DOMAIN Early : m \in Match /\ Early[m] \in Known[m]
    BY CorpusAssumption
  <2>3. \A m \in DOMAIN Early :
           Early[m] \in ResultRow /\ \A t \in Times(Early[m]) : PublicAt[m] <= t
    BY <2>2, CorpusAssumption
  <2>. QED
    BY <2>1, <2>2, <2>3 DEF DatabaseInv
<1>2. ReplayInv /\ FoldInv /\ MarketInv
  BY DEF Init, ReplayInv, FoldInv, MarketInv
<1>. QED
  BY <1>1, <1>2 DEF BacktestInv

LEMMA BacktestStep == BacktestInv /\ [Next]_vars => BacktestInv'
BY DatabaseStep, ReplayStep, FoldStep, MarketStep DEF BacktestInv

LEMMA BacktestInvariant == Spec => []BacktestInv
BY BacktestInit, BacktestStep, PTL DEF Spec

-----------------------------------------------------------------------------
\* No look-ahead, for every history and every order in which it is stored
\* while a run goes on: what is replayed or bet on is predicted from other
\* matches, whose scores their source had before.
THEOREM PastOnly == Spec => []NothingFromTheFuture
<1>1. BacktestInv => NothingFromTheFuture
  BY DEF BacktestInv, ReplayInv, MarketInv, NothingFromTheFuture
<1>. QED
  BY <1>1, BacktestInvariant, PTL

\* Out of sample, for every length of the intervals: in a fold the training
\* starts before the validation and both before the test, and folds whose
\* step is not shorter than a test have no tested match in common.
THEOREM Tested == Spec => []TestedOnce
<1>1. ASSUME FoldInv
      PROVE  TestedOnce
  <2>1. ASSUME NEW s \in folds
        PROVE  /\ \A m \in s.train \cup s.validation, n \in s.test : StartOf[m] < StartOf[n]
               /\ \A m \in s.train, n \in s.validation : StartOf[m] < StartOf[n]
    <3>1. InItsIntervals(s) /\ s.fold \in Nat
      BY <1>1 DEF FoldInv, InItsIntervals
    <3>2. /\ ValidationStart(s.fold) \in Nat /\ TestStart(s.fold) \in Nat
          /\ ValidationStart(s.fold) < TestStart(s.fold)
      BY <3>1, Bounds
    <3>. QED
      BY <3>1, <3>2 DEF InItsIntervals
  <2>2. ASSUME Step >= Test, NEW s \in folds, NEW t \in folds, s.fold < t.fold, NEW m \in s.test
        PROVE  m \notin t.test
    <3>1. InItsIntervals(s) /\ InItsIntervals(t) /\ s.fold \in Nat /\ t.fold \in Nat
      BY <1>1 DEF FoldInv, InItsIntervals
    <3>2. TestEnd(s.fold) \in Nat /\ TestStart(t.fold) \in Nat
      BY <3>1, Bounds
    <3>3. TestEnd(s.fold) <= TestStart(t.fold)
      BY <2>2, <3>1, TestsApart
    <3>. QED
      BY <2>2, <3>1, <3>2, <3>3 DEF InItsIntervals
  <2>3. ASSUME Step >= Test, NEW s \in folds, NEW t \in folds, s # t
        PROVE  s.test \cap t.test = {}
    <3>1. s.fold \in Nat /\ t.fold \in Nat /\ s.fold # t.fold
      BY <1>1, <2>3 DEF FoldInv, InItsIntervals
    <3>2. s.fold < t.fold \/ t.fold < s.fold
      BY <3>1
    <3>. QED
      BY <2>2, <2>3, <3>2
  <2>. QED
    BY <2>1, <2>3 DEF TestedOnce
<1>. QED
  BY <1>1, BacktestInvariant, PTL DEF BacktestInv

\* For every price and every score: a bet is settled as the selection it was
\* priced for, in the source's order, and no pick is bet on twice.
THEOREM Meaning == Spec => []BetsMeanWhatTheyPrice
<1>1. BacktestInv => BetsMeanWhatTheyPrice
  BY DEF BacktestInv, MarketInv, Meant, BetsMeanWhatTheyPrice
<1>. QED
  BY <1>1, BacktestInvariant, PTL

(***************************************************************************)
(* Types.  The rows are read once, before anything is made of them.        *)
(***************************************************************************)

RowsInv ==
    /\ linked \subseteq Match /\ report \in Report
    /\ pc \in {"ready", "features", "market", "done", "failed"}
    /\ pc = "ready" => made = {} /\ skipped = {}
    /\ DOMAIN rows \subseteq Match /\ left \subseteq DOMAIN rows /\ skipped \subseteq DOMAIN rows
    /\ \A p \in made : p.match \in DOMAIN rows

LEMMA RowsStep == DatabaseInv /\ RowsInv /\ [Next]_vars => RowsInv'
<1>. SUFFICES ASSUME DatabaseInv, RowsInv, [Next]_vars PROVE RowsInv'
  OBVIOUS
<1>1. CASE Start
  <2>1. made = {} /\ skipped = {} /\ UNCHANGED <<linked, report, made, skipped>>
    BY <1>1 DEF Start, RowsInv, database
  <2>2. CASE IsFold(0)
    <3>1. rows' = Rows(DOMAIN results \cap linked) /\ left' = DOMAIN rows' /\ pc' = "features"
      BY <1>1, <2>2 DEF Start
    <3>2. DOMAIN rows' \subseteq Match
      BY <3>1 DEF Rows, DatabaseInv
    <3>. QED
      BY <2>1, <3>1, <3>2 DEF RowsInv
  <2>3. CASE ~IsFold(0)
    BY <1>1, <2>1, <2>3 DEF Start, RowsInv
  <2>. QED
    BY <2>2, <2>3
<1>2. CASE Replay
  <2>1. PICK m \in left :
           /\ left' = left \ {m}
           /\ \/ /\ \E f : made' = made \cup {[match |-> m, actual |-> rows[m], from |-> ReadBy(f)]}
                 /\ UNCHANGED skipped
              \/ skipped' = skipped \cup {m} /\ UNCHANGED made
    BY <1>2 DEF Replay
  <2>2. UNCHANGED <<linked, report, pc, rows>> /\ pc = "features"
    BY <1>2 DEF Replay, database
  <2>. QED
    BY <2>1, <2>2 DEF RowsInv
<1>3. CASE Environment
  BY <1>3 DEF Environment, Store, Link, RowsInv
<1>4. CASE EvaluateFold \/ TrainFold \/ FoldsDone \/ LookAt \/ Finish
  BY <1>4 DEF EvaluateFold, TrainFold, FoldsDone, LookAt, Finish, RowsInv, database
<1>5. CASE UNCHANGED vars
  BY <1>5 DEF vars, database, RowsInv
<1>. QED
  BY <1>1, <1>2, <1>3, <1>4, <1>5 DEF Next

\* Type correctness: predictions, skipped rows and bets are of rows that were
\* read and prices that are there, and no stored time is before its result.
THEOREM TypeCorrect == Spec => []TypeOK
<1>1. Init => RowsInv
  BY CorpusAssumption DEF Init, RowsInv
<1>2. BacktestInv /\ RowsInv /\ [Next]_vars => RowsInv'
  BY RowsStep DEF BacktestInv
<1>3. BacktestInv /\ RowsInv => TypeOK
  BY DEF BacktestInv, DatabaseInv, FoldInv, MarketInv, RowsInv, TypeOK
<1>. QED
  BY <1>1, <1>2, <1>3, BacktestInvariant, PTL DEF Spec
=============================================================================
