------------------------- MODULE Settlement_proofs -------------------------
(***************************************************************************)
(* The settlement rules proved for every bet, every score and every set of *)
(* lines, and what BacktestEngine keeps of them, for any strategies and    *)
(* opportunities.                                                          *)
(***************************************************************************)
EXTENDS BacktestEngine, FiniteSetTheorems, TLAPS

(***************************************************************************)
(* What the rules answer.                                                  *)
(***************************************************************************)

\* Every bet of the structured contract gets a verdict.
LEMMA VerdictType ==
    ASSUME NEW b \in Bet, NEW s \in Score
    PROVE  SettleMarket(b, s) \in Verdict
  BY NoLineAssumption DEF Bet, Market, SelectionsOf, Score, SettleMarket, MatchResult, WinIf,
       Total, Handicap, Compare, IsQuarter, Verdict, Outcome

\* What the worker writes is one of the outcomes the column allows.
LEMMA SettledType ==
    ASSUME NEW b \in Bet, NEW s \in Score
    PROVE  SettleSignal(b, s) \in SettledOutcome
  BY VerdictType DEF SettleSignal, SettledOutcome, Verdict

\* A score seen from the other side is a score.
LEMMA OrientType ==
    ASSUME NEW s \in Score, NEW r \in BOOLEAN
    PROVE  Orient(s, r) \in Score
  BY DEF Orient, Swap, Score

(***************************************************************************)
(* Along a match.                                                          *)
(***************************************************************************)

\* Quoted bets are bets of the contract.
LEMMA QuotedType == Quoted \subseteq Bet
  BY LineAssumption DEF Quoted, MainBets, TotalBets, HandicapBets, MainBet, TotalBet,
       HandicapBet, Bet, Market, SelectionsOf

\* Scores stay pairs of naturals, and so every quoted bet has a verdict.
THEOREM TypeCorrect == Spec => []TypeOK
<1>1. Init => score \in Score
  BY DEF Init, Score
<1>2. score \in Score /\ [Next]_score => (score \in Score)'
  BY DEF Score, Next, Goal1, Goal2
<1>3. score \in Score => TypeOK
  BY QuotedType, VerdictType DEF TypeOK
<1>. QED
  BY <1>1, <1>2, <1>3, PTL DEF Spec

\* The two sides of any line are settled against each other at any score.
THEOREM OppositesCancel == Spec => []OppositeSidesCancel
<1>1. score \in Score => OppositeSidesCancel
  <2>. SUFFICES ASSUME score \in Score, NEW l \in Line
                PROVE  /\ SettleMarket(TotalBet("under", l), score)
                             = Opposite(SettleMarket(TotalBet("over", l), score))
                       /\ SettleMarket(HandicapBet("F2", -l), score)
                             = Opposite(SettleMarket(HandicapBet("F1", l), score))
    BY DEF OppositeSidesCancel
  <2>1. /\ score.s1 \in Nat /\ score.s2 \in Nat
        /\ l \in Int /\ l # NoLine /\ -l \in Int /\ -l # NoLine
    BY LineAssumption, NoLineAssumption DEF Score
  <2>2. IsQuarter(-l) <=> IsQuarter(l)
    BY <2>1, Z3 DEF IsQuarter
  <2>3. SettleMarket(TotalBet("under", l), score)
           = Opposite(SettleMarket(TotalBet("over", l), score))
    BY <2>1 DEF SettleMarket, TotalBet, Total, Compare, Opposite
  <2>4. SettleMarket(HandicapBet("F2", -l), score)
           = Opposite(SettleMarket(HandicapBet("F1", l), score))
    BY <2>1, <2>2 DEF SettleMarket, HandicapBet, Handicap, Compare, Opposite
  <2>. QED
    BY <2>3, <2>4
<1>2. TypeOK => score \in Score
  BY DEF TypeOK
<1>. QED
  BY <1>1, <1>2, TypeCorrect, PTL

\* One main result wins, and double chances follow from the main results.
THEOREM MainResults == Spec => []OneMainResultWins
<1>1. score \in Score => OneMainResultWins
  BY DEF Score, OneMainResultWins, SettleMarket, MainBet, MatchResult, WinIf,
         SettleLegacy, IsTotalText, LegacyText, DoubleChance
<1>2. TypeOK => score \in Score
  BY DEF TypeOK
<1>. QED
  BY <1>1, <1>2, TypeCorrect, PTL

\* Listing the players the other way, in the bet and in the score, changes no
\* verdict.
THEOREM Orientation == Spec => []OrientationDoesNotMatter
<1>1. score \in Score => OrientationDoesNotMatter
  <2>. SUFFICES ASSUME score \in Score, NEW b \in Quoted
                PROVE  SettleMarket(Mirror(b), Orient(score, TRUE)) = SettleMarket(b, score)
    BY DEF OrientationDoesNotMatter
  <2>1. score.s1 \in Nat /\ score.s2 \in Nat
    BY DEF Score
  <2>2. CASE b \in MainBets
    <3>. PICK s \in {"P1", "X", "P2"} : b = MainBet(s)
      BY <2>2 DEF MainBets
    <3>. QED
      BY <2>1 DEF MainBet, Mirror, Orient, Swap, SettleMarket, MatchResult, WinIf
  <2>3. CASE b \in TotalBets
    <3>. PICK s \in {"over", "under"}, l \in Line : b = TotalBet(s, l)
      BY <2>3 DEF TotalBets
    <3>. l \in Int /\ l # NoLine
      BY LineAssumption, NoLineAssumption
    <3>. QED
      BY <2>1 DEF TotalBet, Mirror, Orient, Swap, SettleMarket, Total, Compare
  <2>4. CASE b \in HandicapBets
    <3>. PICK s \in {"F1", "F2"}, l \in Line : b = HandicapBet(s, l)
      BY <2>4 DEF HandicapBets
    <3>. l \in Int /\ l # NoLine
      BY LineAssumption, NoLineAssumption
    <3>. QED
      BY <2>1 DEF HandicapBet, Mirror, Orient, Swap, SettleMarket, Handicap, Compare
  <2>. QED
    BY <2>2, <2>3, <2>4 DEF Quoted
<1>2. TypeOK => score \in Score
  BY DEF TypeOK
<1>. QED
  BY <1>1, <1>2, TypeCorrect, PTL

\* Rows of either age get the same verdict at every score, whatever the lines,
\* and a total written with a negative line gets none.
THEOREM Legacy == Spec => []LegacyAgrees
<1>1. score \in Score => LegacyAgrees
  <2>. SUFFICES ASSUME score \in Score
                PROVE  LegacyAgrees
    OBVIOUS
  <2>1. score.s1 \in Nat /\ score.s2 \in Nat
    BY DEF Score
  <2>2. ASSUME NEW s \in {"P1", "X", "P2"}
        PROVE  SettleLegacy(LegacyText(s, NoLine), score) = SettleMarket(MainBet(s), score)
    BY DEF SettleLegacy, IsTotalText, LegacyText, SettleMarket, MainBet
  <2>3. ASSUME NEW s \in {"F1", "F2"}, NEW l \in Line
        PROVE  SettleLegacy(LegacyText(s, l), score) = SettleMarket(HandicapBet(s, l), score)
    BY LineAssumption, NoLineAssumption
       DEF SettleLegacy, IsTotalText, LegacyText, SettleMarket, HandicapBet
  <2>4. ASSUME NEW l \in Line, NEW column \in Line \cup {NoLine}
        PROVE  LET over == LegacyText("TB", l)   under == LegacyText("TM", l)
               IN  /\ SettleLegacy(over, score) =
                         IF l >= 0 THEN SettleMarket(TotalBet("over", l), score) ELSE "ValueError"
                   /\ SettleLegacy(under, score) =
                         IF l >= 0 THEN SettleMarket(TotalBet("under", l), score) ELSE "ValueError"
                   /\ SettleLegacyTotalColumn(over, column, score) =
                         IF column = l THEN SettleLegacy(over, score) ELSE "ValueError"
                   /\ SettleLegacyTotalColumn(under, column, score) =
                         IF column = l THEN SettleLegacy(under, score) ELSE "ValueError"
    BY LineAssumption, NoLineAssumption
       DEF SettleLegacy, LegacyText, SettleMarket, TotalBet, SettleLegacyTotalColumn,
           NormalizeTotal, IsTotalText
  <2>. QED
    BY <2>2, <2>3, <2>4 DEF LegacyAgrees
<1>2. TypeOK => score \in Score
  BY DEF TypeOK
<1>. QED
  BY <1>1, <1>2, TypeCorrect, PTL

(***************************************************************************)
(* A goal.                                                                 *)
(***************************************************************************)

LEMMA OneGoal ==
    ASSUME score \in Score, Next
    PROVE  /\ score.s1 \in Nat /\ score.s2 \in Nat /\ score' \in Score
           /\ \/ /\ score'.s1 = score.s1 + 1 /\ score'.s2 = score.s2
                 /\ ScoredFor = {"P1", "F1", "over"}
              \/ /\ score'.s1 = score.s1 /\ score'.s2 = score.s2 + 1
                 /\ ScoredFor = {"P2", "F2", "over"}
  BY DEF Score, Next, Goal1, Goal2, ScoredFor

\* More on the left and no more on the right is never worse.
LEMMA CompareMonotone ==
    ASSUME NEW a \in Int, NEW b \in Int, NEW c \in Int, NEW d \in Int, a <= c, d <= b
    PROVE  ValueOf(Compare(a, b)) <= ValueOf(Compare(c, d))
  BY DEF Compare, ValueOf

LEMMA GoalHelps ==
    ASSUME score \in Score, Next, NEW b \in Quoted, b.selection \in ScoredFor,
           SettleMarket(b, score) \in Outcome
    PROVE  ValueOf(SettleMarket(b, score)) <= ValueOf(SettleMarket(b, score'))
<1>1. CASE b \in MainBets
  <2>1. PICK s \in {"P1", "X", "P2"} : b = MainBet(s)
    BY <1>1 DEF MainBets
  <2>2. b.market = "1x2" /\ b.selection = s
    BY <2>1 DEF MainBet
  <2>3. /\ SettleMarket(b, score) = MatchResult(s, score)
        /\ SettleMarket(b, score') = MatchResult(s, score')
    BY <2>2 DEF SettleMarket
  <2>4. /\ score.s1 \in Nat /\ score.s2 \in Nat
        /\ \/ s = "P1" /\ score'.s1 = score.s1 + 1 /\ score'.s2 = score.s2
           \/ s = "P2" /\ score'.s1 = score.s1 /\ score'.s2 = score.s2 + 1
    BY <2>2, OneGoal
  <2>5. CASE s = "P1"
    <3>1. /\ MatchResult(s, score) = WinIf(score.s1 > score.s2)
          /\ MatchResult(s, score') = WinIf(score'.s1 > score'.s2)
      BY <2>5 DEF MatchResult
    <3>2. score.s1 > score.s2 => score'.s1 > score'.s2
      BY <2>4, <2>5
    <3>. QED
      BY <2>3, <3>1, <3>2 DEF WinIf, ValueOf
  <2>6. CASE s = "P2"
    <3>1. /\ MatchResult(s, score) = WinIf(score.s2 > score.s1)
          /\ MatchResult(s, score') = WinIf(score'.s2 > score'.s1)
      BY <2>6 DEF MatchResult
    <3>2. score.s2 > score.s1 => score'.s2 > score'.s1
      BY <2>4, <2>6
    <3>. QED
      BY <2>3, <3>1, <3>2 DEF WinIf, ValueOf
  <2>. QED
    BY <2>4, <2>5, <2>6
<1>2. CASE b \in TotalBets
  <2>1. PICK s \in {"over", "under"}, l \in Line : b = TotalBet(s, l)
    BY <1>2 DEF TotalBets
  <2>2. l \in Int /\ l # NoLine
    BY LineAssumption, NoLineAssumption
  <2>3. s = "over"
    BY <2>1, OneGoal DEF TotalBet
  <2>4. /\ SettleMarket(b, score) = Compare(4 * (score.s1 + score.s2), l)
        /\ SettleMarket(b, score') = Compare(4 * (score'.s1 + score'.s2), l)
    BY <2>1, <2>2, <2>3 DEF TotalBet, SettleMarket, Total
  <2>5. /\ 4 * (score.s1 + score.s2) \in Int /\ 4 * (score'.s1 + score'.s2) \in Int
        /\ 4 * (score.s1 + score.s2) <= 4 * (score'.s1 + score'.s2)
    BY OneGoal
  <2>. QED
    BY <2>2, <2>4, <2>5, CompareMonotone
<1>3. CASE b \in HandicapBets
  <2>1. PICK s \in {"F1", "F2"}, l \in Line : b = HandicapBet(s, l)
    BY <1>3 DEF HandicapBets
  <2>2. l \in Int /\ l # NoLine /\ b.market = "handicap" /\ b.selection = s /\ b.line = l
    BY <2>1, LineAssumption, NoLineAssumption DEF HandicapBet
  <2>3. ~IsQuarter(l)
    BY <2>2 DEF SettleMarket, Outcome
  <2>4. /\ SettleMarket(b, score) = Handicap(s, score, l)
        /\ SettleMarket(b, score') = Handicap(s, score', l)
    BY <2>2, <2>3 DEF SettleMarket
  <2>5. CASE s = "F1"
    <3>1. score'.s1 = score.s1 + 1 /\ score'.s2 = score.s2
      BY <2>2, <2>5, OneGoal
    <3>2. /\ 4 * score.s1 + l \in Int /\ 4 * score'.s1 + l \in Int
          /\ 4 * score.s2 \in Int /\ 4 * score'.s2 \in Int
          /\ 4 * score.s1 + l <= 4 * score'.s1 + l /\ 4 * score'.s2 <= 4 * score.s2
      BY <2>2, <3>1, OneGoal
    <3>. QED
      BY <2>4, <2>5, <3>2, CompareMonotone DEF Handicap
  <2>6. CASE s = "F2"
    <3>1. score'.s1 = score.s1 /\ score'.s2 = score.s2 + 1
      BY <2>2, <2>6, OneGoal
    <3>2. /\ 4 * score.s2 + l \in Int /\ 4 * score'.s2 + l \in Int
          /\ 4 * score.s1 \in Int /\ 4 * score'.s1 \in Int
          /\ 4 * score.s2 + l <= 4 * score'.s2 + l /\ 4 * score'.s1 <= 4 * score.s1
      BY <2>2, <3>1, OneGoal
    <3>. QED
      BY <2>4, <2>6, <3>2, CompareMonotone DEF Handicap
  <2>. QED
    BY <2>5, <2>6
<1>. QED
  BY <1>1, <1>2, <1>3 DEF Quoted

\* A goal makes no bet on its scorer, or on more goals, worse, at any score
\* and on any line.
THEOREM GoalsHelp == Spec => GoalsHelpTheirSide
<1>1. TypeOK /\ [Next]_score
        => [\A b \in Quoted :
               b.selection \in ScoredFor /\ SettleMarket(b, score) \in Outcome
               => ValueOf(SettleMarket(b, score)) <= ValueOf(SettleMarket(b, score)')]_score
  BY GoalHelps DEF TypeOK
<1>. QED
  BY <1>1, TypeCorrect, PTL DEF Spec, GoalsHelpTheirSide

\* The backtest only watches the match: seen by its score alone, a run of the
\* engine is a match, and all of the above holds of it.
THEOREM EngineWatches == EngineSpec => Spec
<1>1. EngineInit => Init
  BY DEF EngineInit
<1>2. [EngineNext]_allVars => [Next]_score
  BY DEF EngineNext, Play, Consider, Skip, Place, PlaceAndSettle, Fail, allVars
<1>. QED
  BY <1>1, <1>2, PTL DEF EngineSpec, Spec

(***************************************************************************)
(* The Kelly stake.  Its fraction of the bankroll is an edge over odds     *)
(* that are no more than ten of its units apart, as no probability exceeds *)
(* one; of that at most a quarter is placed.                               *)
(***************************************************************************)

LEMMA Division ==
    ASSUME NEW x \in Nat, NEW d \in Nat \ {0}
    PROVE  x \div d \in Nat /\ (x \div d) * d <= x
  BY SMT

LEMMA TimesMonotone ==
    ASSUME NEW a \in Nat, NEW b \in Nat, NEW c \in Nat, a <= b
    PROVE  a * c <= b * c
  BY SMT

LEMMA EdgeBound ==
    ASSUME NEW odds \in Nat, odds > 10, NEW p \in 1 .. 10
    PROVE  odds * p - 100 \in Int /\ odds * p - 100 <= 10 * (odds - 10)
<1>1. odds * p <= 10 * odds
  BY SMT
<1>. QED
  BY <1>1, SMT

\* A quarter of a share of at most one never reaches the whole.
LEMMA ShareBound ==
    ASSUME NEW money \in Nat \ {0}, NEW share \in {10, 25},
           NEW d \in Nat \ {0}, NEW edge \in Nat, edge <= 10 * d
    PROVE  /\ (money * share * edge) \div (1000 * d) \in Nat
           /\ (money * share * edge) \div (1000 * d) < money
<1>. DEFINE x == money * share * edge
            w == 1000 * d
            q == x \div w
<1>1. x \in Nat /\ w \in Nat \ {0}
  BY SMT
<1>2. q \in Nat /\ q * w <= x
  <2>. HIDE DEF x, w
  <2>. QED
    BY <1>1, Division
<1>3. x <= 250 * (money * d)
  <2>1. money * edge \in Nat /\ money * d \in Nat
    BY SMT
  <2>2. edge * money <= (10 * d) * money
    BY TimesMonotone
  <2>3. x = share * (money * edge)
    BY SMT
  <2>4. money * edge <= 10 * (money * d)
    BY <2>2, SMT
  <2>. QED
    BY <2>1, <2>3, <2>4, SMT
<1>4. money * d \in Nat \ {0}
  BY SMT
<1>5. ASSUME q >= money PROVE FALSE
  <2>1. money * w <= q * w
    BY <1>1, <1>2, <1>5, TimesMonotone
  <2>2. money * w = 1000 * (money * d)
    BY SMT
  <2>. QED
    BY <1>1, <1>2, <1>3, <1>4, <2>1, <2>2, SMT
<1>. QED
  BY <1>2, <1>5

(***************************************************************************)
(* KellyNeverRuins.                                                        *)
(***************************************************************************)

\* A Kelly run has money left, in cents; so has every other until it bets.
MoneyInv ==
    /\ strategy \in Strategy
    /\ bankroll \in Int
    /\ KellyNeverRuins

LEMMA KellyStakeBound ==
    ASSUME MoneyInv, strategy.mode \in KellyMode,
           NEW i \in Opportunity, Wanted(i)
    PROVE  Stake(i) \in Int /\ Stake(i) < bankroll
<1>. DEFINE d == i.odds - 10
            share == KellyHundredths[strategy.mode]
            edge == Edge(i)
<1>1. /\ strategy.max \in Int /\ strategy.minOdds \in Int /\ strategy.maxOdds \in Int
      /\ strategy.minOdds > 10
  BY StrategyAssumption DEF MoneyInv, ValidStrategy
<1>2. i.odds \in Nat /\ i.odds > 10 /\ i.probability \in 1 .. 10
  BY <1>1, OpportunityAssumption DEF Wanted, Passes
<1>3. bankroll \in Nat \ {0}
  BY DEF MoneyInv, KellyNeverRuins
<1>4. share \in {10, 25}
  BY DEF KellyMode, KellyHundredths
<1>5. d \in Nat \ {0}
  BY <1>2
<1>6. edge \in Nat /\ edge <= 10 * d
  BY <1>2, EdgeBound DEF Edge, High, ValuePercent
<1>7. FractionalKelly(i) \in Nat /\ FractionalKelly(i) < bankroll
  <2>1. FractionalKelly(i) = (bankroll * share * edge) \div (1000 * d)
    BY DEF FractionalKelly
  <2>. HIDE DEF d, share, edge
  <2>. QED
    BY <1>3, <1>4, <1>5, <1>6, <2>1, ShareBound
<1>8. Stake(i) = KellyStake(i)
  BY DEF Stake, KellyMode, KellyHundredths
<1>. QED
  BY <1>1, <1>3, <1>7, <1>8 DEF KellyStake, Low

LEMMA StakeType ==
    ASSUME MoneyInv, NEW i \in Opportunity, Wanted(i)
    PROVE  Stake(i) \in Int
<1>1. CASE strategy.mode \in KellyMode
  BY <1>1, KellyStakeBound
<1>2. CASE strategy.mode \notin KellyMode
  <2>1. strategy.base \in Int /\ strategy.mode \in {"fixed", "observed_ml"}
    BY <1>2, StrategyAssumption DEF MoneyInv, ValidStrategy, StakeMode
  <2>2. Multiplier(i) \in Int
    BY OpportunityAssumption DEF Multiplier, Low, High, ValuePercent
  <2>3. ObservedStake(i) \in Int
    BY <2>1, <2>2 DEF ObservedStake
  <2>. QED
    BY <2>1, <2>3 DEF Stake
<1>. QED
  BY <1>1, <1>2

\* A bet loses no more than its stake.
LEMMA ProfitBound ==
    ASSUME NEW i \in Opportunity, NEW stake \in Nat, NEW verdict
    PROVE  Profit(i, stake, verdict) \in Int /\ Profit(i, stake, verdict) >= -stake
<1>1. i.odds \in Nat
  BY OpportunityAssumption
<1>2. stake * i.odds \in Nat
  BY <1>1
<1>3. (stake * i.odds) \div 10 \in Nat
  BY <1>2
<1>. QED
  BY <1>3 DEF Profit

LEMMA MoneyInit == EngineInit => MoneyInv
  BY StrategyAssumption DEF EngineInit, MoneyInv, KellyNeverRuins, ValidStrategy

LEMMA MoneyStep ==
    ASSUME MoneyInv, [EngineNext]_allVars
    PROVE  MoneyInv'
<1>1. CASE UNCHANGED allVars \/ Play
  BY <1>1 DEF allVars, engineVars, Play, MoneyInv, KellyNeverRuins
<1>2. ASSUME NEW i \in Opportunity, Skip(i) \/ Place(i) \/ Fail(i)
      PROVE  MoneyInv'
  BY <1>2 DEF Skip, Place, Fail, MoneyInv, KellyNeverRuins
<1>3. ASSUME NEW i \in Opportunity, PlaceAndSettle(i)
      PROVE  MoneyInv'
  <2>. DEFINE profit == Profit(i, Stake(i), SettleMarket(i.bet, score))
  <2>1. Wanted(i) /\ Stake(i) > 0
    BY <1>3 DEF PlaceAndSettle, IsBet
  <2>2. Stake(i) \in Nat
    BY <2>1, StakeType
  <2>3. profit \in Int /\ profit >= -Stake(i)
    BY <2>2, ProfitBound
  <2>4. bankroll' = bankroll + profit /\ UNCHANGED strategy
    BY <1>3 DEF PlaceAndSettle
  <2>5. strategy.mode \in KellyMode => Stake(i) < bankroll
    BY <2>1, KellyStakeBound
  <2>. HIDE DEF profit
  <2>. QED
    BY <2>2, <2>3, <2>4, <2>5 DEF MoneyInv, KellyNeverRuins
<1>. QED
  BY <1>1, <1>2, <1>3 DEF EngineNext, Consider

\* Whatever is staked and however it ends, a Kelly run has money left.
THEOREM NeverRuined == EngineSpec => []KellyNeverRuins
<1>1. MoneyInv => KellyNeverRuins
  BY DEF MoneyInv
<1>. QED
  BY <1>1, MoneyInit, MoneyStep, PTL DEF EngineSpec

(***************************************************************************)
(* StakesNeedAnEdge.                                                       *)
(***************************************************************************)

\* What is placed at a stake that follows the value has a positive edge.
LEMMA PositiveStake ==
    ASSUME MoneyInv, NEW i \in Opportunity, IsBet(i), strategy.mode # "fixed"
    PROVE  i.odds * i.probability > 100
<1>. DEFINE value == i.odds * i.probability
<1>1. value \in Int
  BY OpportunityAssumption
<1>2. Wanted(i) /\ Stake(i) > 0 /\ strategy.mode \in StakeMode /\ strategy.base \in Int
  BY StrategyAssumption DEF IsBet, MoneyInv, ValidStrategy
<1>3. ASSUME value <= 100 PROVE FALSE
  <2>1. Edge(i) = 0 /\ Multiplier(i) = 0
    BY <1>1, <1>3 DEF Edge, Multiplier, High, Low, ValuePercent
  <2>2. CASE strategy.mode = "observed_ml"
    BY <1>2, <2>1, <2>2 DEF Stake, ObservedStake
  <2>3. CASE strategy.mode \in KellyMode
    <3>1. bankroll \in Int /\ i.odds \in Nat /\ i.odds > 10
      <4>1. strategy.minOdds \in Int /\ strategy.maxOdds \in Int /\ strategy.minOdds > 10
        BY StrategyAssumption DEF MoneyInv, ValidStrategy
      <4>. QED
        BY <1>2, <4>1, OpportunityAssumption DEF MoneyInv, Wanted, Passes
    <3>2. FractionalKelly(i) = 0
      <4>1. KellyHundredths[strategy.mode] \in Int
        BY <2>3 DEF KellyMode, KellyHundredths
      <4>2. bankroll * KellyHundredths[strategy.mode] * Edge(i) = 0
        BY <2>1, <3>1, <4>1
      <4>. DEFINE w == 1000 * (i.odds - 10)
      <4>3. w \in Nat \ {0}
        BY <3>1
      <4>4. FractionalKelly(i) = 0 \div w
        BY <4>2 DEF FractionalKelly
      <4>. HIDE DEF w
      <4>. QED
        BY <4>3, <4>4, SMT
    <3>3. Stake(i) = Low(0, strategy.max) /\ strategy.max \in Int
      BY <2>3, <3>2, StrategyAssumption DEF Stake, KellyStake, KellyMode, KellyHundredths, MoneyInv
    <3>. QED
      BY <1>2, <3>3 DEF Low
  <2>. QED
    BY <1>2, <2>2, <2>3 DEF StakeMode
<1>. HIDE DEF value
<1>4. value > 100
  BY <1>1, <1>3
<1>. QED
  BY <1>4 DEF value

RunInv ==
    /\ \E Entry : predictions \in Seq(Entry)
    /\ StakesNeedAnEdge

\* One more prediction keeps it when that one does.
LEMMA OneMore ==
    ASSUME RunInv, UNCHANGED strategy, NEW entry, predictions' = Append(predictions, entry),
           strategy.mode # "fixed" /\ entry.decision = "alert"
              => entry.of.odds * entry.of.probability > 100
    PROVE  RunInv'
<1>1. PICK Entry : predictions \in Seq(Entry)
  BY DEF RunInv
<1>2. predictions \in Seq(Entry \cup {entry})
  BY <1>1
<1>3. predictions' \in Seq(Entry \cup {entry})
  BY <1>2
<1>4. /\ Len(predictions) \in Nat
      /\ Len(predictions') = Len(predictions) + 1
      /\ predictions'[Len(predictions) + 1] = entry
      /\ \A n \in 1 .. Len(predictions) : predictions'[n] = predictions[n]
  BY <1>2
<1>5. ASSUME strategy.mode # "fixed", NEW n \in Bets'
      PROVE  predictions'[n].of.odds * predictions'[n].of.probability > 100
  <2>1. n \in 1 .. Len(predictions) + 1 /\ predictions'[n].decision = "alert"
    BY <1>4 DEF Bets
  <2>2. CASE n = Len(predictions) + 1
    BY <1>4, <1>5, <2>1, <2>2
  <2>3. CASE n \in 1 .. Len(predictions)
    <3>1. n \in Bets
      BY <1>4, <2>1, <2>3 DEF Bets
    <3>2. predictions[n].of.odds * predictions[n].of.probability > 100
      BY <1>5, <3>1 DEF RunInv, StakesNeedAnEdge
    <3>. QED
      BY <1>4, <2>3, <3>2
  <2>. QED
    BY <1>4, <2>1, <2>2, <2>3
<1>6. StakesNeedAnEdge'
  BY <1>5 DEF StakesNeedAnEdge
<1>. QED
  BY <1>3, <1>6 DEF RunInv

LEMMA RunInit == EngineInit => RunInv
<1>. SUFFICES ASSUME EngineInit PROVE RunInv
  OBVIOUS
<1>1. predictions = <<>>
  BY DEF EngineInit
<1>2. predictions \in Seq({})
  BY <1>1
<1>3. Bets = {}
  BY <1>1 DEF Bets
<1>. QED
  BY <1>2, <1>3 DEF RunInv, StakesNeedAnEdge

LEMMA RunStep ==
    ASSUME MoneyInv, RunInv, [EngineNext]_allVars
    PROVE  RunInv'
<1>1. CASE UNCHANGED <<strategy, predictions>>
  BY <1>1 DEF RunInv, StakesNeedAnEdge, Bets
<1>2. CASE UNCHANGED allVars \/ Play \/ \E i \in Opportunity : Fail(i)
  BY <1>1, <1>2 DEF allVars, engineVars, Play, Fail
<1>3. ASSUME NEW i \in Opportunity, Skip(i)
      PROVE  RunInv'
  <2>. DEFINE entry == [of |-> i, decision |-> "skip", stake |-> 0, outcome |-> "none",
                        profit |-> 0]
  <2>1. predictions' = Append(predictions, entry) /\ UNCHANGED strategy
    BY <1>3 DEF Skip, Predicted
  <2>. QED
    BY <2>1, OneMore
<1>4. ASSUME NEW i \in Opportunity, Place(i) \/ PlaceAndSettle(i)
      PROVE  RunInv'
  <2>1. IsBet(i) /\ UNCHANGED strategy
    BY <1>4 DEF Place, PlaceAndSettle
  <2>2. strategy.mode # "fixed" => i.odds * i.probability > 100
    BY <2>1, PositiveStake
  <2>3. ASSUME NEW stake, NEW outcome, NEW profit, Predicted(i, "alert", stake, outcome, profit)
        PROVE  RunInv'
    <3>. DEFINE entry == [of |-> i, decision |-> "alert", stake |-> stake,
                          outcome |-> outcome, profit |-> profit]
    <3>1. predictions' = Append(predictions, entry) /\ entry.of = i
      BY <2>3 DEF Predicted
    <3>. HIDE DEF entry
    <3>. QED
      BY <2>1, <2>2, <3>1, OneMore
  <2>. QED
    BY <1>4, <2>3 DEF Place, PlaceAndSettle
<1>. QED
  BY <1>2, <1>3, <1>4 DEF EngineNext, Consider

\* No run places a stake that follows the value without an edge, whatever
\* margins its strategy allows.
THEOREM EdgeBeforeStake == EngineSpec => []StakesNeedAnEdge
<1>1. RunInv => StakesNeedAnEdge
  BY DEF RunInv
<1>2. EngineSpec => []MoneyInv
  BY MoneyInit, MoneyStep, PTL DEF EngineSpec
<1>. QED
  BY <1>1, <1>2, RunInit, RunStep, PTL DEF EngineSpec

(***************************************************************************)
(* MetricsExplainBankroll.  The metrics are a fold over the predictions,   *)
(* of which the engine adds one at a time: a book of them all is a book of *)
(* those before, and one entry.                                            *)
(***************************************************************************)

IsBook(f) ==
    f = [n \in 0 .. Len(predictions) |->
            IF n = 0 THEN EmptyBook
            ELSE IF n \in Settled THEN Booked(f[n - 1], predictions[n]) ELSE f[n - 1]]

\* The peak stands between the drawdown and the profit; the longest streak is
\* one that was.
Explains(book) ==
    /\ book.staked \in Nat /\ book.profit \in Int /\ book.peak \in Nat
    /\ book.drawdown \in Nat /\ book.streak \in Nat /\ book.longest \in Nat
    /\ bankroll = strategy.initial + book.profit
    /\ book.peak >= book.profit
    /\ book.drawdown >= book.peak - book.profit
    /\ book.drawdown <= book.staked
    /\ book.streak <= book.longest
    /\ book.longest <= Cardinality(Ended("loss"))

BookInv ==
    /\ strategy \in Strategy
    /\ \E f : IsBook(f)
    /\ \A f : IsBook(f) => Explains(f[Len(predictions)])

LEMMA MetricsAreOfABook ==
    ASSUME \E f : IsBook(f)
    PROVE  \E f : IsBook(f) /\ Metrics = f[Len(predictions)]
<1>. DEFINE f == CHOOSE f : IsBook(f)
<1>1. IsBook(f)
  OBVIOUS
<1>2. Metrics = f[Len(predictions)]
  BY DEF Metrics, IsBook
<1>. QED
  BY <1>1, <1>2

IsPredicted(entry) ==
    \E Entry : predictions \in Seq(Entry) /\ predictions' = Append(predictions, entry)

\* One prediction more adds its own index to the sets it belongs to.
LEMMA SetsGrow ==
    ASSUME NEW entry, IsPredicted(entry)
    PROVE  /\ Len(predictions) \in Nat /\ Len(predictions') = Len(predictions) + 1
           /\ predictions'[Len(predictions) + 1] = entry
           /\ \A n \in 1 .. Len(predictions) : predictions'[n] = predictions[n]
           /\ Settled \subseteq 1 .. Len(predictions)
           /\ Settled' = Settled \cup
                 IF entry.decision = "alert" /\ entry.outcome # "none"
                 THEN {Len(predictions) + 1} ELSE {}
           /\ Ended("loss") \subseteq 1 .. Len(predictions)
           /\ Ended("loss")' = Ended("loss") \cup
                 IF entry.decision = "alert" /\ entry.outcome = "loss"
                 THEN {Len(predictions) + 1} ELSE {}
<1>1. PICK Entry : predictions \in Seq(Entry) /\ predictions' = Append(predictions, entry)
  BY DEF IsPredicted
<1>2. predictions \in Seq(Entry \cup {entry})
  BY <1>1
<1>3. /\ Len(predictions) \in Nat
      /\ Len(predictions') = Len(predictions) + 1
      /\ predictions'[Len(predictions) + 1] = entry
      /\ \A n \in 1 .. Len(predictions) : predictions'[n] = predictions[n]
  BY <1>1, <1>2
<1>. DEFINE l == Len(predictions)
<1>4. Settled \subseteq 1 .. l /\ Ended("loss") \subseteq 1 .. l
  BY DEF Settled, Ended, Bets
<1>5. Settled = {n \in 1 .. l : predictions[n].decision = "alert" /\ predictions[n].outcome # "none"}
  BY DEF Settled, Bets
<1>6. Settled' = {n \in 1 .. l + 1 : predictions'[n].decision = "alert" /\ predictions'[n].outcome # "none"}
  BY <1>3 DEF Settled, Bets
<1>7. Ended("loss") = {n \in 1 .. l : predictions[n].decision = "alert" /\ predictions[n].outcome = "loss"}
  BY DEF Ended, Bets
<1>8. Ended("loss")'
         = {n \in 1 .. l + 1 : predictions'[n].decision = "alert" /\ predictions'[n].outcome = "loss"}
  BY <1>3 DEF Ended, Bets
<1>9. 1 .. l + 1 = (1 .. l) \cup {l + 1} /\ l + 1 \notin 1 .. l
  BY <1>3
<1>. HIDE DEF l
<1>10. Settled' = Settled \cup
          IF entry.decision = "alert" /\ entry.outcome # "none" THEN {l + 1} ELSE {}
  BY <1>3, <1>5, <1>6, <1>9 DEF l
<1>11. Ended("loss")' = Ended("loss") \cup
          IF entry.decision = "alert" /\ entry.outcome = "loss" THEN {l + 1} ELSE {}
  BY <1>3, <1>7, <1>8, <1>9 DEF l
<1>. QED
  BY <1>3, <1>4, <1>10, <1>11 DEF l

\* What a prediction adds to the number of losses.
LEMMA LossesCounted ==
    ASSUME NEW entry, IsPredicted(entry)
    PROVE  /\ Cardinality(Ended("loss")) \in Nat
           /\ Cardinality(Ended("loss")') =
                 IF entry.decision = "alert" /\ entry.outcome = "loss"
                 THEN Cardinality(Ended("loss")) + 1 ELSE Cardinality(Ended("loss"))
<1>. DEFINE l == Len(predictions)
            e == Ended("loss")
<1>1. l \in Nat /\ e \subseteq 1 .. l
  BY SetsGrow
<1>2. IsFiniteSet(1 .. l)
  BY <1>1, FS_Interval
<1>. HIDE DEF l, e
<1>3. IsFiniteSet(e) /\ Cardinality(e) \in Nat
  BY <1>1, <1>2, FS_Subset, FS_CardinalityType
<1>4. l + 1 \notin e
  BY <1>1
<1>5. Cardinality(e \cup {l + 1}) = Cardinality(e) + 1
  BY <1>3, <1>4, FS_AddElement
<1>6. Ended("loss")' = IF entry.decision = "alert" /\ entry.outcome = "loss"
                       THEN e \cup {l + 1} ELSE e
  BY SetsGrow DEF l, e
<1>. QED
  BY <1>3, <1>5, <1>6 DEF e

\* A book of the predictions with one more is one of those before, and an
\* entry.
LEMMA BookBefore ==
    ASSUME NEW entry, IsPredicted(entry), NEW f, IsBook(f)'
    PROVE  \E g : /\ IsBook(g)
                  /\ f[Len(predictions')] =
                        IF entry.decision = "alert" /\ entry.outcome # "none"
                        THEN Booked(g[Len(predictions)], entry) ELSE g[Len(predictions)]
<1>. DEFINE l == Len(predictions)
            g == [n \in 0 .. l |-> f[n]]
<1>1. /\ l \in Nat /\ Len(predictions') = l + 1 /\ predictions'[l + 1] = entry
      /\ \A n \in 1 .. l : predictions'[n] = predictions[n]
      /\ Settled \subseteq 1 .. l
      /\ \A n \in 1 .. l : n \in Settled' <=> n \in Settled
      /\ l + 1 \in Settled' <=> entry.decision = "alert" /\ entry.outcome # "none"
  BY SetsGrow
<1>2. f = [n \in 0 .. l + 1 |->
              IF n = 0 THEN EmptyBook
              ELSE IF n \in Settled' THEN Booked(f[n - 1], predictions'[n]) ELSE f[n - 1]]
  BY <1>1 DEF IsBook
<1>. HIDE DEF l
<1>3. ASSUME NEW n \in 0 .. l
      PROVE  f[n] = IF n = 0 THEN EmptyBook
                    ELSE IF n \in Settled THEN Booked(g[n - 1], predictions[n]) ELSE g[n - 1]
  <2>1. n \in 0 .. l + 1 /\ (n # 0 => n \in 1 .. l /\ n - 1 \in 0 .. l)
    BY <1>1
  <2>2. f[n] = IF n = 0 THEN EmptyBook
               ELSE IF n \in Settled' THEN Booked(f[n - 1], predictions'[n]) ELSE f[n - 1]
    BY <1>2, <2>1
  <2>3. n # 0 => g[n - 1] = f[n - 1]
    BY <2>1
  <2>. HIDE DEF g
  <2>. QED
    BY <1>1, <2>1, <2>2, <2>3
<1>4. g = [n \in 0 .. l |->
              IF n = 0 THEN EmptyBook
              ELSE IF n \in Settled THEN Booked(g[n - 1], predictions[n]) ELSE g[n - 1]]
  BY <1>3
<1>5. IsBook(g)
  BY <1>4 DEF IsBook, l
<1>6. f[l + 1] = IF l + 1 \in Settled' THEN Booked(f[l], entry) ELSE f[l]
  BY <1>1, <1>2
<1>7. g[l] = f[l]
  BY <1>1
<1>. HIDE DEF g
<1>8. f[Len(predictions')] =
         IF entry.decision = "alert" /\ entry.outcome # "none"
         THEN Booked(g[l], entry) ELSE g[l]
  BY <1>1, <1>6, <1>7
<1>. QED
  BY <1>5, <1>8 DEF l

LEMMA BookAfter ==
    ASSUME NEW entry, IsPredicted(entry), NEW g, IsBook(g)
    PROVE  \E f : IsBook(f)'
<1>. DEFINE l == Len(predictions)
            last == IF l + 1 \in Settled' THEN Booked(g[l], entry) ELSE g[l]
            f == [n \in 0 .. l + 1 |-> IF n = l + 1 THEN last ELSE g[n]]
<1>1. /\ l \in Nat /\ Len(predictions') = l + 1 /\ predictions'[l + 1] = entry
      /\ \A n \in 1 .. l : predictions'[n] = predictions[n]
      /\ \A n \in 1 .. l : n \in Settled' <=> n \in Settled
  BY SetsGrow
<1>2. g = [n \in 0 .. l |->
              IF n = 0 THEN EmptyBook
              ELSE IF n \in Settled THEN Booked(g[n - 1], predictions[n]) ELSE g[n - 1]]
  BY DEF IsBook
<1>. HIDE DEF l, last
<1>3. ASSUME NEW n \in 0 .. l + 1
      PROVE  f[n] = IF n = 0 THEN EmptyBook
                    ELSE IF n \in Settled' THEN Booked(f[n - 1], predictions'[n]) ELSE f[n - 1]
  <2>1. CASE n = l + 1
    <3>1. n # 0 /\ n - 1 = l /\ l \in 0 .. l + 1 /\ l # l + 1
      BY <1>1, <2>1
    <3>2. f[n] = last /\ f[n - 1] = g[l]
      BY <2>1, <3>1
    <3>. HIDE DEF f
    <3>. QED
      BY <1>1, <2>1, <3>1, <3>2 DEF last
  <2>2. CASE n # l + 1
    <3>1. n \in 0 .. l /\ (n # 0 => n \in 1 .. l /\ n - 1 \in 0 .. l /\ n - 1 \in 0 .. l + 1 /\ n - 1 # l + 1)
      BY <1>1, <2>2
    <3>2. g[n] = IF n = 0 THEN EmptyBook
                 ELSE IF n \in Settled THEN Booked(g[n - 1], predictions[n]) ELSE g[n - 1]
      BY <1>2, <3>1
    <3>3. f[n] = g[n] /\ (n # 0 => f[n - 1] = g[n - 1])
      BY <2>2, <3>1
    <3>. HIDE DEF f
    <3>. QED
      BY <1>1, <3>1, <3>2, <3>3
  <2>. QED
    BY <2>1, <2>2
<1>4. f = [n \in 0 .. l + 1 |->
              IF n = 0 THEN EmptyBook
              ELSE IF n \in Settled' THEN Booked(f[n - 1], predictions'[n]) ELSE f[n - 1]]
  BY <1>3
<1>. HIDE DEF f
<1>5. PICK h : h = f
  OBVIOUS
<1>6. h = [n \in 0 .. Len(predictions') |->
              IF n = 0 THEN EmptyBook
              ELSE IF n \in Settled' THEN Booked(h[n - 1], predictions'[n]) ELSE h[n - 1]]
  BY <1>1, <1>4, <1>5
<1>7. IsBook(h)'
  BY <1>6 DEF IsBook
<1>. QED
  BY <1>7

\* What is placed and settled, and what is not.
IsPriced(entry) ==
    IF entry.decision = "alert" /\ entry.outcome # "none"
    THEN /\ entry.stake \in Nat /\ entry.profit \in Int /\ entry.profit >= -entry.stake
         /\ bankroll' = bankroll + entry.profit
    ELSE bankroll' = bankroll

LEMMA EntryExplains ==
    ASSUME NEW entry, IsPredicted(entry), IsPriced(entry), strategy \in Strategy,
           UNCHANGED strategy, bankroll \in Int, NEW book, Explains(book)
    PROVE  Explains(IF entry.decision = "alert" /\ entry.outcome # "none"
                    THEN Booked(book, entry) ELSE book)'
<1>. DEFINE c == Cardinality(Ended("loss"))
<1>1. /\ c \in Nat
      /\ c' = IF entry.decision = "alert" /\ entry.outcome = "loss" THEN c + 1 ELSE c
  BY LossesCounted
<1>2. strategy.initial \in Int
  BY StrategyAssumption
<1>3. /\ book.staked \in Nat /\ book.profit \in Int /\ book.peak \in Nat
      /\ book.drawdown \in Nat /\ book.streak \in Nat /\ book.longest \in Nat
      /\ bankroll = strategy.initial + book.profit
      /\ book.peak >= book.profit
      /\ book.drawdown >= book.peak - book.profit
      /\ book.drawdown <= book.staked
      /\ book.streak <= book.longest
      /\ book.longest <= c
  BY DEF Explains
<1>. HIDE DEF c
<1>4. CASE ~(entry.decision = "alert" /\ entry.outcome # "none")
  <2>1. bankroll' = bankroll /\ c' = c
    BY <1>1, <1>4 DEF IsPriced
  <2>2. Explains(book)'
    BY <1>1, <1>2, <1>3, <2>1 DEF Explains, c
  <2>. QED
    BY <1>4, <2>2
<1>5. CASE entry.decision = "alert" /\ entry.outcome # "none"
  <2>1. /\ entry.stake \in Nat /\ entry.profit \in Int /\ entry.profit >= -entry.stake
        /\ bankroll' = bankroll + entry.profit
    BY <1>5 DEF IsPriced
  <2>. DEFINE s == StreakAfter(book, entry)
              profit == book.profit + entry.profit
              peak == High(book.peak, profit)
              after == Booked(book, entry)
  <2>2. /\ s \in Nat /\ High(book.longest, s) \in Nat
        /\ s <= High(book.longest, s) /\ High(book.longest, s) <= c'
    BY <1>1, <1>3, <1>5 DEF StreakAfter, High
  <2>3. /\ after.staked = book.staked + entry.stake /\ after.profit = profit
        /\ after.peak = peak /\ after.drawdown = High(book.drawdown, peak - profit)
        /\ after.streak = s /\ after.longest = High(book.longest, s)
    BY DEF Booked
  <2>4. profit \in Int /\ peak \in Nat /\ peak >= profit /\ peak - profit \in Nat
    BY <1>3, <2>1 DEF High
  <2>5. peak - profit <= book.staked + entry.stake
    BY <1>3, <2>1 DEF High
  <2>6. /\ High(book.drawdown, peak - profit) \in Nat
        /\ High(book.drawdown, peak - profit) >= peak - profit
        /\ High(book.drawdown, peak - profit) <= book.staked + entry.stake
    BY <1>3, <2>1, <2>4, <2>5 DEF High
  <2>7. bankroll' = strategy'.initial + profit
    BY <1>2, <1>3, <2>1
  <2>. HIDE DEF after, s, profit, peak
  <2>8. PICK h : h = after
    OBVIOUS
  <2>9. Explains(h)'
    BY <1>3, <2>1, <2>2, <2>3, <2>4, <2>6, <2>7, <2>8 DEF Explains, c
  <2>. QED
    BY <1>5, <2>8, <2>9 DEF after
<1>. QED
  BY <1>4, <1>5

LEMMA BookInit == EngineInit => BookInv
<1>. SUFFICES ASSUME EngineInit PROVE BookInv
  OBVIOUS
<1>1. /\ predictions = <<>> /\ strategy \in Strategy /\ bankroll = strategy.initial
      /\ strategy.initial \in Int
  BY StrategyAssumption DEF EngineInit
<1>2. Len(predictions) = 0 /\ Settled = {} /\ Ended("loss") = {}
  BY <1>1 DEF Settled, Ended, Bets
<1>3. PICK h : h = [n \in 0 .. 0 |-> EmptyBook]
  OBVIOUS
<1>4. IsBook(h)
  BY <1>2, <1>3 DEF IsBook
<1>5. ASSUME NEW f, IsBook(f)
      PROVE  Explains(f[Len(predictions)])
  <2>1. f[0] = EmptyBook
    BY <1>2, <1>5 DEF IsBook
  <2>2. Cardinality(Ended("loss")) = 0
    BY <1>2, FS_EmptySet
  <2>3. Explains(EmptyBook)
    BY <1>1, <2>2 DEF EmptyBook, Explains
  <2>. QED
    BY <1>2, <2>1, <2>3
<1>. QED
  BY <1>1, <1>4, <1>5 DEF BookInv

LEMMA BookGrows ==
    ASSUME BookInv, bankroll \in Int, UNCHANGED strategy,
           NEW entry, IsPredicted(entry), IsPriced(entry)
    PROVE  BookInv'
<1>1. PICK g : IsBook(g)
  BY DEF BookInv
<1>2. \E f : IsBook(f)'
  BY <1>1, BookAfter
<1>3. ASSUME NEW f, IsBook(f)'
      PROVE  Explains(f[Len(predictions)])'
  <2>1. PICK b : /\ IsBook(b)
                 /\ f[Len(predictions')] =
                       IF entry.decision = "alert" /\ entry.outcome # "none"
                       THEN Booked(b[Len(predictions)], entry) ELSE b[Len(predictions)]
    BY <1>3, BookBefore
  <2>2. PICK book : book = b[Len(predictions)]
    OBVIOUS
  <2>3. Explains(book)
    BY <2>1, <2>2 DEF BookInv
  <2>4. PICK after : after = IF entry.decision = "alert" /\ entry.outcome # "none"
                             THEN Booked(book, entry) ELSE book
    OBVIOUS
  <2>5. Explains(after)'
    BY <2>3, <2>4, EntryExplains DEF BookInv
  <2>6. f[Len(predictions')] = after
    BY <2>1, <2>2, <2>4
  <2>. QED
    BY <2>5, <2>6
<1>. QED
  BY <1>2, <1>3 DEF BookInv

LEMMA BookStep ==
    ASSUME MoneyInv, RunInv, BookInv, [EngineNext]_allVars
    PROVE  BookInv'
<1>1. bankroll \in Int
  BY DEF MoneyInv
<1>2. PICK Entry : predictions \in Seq(Entry)
  BY DEF RunInv
<1>3. ASSUME NEW i, NEW decision, NEW stake, NEW outcome, NEW profit,
             Predicted(i, decision, stake, outcome, profit), UNCHANGED strategy,
             IF decision = "alert" /\ outcome # "none"
             THEN stake \in Nat /\ profit \in Int /\ profit >= -stake /\ bankroll' = bankroll + profit
             ELSE bankroll' = bankroll
      PROVE  BookInv'
  <2>. DEFINE entry == [of |-> i, decision |-> decision, stake |-> stake,
                        outcome |-> outcome, profit |-> profit]
  <2>1. predictions' = Append(predictions, entry)
    BY <1>3 DEF Predicted
  <2>2. IsPriced(entry)
    BY <1>3 DEF IsPriced
  <2>. HIDE DEF entry
  <2>3. IsPredicted(entry)
    BY <1>2, <2>1 DEF IsPredicted
  <2>. QED
    BY <1>1, <1>3, <2>2, <2>3, BookGrows
<1>4. CASE UNCHANGED <<strategy, bankroll, predictions>>
  <2>1. Settled' = Settled /\ Ended("loss")' = Ended("loss")
    BY <1>4 DEF Settled, Ended, Bets
  <2>. QED
    BY <1>4, <2>1 DEF BookInv, IsBook, Explains
<1>5. CASE UNCHANGED allVars \/ Play \/ \E i \in Opportunity : Fail(i)
  BY <1>4, <1>5 DEF allVars, engineVars, Play, Fail
<1>6. ASSUME NEW i \in Opportunity, Skip(i)
      PROVE  BookInv'
  <2>1. Predicted(i, "skip", 0, "none", 0) /\ UNCHANGED <<strategy, bankroll>>
    BY <1>6 DEF Skip
  <2>. QED
    BY <1>3, <2>1
<1>7. ASSUME NEW i \in Opportunity, Place(i)
      PROVE  BookInv'
  <2>1. Predicted(i, "alert", Stake(i), "none", 0) /\ UNCHANGED <<strategy, bankroll>>
    BY <1>7 DEF Place
  <2>. QED
    BY <1>3, <2>1
<1>8. ASSUME NEW i \in Opportunity, PlaceAndSettle(i)
      PROVE  BookInv'
  <2>. DEFINE verdict == SettleMarket(i.bet, score)
              profit == Profit(i, Stake(i), verdict)
  <2>1. /\ Predicted(i, "alert", Stake(i), verdict, profit)
        /\ bankroll' = bankroll + profit /\ UNCHANGED strategy
        /\ Wanted(i) /\ Stake(i) > 0
    BY <1>8 DEF PlaceAndSettle, IsBet
  <2>2. Stake(i) \in Nat
    BY <2>1, StakeType
  <2>3. profit \in Int /\ profit >= -Stake(i)
    BY <2>2, ProfitBound
  <2>4. verdict = "none" => profit = 0
    BY DEF Profit
  <2>. HIDE DEF verdict, profit
  <2>5. verdict = "none" => bankroll' = bankroll
    BY <1>1, <2>1, <2>4
  <2>. QED
    BY <1>3, <2>1, <2>2, <2>3, <2>5
<1>. QED
  BY <1>5, <1>6, <1>7, <1>8 DEF EngineNext, Consider

\* The metrics of a run explain its bankroll, for any strategy, opportunities
\* and score: whatever was skipped or left open between them, the settled bets
\* alone make up the profit, their worst fall is what the drawdown says, and
\* no streak of losses is longer than the losses.
THEOREM MetricsHold == EngineSpec => []MetricsExplainBankroll
<1>1. BookInv => MetricsExplainBankroll
  <2>. SUFFICES ASSUME BookInv PROVE MetricsExplainBankroll
    OBVIOUS
  <2>1. PICK f : IsBook(f) /\ Metrics = f[Len(predictions)]
    BY MetricsAreOfABook DEF BookInv
  <2>2. Explains(Metrics)
    BY <2>1 DEF BookInv
  <2>3. strategy.initial \in Int
    BY StrategyAssumption DEF BookInv
  <2>. QED
    BY <2>2, <2>3 DEF Explains, MetricsExplainBankroll
<1>2. EngineSpec => []MoneyInv
  BY MoneyInit, MoneyStep, PTL DEF EngineSpec
<1>3. EngineSpec => []RunInv
  BY <1>2, RunInit, RunStep, PTL DEF EngineSpec
<1>4. EngineSpec => []BookInv
  BY <1>2, <1>3, BookInit, BookStep, PTL DEF EngineSpec
<1>. QED
  BY <1>1, <1>4, PTL
=============================================================================
