---------------------------- MODULE BacktestEngine ----------------------------
(***************************************************************************)
(* BacktestEngine.run: the opportunities recorded on a match are replayed  *)
(* against its score, in the order of their decisions, with the filters    *)
(* and the stakes of a strategy, and a bankroll goes through them; then    *)
(* calculate_backtest_metrics reads the predictions.                       *)
(*                                                                         *)
(* Odds, probabilities and multipliers are counted in tenths, money in     *)
(* cents, rounded down (the code's decimals keep 28 digits).  Sums over    *)
(* the likeness of floats (Brier score, log loss) are left out.            *)
(***************************************************************************)
EXTENDS SettledMatch, Sequences, FiniteSets

CONSTANTS
    Opportunity,     \* what may have been recorded on the match (bound)
    Strategy,        \* the configured strategies
    MaxRun           \* opportunities of one run (bound)

VARIABLES
    strategy,        \* of this run: never changes
    bankroll,
    predictions,     \* of the run so far
    failed           \* a ValueError ended the run

engineVars == <<strategy, bankroll, predictions, failed>>
allVars    == <<score, engineVars>>

Low(a, b)  == IF a <= b THEN a ELSE b
High(a, b) == IF a >= b THEN a ELSE b

\* The fraction of the Kelly stake that a mode places, in hundredths.
KellyHundredths == [kelly_0_1 |-> 10, kelly_0_25 |-> 25]
KellyMode       == DOMAIN KellyHundredths
StakeMode       == KellyMode \cup {"fixed", "observed_ml"}

\* StrategySettings: what a configured strategy may say.  One without a
\* max_stake has a max out of reach.
ValidStrategy(s) ==
    /\ s.mode \in StakeMode
    /\ s.safety > 0 /\ s.base > 0 /\ s.initial > 0 /\ s.max > 0
    /\ s.minOdds > 10 /\ s.minOdds <= s.maxOdds
    /\ s.minProbability \in 0 .. 10 /\ s.maxProbability \in s.minProbability .. 10
    /\ s.minValue >= 0

ASSUME StrategyAssumption ==
    \A s \in Strategy :
        /\ ValidStrategy(s)
        /\ {s.safety, s.base, s.initial, s.max, s.minOdds, s.maxOdds, s.minValue} \subseteq Int

ASSUME OpportunityAssumption ==
    \A i \in Opportunity : i.odds \in Nat \ {0} /\ i.probability \in 1 .. 10

ASSUME RunAssumption == MaxRun \in Nat

-----------------------------------------------------------------------------
(* The value of an opportunity, and its filters.                           *)

\* calculate_value: the value ratio odds * probability, as a percentage
\* over one.
ValuePercent(i) == i.odds * i.probability - 100

\* minimum_odds = safety / probability
BelowMinimumOdds(i) == i.odds * i.probability < 10 * strategy.safety

IsAllowed(chosen, x) == chosen = {} \/ x \in chosen

Passes(i) ==
    /\ i.samples >= strategy.minSamples /\ i.h2h >= strategy.minH2H
    /\ i.odds \in strategy.minOdds .. strategy.maxOdds
    /\ i.probability \in strategy.minProbability .. strategy.maxProbability
    /\ ValuePercent(i) >= strategy.minValue
    /\ ValuePercent(i) <= strategy.suspiciousEdge
    /\ IsAllowed(strategy.markets, i.bet.market)
    /\ IsAllowed(strategy.tournaments, i.tournament)
    /\ i.confidence >= strategy.minConfidence
    /\ i.decidedAt - i.receivedAt <= strategy.staleAfter

\* _validate_timestamps
ValidTimestamps(i) ==
    i.cutoffAt <= i.decidedAt /\ i.receivedAt <= i.decidedAt /\ i.decidedAt <= i.startsAt

-----------------------------------------------------------------------------
(* Stakes.                                                                 *)

\* observed_ml_bet_multiplier, with its slope of 10 and its cap of 3.
Multiplier(i) == Low(30, High(0, ValuePercent(i)))

ObservedStake(i) == (strategy.base * Multiplier(i)) \div 10

\* fractional_kelly_stake: the fraction of the bankroll is
\* (b * p - (1 - p)) / b with b = odds - 1, the edge over b.
EdgeByTheOdds(i) == High(0, ValuePercent(i) + 10 * i.probability)
Edge(i) == High(0, ValuePercent(i))
FractionalKellyAll(i) == (bankroll * Edge(i)) \div (10 * (i.odds - 10))
FractionalKelly(i) ==
    (bankroll * KellyHundredths[strategy.mode] * Edge(i)) \div (1000 * (i.odds - 10))
KellyStake(i) == Low(FractionalKelly(i), strategy.max)

Stake(i) ==
    CASE strategy.mode = "fixed"       -> strategy.base
      [] strategy.mode = "observed_ml" -> ObservedStake(i)
      [] OTHER                         -> KellyStake(i)

\* No Kelly stake is defined on a bankroll that is lost.
StakeRaises == strategy.mode \in KellyMode /\ bankroll <= 0

\* settle_bet
Profit(i, stake, verdict) ==
    CASE verdict = "win"  -> (stake * i.odds) \div 10 - stake
      [] verdict = "loss" -> -stake
      [] OTHER            -> 0

-----------------------------------------------------------------------------
EngineInit ==
    /\ Init
    /\ strategy \in Strategy
    /\ bankroll = strategy.initial
    /\ predictions = <<>>
    /\ failed = FALSE

\* The match is played before the backtest looks at it.
Play == predictions = <<>> /\ ~failed /\ Next /\ UNCHANGED engineVars

\* The next one by the time of its decision.
IsNextOpportunity(i) ==
    /\ ~failed /\ Len(predictions) < MaxRun
    /\ \A n \in 1 .. Len(predictions) : predictions[n].of.decidedAt <= i.decidedAt

Wanted(i) == ValidTimestamps(i) /\ Passes(i) /\ ~BelowMinimumOdds(i)

Predicted(i, decision, stake, outcome, profit) ==
    predictions' = Append(predictions, [of |-> i, decision |-> decision, stake |-> stake,
                                        outcome |-> outcome, profit |-> profit])

\* A record from the future, a stake on a lost bankroll and a line that
\* cannot be settled raise a ValueError.
IsBet(i)  == Wanted(i) /\ ~StakeRaises /\ Stake(i) > 0
Raises(i) ==
    \/ ~ValidTimestamps(i)
    \/ Wanted(i) /\ StakeRaises
    \/ IsBet(i) /\ i.scored /\ SettleMarket(i.bet, score) = "ValueError"

\* A filter speaks against it, or there is nothing to stake.
Skip(i) ==
    /\ IsNextOpportunity(i) /\ ~Raises(i) /\ ~IsBet(i)
    /\ Predicted(i, "skip", 0, "none", 0)
    /\ UNCHANGED <<score, strategy, bankroll, failed>>

\* A bet on a match whose score is not known yet stays open.
Place(i) ==
    /\ IsNextOpportunity(i) /\ ~Raises(i) /\ IsBet(i) /\ ~i.scored
    /\ Predicted(i, "alert", Stake(i), "none", 0)
    /\ UNCHANGED <<score, strategy, bankroll, failed>>

PlaceAndSettle(i) ==
    /\ IsNextOpportunity(i) /\ ~Raises(i) /\ IsBet(i) /\ i.scored
    /\ LET verdict == SettleMarket(i.bet, score)
           profit  == Profit(i, Stake(i), verdict)
       IN  /\ Predicted(i, "alert", Stake(i), verdict, profit)
           /\ bankroll' = bankroll + profit
    /\ UNCHANGED <<score, strategy, failed>>

\* The exception throws the run away.
Fail(i) ==
    /\ IsNextOpportunity(i) /\ Raises(i)
    /\ failed' = TRUE
    /\ UNCHANGED <<score, strategy, bankroll, predictions>>

Consider(i) == Skip(i) \/ Place(i) \/ PlaceAndSettle(i) \/ Fail(i)

EngineNext == Play \/ \E i \in Opportunity : Consider(i)

EngineSpec == EngineInit /\ [][EngineNext]_allVars

-----------------------------------------------------------------------------
(* calculate_backtest_metrics                                              *)

Bets           == {n \in 1 .. Len(predictions) : predictions[n].decision = "alert"}
Settled        == {n \in Bets : predictions[n].outcome # "none"}
Ended(outcome) == {n \in Bets : predictions[n].outcome = outcome}

\* The loop over the settled bets, in the order they were decided.
EmptyBook == [staked |-> 0, profit |-> 0, peak |-> 0, drawdown |-> 0, streak |-> 0, longest |-> 0]

StreakAfter(book, bet) ==
    CASE bet.outcome = "loss" -> book.streak + 1
      [] bet.outcome = "win"  -> 0
      [] OTHER                -> book.streak

BookedPerBet(book, bet) ==
    [staked   |-> book.staked + bet.stake,
     profit   |-> book.profit + bet.profit,
     peak     |-> High(book.peak, bet.profit),
     drawdown |-> High(book.drawdown, -bet.profit),
     streak   |-> StreakAfter(book, bet),
     longest  |-> High(book.longest, StreakAfter(book, bet))]
Booked(book, bet) ==
    LET profit == book.profit + bet.profit
        peak   == High(book.peak, profit)
    IN  [staked   |-> book.staked + bet.stake,
         profit   |-> profit,
         peak     |-> peak,
         drawdown |-> High(book.drawdown, peak - profit),
         streak   |-> StreakAfter(book, bet),
         longest  |-> High(book.longest, StreakAfter(book, bet))]

Metrics ==
    LET BookAfter[n \in 0 .. Len(predictions)] ==
            IF n = 0 THEN EmptyBook
            ELSE IF n \in Settled THEN Booked(BookAfter[n - 1], predictions[n])
            ELSE BookAfter[n - 1]
    IN  BookAfter[Len(predictions)]

-----------------------------------------------------------------------------
\* The bets of a Kelly strategy never lose its bankroll, whatever the model
\* believes and however the match ends, and so none of them is refused a
\* stake (fractional_kelly_stake raises on a bankroll of zero or less, which
\* would throw the whole run away).
KellyNeverRuins == strategy.mode \in KellyMode => bankroll > 0

\* A stake that follows the value, by either formula, is placed on value
\* only: the Kelly fraction and the observed multiplier are positive on the
\* same side of the fair odds, whatever margins the strategy allows.
StakesNeedAnEdge ==
    strategy.mode # "fixed" =>
        \A n \in Bets : predictions[n].of.odds * predictions[n].of.probability > 100

\* What the metrics say of the bets explains the bankroll the engine ended
\* with: the profit is its growth, the drawdown covers its worst loss and is
\* no more than was staked, and a losing streak is made of losses.
MetricsExplainBankroll ==
    /\ bankroll = strategy.initial + Metrics.profit
    /\ Metrics.drawdown >= strategy.initial - bankroll
    /\ Metrics.drawdown \in 0 .. Metrics.staked
    /\ Metrics.longest <= Cardinality(Ended("loss"))
=============================================================================
