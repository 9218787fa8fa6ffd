--------------------------- MODULE MCBacktestEngine ---------------------------
(***************************************************************************)
(* BacktestEngine with a strategy of each stake mode, on a match of up to  *)
(* 2:2 and the lines around it.                                            *)
(***************************************************************************)
EXTENDS BacktestEngine

\* Quarter, half and whole lines from -9/4 to 17/4 goals.
LinesInReach == -9 .. 17

StrategyOf(mode) ==
    [mode |-> mode, safety |-> 9, base |-> 100, initial |-> 10000, max |-> 2000,
     minSamples |-> 1, minH2H |-> 0, minOdds |-> 11, maxOdds |-> 100,
     minProbability |-> 0, maxProbability |-> 10, minValue |-> 0, suspiciousEdge |-> 80,
     markets |-> {}, tournaments |-> {}, minConfidence |-> 9, staleAfter |-> 2]

\* Fixed stakes on totals only; the others on all markets.  One Kelly
\* strategy has a cap, the other one none.
OneOfEachMode ==
    {[StrategyOf("fixed") EXCEPT !.markets = {"total"}], StrategyOf("observed_ml"),
     StrategyOf("kelly_0_1"), [StrategyOf("kelly_0_25") EXCEPT !.max = 1000000]}

HomeWin ==
    [bet |-> MainBet("P1"), odds |-> 20, probability |-> 6, samples |-> 9, h2h |-> 0,
     tournament |-> "cup", confidence |-> 10, scored |-> TRUE,
     receivedAt |-> 1, cutoffAt |-> 1, decidedAt |-> 1, startsAt |-> 3]

\* A plain home win, a certainty, the other side at fair odds, an open bet
\* on a draw, both sides of a total, the later one of them on a whole line; a
\* quarter handicap, a stale quote, and a quote from the future.
Recorded ==
    {HomeWin,
     [HomeWin EXCEPT !.probability = 10, !.odds = 15, !.decidedAt = 2],
     [HomeWin EXCEPT !.bet = MainBet("P2"), !.probability = 5],
     [HomeWin EXCEPT !.bet = MainBet("X"), !.odds = 35, !.probability = 4, !.scored = FALSE],
     [HomeWin EXCEPT !.bet = TotalBet("over", 14), !.odds = 25, !.probability = 5],
     [HomeWin EXCEPT !.bet = TotalBet("under", 8), !.odds = 30, !.decidedAt = 2],
     [HomeWin EXCEPT !.bet = HandicapBet("F1", -3)],
     [HomeWin EXCEPT !.decidedAt = 3, !.receivedAt = 0],
     [HomeWin EXCEPT !.decidedAt = 2, !.receivedAt = 3]}

=============================================================================
