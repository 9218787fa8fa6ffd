--------------------------- MODULE SettledMatch ---------------------------
(***************************************************************************)
(* The settlement rules read along a match: every score a match can reach, *)
(* one goal at a time, and every bet on a set of lines settled against it. *)
(***************************************************************************)
EXTENDS SettlementRules

CONSTANTS
    Line,        \* the lines bookmakers quote, in quarter goals
    MaxGoals     \* of one side (bound)

ASSUME LineAssumption == Line \subseteq Int
ASSUME GoalAssumption == MaxGoals \in Nat

VARIABLE score

Init == score = [s1 |-> 0, s2 |-> 0]

Goal1 == score.s1 < MaxGoals /\ score' = [score EXCEPT !.s1 = @ + 1]
Goal2 == score.s2 < MaxGoals /\ score' = [score EXCEPT !.s2 = @ + 1]

Next == Goal1 \/ Goal2

Spec == Init /\ [][Next]_score
-----------------------------------------------------------------------------
MainBet(selection)        == [market |-> "1x2", selection |-> selection, line |-> NoLine]
TotalBet(selection, line) == [market |-> "total", selection |-> selection, line |-> line]
HandicapBet(selection, line) ==
    [market |-> "handicap", selection |-> selection, line |-> line]

\* Every bet that can be quoted on these lines.
MainBets     == {MainBet(s) : s \in {"P1", "X", "P2"}}
TotalBets    == {TotalBet(s, l) : s \in {"over", "under"}, l \in Line}
HandicapBets == {HandicapBet(s, l) : s \in {"F1", "F2"}, l \in Line}
Quoted       == MainBets \cup TotalBets \cup HandicapBets

\* The outcome of who takes the other side of a bet.
Opposite(verdict) ==
    CASE verdict = "win" -> "loss" [] verdict = "loss" -> "win" [] OTHER -> verdict

\* The bet of the same meaning when the players are listed the other way.
Mirror(bet) ==
    [bet EXCEPT !.selection = CASE @ = "P1" -> "P2" [] @ = "P2" -> "P1"
                                [] @ = "F1" -> "F2" [] @ = "F2" -> "F1" [] OTHER -> @]

ValueOf(verdict) == CASE verdict = "loss" -> 0 [] verdict = "return" -> 1 [] verdict = "win" -> 2

\* A score of naturals, and a verdict for every bet.
TypeOK == score \in Score /\ \A b \in Quoted : SettleMarket(b, score) \in Verdict

\* The two sides of a line are settled against each other: over and under,
\* and a head start against the same deficit, win, lose or return together.
OppositeSidesCancel ==
    \A l \in Line :
        /\ SettleMarket(TotalBet("under", l), score)
              = Opposite(SettleMarket(TotalBet("over", l), score))
        /\ SettleMarket(HandicapBet("F2", -l), score)
              = Opposite(SettleMarket(HandicapBet("F1", l), score))

\* Exactly one main result wins, and a double chance wins when one of its
\* two results does.
OneMainResultWins ==
    LET Won(s) == SettleMarket(MainBet(s), score) = "win"
        WonLegacy(w) == SettleLegacy(LegacyText(w, NoLine), score) = "win"
    IN  /\ \E s \in {"P1", "X", "P2"} : \A q \in {"P1", "X", "P2"} : Won(q) <=> q = s
        /\ WonLegacy("1X") <=> Won("P1") \/ Won("X")
        /\ WonLegacy("X2") <=> Won("P2") \/ Won("X")
        /\ WonLegacy("12") <=> Won("P1") \/ Won("P2")

\* A bet settles alike whichever way round the players are listed, which is
\* what settling by an orientation frozen at the decision rests on.
OrientationDoesNotMatter ==
    \A b \in Quoted : SettleMarket(Mirror(b), Orient(score, TRUE)) = SettleMarket(b, score)

\* Rows of either age settle alike: a legacy text by itself, and a legacy
\* total beside its line column, give the verdict of the structured bet.  A
\* total that is written with a negative line is refused either way, as is
\* one whose line is not that of the column.
LegacyAgrees ==
    /\ \A s \in {"P1", "X", "P2"} :
          SettleLegacy(LegacyText(s, NoLine), score) = SettleMarket(MainBet(s), score)
    /\ \A s \in {"F1", "F2"}, l \in Line :
          SettleLegacy(LegacyText(s, l), score) = SettleMarket(HandicapBet(s, l), score)
    /\ \A l \in Line, column \in Line \cup {NoLine} :
          LET over == LegacyText("TB", l)   under == LegacyText("TM", l)
          IN  /\ SettleLegacy(over, score) =
                    IF l >= 0 THEN SettleMarket(TotalBet("over", l), score) ELSE "ValueError"
              /\ SettleLegacy(under, score) =
                    IF l >= 0 THEN SettleMarket(TotalBet("under", l), score) ELSE "ValueError"
              /\ SettleLegacyTotalColumn(over, column, score) =
                    IF column = l THEN SettleLegacy(over, score) ELSE "ValueError"
              /\ SettleLegacyTotalColumn(under, column, score) =
                    IF column = l THEN SettleLegacy(under, score) ELSE "ValueError"

\* The selections that the goal of this step is for.
ScoredFor == IF score'.s1 > score.s1 THEN {"P1", "F1", "over"} ELSE {"P2", "F2", "over"}

\* A goal never makes a bet on its scorer, or on more goals, worse: outcomes
\* are monotone in the score, with no gap at the line.
GoalsHelpTheirSide ==
    [][\A b \in Quoted :
          b.selection \in ScoredFor /\ SettleMarket(b, score) \in Outcome
          => ValueOf(SettleMarket(b, score)) <= ValueOf(SettleMarket(b, score)')]_score
=============================================================================
