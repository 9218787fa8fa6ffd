------------------------- MODULE SettlementRules -------------------------
(***************************************************************************)
(* How a bet is settled against a final score: app/backtest/settlement.py. *)
(*                                                                         *)
(* A bet is a record of a market, a canonical selection and a line.  Lines *)
(* are counted in quarter goals, so that 2.5 is 10 and a line of 2.25,     *)
(* which bookmakers do quote, is 9; NoLine stands for a NULL column.  The  *)
(* spelling of a selection is abstracted to its words: whether letters are *)
(* Latin or Cyrillic, and their case, is left out.                         *)
(***************************************************************************)
EXTENDS Integers

CONSTANT NoLine

ASSUME NoLineAssumption == NoLine \notin Int

Market == {"1x2", "total", "handicap"}

SelectionsOf == [m \in Market |->
    CASE m = "1x2"      -> {"P1", "X", "P2"}
      [] m = "total"    -> {"over", "under"}
      [] m = "handicap" -> {"F1", "F2"}]

Bet == {b \in [market : Market, selection : UNION {SelectionsOf[m] : m \in Market},
               line : Int \cup {NoLine}] : b.selection \in SelectionsOf[b.market]}

Score == [s1 : Nat, s2 : Nat]

\* A score seen from the other side of the table.
Swap(score) == [s1 |-> score.s2, s2 |-> score.s1]

\* The score as the bookmaker lists the players: the source event and the
\* bookmaker event may name them in opposite order.
Orient(score, reversed) == IF reversed THEN Swap(score) ELSE score

Outcome == {"win", "loss", "return"}

\* What settle_market answers, or the ValueError it raises.
Verdict == Outcome \cup {"ValueError"}

CompareTiesWin(left, right) == IF left >= right THEN "win" ELSE "loss"
Compare(left, right) ==
    IF left = right THEN "return" ELSE IF left > right THEN "win" ELSE "loss"

WinIf(won) == IF won THEN "win" ELSE "loss"

MatchResult(selection, score) ==
    WinIf(CASE selection = "P1" -> score.s1 > score.s2
            [] selection = "P2" -> score.s2 > score.s1
            [] selection = "X"  -> score.s1 = score.s2)

TotalSidesSwapped(selection, score, line) ==
    LET goals == 4 * (score.s1 + score.s2)
    IN  IF selection = "over" THEN Compare(line, goals) ELSE Compare(goals, line)
Total(selection, score, line) ==
    LET goals == 4 * (score.s1 + score.s2)
    IN  IF selection = "over" THEN Compare(goals, line) ELSE Compare(line, goals)

\* The line is a head start of the selection's own side.
HandicapFromHome(selection, score, line) ==
    IF selection = "F1" THEN Compare(4 * score.s1 + line, 4 * score.s2)
                        ELSE Compare(4 * score.s2, 4 * score.s1 + line)
Handicap(selection, score, line) ==
    IF selection = "F1" THEN Compare(4 * score.s1 + line, 4 * score.s2)
                        ELSE Compare(4 * score.s2 + line, 4 * score.s1)

\* A quarter handicap needs a split settlement and is refused; a quarter
\* total is not looked for.
IsQuarter(line) == line % 2 # 0

SettleMarket(bet, score) ==
    CASE bet.market = "1x2"   -> MatchResult(bet.selection, score)
      [] bet.market # "1x2" /\ bet.line = NoLine -> "ValueError"
      [] bet.market = "total" /\ bet.line # NoLine ->
            Total(bet.selection, score, bet.line)
      [] bet.market = "handicap" /\ bet.line # NoLine ->
            IF IsQuarter(bet.line) THEN "ValueError"
            ELSE Handicap(bet.selection, score, bet.line)

-----------------------------------------------------------------------------
(* Selections as older rows spell them: a word and the line it carries,    *)
(* such as TB(2.5), F1(-1.5), P1 or 1X.                                    *)

LegacyText(word, line) == [word |-> word, line |-> line]

\* A bet on two of the three main results.
DoubleChanceWithoutDraw(word, score) ==
    CASE word = "1X" -> WinIf(score.s1 > score.s2)
      [] word = "X2" -> WinIf(score.s2 > score.s1)
      [] word = "12" -> WinIf(score.s1 # score.s2)
DoubleChance(word, score) ==
    CASE word = "1X" -> WinIf(score.s1 >= score.s2)
      [] word = "X2" -> WinIf(score.s2 >= score.s1)
      [] word = "12" -> WinIf(score.s1 # score.s2)

\* The expression TOTAL: a TB or TM with a line, which must not be signed.
IsTotalText(text) == text.word \in {"TB", "TM"} /\ text.line \in Nat

\* normalize_market_selection of a total: a TB or TM must not contradict the
\* line column.
NormalizeTotalAnyLine(text, line) ==
    CASE text.word \in {"over", "under"} -> text.word
      [] IsTotalText(text) -> IF text.word = "TB" THEN "over" ELSE "under"
      [] OTHER -> "ValueError"
NormalizeTotal(text, line) ==
    CASE text.word \in {"over", "under"} -> text.word
      [] IsTotalText(text) ->
            IF line # NoLine /\ text.line # line THEN "ValueError"
            ELSE IF text.word = "TB" THEN "over" ELSE "under"
      [] OTHER -> "ValueError"

\* settle_market of a legacy total text with a line column beside it.
SettleLegacyTotalColumn(text, line, score) ==
    LET selection == NormalizeTotal(text, line)
    IN  IF selection = "ValueError" \/ line = NoLine THEN "ValueError"
        ELSE Total(selection, score, line)

\* settle_market without a market: the text alone.
SettleLegacy(text, score) ==
    CASE text.word \in {"P1", "X", "P2"} -> MatchResult(text.word, score)
      [] text.word \in {"1X", "X2", "12"} -> DoubleChance(text.word, score)
      [] text.word \in {"F1", "F2"} ->
            IF IsQuarter(text.line) THEN "ValueError"
            ELSE Handicap(text.word, score, text.line)
      [] IsTotalText(text) ->
            Total(IF text.word = "TB" THEN "over" ELSE "under", score, text.line)
      [] OTHER -> "ValueError"

-----------------------------------------------------------------------------
\* The settlement worker turns a ValueError into a void bet.
SettledOutcome == Outcome \cup {"void"}

SettleSignal(bet, score) ==
    LET verdict == SettleMarket(bet, score)
    IN  IF verdict = "ValueError" THEN "void" ELSE verdict

=============================================================================
