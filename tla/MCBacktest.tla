------------------------------ MODULE MCBacktest ------------------------------
(***************************************************************************)
(* A small instance of Backtest for TLC: one match a time unit, each with  *)
(* a score that is public two units later, and a last match after a break. *)
(***************************************************************************)
EXTENDS Backtest, TLC

CONSTANTS Length         \* the number of matches
CONSTANTS q1, q2, q3, q4 \* model values

Matches == 0 .. Length - 1
AfterABreak == [m \in Match |-> IF m = Length - 1 THEN Length + 5 ELSE m]
TwoLater == [m \in Match |-> AfterABreak[m] + 2]

\* Three players, each pair in turn.
Pairs ==
    [m \in Match |-> CASE m % 3 = 0 -> {"A", "B"} [] m % 3 = 1 -> {"A", "C"} [] OTHER -> {"B", "C"}]
OneSport == [m \in Match |-> "football"]

HomeDrawAway(m) ==
    CASE m % 3 = 0 -> [s1 |-> 2, s2 |-> 1] [] m % 3 = 1 -> [s1 |-> 1, s2 |-> 1]
      [] OTHER -> [s1 |-> 0, s2 |-> 1]

Row(score, updated, observed) ==
    [score |-> score, settled |-> None, updated |-> updated, observed |-> observed]

\* Most rows were backfilled and give their source's time; that of match 5
\* has only the time it was received, and match 4 may be corrected.
Corpus ==
    [m \in Match |->
        CASE m = 4 -> {Row(HomeDrawAway(m), 6, 30), Row([s1 |-> 2, s2 |-> 0], 7, 7)}
          [] m = 5 -> {Row(HomeDrawAway(m), None, 7)}
          [] OTHER -> {Row(HomeDrawAway(m), TwoLater[m], 30)}]

\* Match 4 is not collected yet.
Stored == [m \in Match \ {4} |-> CHOOSE r \in Corpus[m] : TRUE]

HomeWin   == [market |-> "1x2", selection |-> "P1", line |-> NoLine]
OverTwo   == [market |-> "total", selection |-> "over", line |-> 8]
HeadStart == [market |-> "handicap", selection |-> "F1", line |-> 6]

\* Two prices of one pick on a match the bookmaker lists the other way round,
\* one of a total, and one of a handicap.
Price(id, m, bet, at) ==
    [id |-> id, match |-> m, bet |-> bet, at |-> at, kickoff |-> 8, reversed |-> m = 8]
Prices ==
    [q \in Quote |-> CASE q = q1 -> Price(1, 8, HomeWin, 6) [] q = q2 -> Price(2, 8, HomeWin, 7)
                       [] q = q3 -> Price(3, 7, OverTwo, 7) [] OTHER -> Price(4, 8, HeadStart, 7)]
=============================================================================
