---------------------------- MODULE MCCorridors ----------------------------
(***************************************************************************)
(* Small instances of Corridors for TLC.                                   *)
(***************************************************************************)
EXTENDS Corridors, TLC

CONSTANTS p1, p2, fam \* model values

HomeWin == [market |-> "1x2", line |-> NoLine, selection |-> "P1"]
OneBet == {HomeWin}

\* What the pairs are quoted first; a catalog may quote either of them lower.
HigherFirst ==
    {[x \in Pair \X Bets |-> IF x[1] = p1 THEN 140 ELSE 130]}

\* The first pair's tournament has a family, the second one's has none.
FirstInFamily == [p \in Pair |-> IF p = p1 THEN fam ELSE None]

\* The scheduler's width is the default, 0.25, whose first bucket begins at
\* 1.00; the operator's another one.  Odds 1.30 and 1.40 are in one bucket of
\* the former, in two of the latter.
TwoWidths == [b \in Builder |-> IF b = "operator" THEN 10 ELSE 25]

StartsAtOne == [p \in Pair |-> 1]

HomeOrAwayWin == {[s1 |-> 1, s2 |-> 0], [s1 |-> 0, s2 |-> 1]}

=============================================================================
