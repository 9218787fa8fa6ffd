------------------------- MODULE MCAlertLifecycle -------------------------
(***************************************************************************)
(* Small instances of AlertLifecycle for TLC.                              *)
(***************************************************************************)
EXTENDS AlertLifecycle, TLC

CONSTANTS
    a1, a2, b1, c1, e1, e2, \* model values
    KickoffAt

\* One match.  The snapshots a1 and a2 quote its home win, b1 the draw
\* and c1 the away win.
OneMatchEventOf  == [o \in Snapshot |-> e1]
OneMatchStartsAt == [e \in Event |-> KickoffAt]
OneMatchBetOf ==
    [o \in Snapshot |->
        [market |-> "1x2", line |-> NoLine,
         selection |-> CASE o = b1 -> "X" [] o = c1 -> "P2" [] OTHER -> "P1"]]

\* Two matches, one quote of each: that of a1 kicks off before that of c1.
TwoMatchEventOf  == [o \in Snapshot |-> IF o = a1 THEN e1 ELSE e2]
TwoMatchStartsAt == [e \in Event |-> IF e = e1 THEN KickoffAt ELSE KickoffAt + 1]

HomeOrAwayWin == {[s1 |-> 1, s2 |-> 0], [s1 |-> 0, s2 |-> 1]}

GeneratorSymmetry == Permutations(Generator)
SettlerSymmetry   == Permutations(Settler)
WorkerSymmetry    == GeneratorSymmetry \cup SettlerSymmetry

=============================================================================
