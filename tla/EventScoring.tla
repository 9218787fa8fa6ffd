---------------------------- MODULE EventScoring ----------------------------
(***************************************************************************)
(* How much two events look like one: app/normalization/events.py.         *)
(*                                                                         *)
(* Kickoffs are announced to the minute and counted in minutes.  A piece   *)
(* of evidence is worth 0 to Full, which makes the slopes of _time_score   *)
(* whole; the floating-point confidence is the sum of points below over    *)
(* 18 * Full, and the thresholds are multiplied out.  Rounding is left out.*)
(***************************************************************************)
EXTENDS Integers

Full == 300

Distance(a, b) == IF a >= b THEN a - b ELSE b - a

IdentityScore(left, right) == IF left = right THEN Full ELSE 0

\* Full marks up to a minute, then three slopes down to half an hour.
TimeScore(minutes) ==
    IF minutes <= 1 THEN 300
    ELSE IF minutes <= 5  THEN 300 - 15 * (minutes - 1)
    ELSE IF minutes <= 15 THEN 240 - 9 * (minutes - 5)
    ELSE IF minutes <= 30 THEN 10 * (30 - minutes)
    ELSE 0

\* The players of an event, in the order it lists them.
Reverse(players) == [p1 |-> players.p2, p2 |-> players.p1]

DirectionScore(players, candidate, tournament, minutes) ==
    5 * IdentityScore(players.p1, candidate.p1)
      + 5 * IdentityScore(players.p2, candidate.p2)
      + 4 * tournament + 4 * TimeScore(minutes)

\* The better of the two orientations.
ScoreEventPair(players, candidate, tournament, minutes) ==
    LET direct  == DirectionScore(players, candidate, tournament, minutes)
        reverse == DirectionScore(players, Reverse(candidate), tournament, minutes)
    IN  IF reverse > direct THEN reverse ELSE direct

AutomaticThresholdHalved == 2430
AutomaticThreshold == 4860       \* 0.90
AmbiguityMargin    == 162        \* 0.03

\* choose_event_match calls a best candidate "exact" or "likely" when it is
\* good enough and well ahead of every other.
IsAutomatic(points, others) ==
    /\ points >= AutomaticThreshold
    /\ \A second \in others : points - second >= AmbiguityMargin

SamePlayers(players, candidate) == candidate = players \/ candidate = Reverse(players)
=============================================================================
