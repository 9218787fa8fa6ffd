-------------------------- MODULE MCEventMatching --------------------------
(***************************************************************************)
(* Small instances of EventMatching for TLC.                               *)
(***************************************************************************)
EXTENDS EventMatching

CONSTANTS s1, s2, s3, b1, b2    \* model values

AllAlike == [p \in Pair |-> Full]

\* Two meetings of the same players, s1 and s2, and a match of one of them, s3;
\* the bookmaker lists only the first meeting, the other way round, and may
\* put it off to halfway between both, or past everything.
OneListedPlayers ==
    [e \in AnyEvent |-> CASE e = b1 -> [p1 |-> "bob", p2 |-> "ann"]
                          [] e = s3 -> [p1 |-> "ann", p2 |-> "cyd"]
                          [] OTHER  -> [p1 |-> "ann", p2 |-> "bob"]]
OneListedStart ==
    [e \in AnyEvent |-> CASE e = s2 -> 25 [] e = s3 -> 10 [] OTHER -> 5]
OneListedMoves == [e \in AnyEvent |-> IF e = b1 THEN {15, 60} ELSE {}]

\* One source event and two meetings of its players at the bookmaker, of which
\* the first is the closer one.
TwiceListedPlayers == [e \in AnyEvent |-> [p1 |-> "ann", p2 |-> "bob"]]
TwiceListedStart ==
    [e \in AnyEvent |-> CASE e = s1 -> 10 [] e = b1 -> 5 [] OTHER -> 20]
NoMoves == [e \in AnyEvent |-> {}]

JobModes ==
    [m \in Matcher |-> CASE m = "uel-predictions" -> "live"
                         [] m = "odds-corridors"  -> "completed"
                         [] m = "operator"        -> "full"]
=============================================================================
