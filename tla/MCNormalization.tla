--------------------------- MODULE MCNormalization ---------------------------
(***************************************************************************)
(* A small instance of Normalization for TLC: two look-alike players, a    *)
(* team with another name in one source that is its only name in the       *)
(* other, and a team misspelt beyond doubt.                                *)
(***************************************************************************)
EXTENDS Normalization

CONSTANTS p1, p2, p3    \* model values

Called3(player, team, alt) == [player |-> player, team |-> team, alt |-> alt]

Names ==
    [p \in Participant |->
        CASE p = p1 -> Called3("anna", "madrid", "real")
          [] p = p2 -> Called3("annna", "real", None)
          [] OTHER  -> Called3("anna", "madrld", None)]

\* The bookmaker puts another player into the slot, and the source another
\* team.
Relisted ==
    [p \in Participant |-> IF p = p3 THEN {Called3("boris", "madrld", None)} ELSE {}]

Sources == [p \in Participant |-> IF p = p1 THEN "uel_ef" ELSE "fonbet"]

Order ==
    [p \in Participant |-> CASE p = p1 -> 1 [] p = p2 -> 2 [] OTHER -> 3]

Likeness ==
    [pair \in Name \X Name |->
        CASE pair[1] = pair[2]                     -> 1000
          [] {pair[1], pair[2]} = {"anna", "annna"}      -> 890
          [] {pair[1], pair[2]} = {"madrid", "madrld"}   -> 985
          [] OTHER                                       -> 300]

JobSources == [r \in Runner |-> IF r = "fonbet-odds" THEN "fonbet" ELSE "uel_ef"]
=============================================================================
