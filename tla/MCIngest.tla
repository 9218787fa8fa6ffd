------------------------------- MODULE MCIngest -------------------------------
(***************************************************************************)
(* A small instance of Ingest for TLC.                                     *)
(***************************************************************************)
EXTENDS Ingest, TLC

CONSTANTS m1, m2, c1, c2    \* model values

TwoTours == {{m1}, {m2}}

\* What a source may list: the core fields, its word for the state, the
\* kickoff, the score, the time of its last change and the odds.
Lists(core, state, start, score, updated, odds, sides) ==
    [core |-> core, state |-> state, start |-> start, score |-> score, half |-> FALSE,
     updated |-> updated, odds |-> odds, sides |-> sides]

\* The same, with the score of one side.
Half(l) == [l EXCEPT !.half = TRUE]

UELListing ==
    {Lists(TRUE, "finished", 1, None, 0, 0, "AB"),
     Lists(TRUE, "finished", 1, "1:0", 1, 0, "AB"),
     Lists(TRUE, "finished", 2, "2:0", 3, 0, "BA")}

ESBListing ==
    {Lists(TRUE, "completed", 1, "1:0", 0, 0, "AB"),
     Lists(TRUE, "completed", 2, None, 0, 0, "AB"),
     Lists(TRUE, "playing", 2, "1:0", 0, 0, "BA")}

SISListing ==
    {Lists(TRUE, "none", 1, None, 0, 0, "AB"),
     Lists(TRUE, "MATCH_ENDED", 1, "1:0", 0, 0, "AB"),
     Half(Lists(TRUE, "none", 1, None, 0, 0, "AB")),
     Lists(FALSE, "cancelled", 2, None, 0, 0, "BA")}

FonbetListing ==
    {Lists(TRUE, "line", 1, None, 0, 100, "AB"),
     Lists(TRUE, "line", 2, None, 0, 180, "AB"),
     Lists(TRUE, "live", 2, "1:0", 0, 150, "AB")}

Listings ==
    [k \in Kind |-> CASE k = "uel" -> UELListing [] k = "esb" -> ESBListing
                      [] k = "sis" -> SISListing [] OTHER -> FonbetListing]

Interchangeable == Permutations({c1, c2}) \cup Permutations({m1, m2})
=============================================================================
