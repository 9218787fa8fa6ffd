---------------------------- MODULE MCCollectors ----------------------------
(***************************************************************************)
(* Small instances of Collectors for TLC.                                  *)
(***************************************************************************)
EXTENDS Collectors

CONSTANTS t1, t2, t3, e1, e2, p1, p2, p3, d1, d2    \* model values

\* Pages of one tour; the third tour moves the others to the next pages.
TwoTours == <<t2, t1>>
TwoDays  == <<d1, d2>>

\* One tour of two participants; the source has forgotten the third.
ESBParticipants == <<p1, p2, p3>>
ESBPages == [p \in {p1, p2, p3} |->
                CASE p = p1 -> <<e2, e1>> [] p = p2 -> <<e1>> [] OTHER -> <<>>]
=============================================================================
