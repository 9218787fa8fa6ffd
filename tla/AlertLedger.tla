---------------------------- MODULE AlertLedger ----------------------------
(***************************************************************************)
(* What the alert pipeline promises of each call, without workers, queues, *)
(* transactions or messages.  A call is skipped or queued when it is       *)
(* decided; a queued call is delivered, or dropped because it expired; a   *)
(* delivered call is settled, and then the chat is told.  No stage is ever *)
(* taken back, and no two live calls recommend the same bet.               *)
(***************************************************************************)
CONSTANTS
    Call,      \* the odds snapshots that may become calls
    Picked     \* what a call recommends: event, market, selection, line

VARIABLE stage

Live == {"queued", "delivered", "settled", "told"}

Stages == Live \cup {"none", "skip"}

\* The bet of o is not recommended by another call.
Free(o) == \A q \in Call : stage[q] \in Live => Picked[q] # Picked[o]

\* Some calls move from one stage to another at once.
Move(calls, from, to) ==
    /\ \A o \in calls : stage[o] = from
    /\ stage' = [o \in Call |-> IF o \in calls THEN to ELSE stage[o]]

Init == stage = [o \in Call |-> "none"]

Decide(alerts, skips) ==
    /\ \A o \in alerts \cup skips : stage[o] = "none"
    /\ \A o \in alerts : Free(o)
    /\ \A o, q \in alerts : Picked[o] = Picked[q] => o = q
    /\ stage' = [o \in Call |-> IF o \in alerts THEN "queued"
                                ELSE IF o \in skips THEN "skip" ELSE stage[o]]

Expire(calls) == Move(calls, "queued", "skip")
Deliver(o)    == Move({o}, "queued", "delivered")
Settle(calls) == Move(calls, "delivered", "settled")
Tell(o)       == Move({o}, "settled", "told")

Next ==
    \/ \E alerts, skips \in SUBSET Call : Decide(alerts, skips)
    \/ \E calls \in SUBSET Call : Expire(calls) \/ Settle(calls)
    \/ \E o \in Call : Deliver(o) \/ Tell(o)

Spec == Init /\ [][Next]_stage

-----------------------------------------------------------------------------
TypeOK == stage \in [Call -> Stages]

\* No two live calls recommend the same bet.
OneLivePerPick ==
    \A o, q \in Call : stage[o] \in Live /\ stage[q] \in Live /\ Picked[o] = Picked[q] => o = q
=============================================================================
