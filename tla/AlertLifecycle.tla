-------------------------- MODULE AlertLifecycle --------------------------
(***************************************************************************)
(* The life of a betting call, from the odds snapshot it is computed from  *)
(* to the settlement the Telegram chat is told about.  Three kinds of      *)
(* worker share one database and nothing else:                             *)
(*                                                                         *)
(*  - generators  PredictionSignalWorker.generate_once, run by the         *)
(*                scheduler and, at any moment, by `python -m app predict';*)
(*  - publishers  TelegramPublisher.publish_once, in the telegram service; *)
(*  - settlers    SettlementWorker.settle_once, by the scheduler and by    *)
(*                `python -m app settle'.                                  *)
(*                                                                         *)
(* A generator or settler call is one transaction: its reads are one step  *)
(* and its writes, made visible by the commit, another.  A publisher cycle *)
(* is one transaction that expires and reads the queue, then, outside of   *)
(* it, a Telegram call and an acknowledging transaction for each message.  *)
(*                                                                         *)
(* A Signal row belongs to one ModelPrediction row, and a prediction to    *)
(* one odds snapshot (uq_prediction_snapshot_model_selection): a snapshot  *)
(* names its prediction and its signal here.                               *)
(***************************************************************************)
EXTENDS Integers, FiniteSets

CONSTANTS
    NoLine,          \* the line of a market that has none
    Snapshot,        \* odds_snapshots rows
    Event,           \* bookmaker events, each with its matched source event
    EventOf,         \* the event a snapshot quotes
    BetOf,           \* the bet (market, selection, line) a snapshot quotes
    StartsAt,        \* kickoff of an event, as first announced
    Scores,          \* final scores a source may report
    Generator, Publisher, Settler,
    Unsendable,      \* signals whose alert Telegram always refuses
    Untellable,      \* signals whose settlement text it always refuses
    Rematched,       \* events whose sides the matcher may decide anew (bound)
    Rescheduled,     \* events whose kickoff the bookmaker may move (bound)
    StaleAfter,      \* strategy.stale_after_seconds
    MinAlertLead,    \* strategy.min_alert_lead_seconds
    Window,          \* telegram alert_minutes_before_start
    Limit,           \* rows a publisher cycle takes from each queue
    MaxTime, MaxFaults, MaxCorrections,     \* bounds of the model
    None             \* a NULL

Rules == INSTANCE SettlementRules

\* The bets generate_once calls: main results, and totals that have a line.
Callable == {b \in Rules!Bet : \/ b.market = "1x2"
                               \/ b.market = "total" /\ b.line # NoLine}

ASSUME ConstantsAssumption ==
    /\ NoLine \notin Int
    /\ EventOf \in [Snapshot -> Event]
    /\ BetOf \in [Snapshot -> Callable]
    /\ StartsAt \in [Event -> Nat]
    /\ Scores \subseteq Rules!Score
    /\ StaleAfter \in Nat /\ MinAlertLead \in Nat /\ Window \in Nat
    /\ Limit \in Nat \ {0}
    /\ MaxTime \in Nat /\ MaxFaults \in Nat /\ MaxCorrections \in Nat


VARIABLES
    now,             \* the clock all services read
    \* written by the collectors and the matcher
    received,        \* odds_snapshots.received_at, or Never
    kickoff,         \* events.started_at of the bookmaker's event
    reversed,        \* event_matches.components["reversed_sides"]
    result,          \* results.score1, score2 of the matched source event
    corrections,     \* times a stored result was overwritten (bound)
    \* signals
    decision,        \* signals.decision, "none" when there is no row
    alertKey,        \* signals.alert_key
    frozen,          \* model_predictions.mapping_reversed_sides
    expiresAt,       \* signals.expires_at
    sentMsg,         \* signals.telegram_message_id (with sent_at), 0 if NULL
    \* settlements
    outcome,         \* settlements.outcome, None when there is no row
    settledAt,       \* settlements.settled_at
    notified,        \* settlements.telegram_notified_at is set
    \* the Telegram chat
    posts,           \* alert messages of a signal visible in the chat
    edited,          \* what the alert message was edited into, or None
    replies,         \* settlement messages sent because an edit failed
    \* the workers' local state
    gen, pub, settler,
    faults           \* answers and processes lost (bound)

clockVars   == <<now>>
bookVars    == <<received, kickoff, reversed, result, corrections>>
signalVars  == <<decision, alertKey, frozen, expiresAt, sentMsg>>
settleVars  == <<outcome, settledAt, notified>>
chatVars    == <<posts, edited, replies>>
vars == <<clockVars, bookVars, signalVars, settleVars, chatVars, gen, pub, settler, faults>>

-----------------------------------------------------------------------------
Never == -1
Time  == 0 .. MaxTime

\* What an alert_key spells out: strategy, event, market, selection and line.
PickOf(o) == <<EventOf[o], BetOf[o]>>
Pick      == {PickOf(o) : o \in Snapshot}

ASSUME NoneAssumption ==
    /\ None \notin Snapshot /\ None \notin Pick
    /\ None \notin Scores /\ None \notin Rules!SettledOutcome

Kickoff(o) == kickoff[EventOf[o]]

Min2(a, b) == IF a <= b THEN a ELSE b

\* The newest quote of its bet.
Latest(o) ==
    /\ received[o] # Never
    /\ \A q \in Snapshot : PickOf(q) = PickOf(o) => received[q] <= received[o]

Delivered(o) == decision[o] = "alert" /\ sentMsg[o] # 0
Queued(o)    == decision[o] = "alert" /\ sentMsg[o] = 0

\* What a settlement message shows: the score on file when the queue was
\* read, in the orientation frozen at the decision, beside the outcome.
ViewByCurrentSides(o, score) ==
    [score |-> Rules!Orient(score, reversed[EventOf[o]]), outcome |-> outcome[o]]
View(o, score) == [score |-> Rules!Orient(score, frozen[o]), outcome |-> outcome[o]]

\* The first Limit elements of a queue ordered by key: ties are left open.
IsHead(head, queue, key) ==
    /\ head \subseteq queue
    /\ Cardinality(head) = Min2(Limit, Cardinality(queue))
    /\ \A o \in head, q \in queue \ head : key[o] <= key[q]

IdleGenerator == [open |-> FALSE, at |-> 0, cands |-> {},
                  starts |-> [e \in Event |-> 0], sides |-> [e \in Event |-> FALSE]]
IdlePublisher == [pc |-> "idle", alerts |-> {}, starts |-> [e \in Event |-> 0],
                  tells |-> [o \in Snapshot |-> None], cur |-> None, msg |-> 0]
IdleSettler   == [open |-> FALSE, at |-> 0, rows |-> [o \in Snapshot |-> None]]

Init ==
    /\ now = 0
    /\ received = [o \in Snapshot |-> Never]
    /\ kickoff = StartsAt
    /\ reversed \in [Event -> BOOLEAN]
    /\ result = [e \in Event |-> None]
    /\ corrections = 0
    /\ decision = [o \in Snapshot |-> "none"]
    /\ alertKey = [o \in Snapshot |-> None]
    /\ frozen = [o \in Snapshot |-> FALSE]
    /\ expiresAt = [o \in Snapshot |-> 0]
    /\ sentMsg = [o \in Snapshot |-> 0]
    /\ outcome = [o \in Snapshot |-> None]
    /\ settledAt = [o \in Snapshot |-> 0]
    /\ notified = [o \in Snapshot |-> FALSE]
    /\ posts = [o \in Snapshot |-> 0]
    /\ edited = [o \in Snapshot |-> None]
    /\ replies = [o \in Snapshot |-> 0]
    /\ gen = [g \in Generator |-> IdleGenerator]
    /\ pub = [p \in Publisher |-> IdlePublisher]
    /\ settler = [s \in Settler |-> IdleSettler]
    /\ faults = 0

-----------------------------------------------------------------------------
(* The environment: time, the odds collector, the matcher, the history     *)
(* collector.                                                              *)

Tick ==
    /\ now < MaxTime
    /\ now' = now + 1
    /\ UNCHANGED <<bookVars, signalVars, settleVars, chatVars, gen, pub, settler, faults>>

\* One poll stores at most one quote of a selection.
QuoteArrives(o) ==
    /\ received[o] = Never
    /\ \A q \in Snapshot : PickOf(q) = PickOf(o) => received[q] # now
    /\ received' = [received EXCEPT ![o] = now]
    /\ UNCHANGED <<now, kickoff, reversed, result, corrections, signalVars, settleVars, chatVars,
                   gen, pub, settler, faults>>

\* The matcher overwrites the components of a pair on every run.
Rematch(e) ==
    /\ e \in Rematched
    /\ reversed' = [reversed EXCEPT ![e] = ~reversed[e]]
    /\ UNCHANGED <<now, received, kickoff, result, corrections, signalVars, settleVars, chatVars,
                   gen, pub, settler, faults>>

\* Each poll writes the kickoff the bookmaker announces now: a match may be
\* put off and called back (by one unit of time: a bound).
Reschedule(e) ==
    /\ e \in Rescheduled
    /\ \E at \in {StartsAt[e], StartsAt[e] + 1} \ {kickoff[e]} :
          kickoff' = [kickoff EXCEPT ![e] = at]
    /\ UNCHANGED <<now, received, reversed, result, corrections, signalVars, settleVars,
                   chatVars, gen, pub, settler, faults>>

\* Only a finished match gets a results row; a later page overwrites it.
ResultArrives(e) ==
    /\ now >= kickoff[e]
    /\ \/ result[e] = None /\ UNCHANGED corrections
       \/ /\ result[e] # None
          /\ corrections < MaxCorrections
          /\ corrections' = corrections + 1
    /\ \E score \in Scores \ {result[e]} : result' = [result EXCEPT ![e] = score]
    /\ UNCHANGED <<now, received, kickoff, reversed, signalVars, settleVars, chatVars,
                   gen, pub, settler, faults>>

-----------------------------------------------------------------------------
(* PredictionSignalWorker.generate_once                                    *)

\* The reads: matched events that have not started, the newest quote of each
\* of their bets, less the quotes that already have a prediction.  Which
\* events are matched and scheduled is the matcher's choice.
GenerateRead(g) ==
    /\ ~gen[g].open
    /\ \E matched \in SUBSET {e \in Event : kickoff[e] > now} :
         LET cands == {o \in Snapshot : /\ EventOf[o] \in matched
                                        /\ Latest(o)
                                        /\ decision[o] = "none"}
         IN  /\ cands # {}
             /\ gen' = [gen EXCEPT ![g] = [open |-> TRUE, at |-> now, cands |-> cands,
                                           starts |-> kickoff, sides |-> reversed]]
    /\ UNCHANGED <<clockVars, bookVars, signalVars, settleVars, chatVars, pub, settler, faults>>

\* delivery_expires_at: until kickoff, as it was read, and while the quote is
\* fresh.
DeliverableUntil(g, o) == Min2(gen[g].starts[EventOf[o]], received[o] + StaleAfter)

\* Neither stale nor about to expire, by the clock of the read.
Timely(g, o) ==
    /\ gen[g].at - received[o] <= StaleAfter
    /\ DeliverableUntil(g, o) - gen[g].at >= MinAlertLead

\* Of the qualifying selections of an event only the best is called.
OnePerEvent(called) == \A o, q \in called : EventOf[o] = EventOf[q] => o = q

\* INSERT ... ON CONFLICT (alert_key) DO NOTHING.
InsertableUnchecked(o) == TRUE
Insertable(o) == \A q \in Snapshot : alertKey[q] # PickOf(o)

\* The candidates whose prediction this call inserts: one that got its
\* prediction from a concurrent call meanwhile violates the unique constraint
\* and is left out.
Predicted(g) == {o \in gen[g].cands : decision[o] = "none"}

\* Each of them gets a signal: the alerts that were inserted, and skips.
SignalOf(o, predicted, alerts) ==
    IF o \in alerts THEN "alert" ELSE IF o \in predicted THEN "skip" ELSE decision[o]

\* The writes.  The value and sample filters, the corridor, alerts_enabled
\* and the ranking decide what is called: any timely candidates, one per
\* event, may be.
GenerateCommit(g) ==
    /\ gen[g].open
    /\ LET mine == Predicted(g)
       IN  \E called \in SUBSET {o \in mine : Timely(g, o)} :
             LET alerts == {o \in called : Insertable(o)}
             IN  /\ OnePerEvent(called)
                 /\ decision' = [o \in Snapshot |-> SignalOf(o, mine, alerts)]
                 /\ alertKey' = [o \in Snapshot |->
                       IF o \in alerts THEN PickOf(o) ELSE alertKey[o]]
                 /\ frozen' = [o \in Snapshot |->
                       IF o \in mine THEN gen[g].sides[EventOf[o]] ELSE frozen[o]]
                 /\ expiresAt' = [o \in Snapshot |->
                       IF o \in mine THEN DeliverableUntil(g, o) ELSE expiresAt[o]]
    /\ gen' = [gen EXCEPT ![g] = IdleGenerator]
    /\ UNCHANGED <<clockVars, bookVars, sentMsg, settleVars, chatVars, pub, settler, faults>>

\* An exception or a crash rolls the transaction back.
GenerateAbort(g) ==
    /\ gen[g].open
    /\ faults < MaxFaults
    /\ gen' = [gen EXCEPT ![g] = IdleGenerator]
    /\ faults' = faults + 1
    /\ UNCHANGED <<clockVars, bookVars, signalVars, settleVars, chatVars, pub, settler>>

-----------------------------------------------------------------------------
(* TelegramPublisher.publish_once                                          *)

\* How a publisher's state moves through a cycle: both queues are read; an
\* alert is given up or waits for its acknowledgement, a settlement likewise;
\* the loop resumes.
Opened(alerts, tells) == [IdlePublisher EXCEPT !.pc = "sending", !.alerts = alerts,
                                               !.starts = kickoff, !.tells = tells]
Passed(w, o)    == [w EXCEPT !.alerts = @ \ {o}]
Sent(w, o, msg) == [w EXCEPT !.pc = "ackAlert", !.alerts = @ \ {o}, !.cur = o, !.msg = msg]
Untold(w, o)    == [w EXCEPT !.tells[o] = None]
Told(w, o)      == [w EXCEPT !.pc = "ackSettlement", !.tells[o] = None, !.cur = o]
Resumed(w)      == [w EXCEPT !.pc = "sending", !.cur = None, !.msg = 0]

\* expire_pending_alerts
Overdue(o) == Kickoff(o) <= now \/ expiresAt[o] <= now
ExpiredSentOrNot(o) == decision[o] = "alert" /\ Overdue(o)
ExpiredAtKickoff(o) == Queued(o) /\ Kickoff(o) <= now
Expired(o) == Queued(o) /\ Overdue(o)

\* pending_alerts
PendingSentOrNot(o) == decision[o] = "alert" /\ ~Overdue(o) /\ Kickoff(o) <= now + Window
Pending(o) == Queued(o) /\ ~Overdue(o) /\ Kickoff(o) <= now + Window

\* pending_settlements
NotifiedOrNot(o) == Delivered(o) /\ outcome[o] # None
Unnotified(o) == Delivered(o) /\ outcome[o] # None /\ ~notified[o]

\* The transaction that opens a cycle: demote what expired, then read both
\* queues.
PublishRead(p) ==
    /\ pub[p].pc = "idle"
    /\ decision' = [o \in Snapshot |-> IF Expired(o) THEN "skip" ELSE decision[o]]
    /\ alertKey' = [o \in Snapshot |-> IF Expired(o) THEN None ELSE alertKey[o]]
    /\ \E alerts, owed \in SUBSET Snapshot :
         /\ IsHead(alerts, {o \in Snapshot : Pending(o)}, [o \in Snapshot |-> Kickoff(o)])
         /\ IsHead(owed, {o \in Snapshot : Unnotified(o)}, settledAt)
         /\ pub' = [pub EXCEPT ![p] = Opened(alerts, [o \in Snapshot |->
                       IF o \in owed THEN View(o, result[EventOf[o]]) ELSE None])]
    /\ UNCHANGED <<clockVars, bookVars, frozen, expiresAt, sentMsg, settleVars, chatVars, gen, settler, faults>>

\* The alert the loop has come to.
IsNextAlert(p, o) ==
    /\ pub[p].pc = "sending"
    /\ o \in pub[p].alerts
    /\ \A q \in pub[p].alerts : pub[p].starts[EventOf[o]] <= pub[p].starts[EventOf[q]]

\* Telegram accepts the message, formatted or as plain text.
SendAlert(p, o) ==
    /\ IsNextAlert(p, o)
    /\ o \notin Unsendable
    /\ posts' = [posts EXCEPT ![o] = @ + 1]
    /\ pub' = [pub EXCEPT ![p] = Sent(@, o, posts[o] + 1)]
    /\ UNCHANGED <<clockVars, bookVars, signalVars, settleVars, edited, replies,
                   gen, settler, faults>>

\* Telegram refuses it, or cannot be reached: the loop goes on to the next.
SendAlertFailureEndsCycle(p, o) ==
    /\ IsNextAlert(p, o)
    /\ pub' = [pub EXCEPT ![p].alerts = {}]
    /\ UNCHANGED <<clockVars, bookVars, signalVars, settleVars, chatVars, gen, settler, faults>>
SendAlertFails(p, o) ==
    /\ IsNextAlert(p, o)
    /\ pub' = [pub EXCEPT ![p] = Passed(@, o)]
    /\ UNCHANGED <<clockVars, bookVars, signalVars, settleVars, chatVars, gen, settler, faults>>

\* Telegram accepts it and the answer is lost: an exception like any other.
SendAlertAnswerLost(p, o) ==
    /\ IsNextAlert(p, o)
    /\ o \notin Unsendable
    /\ faults < MaxFaults
    /\ faults' = faults + 1
    /\ posts' = [posts EXCEPT ![o] = @ + 1]
    /\ pub' = [pub EXCEPT ![p] = Passed(@, o)]
    /\ UNCHANGED <<clockVars, bookVars, signalVars, settleVars, edited, replies, gen, settler>>

\* mark_alert_sent, which looks at neither decision nor sent_at.
AckAlert(p) ==
    /\ pub[p].pc = "ackAlert"
    /\ sentMsg' = [sentMsg EXCEPT ![pub[p].cur] = pub[p].msg]
    /\ pub' = [pub EXCEPT ![p] = Resumed(@)]
    /\ UNCHANGED <<clockVars, bookVars, decision, alertKey, frozen, expiresAt, settleVars,
                   chatVars, gen, settler, faults>>

\* The acknowledging transaction fails, of an alert or of a settlement: the
\* chat has the message and the database does not know.
AckFails(p) ==
    /\ pub[p].pc \in {"ackAlert", "ackSettlement"}
    /\ faults < MaxFaults
    /\ faults' = faults + 1
    /\ pub' = [pub EXCEPT ![p] = Resumed(@)]
    /\ UNCHANGED <<clockVars, bookVars, signalVars, settleVars, chatVars, gen, settler>>

\* Settlements come after the alerts of the cycle, oldest first.
IsNextTell(p, o) ==
    /\ pub[p].pc = "sending"
    /\ pub[p].alerts = {}
    /\ pub[p].tells[o] # None
    /\ \A q \in Snapshot : pub[p].tells[q] # None => settledAt[o] <= settledAt[q]

\* The alert message is edited into the settlement.  Telegram refuses an
\* edit that changes nothing.
EditSettlement(p, o) ==
    /\ IsNextTell(p, o)
    /\ o \notin Untellable
    /\ edited[o] # pub[p].tells[o]
    /\ edited' = [edited EXCEPT ![o] = pub[p].tells[o]]
    /\ pub' = [pub EXCEPT ![p] = Told(@, o)]
    /\ UNCHANGED <<clockVars, bookVars, signalVars, settleVars, posts, replies,
                   gen, settler, faults>>

\* The edit fails and the settlement is sent as a message of its own.
ReplySettlement(p, o) ==
    /\ IsNextTell(p, o)
    /\ o \notin Untellable
    /\ replies' = [replies EXCEPT ![o] = @ + 1]
    /\ pub' = [pub EXCEPT ![p] = Told(@, o)]
    /\ UNCHANGED <<clockVars, bookVars, signalVars, settleVars, posts, edited,
                   gen, settler, faults>>

\* Both fail.
SendSettlementFailureEndsCycle(p, o) ==
    /\ IsNextTell(p, o)
    /\ pub' = [pub EXCEPT ![p].tells = [q \in Snapshot |-> None]]
    /\ UNCHANGED <<clockVars, bookVars, signalVars, settleVars, chatVars, gen, settler, faults>>
SendSettlementFails(p, o) ==
    /\ IsNextTell(p, o)
    /\ pub' = [pub EXCEPT ![p] = Untold(@, o)]
    /\ UNCHANGED <<clockVars, bookVars, signalVars, settleVars, chatVars, gen, settler, faults>>

\* The edit, or the fallback message, arrives and its answer is lost.  A lost
\* answer to the edit leads to the fallback, which may succeed or fail.
SettlementAnswerLost(p, o) ==
    /\ IsNextTell(p, o)
    /\ o \notin Untellable
    /\ faults < MaxFaults
    /\ faults' = faults + 1
    /\ \/ /\ edited' = [edited EXCEPT ![o] = pub[p].tells[o]]
          /\ \/ /\ replies' = [replies EXCEPT ![o] = @ + 1]
                /\ pub' = [pub EXCEPT ![p] = Told(@, o)]
             \/ UNCHANGED replies /\ pub' = [pub EXCEPT ![p] = Untold(@, o)]
       \/ /\ UNCHANGED edited
          /\ replies' = [replies EXCEPT ![o] = @ + 1]
          /\ pub' = [pub EXCEPT ![p] = Untold(@, o)]
    /\ UNCHANGED <<clockVars, bookVars, signalVars, settleVars, posts, gen, settler>>

\* mark_settlement_sent
AckSettlement(p) ==
    /\ pub[p].pc = "ackSettlement"
    /\ notified' = [notified EXCEPT ![pub[p].cur] = TRUE]
    /\ pub' = [pub EXCEPT ![p] = Resumed(@)]
    /\ UNCHANGED <<clockVars, bookVars, signalVars, outcome, settledAt, chatVars,
                   gen, settler, faults>>

\* Both loops are through; run_forever waits for the next cycle.
PublishDone(p) ==
    /\ pub[p].pc = "sending"
    /\ pub[p].alerts = {} /\ \A o \in Snapshot : pub[p].tells[o] = None
    /\ pub' = [pub EXCEPT ![p] = IdlePublisher]
    /\ UNCHANGED <<clockVars, bookVars, signalVars, settleVars, chatVars, gen, settler, faults>>

\* The telegram service stops anywhere in a cycle and is restarted.
PublisherCrash(p) ==
    /\ pub[p].pc # "idle"
    /\ faults < MaxFaults
    /\ faults' = faults + 1
    /\ pub' = [pub EXCEPT ![p] = IdlePublisher]
    /\ UNCHANGED <<clockVars, bookVars, signalVars, settleVars, chatVars, gen, settler>>

-----------------------------------------------------------------------------
(* SettlementWorker.settle_once                                            *)

\* A delivered call whose match has a result and which is not settled yet.
DueSentOrNot(o) ==
    /\ decision[o] = "alert"
    /\ outcome[o] = None
    /\ result[EventOf[o]] # None
DueUnlessExpired(o) ==
    /\ Delivered(o) /\ now <= expiresAt[o]
    /\ outcome[o] = None
    /\ result[EventOf[o]] # None
Due(o) == Delivered(o) /\ outcome[o] = None /\ result[EventOf[o]] # None

SettleRead(s) ==
    /\ ~settler[s].open
    /\ \E o \in Snapshot : Due(o)
    /\ settler' = [settler EXCEPT ![s] =
           [open |-> TRUE, at |-> now,
            rows |-> [o \in Snapshot |-> IF Due(o) THEN result[EventOf[o]] ELSE None]]]
    /\ UNCHANGED <<clockVars, bookVars, signalVars, settleVars, chatVars, gen, pub, faults>>

\* What settle_market says of the signal's bet, in its frozen orientation.
Settled(o, score) == Rules!SettleSignal(BetOf[o], Rules!Orient(score, frozen[o]))

\* INSERT ... ON CONFLICT (signal_id) DO NOTHING, for each row read.
InsertedOrUpdated(s) == {o \in Snapshot : settler[s].rows[o] # None}
Inserted(s) == {o \in Snapshot : settler[s].rows[o] # None /\ outcome[o] = None}

SettleCommit(s) ==
    /\ settler[s].open
    /\ LET new == Inserted(s)
       IN  /\ outcome' = [o \in Snapshot |->
                 IF o \in new THEN Settled(o, settler[s].rows[o]) ELSE outcome[o]]
           /\ settledAt' = [o \in Snapshot |->
                 IF o \in new THEN settler[s].at ELSE settledAt[o]]
    /\ settler' = [settler EXCEPT ![s] = IdleSettler]
    /\ UNCHANGED <<clockVars, bookVars, signalVars, notified, chatVars, gen, pub, faults>>

SettleAbort(s) ==
    /\ settler[s].open
    /\ faults < MaxFaults
    /\ faults' = faults + 1
    /\ settler' = [settler EXCEPT ![s] = IdleSettler]
    /\ UNCHANGED <<clockVars, bookVars, signalVars, settleVars, chatVars, gen, pub>>

-----------------------------------------------------------------------------
Environment ==
    \/ Tick
    \/ \E o \in Snapshot : QuoteArrives(o)
    \/ \E e \in Event : Rematch(e) \/ Reschedule(e) \/ ResultArrives(e)

Generate(g) == GenerateRead(g) \/ GenerateCommit(g) \/ GenerateAbort(g)

DeliverAlert(p) ==
    \/ AckAlert(p)
    \/ \E o \in Snapshot : SendAlert(p, o) \/ SendAlertFails(p, o) \/ SendAlertAnswerLost(p, o)

TellSettlement(p, o) == EditSettlement(p, o) \/ ReplySettlement(p, o)

DeliverSettlement(p) ==
    \/ AckSettlement(p)
    \/ \E o \in Snapshot : \/ TellSettlement(p, o) \/ SendSettlementFails(p, o)
                           \/ SettlementAnswerLost(p, o)

Publish(p) ==
    \/ PublishRead(p) \/ DeliverAlert(p) \/ DeliverSettlement(p)
    \/ AckFails(p) \/ PublishDone(p) \/ PublisherCrash(p)

Settle(s) == SettleRead(s) \/ SettleCommit(s) \/ SettleAbort(s)

Next ==
    \/ Environment
    \/ \E g \in Generator : Generate(g)
    \/ \E p \in Publisher : Publish(p)
    \/ \E s \in Settler : Settle(s)

Spec == Init /\ [][Next]_vars

\* What the scheduling promises.  run_forever keeps starting cycles and a
\* cycle runs to its end; the settlement job keeps being started, whatever
\* its last call did; a service that stops is restarted.  Telegram is not
\* out of reach forever: a message it would accept, and which is tried over
\* and over, is accepted once.  Nothing is promised of the clock, of the
\* generators, or of how soon anything happens.
Fairness ==
    /\ \A p \in Publisher :
         /\ WF_vars(Publish(p))
         /\ \A o \in Snapshot : SF_vars(SendAlert(p, o)) /\ SF_vars(TellSettlement(p, o))
    /\ \A s \in Settler : WF_vars(SettleRead(s)) /\ WF_vars(SettleCommit(s))

FairSpec == Spec /\ Fairness
-----------------------------------------------------------------------------
(* TelegramRepository: what the admin bot and the `stats` command report,  *)
(* each a query of its own.  A count is the set of signals it counts.      *)

\* analysis_summary
Summary ==
    [predictions |-> {o \in Snapshot : decision[o] # "none"},
     alerts      |-> {o \in Snapshot : decision[o] = "alert"},
     skips       |-> {o \in Snapshot : decision[o] = "skip"}]

\* stats: of the calls in the chat.  A void bet counts as returned.
Stats ==
    LET signals    == {o \in Snapshot : Delivered(o)}
        Ended(how) == {o \in signals : outcome[o] \in how}
    IN  [signals |-> signals,
         wins    |-> Ended({"win"}),
         losses  |-> Ended({"loss"}),
         returns |-> Ended(Rules!SettledOutcome \ {"win", "loss"})]

\* recent_results: settlements, whatever became of their signals.
RecentResults == {o \in Snapshot : outcome[o] # None}

\* system_status: a pending settlement is of a signal that was sent.
Status ==
    [pendingAlerts      |-> {o \in Snapshot : Queued(o)},
     sent               |-> {o \in Snapshot : Delivered(o)},
     pendingSettlements |-> {o \in Snapshot : outcome[o] # None /\ ~notified[o] /\ sentMsg[o] # 0}]
-----------------------------------------------------------------------------
Views == [score : {Rules!Orient(x, b) : x \in Scores, b \in BOOLEAN},
          outcome : Rules!SettledOutcome]

GeneratorState == [open : BOOLEAN, at : Time, cands : SUBSET Snapshot,
                   starts : [Event -> Nat], sides : [Event -> BOOLEAN]]
PublisherState == [pc : {"idle", "sending", "ackAlert", "ackSettlement"},
                   alerts : SUBSET Snapshot, starts : [Event -> Nat],
                   tells : [Snapshot -> Views \cup {None}], cur : Snapshot \cup {None},
                   msg : Nat]
SettlerState   == [open : BOOLEAN, at : Time, rows : [Snapshot -> Scores \cup {None}]]

\* Every variable holds values of its column's domain, and every worker what
\* its reads can return: a settlement that is read has a result beside it.
TypeOK ==
    /\ now \in Time
    /\ received \in [Snapshot -> Time \cup {Never}]
    /\ kickoff \in [Event -> Nat]
    /\ reversed \in [Event -> BOOLEAN]
    /\ result \in [Event -> Scores \cup {None}]
    /\ corrections \in Nat
    /\ decision \in [Snapshot -> {"none", "alert", "skip"}]
    /\ alertKey \in [Snapshot -> Pick \cup {None}]
    /\ frozen \in [Snapshot -> BOOLEAN]
    /\ expiresAt \in [Snapshot -> Int]
    /\ sentMsg \in [Snapshot -> Nat]
    /\ outcome \in [Snapshot -> Rules!SettledOutcome \cup {None}]
    /\ settledAt \in [Snapshot -> Time]
    /\ notified \in [Snapshot -> BOOLEAN]
    /\ posts \in [Snapshot -> Nat]
    /\ edited \in [Snapshot -> Views \cup {None}]
    /\ replies \in [Snapshot -> Nat]
    /\ gen \in [Generator -> GeneratorState]
    /\ pub \in [Publisher -> PublisherState]
    /\ settler \in [Settler -> SettlerState]
    /\ faults \in Nat

(***************************************************************************)
(* Safety.                                                                 *)
(***************************************************************************)

\* No two signals recommend the same bet at once: whatever generators overlap
\* and whatever expires between them, the alerts that are queued or delivered
\* have distinct alert keys.
OneLiveAlertPerPick ==
    \A o, q \in Snapshot :
        decision[o] = "alert" /\ decision[q] = "alert" /\ PickOf(o) = PickOf(q) => o = q

\* The chat shows how the call was settled.
Shown(o) == edited[o] # None \/ replies[o] > 0

\* A settlement row belongs to a signal that is still an alert and has a
\* message in the chat, the chat has messages of signals only, and a settlement
\* is marked as notified only when the chat shows it.
RowsFollowTheChat ==
    \A o \in Snapshot :
        /\ outcome[o] # None => Delivered(o)
        /\ sentMsg[o] <= posts[o]
        /\ posts[o] > 0 => decision[o] # "none"
        /\ notified[o] => outcome[o] # None /\ Shown(o)

\* Accounts count delivered calls only, and the operator's reports, each a
\* query of its own, agree: the statistics count every settlement once and
\* none that the list of results does not show, the calls without one are
\* those the status calls sent, and the settlements the status calls pending
\* are the publisher's queue.
AccountsFollowTheChat ==
    /\ RowsFollowTheChat
    /\ Stats.wins \cup Stats.losses \cup Stats.returns = RecentResults
    /\ Stats.signals = Status.sent
    /\ Status.pendingSettlements = {o \in Snapshot : Unnotified(o)}
    /\ Summary.alerts = Status.pendingAlerts \cup Stats.signals
    /\ Summary.alerts \cup Summary.skips = Summary.predictions

\* What a worker read and still holds is true when it comes to use it, though
\* it holds no lock: rows waiting to be settled are still delivered calls with
\* a result, a message waiting to be acknowledged is in the chat, settlements
\* waiting to be told exist and one waiting to be marked has been shown.
SettlerReadsHold(s) ==
    \A o \in Snapshot : settler[s].rows[o] # None => Delivered(o) /\ result[EventOf[o]] # None
PublisherReadsHold(p) ==
    /\ pub[p].pc = "ackAlert" =>
          pub[p].cur \in Snapshot /\ pub[p].msg \in 1 .. posts[pub[p].cur]
    /\ pub[p].pc = "ackSettlement" =>
          pub[p].cur \in Snapshot /\ outcome[pub[p].cur] # None /\ Shown(pub[p].cur)
    /\ \A o \in pub[p].alerts : decision[o] # "none"
    /\ \A o \in Snapshot : pub[p].tells[o] # None => outcome[o] # None
ReadsStayValid ==
    /\ \A s \in Settler : SettlerReadsHold(s)
    /\ \A p \in Publisher : PublisherReadsHold(p)

\* With one publisher, a delivered call is never demoted: expiry cannot
\* overtake the acknowledgement of a message that is on its way.
DeliveredStaysAlert ==
    \A o \in Snapshot : sentMsg[o] # 0 => decision[o] = "alert"

\* With one publisher, every further message about the same bet is paid for
\* by a lost answer, a failed acknowledgement or a crash: a bet is announced
\* once, and announced again only when the database could not know.
PostsOf(pick) ==
    LET mine == {o \in Snapshot : PickOf(o) = pick}
    IN  {copy \in mine \X (1 .. 2 + MaxFaults) : copy[2] <= posts[copy[1]]}

AnnouncedOncePerFault ==
    \A pick \in Pick : Cardinality(PostsOf(pick)) <= 1 + faults

\* The same of settlement messages, which the edit fallback multiplies.
RepliedOncePerFault == \A o \in Snapshot : replies[o] <= 1 + faults

\* What the chat is shown adds up: the score beside an outcome is one from
\* which that outcome follows, however the matcher reversed the sides since.
\* (Holds while no stored result is corrected.)
ShownScoreExplainsOutcome ==
    \A o \in Snapshot : edited[o] # None =>
        edited[o].outcome = Rules!SettleSignal(BetOf[o], edited[o].score)

\* A settlement is written once: no later run, no concurrent run and no
\* corrected result changes it.
SettlementWrittenOnce ==
    [][\A o \in Snapshot : outcome[o] # None =>
          outcome'[o] = outcome[o] /\ settledAt'[o] = settledAt[o]]_vars

(***************************************************************************)
(* Liveness, under FairSpec.                                               *)
(***************************************************************************)

\* Only the clock keeps a call that Telegram would accept from the chat: in
\* its window it is delivered unless it expires first, or the bookmaker moves
\* its match away, whatever other calls of the queue are refused.
InWindow(o) == Kickoff(o) <= now + Window

QueuedIsSentInTime ==
    \A o \in Snapshot \ Unsendable :
        Queued(o) /\ InWindow(o) ~> ~Queued(o) \/ Overdue(o) \/ ~InWindow(o)

\* A call that expired does not stay queued, and so gives up its alert key.
ExpiredIsDropped == \A o \in Snapshot : Queued(o) /\ expiresAt[o] <= now ~> ~Queued(o)

\* A delivered call whose match has a result is settled.
DeliveredIsSettled ==
    \A o \in Snapshot : Delivered(o) /\ result[EventOf[o]] # None ~> outcome[o] # None

\* A settlement is told to the chat, whatever others are refused.
SettledIsTold == \A o \in Snapshot \ Untellable : outcome[o] # None ~> notified[o]

(***************************************************************************)
(* Refinement: the worker processes together keep the ledger AlertLedger.  *)
(***************************************************************************)

Stage(o) ==
    CASE decision[o] = "none" -> "none"
      [] decision[o] = "skip" -> "skip"
      [] Queued(o)            -> "queued"
      [] Delivered(o) /\ outcome[o] = None -> "delivered"
      [] Delivered(o) /\ outcome[o] # None /\ ~notified[o] -> "settled"
      [] Delivered(o) /\ outcome[o] # None /\ notified[o]  -> "told"

Ledger == INSTANCE AlertLedger WITH
    Call <- Snapshot, Picked <- [o \in Snapshot |-> PickOf(o)],
    stage <- [o \in Snapshot |-> Stage(o)]

\* Whatever the interleaving, losses and crashes, each signal goes through
\* the stages of the ledger one at a time and none backwards.
ImplementsLedger == Ledger!Spec
=============================================================================
