----------------------- MODULE AlertLifecycle_proofs -----------------------
(***************************************************************************)
(* AlertLifecycle proved for every set of snapshots, events and workers.   *)
(***************************************************************************)
EXTENDS AlertLifecycle, FiniteSetTheorems, TLAPS

(***************************************************************************)
(* Who writes what.  Each lemma names the actions of a worker that change  *)
(* some of the tables, so that an invariant needs a step for those only.   *)
(***************************************************************************)

LEMMA EnvironmentFrame ==
    ASSUME Environment
    PROVE  UNCHANGED <<decision, alertKey, frozen, expiresAt, sentMsg, outcome, settledAt, notified,
                       posts, edited, replies, gen, pub, settler, faults>>
  BY DEF Environment, Tick, QuoteArrives, Rematch, Reschedule, ResultArrives,
         signalVars, settleVars, chatVars

LEMMA GenerateFrame ==
    ASSUME NEW g \in Generator, Generate(g)
    PROVE  /\ GenerateCommit(g) \/ UNCHANGED <<decision, alertKey, frozen, expiresAt>>
           /\ UNCHANGED <<now, received, kickoff, reversed, result, corrections, sentMsg, outcome,
                          settledAt, notified, posts, edited, replies, pub, settler>>
  BY DEF Generate, GenerateRead, GenerateCommit, Predicted, SignalOf, GenerateAbort,
         clockVars, bookVars, signalVars, settleVars, chatVars

LEMMA SettleFrame ==
    ASSUME NEW s \in Settler, Settle(s)
    PROVE  /\ SettleCommit(s) \/ UNCHANGED <<outcome, settledAt>>
           /\ UNCHANGED <<now, received, kickoff, reversed, result, corrections, decision, alertKey,
                          frozen, expiresAt, sentMsg, notified, posts, edited, replies, gen, pub>>
  BY DEF Settle, SettleRead, SettleCommit, SettleAbort,
         clockVars, bookVars, signalVars, settleVars, chatVars

LEMMA DeliverAlertFrame ==
    ASSUME NEW p \in Publisher, DeliverAlert(p)
    PROVE  /\ AckAlert(p) \/ UNCHANGED sentMsg
           /\ UNCHANGED <<now, received, kickoff, reversed, result, corrections, decision, alertKey,
                          frozen, expiresAt, outcome, settledAt, notified, edited, replies, gen, settler>>
  BY DEF DeliverAlert, AckAlert, SendAlert, SendAlertFails, SendAlertAnswerLost,
         clockVars, bookVars, signalVars, settleVars, chatVars

LEMMA DeliverSettlementFrame ==
    ASSUME NEW p \in Publisher, DeliverSettlement(p)
    PROVE  /\ AckSettlement(p) \/ UNCHANGED notified
           /\ UNCHANGED <<now, received, kickoff, reversed, result, corrections, decision, alertKey,
                          frozen, expiresAt, sentMsg, outcome, settledAt, posts, gen, settler>>
  BY DEF DeliverSettlement, AckSettlement, TellSettlement, EditSettlement, ReplySettlement,
         SendSettlementFails, SettlementAnswerLost,
         clockVars, bookVars, signalVars, settleVars, chatVars

LEMMA PublishFrame ==
    ASSUME NEW p \in Publisher, Publish(p)
    PROVE  /\ PublishRead(p) \/ UNCHANGED <<decision, alertKey>>
           /\ AckAlert(p) \/ UNCHANGED sentMsg
           /\ AckSettlement(p) \/ UNCHANGED notified
           /\ DeliverAlert(p) \/ UNCHANGED posts
           /\ DeliverSettlement(p) \/ UNCHANGED <<edited, replies>>
           /\ UNCHANGED <<now, received, kickoff, reversed, result, corrections, frozen, expiresAt, outcome,
                          settledAt, gen, settler>>
<1>1. CASE DeliverAlert(p)
  BY <1>1, DeliverAlertFrame
<1>2. CASE DeliverSettlement(p)
  BY <1>2, DeliverSettlementFrame
<1>3. CASE PublishRead(p) \/ AckFails(p) \/ PublishDone(p) \/ PublisherCrash(p)
  BY <1>3 DEF PublishRead, AckFails, PublishDone, PublisherCrash,
              clockVars, bookVars, signalVars, settleVars, chatVars
<1>. QED
  BY <1>1, <1>2, <1>3 DEF Publish

(***************************************************************************)
(* What the rules answer.                                                  *)
(***************************************************************************)

LEMMA OrientType ==
    ASSUME NEW x \in Scores, NEW b \in BOOLEAN
    PROVE  /\ x \in Rules!Score
           /\ Rules!Orient(x, b) \in Rules!Score
  BY ConstantsAssumption DEF Rules!Orient, Rules!Swap, Rules!Score

LEMMA SettledType ==
    ASSUME NEW o \in Snapshot, NEW x \in Rules!Score
    PROVE  Rules!SettleSignal(BetOf[o], x) \in Rules!SettledOutcome
<1>. DEFINE b == BetOf[o]
<1>1. b \in Callable
  BY ConstantsAssumption
<1>2. CASE b.market = "1x2"
  BY <1>1, <1>2 DEF Callable, Rules!Bet, Rules!Score, Rules!SettleSignal, Rules!SettleMarket,
     Rules!MatchResult, Rules!WinIf, Rules!SettledOutcome, Rules!Outcome
<1>3. CASE b.market = "total" /\ b.line # NoLine
  BY <1>1, <1>3 DEF Callable, Rules!Bet, Rules!Score, Rules!SettleSignal, Rules!SettleMarket,
     Rules!Total, Rules!Compare, Rules!SettledOutcome, Rules!Outcome
<1>. QED
  BY <1>1, <1>2, <1>3 DEF Callable

LEMMA ViewType ==
    ASSUME NEW o \in Snapshot, NEW x \in Scores, TypeOK, outcome[o] # None
    PROVE  View(o, x) \in Views
  BY DEF View, Views, TypeOK

(***************************************************************************)
(* Type correctness.  A view that a publisher reads has a score only       *)
(* because a settled match has a result, which stays: the type invariant   *)
(* is inductive together with ResultIsKnown.                               *)
(***************************************************************************)

ResultIsKnown ==
    /\ \A o \in Snapshot : outcome[o] # None => result[EventOf[o]] # None
    /\ \A s \in Settler, o \in Snapshot :
          settler[s].rows[o] # None => result[EventOf[o]] # None

\* TypeOK made inductive.
TypeInv ==
    /\ TypeOK
    /\ ResultIsKnown

LEMMA TypeInit == Init => TypeInv
  BY ConstantsAssumption
  DEF Init, TypeInv, TypeOK, ResultIsKnown, Time, Never, GeneratorState, PublisherState,
      SettlerState, IdleGenerator, IdlePublisher, IdleSettler

LEMMA EnvironmentType ==
    ASSUME TypeInv, Environment
    PROVE  TypeInv'
<1>1. UNCHANGED <<decision, alertKey, frozen, expiresAt, sentMsg, outcome, settledAt, notified,
                  posts, edited, replies, gen, pub, settler, faults>>
  BY EnvironmentFrame
<1>2. /\ now' \in Time
      /\ received' \in [Snapshot -> Time \cup {Never}]
      /\ kickoff' \in [Event -> Nat]
      /\ reversed' \in [Event -> BOOLEAN]
      /\ result' \in [Event -> Scores \cup {None}]
      /\ corrections' \in Nat
      /\ \A e \in Event : result[e] # None => result'[e] # None
  <2>. USE DEF TypeInv, TypeOK
  <2>1. CASE Tick
    BY <2>1, ConstantsAssumption DEF Tick, bookVars, Time
  <2>2. CASE \E o \in Snapshot : QuoteArrives(o)
    BY <2>2 DEF QuoteArrives
  <2>3. CASE \E e \in Event : Rematch(e)
    BY <2>3 DEF Rematch
  <2>4. CASE \E e \in Event : Reschedule(e)
    <3>. PICK e \in Event : Reschedule(e)
      BY <2>4
    <3>. PICK at \in {StartsAt[e], StartsAt[e] + 1} : kickoff' = [kickoff EXCEPT ![e] = at]
      BY DEF Reschedule
    <3>1. at \in Nat
      <4>1. StartsAt[e] \in Nat
        BY ConstantsAssumption
      <4>. QED
        BY <4>1
    <3>2. UNCHANGED <<now, received, reversed, result, corrections>>
      BY DEF Reschedule
    <3>3. kickoff' \in [Event -> Nat]
      BY <3>1
    <3>. QED
      BY <3>2, <3>3
  <2>5. CASE \E e \in Event : ResultArrives(e)
    <3>. PICK e \in Event : ResultArrives(e)
      BY <2>5
    <3>. PICK score \in Scores \ {result[e]} : result' = [result EXCEPT ![e] = score]
      BY DEF ResultArrives
    <3>. score # None
      BY NoneAssumption
    <3>. QED
      BY DEF ResultArrives
  <2>. QED
    BY <2>1, <2>2, <2>3, <2>4, <2>5 DEF Environment
<1>. QED
  BY <1>1, <1>2, ConstantsAssumption DEF TypeInv, TypeOK, ResultIsKnown

LEMMA GenerateType ==
    ASSUME TypeInv, NEW g \in Generator, Generate(g)
    PROVE  TypeInv'
<1>. USE DEF TypeInv, TypeOK
<1>1. gen' \in [Generator -> GeneratorState] /\ faults' \in Nat
  <2>1. IdleGenerator \in GeneratorState
    BY ConstantsAssumption DEF IdleGenerator, GeneratorState, Time
  <2>2. CASE GenerateRead(g)
    <3>. PICK cands \in SUBSET Snapshot :
            gen' = [gen EXCEPT ![g] = [open |-> TRUE, at |-> now,
                                       cands |-> cands, starts |-> kickoff, sides |-> reversed]]
      BY <2>2 DEF GenerateRead
    <3>. [open |-> TRUE, at |-> now, cands |-> cands, starts |-> kickoff, sides |-> reversed] \in GeneratorState
      BY DEF GeneratorState
    <3>. QED
      BY <2>2 DEF GenerateRead
  <2>3. CASE GenerateCommit(g) \/ GenerateAbort(g)
    BY <2>1, <2>3 DEF GenerateCommit, Predicted, SignalOf, GenerateAbort
  <2>. QED
    BY <2>2, <2>3 DEF Generate
<1>2. /\ decision' \in [Snapshot -> {"none", "alert", "skip"}]
      /\ alertKey' \in [Snapshot -> Pick \cup {None}]
      /\ frozen' \in [Snapshot -> BOOLEAN]
      /\ expiresAt' \in [Snapshot -> Int]
  <2>1. CASE GenerateCommit(g)
    <3>1. \A e \in Event : gen[g].sides[e] \in BOOLEAN
      BY DEF GeneratorState
    <3>2. \A o \in Snapshot : DeliverableUntil(g, o) \in Int
      BY ConstantsAssumption DEF DeliverableUntil, Min2, GeneratorState, Never, Time
    <3>. QED
      BY <2>1, <3>1, <3>2, ConstantsAssumption DEF GenerateCommit, Predicted, SignalOf, Pick
  <2>2. CASE UNCHANGED <<decision, alertKey, frozen, expiresAt>>
    BY <2>2
  <2>. QED
    BY <2>1, <2>2, GenerateFrame
<1>. QED
  BY <1>1, <1>2, GenerateFrame DEF ResultIsKnown

LEMMA SettleType ==
    ASSUME TypeInv, NEW s \in Settler, Settle(s)
    PROVE  TypeInv'
<1>. USE DEF TypeInv, TypeOK
<1>1. settler' \in [Settler -> SettlerState] /\ faults' \in Nat
  <2>1. IdleSettler \in SettlerState
    BY ConstantsAssumption DEF IdleSettler, SettlerState, Time
  <2>2. CASE SettleRead(s)
    <3>. DEFINE rows == [o \in Snapshot |-> IF Due(o) THEN result[EventOf[o]] ELSE None]
    <3>. [open |-> TRUE, at |-> now, rows |-> rows] \in SettlerState
      BY ConstantsAssumption DEF SettlerState
    <3>. QED
      BY <2>2 DEF SettleRead
  <2>3. CASE SettleCommit(s) \/ SettleAbort(s)
    BY <2>1, <2>3 DEF SettleCommit, SettleAbort
  <2>. QED
    BY <2>2, <2>3 DEF Settle
<1>2. /\ outcome' \in [Snapshot -> Rules!SettledOutcome \cup {None}]
      /\ settledAt' \in [Snapshot -> Time]
      /\ ResultIsKnown'
  <2>1. CASE SettleCommit(s)
    <3>1. ASSUME NEW o \in Inserted(s)
          PROVE  /\ Settled(o, settler[s].rows[o]) \in Rules!SettledOutcome
                 /\ settler[s].at \in Time
                 /\ result[EventOf[o]] # None
      BY OrientType, SettledType DEF Inserted, Settled, SettlerState, ResultIsKnown
    <3>2. UNCHANGED result
      BY SettleFrame
    <3>. QED
      BY <2>1, <3>1, <3>2 DEF SettleCommit, ResultIsKnown, IdleSettler, Inserted
  <2>2. CASE UNCHANGED <<outcome, settledAt>>
    <3>1. UNCHANGED result
      BY SettleFrame
    <3>. QED
      BY <2>2, <3>1 DEF Settle, SettleRead, SettleCommit, SettleAbort, Due, ResultIsKnown, IdleSettler
  <2>. QED
    BY <2>1, <2>2, SettleFrame
<1>. QED
  BY <1>1, <1>2, SettleFrame

LEMMA PublisherStates ==
    /\ IdlePublisher \in PublisherState
    /\ \A w \in PublisherState :
          /\ Resumed(w) \in PublisherState
          /\ \A o \in Snapshot :
                /\ Passed(w, o) \in PublisherState
                /\ Untold(w, o) \in PublisherState
                /\ Told(w, o) \in PublisherState
                /\ \A msg \in Nat : Sent(w, o, msg) \in PublisherState
<1>1. IdlePublisher \in PublisherState
  BY DEF IdlePublisher, PublisherState
<1>2. ASSUME NEW w \in PublisherState
      PROVE  Resumed(w) \in PublisherState
  BY DEF Resumed, PublisherState
<1>3. ASSUME NEW w \in PublisherState, NEW o \in Snapshot
      PROVE  /\ Passed(w, o) \in PublisherState
             /\ Untold(w, o) \in PublisherState
             /\ Told(w, o) \in PublisherState
             /\ \A msg \in Nat : Sent(w, o, msg) \in PublisherState
  BY DEF Passed, Untold, Told, Sent, PublisherState
<1>. QED
  BY <1>1, <1>2, <1>3

LEMMA PublisherFields ==
    ASSUME NEW w \in PublisherState, NEW o \in Snapshot, NEW msg
    PROVE  /\ Resumed(w).pc = "sending" /\ Resumed(w).alerts = w.alerts
           /\ Resumed(w).tells = w.tells
           /\ Passed(w, o).pc = w.pc /\ Passed(w, o).alerts = w.alerts \ {o}
           /\ Passed(w, o).tells = w.tells
           /\ Sent(w, o, msg).pc = "ackAlert" /\ Sent(w, o, msg).alerts = w.alerts \ {o}
           /\ Sent(w, o, msg).cur = o /\ Sent(w, o, msg).tells = w.tells
           /\ Untold(w, o).pc = w.pc /\ Untold(w, o).alerts = w.alerts
           /\ Told(w, o).pc = "ackSettlement" /\ Told(w, o).alerts = w.alerts
           /\ Told(w, o).cur = o
           /\ IdlePublisher.pc = "idle" /\ IdlePublisher.alerts = {}
           /\ \A q \in Snapshot :
                 /\ Untold(w, o).tells[q] = IF q = o THEN None ELSE w.tells[q]
                 /\ Told(w, o).tells[q] = IF q = o THEN None ELSE w.tells[q]
                 /\ IdlePublisher.tells[q] = None
<1>1. /\ Resumed(w).pc = "sending" /\ Resumed(w).alerts = w.alerts
      /\ Resumed(w).tells = w.tells
  BY DEF Resumed, PublisherState
<1>2. /\ Passed(w, o).pc = w.pc /\ Passed(w, o).alerts = w.alerts \ {o}
      /\ Passed(w, o).tells = w.tells
  BY DEF Passed, PublisherState
<1>3. /\ Sent(w, o, msg).pc = "ackAlert" /\ Sent(w, o, msg).alerts = w.alerts \ {o}
      /\ Sent(w, o, msg).cur = o /\ Sent(w, o, msg).tells = w.tells
  BY DEF Sent, PublisherState
<1>4. /\ Untold(w, o).pc = w.pc /\ Untold(w, o).alerts = w.alerts
      /\ \A q \in Snapshot : Untold(w, o).tells[q] = IF q = o THEN None ELSE w.tells[q]
  BY DEF Untold, PublisherState
<1>5. /\ Told(w, o).pc = "ackSettlement" /\ Told(w, o).alerts = w.alerts
      /\ Told(w, o).cur = o
      /\ \A q \in Snapshot : Told(w, o).tells[q] = IF q = o THEN None ELSE w.tells[q]
  BY DEF Told, PublisherState
<1>6. /\ IdlePublisher.pc = "idle" /\ IdlePublisher.alerts = {}
      /\ \A q \in Snapshot : IdlePublisher.tells[q] = None
  BY DEF IdlePublisher
<1>. QED
  BY <1>1, <1>2, <1>3, <1>4, <1>5, <1>6

LEMMA OpenedState ==
    ASSUME kickoff \in [Event -> Nat],
           NEW alerts \in SUBSET Snapshot, NEW tells \in [Snapshot -> Views \cup {None}]
    PROVE  Opened(alerts, tells) \in PublisherState
  BY DEF Opened, IdlePublisher, PublisherState

LEMMA PublishReadType ==
    ASSUME TypeInv, NEW p \in Publisher, PublishRead(p)
    PROVE  TypeInv'
<1>1. PICK alerts \in SUBSET Snapshot, owed \in SUBSET Snapshot :
         /\ IsHead(owed, {o \in Snapshot : Unnotified(o)}, settledAt)
         /\ pub' = [pub EXCEPT ![p] = Opened(alerts, [o \in Snapshot |->
                       IF o \in owed THEN View(o, result[EventOf[o]]) ELSE None])]
  BY DEF PublishRead
<1>2. [o \in Snapshot |-> IF o \in owed THEN View(o, result[EventOf[o]]) ELSE None]
         \in [Snapshot -> Views \cup {None}]
  <2>1. ASSUME NEW o \in owed
        PROVE  /\ outcome[o] # None
               /\ result[EventOf[o]] \in Scores
    BY <1>1, ConstantsAssumption DEF IsHead, Unnotified, TypeInv, ResultIsKnown, TypeOK
  <2>. QED
    BY <2>1, ViewType DEF TypeInv
<1>3. pub' \in [Publisher -> PublisherState]
  BY <1>1, <1>2, OpenedState DEF TypeInv, TypeOK
<1>4. /\ decision' \in [Snapshot -> {"none", "alert", "skip"}]
      /\ alertKey' \in [Snapshot -> Pick \cup {None}]
  BY DEF PublishRead, TypeInv, TypeOK
<1>5. UNCHANGED <<now, received, kickoff, reversed, result, corrections, frozen, expiresAt, sentMsg, outcome,
                  settledAt, notified, posts, edited, replies, gen, settler, faults>>
  BY DEF PublishRead, clockVars, bookVars, settleVars, chatVars
<1>. QED
  BY <1>3, <1>4, <1>5 DEF TypeInv, TypeOK, ResultIsKnown

LEMMA DeliverAlertType ==
    ASSUME TypeInv, NEW p \in Publisher, DeliverAlert(p)
    PROVE  TypeInv'
<1>1. /\ pub \in [Publisher -> PublisherState] /\ pub[p].msg \in Nat
      /\ sentMsg \in [Snapshot -> Nat]
      /\ posts \in [Snapshot -> Nat]
      /\ faults \in Nat
  BY DEF TypeInv, TypeOK, PublisherState
<1>2. /\ pub' \in [Publisher -> PublisherState]
      /\ sentMsg' \in [Snapshot -> Nat]
      /\ posts' \in [Snapshot -> Nat]
      /\ faults' \in Nat
  <2>1. CASE AckAlert(p)
    BY <1>1, <2>1, PublisherStates DEF AckAlert, chatVars
  <2>2. CASE \E o \in Snapshot : SendAlert(p, o)
    <3>. PICK o \in Snapshot : SendAlert(p, o)
      BY <2>2
    <3>1. pub' \in [Publisher -> PublisherState]
      <4>1. posts[o] + 1 \in Nat
        BY <1>1
      <4>2. Sent(pub[p], o, posts[o] + 1) \in PublisherState
        BY <1>1, <4>1, PublisherStates
      <4>. QED
        BY <1>1, <4>2 DEF SendAlert
    <3>. QED
      BY <1>1, <3>1 DEF SendAlert, signalVars
  <2>3. CASE \E o \in Snapshot : SendAlertFails(p, o)
    <3>. PICK o \in Snapshot : SendAlertFails(p, o)
      BY <2>3
    <3>1. pub' \in [Publisher -> PublisherState]
      BY <1>1, PublisherStates DEF SendAlertFails
    <3>. QED
      BY <1>1, <3>1 DEF SendAlertFails, signalVars, chatVars
  <2>4. CASE \E o \in Snapshot : SendAlertAnswerLost(p, o)
    <3>. PICK o \in Snapshot : SendAlertAnswerLost(p, o)
      BY <2>4
    <3>1. pub' \in [Publisher -> PublisherState]
      BY <1>1, PublisherStates DEF SendAlertAnswerLost
    <3>. QED
      BY <1>1, <3>1 DEF SendAlertAnswerLost, signalVars
  <2>. QED
    BY <2>1, <2>2, <2>3, <2>4 DEF DeliverAlert
<1>. QED
  BY <1>2, DeliverAlertFrame DEF TypeInv, TypeOK, ResultIsKnown

LEMMA DeliverSettlementType ==
    ASSUME TypeInv, NEW p \in Publisher, DeliverSettlement(p)
    PROVE  TypeInv'
<1>1. /\ pub \in [Publisher -> PublisherState]
      /\ \A o \in Snapshot : pub[p].tells[o] \in Views \cup {None}
      /\ notified \in [Snapshot -> BOOLEAN]
      /\ edited \in [Snapshot -> Views \cup {None}]
      /\ replies \in [Snapshot -> Nat]
      /\ faults \in Nat
  BY DEF TypeInv, TypeOK, PublisherState
<1>2. /\ pub' \in [Publisher -> PublisherState]
      /\ notified' \in [Snapshot -> BOOLEAN]
      /\ edited' \in [Snapshot -> Views \cup {None}]
      /\ replies' \in [Snapshot -> Nat]
      /\ faults' \in Nat
  <2>1. CASE AckSettlement(p)
    BY <1>1, <2>1, PublisherStates DEF AckSettlement, chatVars
  <2>2. CASE \E o \in Snapshot : EditSettlement(p, o)
    <3>. PICK o \in Snapshot : EditSettlement(p, o)
      BY <2>2
    <3>1. pub' \in [Publisher -> PublisherState]
      BY <1>1, PublisherStates DEF EditSettlement
    <3>. QED
      BY <1>1, <3>1 DEF EditSettlement, IsNextTell, settleVars
  <2>3. CASE \E o \in Snapshot : ReplySettlement(p, o)
    <3>. PICK o \in Snapshot : ReplySettlement(p, o)
      BY <2>3
    <3>1. pub' \in [Publisher -> PublisherState]
      BY <1>1, PublisherStates DEF ReplySettlement
    <3>. QED
      BY <1>1, <3>1 DEF ReplySettlement, settleVars
  <2>4. CASE \E o \in Snapshot : SendSettlementFails(p, o)
    <3>. PICK o \in Snapshot : SendSettlementFails(p, o)
      BY <2>4
    <3>1. pub' \in [Publisher -> PublisherState]
      BY <1>1, PublisherStates DEF SendSettlementFails
    <3>. QED
      BY <1>1, <3>1 DEF SendSettlementFails, settleVars, chatVars
  <2>5. CASE \E o \in Snapshot : SettlementAnswerLost(p, o)
    <3>. PICK o \in Snapshot : SettlementAnswerLost(p, o)
      BY <2>5
    <3>1. \/ pub' = [pub EXCEPT ![p] = Told(@, o)]
          \/ pub' = [pub EXCEPT ![p] = Untold(@, o)]
      BY DEF SettlementAnswerLost
    <3>2. pub' \in [Publisher -> PublisherState]
      <4>1. Told(pub[p], o) \in PublisherState /\ Untold(pub[p], o) \in PublisherState
        BY <1>1, PublisherStates
      <4>. QED
        BY <1>1, <3>1, <4>1
    <3>. QED
      BY <1>1, <3>2 DEF SettlementAnswerLost, settleVars
  <2>. QED
    BY <2>1, <2>2, <2>3, <2>4, <2>5 DEF DeliverSettlement, TellSettlement
<1>. QED
  BY <1>2, DeliverSettlementFrame DEF TypeInv, TypeOK, ResultIsKnown

LEMMA PublishType ==
    ASSUME TypeInv, NEW p \in Publisher, Publish(p)
    PROVE  TypeInv'
<1>1. CASE AckFails(p) \/ PublishDone(p) \/ PublisherCrash(p)
  <2>1. pub' \in [Publisher -> PublisherState] /\ faults' \in Nat
    BY <1>1, PublisherStates DEF AckFails, PublishDone, PublisherCrash, TypeInv, TypeOK
  <2>. QED
    BY <1>1, <2>1 DEF AckFails, PublishDone, PublisherCrash, TypeInv, TypeOK, ResultIsKnown,
                      clockVars, bookVars, signalVars, settleVars, chatVars
<1>. QED
  BY <1>1, PublishReadType, DeliverAlertType, DeliverSettlementType DEF Publish

LEMMA TypeStep ==
    ASSUME TypeInv, [Next]_vars
    PROVE  TypeInv'
<1>1. CASE UNCHANGED vars
  BY <1>1 DEF TypeInv, TypeOK, ResultIsKnown, vars, clockVars, bookVars, signalVars,
              settleVars, chatVars
<1>. QED
  BY <1>1, EnvironmentType, GenerateType, SettleType, PublishType DEF Next

LEMMA Typed == Spec => []TypeInv
  BY TypeInit, TypeStep, PTL DEF Spec

\* Every variable keeps the values of its column's domain.
THEOREM TypeCorrect == Spec => []TypeOK
<1>1. TypeInv => TypeOK
  BY DEF TypeInv
<1>. QED
  BY <1>1, Typed, PTL

(***************************************************************************)
(* One live alert per bet.  A generator's insert looks at alert keys, not  *)
(* at decisions: the invariant needs that every alert has its key.         *)
(***************************************************************************)

KeyNamesPick == \A o \in Snapshot : decision[o] = "alert" => alertKey[o] = PickOf(o)

OneLiveInv == OneLiveAlertPerPick /\ KeyNamesPick

LEMMA GenerateCommitOneLive ==
    ASSUME TypeOK, OneLiveInv, NEW g \in Generator, GenerateCommit(g)
    PROVE  OneLiveInv'
<1>. DEFINE mine == {o \in gen[g].cands : decision[o] = "none"}
<1>1. PICK called \in SUBSET {o \in mine : Timely(g, o)} :
         /\ OnePerEvent(called)
         /\ decision' = [o \in Snapshot |->
               IF o \in {c \in called : Insertable(c)} THEN "alert"
               ELSE IF o \in mine THEN "skip" ELSE decision[o]]
         /\ alertKey' = [o \in Snapshot |->
               IF o \in {c \in called : Insertable(c)} THEN PickOf(o) ELSE alertKey[o]]
  BY DEF GenerateCommit, Predicted, SignalOf
<1>. DEFINE alerts == {c \in called : Insertable(c)}
<1>2. \A o \in Snapshot : decision'[o] = "alert" => o \in alerts \/ decision[o] = "alert"
  BY <1>1
<1>3. KeyNamesPick'
  BY <1>1, <1>2 DEF OneLiveInv, KeyNamesPick, PickOf
<1>4. ASSUME NEW o \in Snapshot, NEW q \in Snapshot, PickOf(o) = PickOf(q),
             decision'[o] = "alert", decision'[q] = "alert"
      PROVE  o = q
  <2>1. CASE o \in alerts /\ q \in alerts
    BY <1>1, <1>4, <2>1 DEF OnePerEvent, PickOf
  <2>2. ASSUME NEW a \in alerts, NEW b \in Snapshot, decision[b] = "alert",
               PickOf(a) = PickOf(b)
        PROVE  FALSE
    BY <2>2 DEF OneLiveInv, KeyNamesPick, Insertable
  <2>3. CASE decision[o] = "alert" /\ decision[q] = "alert"
    BY <1>4, <2>3 DEF OneLiveInv, OneLiveAlertPerPick
  <2>. QED
    BY <1>2, <1>4, <2>1, <2>2, <2>3
<1>5. OneLiveAlertPerPick'
  BY <1>4 DEF OneLiveAlertPerPick, PickOf
<1>. QED
  BY <1>3, <1>5 DEF OneLiveInv

LEMMA PublishReadOneLive ==
    ASSUME TypeOK, OneLiveInv, NEW p \in Publisher, PublishRead(p)
    PROVE  OneLiveInv'
<1>1. \A o \in Snapshot : decision'[o] = "alert" => decision[o] = "alert" /\ ~Expired(o)
  BY DEF PublishRead, TypeOK
<1>2. \A o \in Snapshot : ~Expired(o) => alertKey'[o] = alertKey[o]
  BY DEF PublishRead, TypeOK
<1>. QED
  BY <1>1, <1>2 DEF OneLiveInv, OneLiveAlertPerPick, KeyNamesPick, PickOf

LEMMA OneLiveStep ==
    ASSUME TypeOK, OneLiveInv, [Next]_vars
    PROVE  OneLiveInv'
<1>1. CASE UNCHANGED <<decision, alertKey>>
  BY <1>1 DEF OneLiveInv, OneLiveAlertPerPick, KeyNamesPick, PickOf
<1>2. CASE \E g \in Generator : GenerateCommit(g)
  BY <1>2, GenerateCommitOneLive
<1>3. CASE \E p \in Publisher : PublishRead(p)
  BY <1>3, PublishReadOneLive
<1>4. UNCHANGED vars => UNCHANGED <<decision, alertKey>>
  BY DEF vars, signalVars
<1>. QED
  BY <1>1, <1>2, <1>3, <1>4, EnvironmentFrame, GenerateFrame, SettleFrame, PublishFrame
  DEF Next

\* Whatever generators overlap, and whatever publishers expire between them,
\* queued and delivered alerts recommend distinct bets.
THEOREM OneLive == Spec => []OneLiveAlertPerPick
<1>1. Init => OneLiveInv
  BY DEF Init, OneLiveInv, OneLiveAlertPerPick, KeyNamesPick
<1>2. OneLiveInv => OneLiveAlertPerPick
  BY DEF OneLiveInv
<1>. QED
  BY <1>1, <1>2, OneLiveStep, TypeCorrect, PTL DEF Spec

(***************************************************************************)
(* Accounts.  What a worker acts on was read earlier; it is still true     *)
(* because a delivered call stays one, a result stays, and what the chat   *)
(* has been shown is not taken away.                                       *)
(***************************************************************************)

BooksInv == RowsFollowTheChat /\ ReadsStayValid

LEMMA ResultStays ==
    ASSUME TypeOK, [Next]_vars
    PROVE  \A e \in Event : result[e] # None => result'[e] # None
<1>1. ASSUME NEW e \in Event, ResultArrives(e)
      PROVE  \A d \in Event : result[d] # None => result'[d] # None
  BY <1>1, NoneAssumption DEF ResultArrives, TypeOK
<1>2. UNCHANGED vars => UNCHANGED result
  BY DEF vars, bookVars
<1>3. Environment => UNCHANGED result \/ \E e \in Event : ResultArrives(e)
  BY DEF Environment, Tick, QuoteArrives, Rematch, Reschedule, bookVars
<1>. QED
  BY <1>1, <1>2, <1>3, GenerateFrame, SettleFrame, PublishFrame DEF Next

LEMMA DecidedStays ==
    ASSUME TypeOK, [Next]_vars
    PROVE  \A o \in Snapshot : decision[o] # "none" => decision'[o] # "none"
<1>1. ASSUME NEW g \in Generator, GenerateCommit(g)
      PROVE  \A o \in Snapshot : decision[o] # "none" => decision'[o] # "none"
  BY <1>1 DEF GenerateCommit, Predicted, SignalOf
<1>2. ASSUME NEW p \in Publisher, PublishRead(p)
      PROVE  \A o \in Snapshot : decision[o] # "none" => decision'[o] # "none"
  BY <1>2 DEF PublishRead
<1>3. UNCHANGED vars => UNCHANGED decision
  BY DEF vars, signalVars
<1>. QED
  BY <1>1, <1>2, <1>3, EnvironmentFrame, GenerateFrame, SettleFrame, PublishFrame DEF Next

LEMMA DeliveredStays ==
    ASSUME TypeOK, BooksInv, [Next]_vars
    PROVE  \A o \in Snapshot : Delivered(o) => Delivered(o)'
<1>1. \A o \in Snapshot : Delivered(o) => decision'[o] = "alert"
  <2>1. ASSUME NEW g \in Generator, GenerateCommit(g)
        PROVE  \A o \in Snapshot : decision[o] = "alert" => decision'[o] = "alert"
    BY <2>1 DEF GenerateCommit, Predicted, SignalOf
  <2>2. ASSUME NEW p \in Publisher, PublishRead(p)
        PROVE  \A o \in Snapshot : Delivered(o) => decision'[o] = "alert"
    BY <2>2 DEF PublishRead, Expired, Queued, Delivered
  <2>3. UNCHANGED vars => UNCHANGED decision
    BY DEF vars, signalVars
  <2>. QED
    BY <2>1, <2>2, <2>3, EnvironmentFrame, GenerateFrame, SettleFrame, PublishFrame
    DEF Next, Delivered
<1>2. \A o \in Snapshot : sentMsg[o] # 0 => sentMsg'[o] # 0
  <2>1. ASSUME NEW p \in Publisher, AckAlert(p)
        PROVE  \A o \in Snapshot : sentMsg[o] # 0 => sentMsg'[o] # 0
    BY <2>1 DEF AckAlert, BooksInv, ReadsStayValid, PublisherReadsHold, TypeOK
  <2>2. UNCHANGED vars => UNCHANGED sentMsg
    BY DEF vars, signalVars
  <2>. QED
    BY <2>1, <2>2, EnvironmentFrame, GenerateFrame, SettleFrame, PublishFrame DEF Next
<1>. QED
  BY <1>1, <1>2 DEF Delivered

LEMMA ChatGrows ==
    ASSUME TypeOK, [Next]_vars
    PROVE  \A o \in Snapshot : /\ posts'[o] \in Nat /\ posts[o] <= posts'[o]
                               /\ Shown(o) => Shown(o)'
<1>1. ASSUME NEW p \in Publisher, DeliverAlert(p)
      PROVE  \A o \in Snapshot : posts'[o] \in Nat /\ posts[o] <= posts'[o]
  BY <1>1 DEF DeliverAlert, AckAlert, SendAlert, SendAlertFails, SendAlertAnswerLost, chatVars,
              TypeOK
<1>2. ASSUME NEW p \in Publisher, DeliverSettlement(p)
      PROVE  \A o \in Snapshot : Shown(o) => Shown(o)'
  <2>1. CASE AckSettlement(p)
    BY <2>1 DEF AckSettlement, chatVars, Shown
  <2>2. CASE \E o \in Snapshot : EditSettlement(p, o)
    BY <2>2 DEF EditSettlement, IsNextTell, Shown, TypeOK
  <2>3. CASE \E o \in Snapshot : ReplySettlement(p, o)
    BY <2>3 DEF ReplySettlement, Shown, TypeOK
  <2>4. CASE \E o \in Snapshot : SendSettlementFails(p, o)
    BY <2>4 DEF SendSettlementFails, chatVars, Shown
  <2>5. CASE \E o \in Snapshot : SettlementAnswerLost(p, o)
    BY <2>5 DEF SettlementAnswerLost, IsNextTell, Shown, TypeOK
  <2>. QED
    BY <1>2, <2>1, <2>2, <2>3, <2>4, <2>5 DEF DeliverSettlement, TellSettlement
<1>3. UNCHANGED vars => UNCHANGED <<posts, edited, replies>>
  BY DEF vars, chatVars
<1>4. ASSUME UNCHANGED posts
      PROVE  \A o \in Snapshot : posts'[o] \in Nat /\ posts[o] <= posts'[o]
  BY <1>4 DEF TypeOK
<1>5. ASSUME UNCHANGED <<edited, replies>>
      PROVE  \A o \in Snapshot : Shown(o) => Shown(o)'
  BY <1>5 DEF Shown
<1>. QED
  BY <1>1, <1>2, <1>3, <1>4, <1>5, EnvironmentFrame, GenerateFrame, SettleFrame, PublishFrame,
     DeliverAlertFrame, DeliverSettlementFrame DEF Next

LEMMA OutcomeStays ==
    ASSUME TypeOK, [Next]_vars
    PROVE  \A o \in Snapshot : outcome[o] # None =>
              outcome'[o] = outcome[o] /\ settledAt'[o] = settledAt[o]
<1>1. ASSUME NEW s \in Settler, SettleCommit(s)
      PROVE  \A o \in Snapshot : outcome[o] # None =>
                outcome'[o] = outcome[o] /\ settledAt'[o] = settledAt[o]
  BY <1>1 DEF SettleCommit, Inserted
<1>2. UNCHANGED vars => UNCHANGED <<outcome, settledAt>>
  BY DEF vars, settleVars
<1>. QED
  BY <1>1, <1>2, EnvironmentFrame, GenerateFrame, SettleFrame, PublishFrame DEF Next

LEMMA AccountsStep ==
    ASSUME TypeOK, BooksInv, [Next]_vars
    PROVE  RowsFollowTheChat'
<1>. USE DEF BooksInv, RowsFollowTheChat
<1>1. ASSUME NEW o \in Snapshot, outcome'[o] # None
      PROVE  Delivered(o)'
  <2>1. ASSUME NEW s \in Settler, SettleCommit(s), outcome[o] = None
        PROVE  Delivered(o)
    BY <1>1, <2>1 DEF SettleCommit, Inserted, ReadsStayValid, SettlerReadsHold
  <2>2. UNCHANGED vars => UNCHANGED outcome
    BY DEF vars, settleVars
  <2>. QED
    BY <1>1, <2>1, <2>2, DeliveredStays, EnvironmentFrame, GenerateFrame, SettleFrame,
       PublishFrame DEF Next
<1>2. ASSUME NEW o \in Snapshot
      PROVE  sentMsg'[o] <= posts'[o]
  <2>1. posts[o] <= posts'[o] /\ posts[o] \in Nat /\ sentMsg[o] \in Nat
    BY ChatGrows DEF TypeOK
  <2>2. ASSUME NEW p \in Publisher, AckAlert(p)
        PROVE  sentMsg'[o] <= posts'[o]
    <3>1. pub[p].msg \in 1 .. posts[pub[p].cur]
      BY <2>2 DEF AckAlert, ReadsStayValid, PublisherReadsHold
    <3>2. UNCHANGED posts
      BY <2>2 DEF AckAlert, chatVars
    <3>. QED
      BY <2>1, <2>2, <3>1, <3>2 DEF AckAlert, TypeOK
  <2>3. ASSUME UNCHANGED sentMsg
        PROVE  sentMsg'[o] <= posts'[o]
    <3>1. posts'[o] \in Int
      BY ChatGrows
    <3>. QED
      BY <2>1, <2>3, <3>1
  <2>4. UNCHANGED vars => UNCHANGED sentMsg
    BY DEF vars, signalVars
  <2>. QED
    BY <2>2, <2>3, <2>4, EnvironmentFrame, GenerateFrame, SettleFrame, PublishFrame DEF Next
<1>3. ASSUME NEW o \in Snapshot, notified'[o]
      PROVE  outcome'[o] # None /\ Shown(o)'
  <2>1. ASSUME NEW p \in Publisher, AckSettlement(p), ~notified[o]
        PROVE  outcome[o] # None /\ Shown(o)
    BY <1>3, <2>1 DEF AckSettlement, ReadsStayValid, PublisherReadsHold, TypeOK
  <2>2. outcome[o] # None /\ Shown(o)
    <3>1. UNCHANGED vars => UNCHANGED notified
      BY DEF vars, settleVars
    <3>. QED
      BY <1>3, <2>1, <3>1, EnvironmentFrame, GenerateFrame, SettleFrame, PublishFrame DEF Next
  <2>. QED
    BY <2>2, OutcomeStays, ChatGrows
<1>4. ASSUME NEW o \in Snapshot, posts'[o] > 0
      PROVE  decision[o] # "none"
  <2>1. CASE UNCHANGED posts
    BY <1>4, <2>1
  <2>2. ASSUME NEW p \in Publisher, DeliverAlert(p)
        PROVE  decision[o] # "none"
    <3>1. \A q \in pub[p].alerts : decision[q] # "none"
      BY DEF ReadsStayValid, PublisherReadsHold
    <3>2. CASE o \in pub[p].alerts
      BY <3>1, <3>2
    <3>3. CASE o \notin pub[p].alerts
      BY <1>4, <2>1, <2>2, <3>3 DEF DeliverAlert, AckAlert, SendAlert, SendAlertFails,
         SendAlertAnswerLost, IsNextAlert, chatVars, TypeOK
    <3>. QED
      BY <3>2, <3>3
  <2>3. UNCHANGED vars => UNCHANGED posts
    BY DEF vars, chatVars
  <2>. QED
    BY <2>1, <2>2, <2>3, EnvironmentFrame, GenerateFrame, SettleFrame, PublishFrame DEF Next
<1>. QED
  BY <1>1, <1>2, <1>3, <1>4, DecidedStays

LEMMA SettlerReadsStep ==
    ASSUME TypeOK, BooksInv, [Next]_vars, NEW s \in Settler
    PROVE  SettlerReadsHold(s)'
<1>1. ASSUME NEW o \in Snapshot, settler'[s].rows[o] # None
      PROVE  Delivered(o) /\ result[EventOf[o]] # None
  <2>1. CASE UNCHANGED settler[s].rows[o]
    BY <1>1, <2>1 DEF BooksInv, ReadsStayValid, SettlerReadsHold
  <2>2. ASSUME NEW t \in Settler, SettleRead(t)
        PROVE  Delivered(o) /\ result[EventOf[o]] # None
    BY <1>1, <2>1, <2>2 DEF SettleRead, Due, TypeOK
  <2>3. ASSUME NEW t \in Settler, SettleCommit(t) \/ SettleAbort(t)
        PROVE  UNCHANGED settler[s].rows[o]
    BY <1>1, <2>3 DEF SettleCommit, SettleAbort, IdleSettler, TypeOK
  <2>4. UNCHANGED vars => UNCHANGED settler
    BY DEF vars
  <2>. QED
    BY <2>1, <2>2, <2>3, <2>4, EnvironmentFrame, GenerateFrame, PublishFrame DEF Next, Settle
<1>. QED
  BY <1>1, DeliveredStays, ResultStays, ConstantsAssumption DEF SettlerReadsHold

LEMMA OwnReadsStep ==
    ASSUME TypeOK, BooksInv, NEW p \in Publisher, Publish(p)
    PROVE  /\ pub'[p].pc = "ackAlert" =>
                 pub'[p].cur \in Snapshot /\ pub'[p].msg \in 1 .. posts'[pub'[p].cur]
           /\ pub'[p].pc = "ackSettlement" =>
                 pub'[p].cur \in Snapshot /\ outcome[pub'[p].cur] # None /\ Shown(pub[p].cur)'
           /\ \A o \in pub'[p].alerts : o \in Snapshot /\ decision[o] # "none"
           /\ \A o \in Snapshot : pub'[p].tells[o] # None => outcome[o] # None
<1>1. /\ pub \in [Publisher -> PublisherState]
      /\ pub[p] \in PublisherState
      /\ pub[p].tells \in [Snapshot -> Views \cup {None}]
      /\ posts \in [Snapshot -> Nat]
      /\ edited \in [Snapshot -> Views \cup {None}]
      /\ replies \in [Snapshot -> Nat]
  BY DEF TypeOK, PublisherState
<1>2. /\ \A o \in pub[p].alerts : o \in Snapshot /\ decision[o] # "none"
      /\ \A o \in Snapshot : pub[p].tells[o] # None => outcome[o] # None
  BY <1>1 DEF BooksInv, ReadsStayValid, PublisherReadsHold, PublisherState
<1>3. CASE PublishRead(p)
  <2>1. PICK alerts \in SUBSET Snapshot, owed \in SUBSET Snapshot :
           /\ IsHead(alerts, {o \in Snapshot : Pending(o)}, [o \in Snapshot |-> Kickoff(o)])
           /\ IsHead(owed, {o \in Snapshot : Unnotified(o)}, settledAt)
           /\ pub' = [pub EXCEPT ![p] = Opened(alerts, [o \in Snapshot |->
                         IF o \in owed THEN View(o, result[EventOf[o]]) ELSE None])]
    BY <1>3 DEF PublishRead
  <2>2. \A o \in owed : outcome[o] # None
    BY <2>1 DEF IsHead, Unnotified
  <2>3. \A o \in alerts : decision[o] # "none"
    BY <2>1 DEF IsHead, Pending, Queued
  <2>. QED
    BY <1>1, <2>1, <2>2, <2>3 DEF Opened, IdlePublisher
<1>4. CASE AckAlert(p) \/ AckSettlement(p) \/ AckFails(p)
  <2>1. pub' = [pub EXCEPT ![p] = Resumed(@)]
    BY <1>4 DEF AckAlert, AckSettlement, AckFails
  <2>2. /\ Resumed(pub[p]).pc = "sending" /\ Resumed(pub[p]).tells = pub[p].tells
        /\ Resumed(pub[p]).alerts = pub[p].alerts
    BY <1>1 DEF Resumed, PublisherState
  <2>. QED
    BY <1>1, <1>2, <2>1, <2>2
<1>5. CASE PublishDone(p) \/ PublisherCrash(p)
  BY <1>1, <1>5 DEF PublishDone, PublisherCrash, IdlePublisher
<1>6. ASSUME NEW o \in Snapshot, SendAlert(p, o)
      PROVE  /\ pub'[p].pc = "ackAlert" /\ pub'[p].cur = o /\ pub'[p].tells = pub[p].tells
             /\ pub'[p].alerts \subseteq pub[p].alerts
             /\ pub'[p].msg \in 1 .. posts'[o]
  BY <1>1, <1>6 DEF SendAlert, Sent, PublisherState
<1>7. ASSUME NEW o \in Snapshot, SendAlertFails(p, o) \/ SendAlertAnswerLost(p, o)
      PROVE  /\ pub'[p].pc = "sending" /\ pub'[p].tells = pub[p].tells
             /\ pub'[p].alerts \subseteq pub[p].alerts
  BY <1>1, <1>7 DEF SendAlertFails, SendAlertAnswerLost, IsNextAlert, Passed, PublisherState
<1>8. CASE DeliverAlert(p)
  BY <1>2, <1>4, <1>6, <1>7, <1>8 DEF DeliverAlert
<1>9. ASSUME NEW o \in Snapshot, IsNextTell(p, o), pub' = [pub EXCEPT ![p] = Untold(@, o)]
      PROVE  /\ pub'[p].pc = "sending" /\ pub'[p].alerts = pub[p].alerts
             /\ \A q \in Snapshot : pub'[p].tells[q] # None => outcome[q] # None
  BY <1>1, <1>2, <1>9 DEF IsNextTell, Untold, PublisherState
<1>10. ASSUME NEW o \in Snapshot, IsNextTell(p, o), pub' = [pub EXCEPT ![p] = Told(@, o)]
       PROVE  /\ pub'[p].pc = "ackSettlement" /\ pub'[p].cur = o /\ outcome[o] # None
              /\ pub'[p].alerts = pub[p].alerts
              /\ \A q \in Snapshot : pub'[p].tells[q] # None => outcome[q] # None
  BY <1>1, <1>2, <1>10 DEF IsNextTell, Told, PublisherState
<1>11. ASSUME NEW o \in Snapshot, EditSettlement(p, o) \/ ReplySettlement(p, o)
       PROVE  pub' = [pub EXCEPT ![p] = Told(@, o)] /\ IsNextTell(p, o) /\ Shown(o)'
  BY <1>1, <1>11 DEF EditSettlement, ReplySettlement, IsNextTell, Shown
<1>12. ASSUME NEW o \in Snapshot, SettlementAnswerLost(p, o)
       PROVE  /\ IsNextTell(p, o)
              /\ \/ pub' = [pub EXCEPT ![p] = Told(@, o)] /\ Shown(o)'
                 \/ pub' = [pub EXCEPT ![p] = Untold(@, o)]
  BY <1>1, <1>12 DEF SettlementAnswerLost, IsNextTell, Shown
<1>13. ASSUME NEW o \in Snapshot, SendSettlementFails(p, o)
       PROVE  IsNextTell(p, o) /\ pub' = [pub EXCEPT ![p] = Untold(@, o)]
  BY <1>13 DEF SendSettlementFails
<1>14. CASE DeliverSettlement(p)
  <2>1. CASE AckSettlement(p)
    BY <1>4, <2>1
  <2>2. CASE \E o \in Snapshot : EditSettlement(p, o) \/ ReplySettlement(p, o)
    BY <1>2, <1>10, <1>11, <2>2
  <2>3. CASE \E o \in Snapshot : SendSettlementFails(p, o)
    BY <1>2, <1>9, <1>13, <2>3
  <2>4. CASE \E o \in Snapshot : SettlementAnswerLost(p, o)
    <3>. PICK o \in Snapshot : SettlementAnswerLost(p, o)
      BY <2>4
    <3>. QED
      BY <1>2, <1>9, <1>10, <1>12
  <2>. QED
    BY <1>14, <2>1, <2>2, <2>3, <2>4 DEF DeliverSettlement, TellSettlement
<1>. QED
  BY <1>3, <1>4, <1>5, <1>8, <1>14 DEF Publish

LEMMA PublisherReadsStep ==
    ASSUME TypeOK, BooksInv, [Next]_vars, NEW p \in Publisher
    PROVE  PublisherReadsHold(p)'
<1>1. CASE UNCHANGED pub[p]
  <2>1. PublisherReadsHold(p)
    BY DEF BooksInv, ReadsStayValid
  <2>2. /\ \A o \in Snapshot : posts[o] \in Nat
        /\ pub[p].msg \in Nat /\ pub[p].alerts \subseteq Snapshot
    BY DEF TypeOK, PublisherState
  <2>. QED
    BY <1>1, <2>1, <2>2, ChatGrows, OutcomeStays, DecidedStays DEF PublisherReadsHold, Shown
<1>2. CASE Publish(p)
  BY <1>2, OwnReadsStep, PublishFrame, OutcomeStays, DecidedStays DEF PublisherReadsHold, Shown
<1>3. ASSUME NEW q \in Publisher, Publish(q), q # p
      PROVE  UNCHANGED pub[p]
  <2>. PICK w : pub' = [pub EXCEPT ![q] = w]
    BY <1>3 DEF Publish, PublishRead, DeliverAlert, AckAlert, SendAlert, SendAlertFails,
       SendAlertAnswerLost, DeliverSettlement, AckSettlement, TellSettlement, EditSettlement,
       ReplySettlement, SendSettlementFails, SettlementAnswerLost, AckFails, PublishDone,
       PublisherCrash
  <2>. QED
    BY <1>3 DEF TypeOK
<1>4. UNCHANGED vars => UNCHANGED pub
  BY DEF vars
<1>. QED
  BY <1>1, <1>2, <1>3, <1>4, EnvironmentFrame, GenerateFrame, SettleFrame DEF Next

LEMMA BooksStep ==
    ASSUME TypeOK, BooksInv, [Next]_vars
    PROVE  BooksInv'
  BY AccountsStep, SettlerReadsStep, PublisherReadsStep DEF BooksInv, ReadsStayValid

LEMMA BooksInit == Init => BooksInv
  BY DEF Init, BooksInv, RowsFollowTheChat, ReadsStayValid, SettlerReadsHold,
         PublisherReadsHold, IdleSettler, IdlePublisher

LEMMA Books == Spec => []BooksInv
  BY BooksInit, BooksStep, TypeCorrect, PTL DEF Spec

\* Accounts count delivered calls only, a settlement is marked as told only
\* when the chat shows it, and the reports of the operator agree: a settlement
\* that no report misses is one of a delivered call.
THEOREM Accounts == Spec => []AccountsFollowTheChat
<1>1. TypeOK /\ BooksInv => AccountsFollowTheChat
  <2>. SUFFICES ASSUME TypeOK, BooksInv
                PROVE  AccountsFollowTheChat
    OBVIOUS
  <2>1. RowsFollowTheChat
    BY DEF BooksInv
  <2>2. Stats.wins \cup Stats.losses \cup Stats.returns = RecentResults
    <3>1. \A o \in Snapshot : outcome[o] # None <=>
                 Delivered(o) /\ \/ outcome[o] \in {"win"} \/ outcome[o] \in {"loss"}
                                 \/ outcome[o] \in Rules!SettledOutcome \ {"win", "loss"}
      BY <2>1, NoneAssumption
      DEF RowsFollowTheChat, TypeOK, Rules!SettledOutcome, Rules!Outcome
    <3>. QED
      BY <3>1 DEF Stats, RecentResults
  <2>3. Stats.signals = Status.sent
    BY DEF Stats, Status
  <2>4. Status.pendingSettlements = {o \in Snapshot : Unnotified(o)}
    BY <2>1 DEF Status, Unnotified, RowsFollowTheChat, Delivered
  <2>5. Summary.alerts = Status.pendingAlerts \cup Stats.signals
    BY DEF Summary, Status, Stats, Queued, Delivered
  <2>6. Summary.alerts \cup Summary.skips = Summary.predictions
    BY DEF Summary, TypeOK
  <2>. QED
    BY <2>1, <2>2, <2>3, <2>4, <2>5, <2>6 DEF AccountsFollowTheChat
<1>. QED
  BY <1>1, Books, TypeCorrect, PTL

\* What a settler or a publisher read and still holds is true when it is used.
THEOREM Reads == Spec => []ReadsStayValid
<1>1. BooksInv => ReadsStayValid
  BY DEF BooksInv
<1>. QED
  BY <1>1, Books, PTL

\* No step changes a settlement that is written.
THEOREM SettledForGood == Spec => SettlementWrittenOnce
<1>1. TypeOK /\ [Next]_vars =>
         [\A o \in Snapshot : outcome[o] # None =>
             outcome'[o] = outcome[o] /\ settledAt'[o] = settledAt[o]]_vars
  BY OutcomeStays
<1>. QED
  BY <1>1, TypeCorrect, PTL DEF Spec, SettlementWrittenOnce

(***************************************************************************)
(* One publisher.  A delivered call stays an alert because a signal is     *)
(* only ever demoted by the transaction that opens a cycle, and with one   *)
(* publisher no message is on its way then.                                *)
(***************************************************************************)

OnePublisher == \A p, q \in Publisher : p = q

OnItsWay ==
    \A p \in Publisher :
        /\ pub[p].pc = "ackAlert" => decision[pub[p].cur] = "alert"
        /\ \A o \in pub[p].alerts : decision[o] = "alert"

CycleInv == DeliveredStaysAlert /\ OnItsWay

LEMMA AlertStays ==
    ASSUME TypeOK, [Next]_vars, \A p \in Publisher : ~PublishRead(p)
    PROVE  \A o \in Snapshot : decision[o] = "alert" => decision'[o] = "alert"
<1>1. ASSUME NEW g \in Generator, GenerateCommit(g)
      PROVE  \A o \in Snapshot : decision[o] = "alert" => decision'[o] = "alert"
  BY <1>1 DEF GenerateCommit, Predicted, SignalOf
<1>2. UNCHANGED vars => UNCHANGED decision
  BY DEF vars, signalVars
<1>. QED
  BY <1>1, <1>2, EnvironmentFrame, GenerateFrame, SettleFrame, PublishFrame DEF Next

LEMMA PublishReadCycle ==
    ASSUME TypeOK, CycleInv, OnePublisher, NEW p \in Publisher, PublishRead(p)
    PROVE  CycleInv'
<1>1. PICK alerts \in SUBSET Snapshot :
         /\ \A o \in alerts : Pending(o)
         /\ \E tells : pub' = [pub EXCEPT ![p] = Opened(alerts, tells)]
  BY DEF PublishRead, IsHead
<1>2. pub'[p].pc = "sending" /\ pub'[p].alerts = alerts
  BY <1>1 DEF TypeOK, Opened, IdlePublisher
<1>3. \A o \in Snapshot : decision[o] = "alert" /\ ~Expired(o) => decision'[o] = "alert"
  BY DEF PublishRead
<1>4. UNCHANGED sentMsg
  BY DEF PublishRead
<1>5. DeliveredStaysAlert'
  BY <1>3, <1>4 DEF CycleInv, DeliveredStaysAlert, Expired, Queued
<1>6. OnItsWay'
  BY <1>1, <1>2, <1>3 DEF OnItsWay, OnePublisher, Pending, Queued, Expired
<1>. QED
  BY <1>5, <1>6 DEF CycleInv

LEMMA PublishCycle ==
    ASSUME TypeOK, ReadsStayValid, CycleInv, OnePublisher,
           NEW p \in Publisher, Publish(p), ~PublishRead(p)
    PROVE  CycleInv'
<1>1. /\ pub \in [Publisher -> PublisherState]
      /\ pub[p] \in PublisherState
      /\ sentMsg \in [Snapshot -> Nat]
  BY DEF TypeOK
<1>2. /\ UNCHANGED decision
      /\ AckAlert(p) \/ UNCHANGED sentMsg
  BY PublishFrame
<1>3. /\ pub[p].pc = "ackAlert" => pub[p].cur \in Snapshot /\ decision[pub[p].cur] = "alert"
      /\ \A o \in pub[p].alerts : decision[o] = "alert"
  BY DEF CycleInv, OnItsWay, ReadsStayValid, PublisherReadsHold
<1>4. DeliveredStaysAlert'
  BY <1>1, <1>2, <1>3 DEF CycleInv, DeliveredStaysAlert, AckAlert
<1>5. /\ pub'[p].alerts \subseteq pub[p].alerts
      /\ pub'[p].pc = "ackAlert" => pub'[p].cur \in pub[p].alerts
  <2>1. CASE AckAlert(p) \/ AckSettlement(p) \/ AckFails(p)
    <3>1. pub'[p] = Resumed(pub[p])
      BY <1>1, <2>1 DEF AckAlert, AckSettlement, AckFails
    <3>2. Resumed(pub[p]).pc = "sending" /\ Resumed(pub[p]).alerts = pub[p].alerts
      BY <1>1 DEF Resumed, PublisherState
    <3>. QED
      BY <3>1, <3>2
  <2>2. CASE PublishDone(p) \/ PublisherCrash(p)
    <3>1. pub'[p] = IdlePublisher
      BY <1>1, <2>2 DEF PublishDone, PublisherCrash
    <3>. QED
      BY <3>1 DEF IdlePublisher
  <2>3. ASSUME NEW o \in Snapshot,
               SendAlert(p, o) \/ SendAlertFails(p, o) \/ SendAlertAnswerLost(p, o)
        PROVE  /\ pub'[p].alerts \subseteq pub[p].alerts
               /\ pub'[p].pc = "ackAlert" => pub'[p].cur \in pub[p].alerts
    <3>1. /\ pub[p].pc = "sending" /\ o \in pub[p].alerts
          /\ pub'[p] = Passed(pub[p], o) \/ pub'[p] = Sent(pub[p], o, posts[o] + 1)
      BY <1>1, <2>3 DEF SendAlert, SendAlertFails, SendAlertAnswerLost, IsNextAlert
    <3>. QED
      BY <1>1, <3>1, PublisherFields
  <2>4. ASSUME NEW o \in Snapshot,
               IsNextTell(p, o),
               pub' = [pub EXCEPT ![p] = Told(@, o)] \/ pub' = [pub EXCEPT ![p] = Untold(@, o)]
        PROVE  pub'[p].alerts = pub[p].alerts /\ pub'[p].pc # "ackAlert"
    <3>1. /\ pub[p].pc = "sending"
          /\ pub'[p] = Told(pub[p], o) \/ pub'[p] = Untold(pub[p], o)
      BY <1>1, <2>4 DEF IsNextTell
    <3>. QED
      BY <1>1, <3>1, PublisherFields
  <2>5. ASSUME NEW o \in Snapshot,
               \/ EditSettlement(p, o) \/ ReplySettlement(p, o)
               \/ SendSettlementFails(p, o) \/ SettlementAnswerLost(p, o)
        PROVE  pub'[p].alerts = pub[p].alerts /\ pub'[p].pc # "ackAlert"
    BY <2>4, <2>5 DEF EditSettlement, ReplySettlement, SendSettlementFails, SettlementAnswerLost
  <2>. QED
    BY <2>1, <2>2, <2>3, <2>5 DEF Publish, DeliverAlert, DeliverSettlement, TellSettlement
<1>6. OnItsWay'
  BY <1>2, <1>3, <1>5 DEF OnItsWay, OnePublisher
<1>. QED
  BY <1>4, <1>6 DEF CycleInv

LEMMA CycleStep ==
    ASSUME TypeOK, ReadsStayValid, CycleInv, OnePublisher, [Next]_vars
    PROVE  CycleInv'
<1>1. CASE \E p \in Publisher : Publish(p)
  BY <1>1, PublishReadCycle, PublishCycle
<1>2. ASSUME UNCHANGED <<pub, sentMsg>>, \A p \in Publisher : ~PublishRead(p)
      PROVE  CycleInv'
  <2>1. \A o \in Snapshot : decision[o] = "alert" => decision'[o] = "alert"
    BY <1>2, AlertStays
  <2>2. ReadsStayValid /\ \A p \in Publisher : pub[p].alerts \subseteq Snapshot
    BY DEF TypeOK, PublisherState
  <2>. QED
    BY <1>2, <2>1, <2>2
    DEF CycleInv, DeliveredStaysAlert, OnItsWay, ReadsStayValid, PublisherReadsHold
<1>3. UNCHANGED vars => UNCHANGED <<pub, sentMsg>>
  BY DEF vars, signalVars
<1>. QED
  BY <1>1, <1>2, <1>3, EnvironmentFrame, GenerateFrame, SettleFrame DEF Next, Publish

LEMMA Cycles ==
    ASSUME OnePublisher
    PROVE  Spec => []CycleInv
<1>1. Init => CycleInv
  BY DEF Init, CycleInv, DeliveredStaysAlert, OnItsWay, IdlePublisher
<1>2. TypeOK /\ ReadsStayValid /\ CycleInv /\ [Next]_vars => CycleInv'
  BY CycleStep
<1>. QED
  BY <1>1, <1>2, TypeCorrect, Reads, PTL DEF Spec

\* With one publisher, as the telegram service runs it, no delivered call is
\* demoted, however often it is restarted: expiry cannot overtake the
\* acknowledgement of a message that is on its way.
THEOREM StaysAlert ==
    ASSUME OnePublisher
    PROVE  Spec => []DeliveredStaysAlert
<1>1. CycleInv => DeliveredStaysAlert
  BY DEF CycleInv
<1>. QED
  BY <1>1, Cycles, PTL

(***************************************************************************)
(* What the chat is shown, while no stored result is corrected: a result   *)
(* that was read is the one on file, an outcome follows from it in the     *)
(* orientation frozen at the decision, and so does a view of the two.      *)
(***************************************************************************)

Explains(o, view) == view.outcome = Rules!SettleSignal(BetOf[o], view.score)

ScoreInv ==
    /\ \A s \in Settler, o \in Snapshot :
          settler[s].rows[o] # None => settler[s].rows[o] = result[EventOf[o]]
    /\ \A o \in Snapshot : outcome[o] # None => outcome[o] = Settled(o, result[EventOf[o]])
    /\ \A p \in Publisher, o \in Snapshot :
          pub[p].tells[o] # None => Explains(o, pub[p].tells[o])
    /\ \A o \in Snapshot : edited[o] # None => Explains(o, edited[o])

LEMMA ResultKept ==
    ASSUME TypeOK, MaxCorrections = 0, [Next]_vars
    PROVE  \A e \in Event : result[e] # None => result'[e] = result[e]
<1>1. ASSUME NEW e \in Event, ResultArrives(e)
      PROVE  \A d \in Event : result[d] # None => result'[d] = result[d]
  <2>1. result[e] = None
    BY <1>1 DEF ResultArrives, TypeOK
  <2>. QED
    BY <1>1, <2>1 DEF ResultArrives, TypeOK
<1>2. UNCHANGED vars => UNCHANGED result
  BY DEF vars, bookVars
<1>3. Environment => UNCHANGED result \/ \E e \in Event : ResultArrives(e)
  BY DEF Environment, Tick, QuoteArrives, Rematch, Reschedule, bookVars
<1>. QED
  BY <1>1, <1>2, <1>3, GenerateFrame, SettleFrame, PublishFrame DEF Next

LEMMA FrozenStays ==
    ASSUME [Next]_vars
    PROVE  \A o \in Snapshot : decision[o] # "none" => frozen'[o] = frozen[o]
<1>1. ASSUME NEW g \in Generator, GenerateCommit(g)
      PROVE  \A o \in Snapshot : decision[o] # "none" => frozen'[o] = frozen[o]
  BY <1>1 DEF GenerateCommit, Predicted
<1>2. UNCHANGED vars => UNCHANGED frozen
  BY DEF vars, signalVars
<1>. QED
  BY <1>1, <1>2, EnvironmentFrame, GenerateFrame, SettleFrame, PublishFrame DEF Next

LEMMA RowsScore ==
    ASSUME TypeInv, ScoreInv, MaxCorrections = 0, [Next]_vars,
           NEW s \in Settler, NEW o \in Snapshot, settler'[s].rows[o] # None
    PROVE  settler'[s].rows[o] = result'[EventOf[o]]
<1>1. /\ settler \in [Settler -> SettlerState]
      /\ EventOf[o] \in Event
      /\ settler[s].rows[o] # None => result[EventOf[o]] # None
  BY ConstantsAssumption DEF TypeInv, TypeOK, ResultIsKnown
<1>2. settler'[s].rows[o] = result[EventOf[o]] /\ result[EventOf[o]] # None
  <2>1. CASE UNCHANGED settler[s].rows[o]
    BY <1>1, <2>1 DEF ScoreInv
  <2>2. ASSUME NEW t \in Settler, SettleRead(t)
        PROVE  \/ UNCHANGED settler[s].rows[o]
               \/ settler'[s].rows[o] = result[EventOf[o]] /\ result[EventOf[o]] # None
    BY <1>1, <2>2 DEF SettleRead, Due
  <2>3. ASSUME NEW t \in Settler, SettleCommit(t) \/ SettleAbort(t)
        PROVE  UNCHANGED settler[s].rows[o]
    BY <1>1, <2>3 DEF SettleCommit, SettleAbort, IdleSettler
  <2>4. UNCHANGED vars => UNCHANGED settler
    BY DEF vars
  <2>. QED
    BY <2>1, <2>2, <2>3, <2>4, EnvironmentFrame, GenerateFrame, PublishFrame DEF Next, Settle
<1>. QED
  BY <1>1, <1>2, ResultKept DEF TypeInv

LEMMA OutcomeScore ==
    ASSUME TypeInv, BooksInv, ScoreInv, MaxCorrections = 0, [Next]_vars,
           NEW o \in Snapshot, outcome'[o] # None
    PROVE  outcome'[o] = Settled(o, result[EventOf[o]])'
<1>1. ASSUME NEW s \in Settler, SettleCommit(s), outcome[o] = None
      PROVE  /\ settler[s].rows[o] # None
             /\ outcome'[o] = Settled(o, settler[s].rows[o])
  BY <1>1 DEF SettleCommit, Inserted
<1>2. /\ outcome'[o] = Settled(o, result[EventOf[o]])
      /\ result[EventOf[o]] # None
      /\ decision[o] # "none"
  <2>1. CASE outcome[o] # None
    BY <2>1, OutcomeStays DEF ScoreInv, TypeInv, ResultIsKnown, BooksInv, RowsFollowTheChat, Delivered
  <2>2. CASE outcome[o] = None
    <3>1. PICK s \in Settler : SettleCommit(s)
      <4>1. UNCHANGED vars => UNCHANGED outcome
        BY DEF vars, settleVars
      <4>. QED
        BY <2>2, <4>1, EnvironmentFrame, GenerateFrame, SettleFrame, PublishFrame DEF Next
    <3>2. Delivered(o) /\ result[EventOf[o]] # None
      BY <1>1, <2>2, <3>1 DEF BooksInv, ReadsStayValid, SettlerReadsHold
    <3>. QED
      BY <1>1, <2>2, <3>1, <3>2 DEF ScoreInv, Delivered
  <2>. QED
    BY <2>1, <2>2
<1>3. frozen'[o] = frozen[o] /\ result'[EventOf[o]] = result[EventOf[o]]
  BY <1>2, FrozenStays, ResultKept, ConstantsAssumption DEF TypeInv
<1>. QED
  BY <1>2, <1>3 DEF Settled

LEMMA ViewExplains ==
    ASSUME ScoreInv, NEW o \in Snapshot, outcome[o] # None
    PROVE  Explains(o, View(o, result[EventOf[o]]))
  BY DEF ScoreInv, Explains, View, Settled

LEMMA TellsExplain ==
    ASSUME TypeOK, ScoreInv, NEW p \in Publisher, Publish(p),
           NEW q \in Publisher, NEW o \in Snapshot, pub'[q].tells[o] # None
    PROVE  Explains(o, pub'[q].tells[o])
<1>1. /\ pub \in [Publisher -> PublisherState]
      /\ pub[p] \in PublisherState
      /\ pub[p].tells \in [Snapshot -> Views \cup {None}]
  BY DEF TypeOK, PublisherState
<1>2. CASE pub'[q].tells[o] = pub[q].tells[o]
  BY <1>2 DEF ScoreInv
<1>3. CASE PublishRead(p)
  <2>1. PICK alerts \in SUBSET Snapshot, owed \in SUBSET Snapshot :
           /\ IsHead(owed, {x \in Snapshot : Unnotified(x)}, settledAt)
           /\ pub' = [pub EXCEPT ![p] = Opened(alerts, [x \in Snapshot |->
                         IF x \in owed THEN View(x, result[EventOf[x]]) ELSE None])]
    BY <1>3 DEF PublishRead
  <2>2. o \in owed => outcome[o] # None
    BY <2>1 DEF IsHead, Unnotified
  <2>3. q = p => pub'[q].tells[o] = (IF o \in owed THEN View(o, result[EventOf[o]]) ELSE None)
    BY <1>1, <2>1 DEF Opened, IdlePublisher
  <2>4. q # p => pub'[q].tells[o] = pub[q].tells[o]
    BY <1>1, <2>1
  <2>. QED
    BY <1>2, <2>2, <2>3, <2>4, ViewExplains
<1>4. ASSUME NEW w \in PublisherState, pub' = [pub EXCEPT ![p] = w],
             \A x \in Snapshot : w.tells[x] # None => w.tells[x] = pub[p].tells[x]
      PROVE  pub'[q].tells[o] = pub[q].tells[o]
  BY <1>1, <1>4
<1>5. CASE ~PublishRead(p)
  <2>1. PICK w \in PublisherState :
           /\ pub' = [pub EXCEPT ![p] = w]
           /\ \A x \in Snapshot : w.tells[x] # None => w.tells[x] = pub[p].tells[x]
    <3>1. CASE AckAlert(p) \/ AckSettlement(p) \/ AckFails(p)
      <4>1. pub' = [pub EXCEPT ![p] = Resumed(pub[p])]
        BY <3>1 DEF AckAlert, AckSettlement, AckFails
      <4>2. Resumed(pub[p]) \in PublisherState /\ Resumed(pub[p]).tells = pub[p].tells
        BY <1>1, PublisherStates DEF Resumed, PublisherState
      <4>. QED
        BY <4>1, <4>2
    <3>2. CASE PublishDone(p) \/ PublisherCrash(p)
      BY <1>1, <3>2, PublisherStates DEF PublishDone, PublisherCrash, IdlePublisher
    <3>3. ASSUME NEW x \in Snapshot, NEW msg \in Nat
          PROVE  /\ Passed(pub[p], x) \in PublisherState /\ Passed(pub[p], x).tells = pub[p].tells
                 /\ Sent(pub[p], x, msg) \in PublisherState /\ Sent(pub[p], x, msg).tells = pub[p].tells
                 /\ Untold(pub[p], x) \in PublisherState
                 /\ \A y \in Snapshot : Untold(pub[p], x).tells[y] # None =>
                                          Untold(pub[p], x).tells[y] = pub[p].tells[y]
                 /\ Told(pub[p], x) \in PublisherState
                 /\ \A y \in Snapshot : Told(pub[p], x).tells[y] # None =>
                                          Told(pub[p], x).tells[y] = pub[p].tells[y]
      BY <1>1, PublisherStates, PublisherFields
    <3>4. \A x \in Snapshot : posts[x] + 1 \in Nat
      BY DEF TypeOK
    <3>5. ASSUME NEW x \in Snapshot,
                 \/ SendAlert(p, x) \/ SendAlertFails(p, x) \/ SendAlertAnswerLost(p, x)
                 \/ EditSettlement(p, x) \/ ReplySettlement(p, x)
                 \/ SendSettlementFails(p, x) \/ SettlementAnswerLost(p, x)
          PROVE  \/ pub' = [pub EXCEPT ![p] = Passed(@, x)]
                 \/ pub' = [pub EXCEPT ![p] = Sent(@, x, posts[x] + 1)]
                 \/ pub' = [pub EXCEPT ![p] = Untold(@, x)]
                 \/ pub' = [pub EXCEPT ![p] = Told(@, x)]
      BY <3>5 DEF SendAlert, SendAlertFails, SendAlertAnswerLost, EditSettlement, ReplySettlement,
         SendSettlementFails, SettlementAnswerLost
    <3>6. CASE \E x \in Snapshot :
                 \/ SendAlert(p, x) \/ SendAlertFails(p, x) \/ SendAlertAnswerLost(p, x)
                 \/ EditSettlement(p, x) \/ ReplySettlement(p, x)
                 \/ SendSettlementFails(p, x) \/ SettlementAnswerLost(p, x)
      BY <3>3, <3>4, <3>5, <3>6
    <3>. QED
      BY <1>5, <3>1, <3>2, <3>6 DEF Publish, DeliverAlert, DeliverSettlement, TellSettlement
  <2>. QED
    BY <1>1, <1>2, <2>1
<1>. QED
  BY <1>3, <1>5

LEMMA EditedExplains ==
    ASSUME TypeOK, ScoreInv, [Next]_vars, NEW o \in Snapshot, edited'[o] # None
    PROVE  Explains(o, edited'[o])
<1>1. CASE UNCHANGED edited
  BY <1>1 DEF ScoreInv
<1>2. ASSUME NEW p \in Publisher, NEW x \in Snapshot, IsNextTell(p, x),
             edited' = [edited EXCEPT ![x] = pub[p].tells[x]]
      PROVE  Explains(o, edited'[o])
  BY <1>2 DEF ScoreInv, IsNextTell, TypeOK
<1>3. ASSUME NEW p \in Publisher, DeliverSettlement(p), ~UNCHANGED edited
      PROVE  \E x \in Snapshot : IsNextTell(p, x) /\ edited' = [edited EXCEPT ![x] = pub[p].tells[x]]
  BY <1>3 DEF DeliverSettlement, AckSettlement, TellSettlement, EditSettlement, ReplySettlement,
     SendSettlementFails, SettlementAnswerLost, chatVars
<1>4. UNCHANGED vars => UNCHANGED edited
  BY DEF vars, chatVars
<1>. QED
  BY <1>1, <1>2, <1>3, <1>4, EnvironmentFrame, GenerateFrame, SettleFrame, PublishFrame DEF Next

LEMMA ScoreStep ==
    ASSUME TypeInv, BooksInv, ScoreInv, MaxCorrections = 0, [Next]_vars
    PROVE  ScoreInv'
<1>1. ASSUME NEW q \in Publisher, NEW o \in Snapshot, pub'[q].tells[o] # None
      PROVE  Explains(o, pub'[q].tells[o])
  <2>1. CASE \E p \in Publisher : Publish(p)
    BY <1>1, <2>1, TellsExplain DEF TypeInv
  <2>2. CASE UNCHANGED pub
    BY <1>1, <2>2 DEF ScoreInv
  <2>3. UNCHANGED vars => UNCHANGED pub
    BY DEF vars
  <2>. QED
    BY <2>1, <2>2, <2>3, EnvironmentFrame, GenerateFrame, SettleFrame DEF Next
<1>2. \A s \in Settler, o \in Snapshot :
         settler'[s].rows[o] # None => settler'[s].rows[o] = result'[EventOf[o]]
  BY RowsScore
<1>3. \A o \in Snapshot : outcome'[o] # None => outcome'[o] = Settled(o, result[EventOf[o]])'
  BY OutcomeScore
<1>4. \A o \in Snapshot : edited'[o] # None => Explains(o, edited'[o])
  BY EditedExplains DEF TypeInv
<1>5. \A q \in Publisher, o \in Snapshot : (pub[q].tells[o] # None => Explains(o, pub[q].tells[o]))'
  BY <1>1 DEF Explains
<1>6. \A o \in Snapshot : (edited[o] # None => Explains(o, edited[o]))'
  BY <1>4 DEF Explains
<1>. QED
  BY <1>2, <1>3, <1>5, <1>6 DEF ScoreInv

\* While no stored result is corrected, the score a settlement message shows
\* beside an outcome is one from which that outcome follows, whenever the
\* matcher turned the sides and whichever cycle told it.
THEOREM ShownScore ==
    ASSUME MaxCorrections = 0
    PROVE  Spec => []ShownScoreExplainsOutcome
<1>1. Init => ScoreInv
  BY DEF Init, ScoreInv, IdlePublisher, IdleSettler
<1>2. TypeInv /\ BooksInv /\ ScoreInv /\ [Next]_vars => ScoreInv'
  BY ScoreStep
<1>3. ScoreInv => ShownScoreExplainsOutcome
  BY DEF ScoreInv, ShownScoreExplainsOutcome, Explains
<1>. QED
  BY <1>1, <1>2, <1>3, Typed, Books, PTL DEF Spec

(***************************************************************************)
(* Settlement messages.  With one publisher a further reply is paid for by *)
(* a fault: what is to be told is not notified yet, and a message that was *)
(* accepted is either being acknowledged, or notified, or cost a fault.    *)
(***************************************************************************)

Acknowledging(o) == \E p \in Publisher : pub[p].pc = "ackSettlement" /\ pub[p].cur = o

PaidFor(o) ==
    \/ replies[o] <= faults
    \/ (notified[o] \/ Acknowledging(o)) /\ replies[o] <= 1 + faults

TellsAreNew ==
    \A p \in Publisher :
        /\ \A o \in Snapshot : pub[p].tells[o] # None => ~notified[o]
        /\ pub[p].pc = "ackSettlement" => pub[p].tells[pub[p].cur] = None

RepliesInv == TellsAreNew /\ \A o \in Snapshot : PaidFor(o)

LEMMA FaultsGrow ==
    ASSUME TypeOK, [Next]_vars
    PROVE  faults' \in Nat /\ faults <= faults'
<1>1. faults \in Nat
  BY DEF TypeOK
<1>2. ASSUME NEW p \in Publisher, Publish(p)
      PROVE  faults' = faults \/ faults' = faults + 1
  BY <1>2 DEF Publish, PublishRead, DeliverAlert, AckAlert, SendAlert, SendAlertFails,
     SendAlertAnswerLost, DeliverSettlement, AckSettlement, TellSettlement, EditSettlement,
     ReplySettlement, SendSettlementFails, SettlementAnswerLost, AckFails, PublishDone,
     PublisherCrash
<1>3. ASSUME NEW g \in Generator, Generate(g)
      PROVE  faults' = faults \/ faults' = faults + 1
  BY <1>3 DEF Generate, GenerateRead, GenerateCommit, GenerateAbort
<1>4. ASSUME NEW s \in Settler, Settle(s)
      PROVE  faults' = faults \/ faults' = faults + 1
  BY <1>4 DEF Settle, SettleRead, SettleCommit, SettleAbort
<1>5. UNCHANGED vars => faults' = faults
  BY DEF vars
<1>6. faults' = faults \/ faults' = faults + 1
  BY <1>2, <1>3, <1>4, <1>5, EnvironmentFrame DEF Next
<1>. QED
  BY <1>1, <1>6

LEMMA PublishReadReplies ==
    ASSUME TypeOK, RepliesInv, OnePublisher, NEW p \in Publisher, PublishRead(p)
    PROVE  RepliesInv'
<1>1. PICK alerts \in SUBSET Snapshot, owed \in SUBSET Snapshot :
         /\ IsHead(owed, {o \in Snapshot : Unnotified(o)}, settledAt)
         /\ pub' = [pub EXCEPT ![p] = Opened(alerts, [o \in Snapshot |->
                       IF o \in owed THEN View(o, result[EventOf[o]]) ELSE None])]
  BY DEF PublishRead
<1>2. /\ pub'[p].pc = "sending" /\ pub[p].pc = "idle"
      /\ \A o \in Snapshot : pub'[p].tells[o] # None => o \in owed
  BY <1>1 DEF PublishRead, TypeOK, Opened, IdlePublisher
<1>3. UNCHANGED <<notified, replies, faults>>
  BY DEF PublishRead, settleVars, chatVars
<1>4. TellsAreNew'
  BY <1>1, <1>2, <1>3 DEF TellsAreNew, OnePublisher, IsHead, Unnotified
<1>5. \A o \in Snapshot : ~Acknowledging(o)
  BY <1>2 DEF Acknowledging, OnePublisher
<1>6. \A o \in Snapshot : PaidFor(o)'
  BY <1>3, <1>5 DEF PaidFor, RepliesInv
<1>. QED
  BY <1>4, <1>6 DEF RepliesInv

LEMMA DeliverSettlementReplies ==
    ASSUME TypeOK, RepliesInv, OnePublisher, NEW p \in Publisher, DeliverSettlement(p)
    PROVE  RepliesInv'
<1>1. /\ pub \in [Publisher -> PublisherState]
      /\ pub[p] \in PublisherState
      /\ replies \in [Snapshot -> Nat] /\ faults \in Nat
      /\ notified \in [Snapshot -> BOOLEAN]
  BY DEF TypeOK
<1>2. /\ \A o \in Snapshot : pub[p].tells[o] # None => ~notified[o]
      /\ pub[p].pc = "ackSettlement" => pub[p].tells[pub[p].cur] = None
      /\ \A o \in Snapshot : PaidFor(o)
  BY DEF RepliesInv, TellsAreNew
<1>3. CASE AckSettlement(p)
  <2>1. /\ pub'[p] = Resumed(pub[p]) /\ pub[p].pc = "ackSettlement"
        /\ notified' = [notified EXCEPT ![pub[p].cur] = TRUE]
        /\ UNCHANGED <<replies, faults>>
    BY <1>1, <1>3 DEF AckSettlement, chatVars
  <2>2. pub'[p].pc = "sending" /\ pub'[p].tells = pub[p].tells
    BY <1>1, <2>1 DEF Resumed, PublisherState
  <2>3. \A o \in Snapshot : (pub[p].tells[o] # None) => ~notified'[o]
    BY <1>1, <1>2, <2>1
  <2>4. TellsAreNew'
    BY <2>2, <2>3 DEF TellsAreNew, OnePublisher
  <2>5. \A o \in Snapshot : Acknowledging(o) => o = pub[p].cur
    BY DEF Acknowledging, OnePublisher
  <2>6. \A o \in Snapshot : notified[o] \/ o = pub[p].cur => notified'[o]
    BY <1>1, <2>1
  <2>7. \A o \in Snapshot : PaidFor(o)'
    BY <1>2, <2>1, <2>5, <2>6 DEF PaidFor
  <2>. QED
    BY <2>4, <2>7 DEF RepliesInv
<1>4. ASSUME NEW o \in Snapshot, IsNextTell(p, o), UNCHANGED notified,
             \/ pub'[p] = Told(pub[p], o)
             \/ pub'[p] = Untold(pub[p], o)
      PROVE  /\ TellsAreNew'
             /\ \A q \in Snapshot : ~Acknowledging(q)
             /\ pub'[p] = Told(pub[p], o) => Acknowledging(o)'
  <2>1. pub[p].pc = "sending"
    BY <1>4 DEF IsNextTell
  <2>2. /\ pub'[p].pc = "sending" \/ (pub'[p].pc = "ackSettlement" /\ pub'[p].cur = o)
        /\ \A q \in Snapshot : pub'[p].tells[q] # None => pub[p].tells[q] # None
        /\ pub'[p].tells[o] = None
        /\ pub'[p] = Told(pub[p], o) => pub'[p].pc = "ackSettlement" /\ pub'[p].cur = o
    BY <1>1, <1>4, <2>1, PublisherFields
  <2>3. TellsAreNew'
    BY <1>2, <1>4, <2>2 DEF TellsAreNew, OnePublisher
  <2>4. \A q \in Snapshot : ~Acknowledging(q)
    BY <2>1 DEF Acknowledging, OnePublisher
  <2>5. pub'[p] = Told(pub[p], o) => Acknowledging(o)'
    BY <2>2 DEF Acknowledging
  <2>. QED
    BY <2>3, <2>4, <2>5
<1>5. ASSUME NEW o \in Snapshot, IsNextTell(p, o)
      PROVE  ~notified[o] /\ (~Acknowledging(o) => replies[o] <= faults)
  BY <1>2, <1>5 DEF IsNextTell, PaidFor
<1>6. ASSUME NEW o \in Snapshot, IsNextTell(p, o), UNCHANGED notified,
             \/ pub'[p] = Told(pub[p], o)
             \/ pub'[p] = Untold(pub[p], o),
             \/ UNCHANGED replies /\ faults' \in {faults, faults + 1}
             \/ /\ replies' = [replies EXCEPT ![o] = @ + 1]
                /\ \/ faults' = faults + 1
                   \/ faults' = faults /\ pub'[p] = Told(pub[p], o)
      PROVE  RepliesInv'
  <2>1. \A q \in Snapshot : ~Acknowledging(q)
    BY <1>4, <1>6
  <2>2. ASSUME NEW q \in Snapshot
        PROVE  PaidFor(q)'
    <3>1. replies[q] <= faults \/ (notified[q] /\ replies[q] <= 1 + faults)
      <4>1. PaidFor(q) /\ ~Acknowledging(q)
        BY <1>2, <2>1
      <4>. QED
        BY <4>1 DEF PaidFor
    <3>2. replies[q] \in Nat /\ faults \in Nat /\ notified'[q] = notified[q]
      BY <1>1, <1>6
    <3>3. CASE UNCHANGED replies /\ faults' \in {faults, faults + 1}
      BY <3>1, <3>2, <3>3 DEF PaidFor
    <3>4. CASE q # o /\ faults' \in {faults, faults + 1}
               /\ replies' = [replies EXCEPT ![o] = @ + 1]
      <4>1. replies'[q] = replies[q]
        BY <1>1, <3>4
      <4>. QED
        BY <3>1, <3>2, <3>4, <4>1 DEF PaidFor
    <3>5. CASE q = o /\ replies' = [replies EXCEPT ![o] = @ + 1]
      <4>1. replies'[o] = replies[o] + 1 /\ replies[o] <= faults
        BY <1>1, <1>5, <1>6, <2>1, <3>5
      <4>2. CASE faults' = faults + 1
        BY <3>2, <3>5, <4>1, <4>2 DEF PaidFor
      <4>3. CASE faults' = faults /\ pub'[p] = Told(pub[p], o)
        BY <1>4, <1>6, <3>2, <3>5, <4>1, <4>3 DEF PaidFor
      <4>. QED
        BY <1>6, <3>5, <4>2, <4>3, <3>3
    <3>. QED
      BY <1>6, <3>3, <3>4, <3>5
  <2>. QED
    BY <1>4, <1>6, <2>2 DEF RepliesInv
<1>7. ASSUME NEW o \in Snapshot, EditSettlement(p, o) \/ ReplySettlement(p, o)
      PROVE  /\ IsNextTell(p, o) /\ UNCHANGED <<notified, faults>>
             /\ pub'[p] = Told(pub[p], o)
             /\ UNCHANGED replies \/ replies' = [replies EXCEPT ![o] = @ + 1]
  BY <1>1, <1>7 DEF EditSettlement, ReplySettlement, settleVars
<1>8. ASSUME NEW o \in Snapshot, SendSettlementFails(p, o)
      PROVE  /\ IsNextTell(p, o) /\ UNCHANGED <<notified, faults, replies>>
             /\ pub'[p] = Untold(pub[p], o)
  BY <1>1, <1>8 DEF SendSettlementFails, settleVars, chatVars
<1>9. ASSUME NEW o \in Snapshot, SettlementAnswerLost(p, o)
      PROVE  /\ IsNextTell(p, o) /\ UNCHANGED notified /\ faults' = faults + 1
             /\ pub'[p] = Told(pub[p], o) \/ pub'[p] = Untold(pub[p], o)
             /\ UNCHANGED replies \/ replies' = [replies EXCEPT ![o] = @ + 1]
  BY <1>1, <1>9 DEF SettlementAnswerLost, settleVars
<1>10. CASE \E o \in Snapshot : EditSettlement(p, o) \/ ReplySettlement(p, o)
  BY <1>6, <1>7, <1>10
<1>11. CASE \E o \in Snapshot : SendSettlementFails(p, o)
  BY <1>6, <1>8, <1>11
<1>12. CASE \E o \in Snapshot : SettlementAnswerLost(p, o)
  BY <1>6, <1>9, <1>12
<1>. QED
  BY <1>3, <1>10, <1>11, <1>12 DEF DeliverSettlement, TellSettlement

LEMMA OtherPublishReplies ==
    ASSUME TypeOK, RepliesInv, OnePublisher, NEW p \in Publisher,
           DeliverAlert(p) \/ AckFails(p) \/ PublishDone(p) \/ PublisherCrash(p)
    PROVE  RepliesInv'
<1>1. /\ pub \in [Publisher -> PublisherState]
      /\ pub[p] \in PublisherState
      /\ replies \in [Snapshot -> Nat] /\ faults \in Nat
  BY DEF TypeOK
<1>2. UNCHANGED <<notified, replies>>
  BY DEF DeliverAlert, AckAlert, SendAlert, SendAlertFails, SendAlertAnswerLost, AckFails,
     PublishDone, PublisherCrash, settleVars, chatVars
<1>3. /\ pub'[p].pc # "ackSettlement"
      /\ \A o \in Snapshot : pub'[p].tells[o] # None => pub[p].tells[o] # None
      /\ pub[p].pc # "ackSettlement" \/ faults' = faults + 1
      /\ faults' \in {faults, faults + 1}
  <2>1. CASE AckAlert(p) \/ AckFails(p)
    <3>1. pub'[p] = Resumed(pub[p])
      BY <1>1, <2>1 DEF AckAlert, AckFails
    <3>2. Resumed(pub[p]).pc = "sending" /\ Resumed(pub[p]).tells = pub[p].tells
      BY <1>1 DEF Resumed, PublisherState
    <3>. QED
      BY <2>1, <3>1, <3>2 DEF AckAlert, AckFails
  <2>2. CASE PublishDone(p) \/ PublisherCrash(p)
    <3>1. pub'[p] = IdlePublisher
      BY <1>1, <2>2 DEF PublishDone, PublisherCrash
    <3>. QED
      BY <2>2, <3>1 DEF PublishDone, PublisherCrash, IdlePublisher
  <2>3. ASSUME NEW o \in Snapshot,
               SendAlert(p, o) \/ SendAlertFails(p, o) \/ SendAlertAnswerLost(p, o)
        PROVE  /\ pub'[p].pc # "ackSettlement"
               /\ \A q \in Snapshot : pub'[p].tells[q] # None => pub[p].tells[q] # None
               /\ pub[p].pc # "ackSettlement" \/ faults' = faults + 1
               /\ faults' \in {faults, faults + 1}
    <3>1. /\ pub[p].pc = "sending" /\ faults' \in {faults, faults + 1}
          /\ pub'[p] = Passed(pub[p], o) \/ pub'[p] = Sent(pub[p], o, posts[o] + 1)
      BY <1>1, <2>3 DEF SendAlert, SendAlertFails, SendAlertAnswerLost, IsNextAlert
    <3>. QED
      BY <1>1, <3>1, PublisherFields
  <2>. QED
    BY <2>1, <2>2, <2>3 DEF DeliverAlert
<1>4. TellsAreNew'
  BY <1>2, <1>3 DEF RepliesInv, TellsAreNew, OnePublisher
<1>5. ASSUME NEW o \in Snapshot
      PROVE  PaidFor(o)'
  <2>1. PaidFor(o) /\ replies[o] \in Nat
    BY <1>1 DEF RepliesInv
  <2>2. CASE faults' = faults + 1
    BY <1>1, <1>2, <2>1, <2>2 DEF PaidFor
  <2>3. CASE faults' = faults /\ pub[p].pc # "ackSettlement"
    <3>1. ~Acknowledging(o)
      BY <2>3 DEF Acknowledging, OnePublisher
    <3>. QED
      BY <1>2, <2>1, <2>3, <3>1 DEF PaidFor
  <2>. QED
    BY <1>3, <2>2, <2>3
<1>. QED
  BY <1>4, <1>5 DEF RepliesInv

LEMMA RepliesStep ==
    ASSUME TypeOK, RepliesInv, OnePublisher, [Next]_vars
    PROVE  RepliesInv'
<1>1. CASE \E p \in Publisher : Publish(p)
  BY <1>1, PublishReadReplies, DeliverSettlementReplies, OtherPublishReplies DEF Publish
<1>2. ASSUME UNCHANGED <<pub, notified, replies>>
      PROVE  RepliesInv'
  <2>1. faults \in Nat /\ faults' \in Nat /\ faults <= faults'
    BY FaultsGrow DEF TypeOK
  <2>2. ASSUME NEW o \in Snapshot
        PROVE  PaidFor(o)'
    <3>1. PaidFor(o) /\ replies[o] \in Nat
      BY DEF RepliesInv, TypeOK
    <3>2. Acknowledging(o)' <=> Acknowledging(o)
      BY <1>2 DEF Acknowledging
    <3>. QED
      BY <1>2, <2>1, <3>1, <3>2 DEF PaidFor
  <2>3. TellsAreNew'
    BY <1>2 DEF RepliesInv, TellsAreNew
  <2>. QED
    BY <2>2, <2>3 DEF RepliesInv
<1>3. UNCHANGED vars => UNCHANGED <<pub, notified, replies>>
  BY DEF vars, settleVars, chatVars
<1>. QED
  BY <1>1, <1>2, <1>3, EnvironmentFrame, GenerateFrame, SettleFrame DEF Next

\* With one publisher a settlement is told again only for a lost answer, a
\* failed acknowledgement or a crash.
THEOREM RepliedOnce ==
    ASSUME OnePublisher
    PROVE  Spec => []RepliedOncePerFault
<1>1. Init => RepliesInv
  BY DEF Init, RepliesInv, TellsAreNew, PaidFor, IdlePublisher
<1>2. TypeOK /\ RepliesInv /\ [Next]_vars => RepliesInv'
  BY RepliesStep
<1>3. TypeOK /\ RepliesInv => RepliedOncePerFault
  <2>. SUFFICES ASSUME TypeOK, RepliesInv, NEW o \in Snapshot
                PROVE  replies[o] <= 1 + faults
    BY DEF RepliedOncePerFault
  <2>1. PaidFor(o) /\ replies[o] \in Nat /\ faults \in Nat
    BY DEF RepliesInv, TypeOK
  <2>. QED
    BY <2>1 DEF PaidFor
<1>. QED
  BY <1>1, <1>2, <1>3, TypeCorrect, PTL DEF Spec

(***************************************************************************)
(* Announcements.  With one publisher each further message about a bet is  *)
(* paid for by a fault: what the publisher has still to send is unsent,    *)
(* and no other signal of its bet is delivered, since one alert is live.   *)
(***************************************************************************)

ToSendIsUnsent ==
    \A p \in Publisher :
        /\ \A o \in pub[p].alerts : sentMsg[o] = 0
        /\ pub[p].pc = "ackAlert" => pub[p].cur \notin pub[p].alerts

OutThere(o) ==
    /\ decision[o] = "alert"
    /\ sentMsg[o] # 0 \/ \E p \in Publisher : pub[p].pc = "ackAlert" /\ pub[p].cur = o

Afforded(pick) ==
    \/ Cardinality(PostsOf(pick)) <= faults
    \/ /\ \E o \in Snapshot : PickOf(o) = pick /\ OutThere(o)
       /\ Cardinality(PostsOf(pick)) <= 1 + faults

PostsInv == ToSendIsUnsent /\ \A pick \in Pick : Afforded(pick)

LEMMA PostsFinite ==
    ASSUME IsFiniteSet(Snapshot), NEW pick \in Pick
    PROVE  IsFiniteSet(PostsOf(pick)) /\ Cardinality(PostsOf(pick)) \in Nat
<1>. DEFINE mine == {o \in Snapshot : PickOf(o) = pick}
<1>1. IsFiniteSet(mine)
  BY FS_Subset
<1>2. IsFiniteSet(1 .. 2 + MaxFaults)
  BY FS_Interval, ConstantsAssumption
<1>3. IsFiniteSet(mine \X (1 .. 2 + MaxFaults))
  BY <1>1, <1>2, FS_Product
<1>4. PostsOf(pick) \in SUBSET (mine \X (1 .. 2 + MaxFaults))
  BY DEF PostsOf
<1>. QED
  BY <1>3, <1>4, FS_Subset, FS_CardinalityType

LEMMA OneMorePost ==
    ASSUME IsFiniteSet(Snapshot), TypeOK, NEW pick \in Pick, NEW o \in Snapshot,
           posts' = [posts EXCEPT ![o] = @ + 1]
    PROVE  /\ Cardinality(PostsOf(pick)') \in Nat
           /\ Cardinality(PostsOf(pick)') <= Cardinality(PostsOf(pick)) + 1
           /\ PickOf(o) # pick => PostsOf(pick)' = PostsOf(pick)
<1>. DEFINE mine == {x \in Snapshot : PickOf(x) = pick}
            one  == <<o, posts[o] + 1>>
<1>1. posts \in [Snapshot -> Nat]
  BY DEF TypeOK
<1>2. \A x \in mine : posts'[x] = IF x = o THEN posts[o] + 1 ELSE posts[x]
  BY <1>1
<1>3. ASSUME NEW x \in mine, NEW n \in 1 .. 2 + MaxFaults
      PROVE  n <= posts'[x] <=> n <= posts[x] \/ (x = o /\ n = posts[o] + 1)
  BY <1>1, <1>2, <1>3
<1>4. PostsOf(pick)' = {copy \in mine \X (1 .. 2 + MaxFaults) : copy[2] <= posts'[copy[1]]}
  BY DEF PostsOf, PickOf
<1>5. PostsOf(pick) = {copy \in mine \X (1 .. 2 + MaxFaults) : copy[2] <= posts[copy[1]]}
  BY DEF PostsOf
<1>6. PickOf(o) # pick => PostsOf(pick)' = PostsOf(pick)
  BY <1>3, <1>4, <1>5
<1>7. PostsOf(pick)' \subseteq PostsOf(pick) \cup {one}
  BY <1>3, <1>4, <1>5
<1>8. /\ IsFiniteSet(PostsOf(pick)) /\ Cardinality(PostsOf(pick)) \in Nat
      /\ IsFiniteSet(PostsOf(pick) \cup {one})
      /\ Cardinality(PostsOf(pick) \cup {one}) \in Nat
      /\ Cardinality(PostsOf(pick) \cup {one}) <= Cardinality(PostsOf(pick)) + 1
  <2>. HIDE DEF one
  <2>1. IsFiniteSet(PostsOf(pick)) /\ Cardinality(PostsOf(pick)) \in Nat
    BY PostsFinite
  <2>2. /\ IsFiniteSet(PostsOf(pick) \cup {one})
        /\ Cardinality(PostsOf(pick) \cup {one}) =
              IF one \in PostsOf(pick) THEN Cardinality(PostsOf(pick))
                                       ELSE Cardinality(PostsOf(pick)) + 1
    BY <2>1, FS_AddElement
  <2>. QED
    BY <2>1, <2>2
<1>9. /\ IsFiniteSet(PostsOf(pick)')
      /\ Cardinality(PostsOf(pick)') <= Cardinality(PostsOf(pick) \cup {one})
  BY <1>7, <1>8, FS_Subset
<1>10. Cardinality(PostsOf(pick)') \in Nat
  BY <1>9, FS_CardinalityType
<1>. QED
  BY <1>6, <1>8, <1>9, <1>10

LEMMA SendAlertPosts ==
    ASSUME IsFiniteSet(Snapshot), TypeOK, OneLiveAlertPerPick, PostsInv, CycleInv, OnePublisher,
           NEW p \in Publisher, NEW o \in Snapshot,
           SendAlert(p, o) \/ SendAlertAnswerLost(p, o)
    PROVE  PostsInv'
<1>1. /\ pub \in [Publisher -> PublisherState] /\ pub[p] \in PublisherState
      /\ faults \in Nat
  BY DEF TypeOK
<1>2. /\ o \in pub[p].alerts /\ pub[p].pc = "sending"
      /\ posts' = [posts EXCEPT ![o] = @ + 1]
      /\ UNCHANGED <<sentMsg, decision>>
      /\ \/ SendAlert(p, o) /\ faults' = faults /\ pub'[p] = Sent(pub[p], o, posts[o] + 1)
         \/ faults' = faults + 1 /\ pub'[p] = Passed(pub[p], o)
  BY <1>1 DEF SendAlert, SendAlertAnswerLost, IsNextAlert, signalVars
<1>3. decision[o] = "alert" /\ sentMsg[o] = 0
  BY <1>2 DEF CycleInv, OnItsWay, PostsInv, ToSendIsUnsent
<1>4. /\ pub'[p].alerts = pub[p].alerts \ {o}
      /\ pub'[p].pc = "ackAlert" => pub'[p].cur = o
  BY <1>1, <1>2, PublisherFields
<1>5. ToSendIsUnsent'
  BY <1>2, <1>4 DEF PostsInv, ToSendIsUnsent, OnePublisher
<1>6. \A q \in Snapshot : OutThere(q) => sentMsg[q] # 0 /\ decision[q] = "alert"
  BY <1>2 DEF OutThere, OnePublisher
<1>7. \A q \in Snapshot : OutThere(q) /\ PickOf(q) = PickOf(o) => FALSE
  BY <1>3, <1>6 DEF OneLiveAlertPerPick
<1>8. \A q \in Snapshot : OutThere(q) => OutThere(q)'
  BY <1>2, <1>6 DEF OutThere
<1>9. ASSUME NEW pick \in Pick
      PROVE  Afforded(pick)'
  <2>. DEFINE before == Cardinality(PostsOf(pick))
              after  == Cardinality(PostsOf(pick)')
  <2>1. before \in Nat /\ after \in Nat /\ after <= before + 1
    BY <1>2, OneMorePost, PostsFinite
  <2>2. Afforded(pick)
    BY DEF PostsInv
  <2>3. CASE PickOf(o) # pick
    <3>1. after = before
      BY <1>2, <2>3, OneMorePost
    <3>2. before <= faults \/
             (before <= 1 + faults /\ \E q \in Snapshot : PickOf(q) = pick /\ OutThere(q))
      BY <2>2 DEF Afforded
    <3>3. faults' \in {faults, faults + 1}
      BY <1>2
    <3>4. after <= faults' \/
             (after <= 1 + faults' /\ \E q \in Snapshot : PickOf(q) = pick /\ OutThere(q)')
      BY <1>1, <1>8, <2>1, <3>1, <3>2, <3>3
    <3>. QED
      BY <3>4 DEF Afforded, PickOf
  <2>4. CASE PickOf(o) = pick
    <3>1. before <= faults
      BY <1>7, <2>2, <2>4 DEF Afforded
    <3>2. CASE faults' = faults + 1
      <4>1. after <= faults'
        BY <1>1, <2>1, <3>1, <3>2
      <4>. QED
        BY <4>1 DEF Afforded
    <3>3. CASE faults' = faults /\ pub'[p] = Sent(pub[p], o, posts[o] + 1)
      <4>1. after <= 1 + faults'
        BY <1>1, <2>1, <3>1, <3>3
      <4>2. pub'[p].pc = "ackAlert" /\ pub'[p].cur = o
        BY <1>1, <3>3, PublisherFields
      <4>3. OutThere(o)'
        BY <1>2, <1>3, <4>2 DEF OutThere
      <4>. QED
        BY <2>4, <4>1, <4>3 DEF Afforded, PickOf
    <3>. QED
      BY <1>2, <3>2, <3>3
  <2>. QED
    BY <2>3, <2>4
<1>. QED
  BY <1>5, <1>9 DEF PostsInv

LEMMA SamePosts ==
    ASSUME IsFiniteSet(Snapshot), TypeOK, PostsInv, [Next]_vars, UNCHANGED posts,
           \/ faults' = faults + 1
           \/ \A o \in Snapshot : OutThere(o) => OutThere(o)'
    PROVE  \A pick \in Pick : Afforded(pick)'
<1>. TAKE pick \in Pick
<1>. DEFINE before == Cardinality(PostsOf(pick))
<1>1. before \in Nat /\ faults \in Nat /\ faults' \in Nat /\ faults <= faults'
  BY PostsFinite, FaultsGrow DEF TypeOK
<1>2. Cardinality(PostsOf(pick)') = before
  BY DEF PostsOf, PickOf
<1>3. before <= faults \/
         (before <= 1 + faults /\ \E o \in Snapshot : PickOf(o) = pick /\ OutThere(o))
  BY DEF PostsInv, Afforded
<1>4. before <= faults' \/
         (before <= 1 + faults' /\ \E o \in Snapshot : PickOf(o) = pick /\ OutThere(o)')
  BY <1>1, <1>3
<1>. QED
  BY <1>2, <1>4 DEF Afforded, PickOf

LEMMA PublishPosts ==
    ASSUME IsFiniteSet(Snapshot), TypeOK, ReadsStayValid, PostsInv, CycleInv, OnePublisher,
           [Next]_vars, NEW p \in Publisher, Publish(p),
           \A o \in Snapshot : ~SendAlert(p, o) /\ ~SendAlertAnswerLost(p, o)
    PROVE  PostsInv'
<1>1. /\ pub \in [Publisher -> PublisherState] /\ pub[p] \in PublisherState
      /\ sentMsg \in [Snapshot -> Nat] /\ pub[p].alerts \subseteq Snapshot
  BY DEF TypeOK, PublisherState
<1>2. /\ \A o \in pub[p].alerts : sentMsg[o] = 0
      /\ pub[p].pc = "ackAlert" =>
            /\ pub[p].cur \notin pub[p].alerts
            /\ pub[p].cur \in Snapshot /\ pub[p].msg # 0
            /\ decision[pub[p].cur] = "alert"
  BY <1>1 DEF PostsInv, ToSendIsUnsent, ReadsStayValid, PublisherReadsHold, CycleInv, OnItsWay
<1>3. CASE PublishRead(p)
  <2>1. PICK alerts \in SUBSET Snapshot :
           /\ \A o \in alerts : Pending(o)
           /\ \E tells : pub' = [pub EXCEPT ![p] = Opened(alerts, tells)]
    BY <1>3 DEF PublishRead, IsHead
  <2>2. pub'[p].pc = "sending" /\ pub'[p].alerts = alerts /\ pub[p].pc = "idle"
    BY <1>1, <1>3, <2>1 DEF Opened, IdlePublisher, PublishRead
  <2>3. UNCHANGED <<sentMsg, posts>>
    BY <1>3 DEF PublishRead, chatVars
  <2>4. ToSendIsUnsent'
    BY <2>1, <2>2, <2>3 DEF ToSendIsUnsent, OnePublisher, Pending, Queued
  <2>5. \A o \in Snapshot : OutThere(o) => OutThere(o)'
    BY <1>3, <2>2, <2>3 DEF OutThere, OnePublisher, PublishRead, Expired, Queued
  <2>. QED
    BY <2>3, <2>4, <2>5, SamePosts DEF PostsInv
<1>4. CASE AckAlert(p)
  <2>1. /\ pub[p].pc = "ackAlert" /\ pub'[p] = Resumed(pub[p])
        /\ sentMsg' = [sentMsg EXCEPT ![pub[p].cur] = pub[p].msg]
        /\ UNCHANGED <<posts, decision>>
    BY <1>1, <1>4 DEF AckAlert, chatVars
  <2>2. Resumed(pub[p]).pc = "sending" /\ Resumed(pub[p]).alerts = pub[p].alerts
    BY <1>1 DEF Resumed, PublisherState
  <2>3. ToSendIsUnsent'
    BY <1>1, <1>2, <2>1, <2>2 DEF ToSendIsUnsent, OnePublisher
  <2>4. \A o \in Snapshot : OutThere(o) => OutThere(o)'
    BY <1>1, <1>2, <2>1 DEF OutThere, OnePublisher
  <2>. QED
    BY <2>1, <2>3, <2>4, SamePosts DEF PostsInv
<1>5. CASE ~PublishRead(p) /\ ~AckAlert(p)
  <2>1. UNCHANGED <<sentMsg, decision>>
    BY <1>5, PublishFrame
  <2>2. /\ UNCHANGED posts
        /\ pub'[p].pc # "ackAlert"
        /\ pub'[p].alerts \subseteq pub[p].alerts
        /\ pub[p].pc # "ackAlert" \/ faults' = faults + 1
    <3>1. CASE AckSettlement(p) \/ AckFails(p)
      <4>1. /\ pub'[p] = Resumed(pub[p]) /\ UNCHANGED posts
            /\ pub[p].pc # "ackAlert" \/ faults' = faults + 1
        BY <1>1, <3>1 DEF AckSettlement, AckFails, chatVars
      <4>2. Resumed(pub[p]).pc = "sending" /\ Resumed(pub[p]).alerts = pub[p].alerts
        BY <1>1 DEF Resumed, PublisherState
      <4>. QED
        BY <4>1, <4>2
    <3>2. CASE PublishDone(p) \/ PublisherCrash(p)
      BY <1>1, <3>2 DEF PublishDone, PublisherCrash, IdlePublisher, chatVars
    <3>3. ASSUME NEW o \in Snapshot, SendAlertFails(p, o)
          PROVE  /\ UNCHANGED posts /\ pub[p].pc # "ackAlert" /\ pub'[p].pc # "ackAlert"
                 /\ pub'[p].alerts \subseteq pub[p].alerts
      <4>1. pub[p].pc = "sending" /\ pub'[p] = Passed(pub[p], o) /\ UNCHANGED posts
        BY <1>1, <3>3 DEF SendAlertFails, IsNextAlert, chatVars
      <4>. QED
        BY <1>1, <4>1, PublisherFields
    <3>4. ASSUME NEW o \in Snapshot,
                 \/ EditSettlement(p, o) \/ ReplySettlement(p, o)
                 \/ SendSettlementFails(p, o) \/ SettlementAnswerLost(p, o)
          PROVE  /\ UNCHANGED posts /\ pub[p].pc # "ackAlert" /\ pub'[p].pc # "ackAlert"
                 /\ pub'[p].alerts = pub[p].alerts
      <4>1. /\ pub[p].pc = "sending" /\ UNCHANGED posts
            /\ pub'[p] = Told(pub[p], o) \/ pub'[p] = Untold(pub[p], o)
        BY <1>1, <3>4 DEF EditSettlement, ReplySettlement, SendSettlementFails,
           SettlementAnswerLost, IsNextTell, chatVars
      <4>. QED
        BY <1>1, <4>1, PublisherFields
    <3>. QED
      BY <1>5, <3>1, <3>2, <3>3, <3>4 DEF Publish, DeliverAlert, DeliverSettlement, TellSettlement
  <2>3. ToSendIsUnsent'
    BY <1>2, <2>1, <2>2 DEF ToSendIsUnsent, OnePublisher
  <2>4. faults' = faults + 1 \/ \A o \in Snapshot : OutThere(o) => OutThere(o)'
    BY <2>1, <2>2 DEF OutThere, OnePublisher
  <2>. QED
    BY <2>2, <2>3, <2>4, SamePosts DEF PostsInv
<1>. QED
  BY <1>3, <1>4, <1>5

LEMMA PostsStep ==
    ASSUME IsFiniteSet(Snapshot), TypeOK, ReadsStayValid, OneLiveAlertPerPick, PostsInv, CycleInv,
           OnePublisher, [Next]_vars
    PROVE  PostsInv'
<1>1. CASE \E p \in Publisher : Publish(p)
  BY <1>1, SendAlertPosts, PublishPosts
<1>2. ASSUME UNCHANGED <<pub, sentMsg, posts>>, \A p \in Publisher : ~PublishRead(p)
      PROVE  PostsInv'
  <2>1. \A o \in Snapshot : OutThere(o) => OutThere(o)'
    BY <1>2, AlertStays DEF OutThere
  <2>2. ToSendIsUnsent'
    BY <1>2 DEF PostsInv, ToSendIsUnsent
  <2>. QED
    BY <1>2, <2>1, <2>2, SamePosts DEF PostsInv
<1>3. UNCHANGED vars => UNCHANGED <<pub, sentMsg, posts>>
  BY DEF vars, signalVars, chatVars
<1>. QED
  BY <1>1, <1>2, <1>3, EnvironmentFrame, GenerateFrame, SettleFrame DEF Next, Publish

\* With one publisher a bet is announced once, and again only for a lost
\* answer, a failed acknowledgement or a crash.
THEOREM AnnouncedOnce ==
    ASSUME OnePublisher, IsFiniteSet(Snapshot)
    PROVE  Spec => []AnnouncedOncePerFault
<1>1. Init => PostsInv
  <2>. SUFFICES ASSUME Init
                PROVE  PostsInv
    OBVIOUS
  <2>1. ToSendIsUnsent
    BY DEF Init, ToSendIsUnsent, IdlePublisher
  <2>2. ASSUME NEW pick \in Pick
        PROVE  Afforded(pick)
    <3>1. PostsOf(pick) = {}
      <4>1. \A o \in Snapshot : posts[o] = 0
        BY DEF Init
      <4>2. \A n \in 1 .. 2 + MaxFaults : ~(n <= 0)
        OBVIOUS
      <4>. QED
        BY <4>1, <4>2 DEF PostsOf
    <3>. QED
      BY <3>1, FS_EmptySet DEF Afforded, Init
  <2>. QED
    BY <2>1, <2>2 DEF PostsInv
<1>2. /\ TypeOK /\ ReadsStayValid /\ OneLiveAlertPerPick /\ PostsInv /\ CycleInv /\ [Next]_vars
      => PostsInv'
  BY PostsStep
<1>3. TypeOK /\ PostsInv => AnnouncedOncePerFault
  <2>. SUFFICES ASSUME TypeOK, PostsInv, NEW pick \in Pick
                PROVE  Cardinality(PostsOf(pick)) <= 1 + faults
    BY DEF AnnouncedOncePerFault
  <2>1. Afforded(pick) /\ faults \in Nat /\ Cardinality(PostsOf(pick)) \in Nat
    BY PostsFinite DEF PostsInv, TypeOK
  <2>. QED
    BY <2>1 DEF Afforded
<1>4. Spec => []CycleInv
  BY Cycles
<1>. QED
  BY <1>1, <1>2, <1>3, <1>4, TypeCorrect, Reads, OneLive, PTL DEF Spec

(***************************************************************************)
(* AlertLifecycle implements AlertLedger, for every number of generators,  *)
(* publishers and settlers.                                                *)
(***************************************************************************)

\* The four columns a stage is made of.
Columns == <<decision, sentMsg, outcome, notified>>

LEMMA StageNow ==
    ASSUME NEW o \in Snapshot
    PROVE  /\ decision[o] = "none" => Stage(o) = "none"
           /\ decision[o] = "skip" => Stage(o) = "skip"
           /\ Queued(o) => Stage(o) = "queued"
           /\ Delivered(o) /\ outcome[o] = None => Stage(o) = "delivered"
           /\ Delivered(o) /\ outcome[o] # None /\ ~notified[o] => Stage(o) = "settled"
           /\ Delivered(o) /\ outcome[o] # None /\ notified[o] => Stage(o) = "told"
  BY DEF Stage, Queued, Delivered

LEMMA StageNext ==
    ASSUME NEW o \in Snapshot
    PROVE  /\ decision'[o] = "skip" => Stage(o)' = "skip"
           /\ Queued(o)' => Stage(o)' = "queued"
           /\ Delivered(o)' /\ outcome'[o] = None => Stage(o)' = "delivered"
           /\ Delivered(o)' /\ outcome'[o] # None /\ ~notified'[o] => Stage(o)' = "settled"
           /\ Delivered(o)' /\ outcome'[o] # None /\ notified'[o] => Stage(o)' = "told"
  BY DEF Stage, Queued, Delivered

\* A signal whose columns stay keeps its stage.
LEMMA StageKept ==
    ASSUME NEW o \in Snapshot,
           UNCHANGED <<decision[o], sentMsg[o], outcome[o], notified[o]>>
    PROVE  UNCHANGED Stage(o)
  BY DEF Stage, Queued, Delivered

LEMMA LiveIsAlert ==
    ASSUME TypeOK, NEW o \in Snapshot, Stage(o) \in Ledger!Live
    PROVE  decision[o] = "alert"
<1>1. decision[o] \in {"none", "alert", "skip"}
  BY DEF TypeOK
<1>. QED
  BY <1>1, StageNow DEF Ledger!Live

LEMMA GenerateDecides ==
    ASSUME TypeOK, OneLiveInv, BooksInv, NEW g \in Generator, GenerateCommit(g)
    PROVE  Ledger!Next
<1>. DEFINE mine == {o \in gen[g].cands : decision[o] = "none"}
<1>1. PICK called \in SUBSET {o \in mine : Timely(g, o)} :
         /\ OnePerEvent(called)
         /\ decision' = [o \in Snapshot |->
               IF o \in {c \in called : Insertable(c)} THEN "alert"
               ELSE IF o \in mine THEN "skip" ELSE decision[o]]
  BY DEF GenerateCommit, Predicted, SignalOf
<1>. DEFINE alerts == {c \in called : Insertable(c)}
            skips  == mine \ alerts
<1>2. mine \subseteq Snapshot
  BY DEF TypeOK, GeneratorState
<1>3. UNCHANGED <<sentMsg, outcome, notified>>
  BY DEF GenerateCommit, Predicted, SignalOf, settleVars
<1>4. \A o \in alerts \cup skips : Stage(o) = "none"
  BY <1>2, StageNow
<1>5. \A o \in alerts : Ledger!Free(o)
  <2>. SUFFICES ASSUME NEW o \in alerts, NEW q \in Snapshot, Stage(q) \in Ledger!Live
                PROVE  PickOf(q) # PickOf(o)
    BY <1>2 DEF Ledger!Free
  <2>. QED
    BY LiveIsAlert DEF OneLiveInv, KeyNamesPick, Insertable
<1>6. \A o, q \in alerts : PickOf(o) = PickOf(q) => o = q
  BY <1>1 DEF OnePerEvent, PickOf
<1>7. ASSUME NEW o \in Snapshot
      PROVE  Stage(o)' = IF o \in alerts THEN "queued"
                         ELSE IF o \in skips THEN "skip" ELSE Stage(o)
  <2>1. CASE o \in alerts
    <3>1. sentMsg[o] = 0
      BY <1>2, <2>1 DEF BooksInv, RowsFollowTheChat, TypeOK
    <3>. QED
      BY <1>1, <1>3, <2>1, <3>1, StageNext DEF Queued
  <2>2. CASE o \in skips
    BY <1>1, <2>2, StageNext
  <2>3. CASE o \notin alerts /\ o \notin skips
    BY <1>1, <1>3, <2>3, StageKept
  <2>. QED
    BY <2>1, <2>2, <2>3
<1>8. Ledger!Decide(alerts, skips)
  BY <1>2, <1>4, <1>5, <1>6, <1>7 DEF Ledger!Decide
<1>. QED
  BY <1>2, <1>8 DEF Ledger!Next

LEMMA PublishExpires ==
    ASSUME NEW p \in Publisher, PublishRead(p)
    PROVE  Ledger!Next
<1>. DEFINE calls == {o \in Snapshot : Expired(o)}
<1>1. /\ decision' = [o \in Snapshot |-> IF Expired(o) THEN "skip" ELSE decision[o]]
      /\ UNCHANGED <<sentMsg, outcome, notified>>
  BY DEF PublishRead, settleVars
<1>2. \A o \in calls : Stage(o) = "queued"
  BY StageNow DEF Expired
<1>3. ASSUME NEW o \in Snapshot
      PROVE  Stage(o)' = IF o \in calls THEN "skip" ELSE Stage(o)
  <2>1. CASE o \in calls
    BY <1>1, <2>1, StageNext
  <2>2. CASE o \notin calls
    BY <1>1, <2>2, StageKept
  <2>. QED
    BY <2>1, <2>2
<1>4. Ledger!Expire(calls)
  BY <1>2, <1>3 DEF Ledger!Expire, Ledger!Move
<1>. QED
  BY <1>4 DEF Ledger!Next

\* An acknowledgement delivers a queued call; of a call that expired
\* meanwhile, or was acknowledged before, it changes no stage.
LEMMA AckDelivers ==
    ASSUME TypeOK, BooksInv, NEW p \in Publisher, AckAlert(p)
    PROVE  Ledger!Next \/ \A o \in Snapshot : UNCHANGED Stage(o)
<1>. PICK c \in Snapshot : c = pub[p].cur /\ pub[p].msg \in 1 .. posts[c]
  BY DEF AckAlert, BooksInv, ReadsStayValid, PublisherReadsHold
<1>1. /\ pub[p].msg # 0
      /\ decision[c] # "none"
      /\ outcome[c] # None => Delivered(c)
  BY DEF BooksInv, RowsFollowTheChat, TypeOK
<1>2. /\ UNCHANGED <<decision, outcome, notified>>
      /\ \A o \in Snapshot : sentMsg'[o] = IF o = c THEN pub[p].msg ELSE sentMsg[o]
  BY DEF AckAlert, settleVars, TypeOK
<1>3. \A o \in Snapshot \ {c} : UNCHANGED Stage(o)
  BY <1>2, StageKept
<1>4. CASE Queued(c)
  <2>1. Stage(c) = "queued"
    BY <1>1, <1>4, StageNow
  <2>2. Stage(c)' = "delivered"
    <3>1. Delivered(c)' /\ outcome'[c] = None
      BY <1>1, <1>2, <1>4 DEF Queued, Delivered
    <3>. QED
      BY <1>1, <3>1, StageNext
  <2>3. Ledger!Deliver(c)
    BY <1>1, <1>3, <2>1, <2>2 DEF Ledger!Deliver, Ledger!Move
  <2>. QED
    BY <1>1, <2>3 DEF Ledger!Next
<1>5. CASE ~Queued(c)
  <2>1. UNCHANGED Stage(c)
    <3>1. CASE decision[c] = "alert"
      BY <1>1, <1>2, <1>5, <3>1 DEF Stage, Queued, Delivered
    <3>2. CASE decision[c] # "alert"
      BY <1>1, <1>2, <3>2 DEF Stage, Queued, Delivered, TypeOK
    <3>. QED
      BY <3>1, <3>2
  <2>. QED
    BY <1>3, <2>1
<1>. QED
  BY <1>4, <1>5

LEMMA AckTells ==
    ASSUME TypeOK, BooksInv, NEW p \in Publisher, AckSettlement(p)
    PROVE  Ledger!Next \/ \A o \in Snapshot : UNCHANGED Stage(o)
<1>. PICK c \in Snapshot : c = pub[p].cur
  BY DEF AckSettlement, BooksInv, ReadsStayValid, PublisherReadsHold
<1>1. outcome[c] # None /\ Delivered(c)
  BY DEF AckSettlement, BooksInv, ReadsStayValid, PublisherReadsHold, RowsFollowTheChat
<1>2. /\ UNCHANGED <<decision, sentMsg, outcome>>
      /\ \A o \in Snapshot : notified'[o] = IF o = c THEN TRUE ELSE notified[o]
  BY DEF AckSettlement, signalVars, TypeOK
<1>3. \A o \in Snapshot \ {c} : UNCHANGED Stage(o)
  BY <1>2, StageKept
<1>4. Stage(c)' = "told"
  <2>1. Delivered(c)' /\ outcome'[c] # None /\ notified'[c]
    BY <1>1, <1>2 DEF Delivered
  <2>. QED
    BY <1>1, <2>1, StageNext
<1>5. CASE notified[c]
  BY <1>1, <1>3, <1>4, <1>5, StageNow
<1>6. CASE ~notified[c]
  <2>1. Stage(c) = "settled"
    BY <1>1, <1>6, StageNow
  <2>2. Ledger!Tell(c)
    BY <1>1, <1>3, <1>4, <2>1 DEF Ledger!Tell, Ledger!Move
  <2>. QED
    BY <1>1, <2>2 DEF Ledger!Next
<1>. QED
  BY <1>5, <1>6

LEMMA SettleSettles ==
    ASSUME TypeInv, BooksInv, NEW s \in Settler, SettleCommit(s)
    PROVE  Ledger!Next
<1>. PICK calls \in SUBSET Snapshot : calls = Inserted(s)
  BY DEF Inserted
<1>1. /\ \A o \in Snapshot :
            outcome'[o] = IF o \in calls THEN Settled(o, settler[s].rows[o]) ELSE outcome[o]
      /\ UNCHANGED <<decision, sentMsg, notified>>
  BY DEF SettleCommit, signalVars
<1>2. ASSUME NEW o \in calls
      PROVE  /\ o \in Snapshot
             /\ Delivered(o) /\ outcome[o] = None /\ ~notified[o]
             /\ Settled(o, settler[s].rows[o]) # None
  <2>1. o \in Snapshot /\ settler[s].rows[o] # None /\ outcome[o] = None
    BY DEF Inserted
  <2>2. settler[s].rows[o] \in Scores /\ frozen[o] \in BOOLEAN
    BY <2>1 DEF TypeInv, TypeOK, SettlerState
  <2>3. Settled(o, settler[s].rows[o]) # None
    BY <2>1, <2>2, OrientType, SettledType, NoneAssumption DEF Settled
  <2>. QED
    BY <2>1, <2>3 DEF BooksInv, ReadsStayValid, SettlerReadsHold, RowsFollowTheChat
<1>3. \A o \in calls : Stage(o) = "delivered"
  BY <1>2, StageNow
<1>4. ASSUME NEW o \in Snapshot
      PROVE  Stage(o)' = IF o \in calls THEN "settled" ELSE Stage(o)
  <2>1. CASE o \in calls
    <3>1. Delivered(o)' /\ outcome'[o] # None /\ ~notified'[o]
      BY <1>1, <1>2, <2>1 DEF Delivered
    <3>. QED
      BY <2>1, <3>1, StageNext
  <2>2. CASE o \notin calls
    BY <1>1, <2>2, StageKept
  <2>. QED
    BY <2>1, <2>2
<1>5. Ledger!Settle(calls)
  BY <1>3, <1>4 DEF Ledger!Settle, Ledger!Move
<1>. QED
  BY <1>2, <1>5 DEF Ledger!Next

LEMMA LedgerStep ==
    ASSUME TypeInv, OneLiveInv, BooksInv, [Next]_vars
    PROVE  [Ledger!Next]_[o \in Snapshot |-> Stage(o)]
<1>1. ASSUME NEW g \in Generator, Generate(g)
      PROVE  Ledger!Next \/ UNCHANGED Columns
  BY <1>1, GenerateDecides, GenerateFrame DEF Columns, TypeInv
<1>2. ASSUME NEW s \in Settler, Settle(s)
      PROVE  Ledger!Next \/ UNCHANGED Columns
  BY <1>2, SettleSettles, SettleFrame DEF Columns
<1>3. ASSUME NEW p \in Publisher, Publish(p)
      PROVE  \/ Ledger!Next
             \/ \A o \in Snapshot : UNCHANGED Stage(o)
             \/ UNCHANGED Columns
  BY <1>3, PublishExpires, AckDelivers, AckTells, PublishFrame DEF Columns, TypeInv
<1>4. UNCHANGED vars => UNCHANGED Columns
  BY DEF vars, signalVars, settleVars, Columns
<1>5. ASSUME \A o \in Snapshot : UNCHANGED Stage(o)
      PROVE  UNCHANGED [o \in Snapshot |-> Stage(o)]
  BY <1>5
<1>6. UNCHANGED Columns => \A o \in Snapshot : UNCHANGED Stage(o)
  BY StageKept DEF Columns
<1>7. Environment => UNCHANGED Columns
  BY EnvironmentFrame DEF Columns
<1>. QED
  BY <1>1, <1>2, <1>3, <1>4, <1>5, <1>6, <1>7 DEF Next

\* The workers together keep the ledger, whatever their interleaving, losses
\* and crashes: each signal goes through its stages one at a time.
THEOREM Refines == Spec => ImplementsLedger
<1>1. Init => Ledger!Init
  <2>1. Init => \A o \in Snapshot : Stage(o) = "none"
    BY StageNow DEF Init
  <2>. QED
    BY <2>1 DEF Ledger!Init
<1>2. Init => OneLiveInv
  BY DEF Init, OneLiveInv, OneLiveAlertPerPick, KeyNamesPick
<1>3. Spec => []TypeInv
  BY TypeInit, TypeStep, PTL DEF Spec
<1>4. Spec => []OneLiveInv
  BY <1>2, OneLiveStep, TypeCorrect, PTL DEF Spec
<1>. QED
  BY <1>1, <1>3, <1>4, Books, LedgerStep, PTL DEF Spec, ImplementsLedger, Ledger!Spec
=============================================================================
