------------------------ MODULE EventMatching_proofs ------------------------
(***************************************************************************)
(* Proofs about EventMatching: what holds of the table event_matches for   *)
(* any events, kickoffs, players, jobs and bounds.                         *)
(***************************************************************************)
EXTENDS EventMatching, FiniteSetTheorems, TLAPS

\* The bounds of the pieces of evidence.
LEMMA TimeScoreBounds ==
    ASSUME NEW minutes \in Nat
    PROVE  TimeScore(minutes) \in 0 .. 300
BY DEF TimeScore

LEMMA DistanceType ==
    ASSUME NEW a \in Nat, NEW b \in Nat
    PROVE  Distance(a, b) \in Nat
BY DEF Distance

LEMMA IdentityScoreMeaning ==
    ASSUME NEW left, NEW right
    PROVE  /\ left = right  => IdentityScore(left, right) = 300
           /\ left # right => IdentityScore(left, right) = 0
BY DEF IdentityScore, Full

\* A full tournament score and a full time score leave the threshold out of
\* reach unless both identity scores are full: 0.72 of 0.90 with one missing.
LEMMA ThresholdNeedsIdentities ==
    ASSUME NEW id1 \in {0, 300}, NEW id2 \in {0, 300},
           NEW tournament \in 0 .. 300, NEW time \in 0 .. 300,
           5 * id1 + 5 * id2 + 4 * tournament + 4 * time >= 4860
    PROVE  id1 = 300 /\ id2 = 300
<1>1. CASE id1 = 0 /\ id2 = 0
  BY <1>1
<1>2. CASE id1 = 0 /\ id2 = 300
  BY <1>2
<1>3. CASE id1 = 300 /\ id2 = 0
  BY <1>3
<1> QED
  BY <1>1, <1>2, <1>3

\* So in one orientation an automatic score means the same two players.
LEMMA DirectionScoreNeedsPlayers ==
    ASSUME NEW players, NEW candidate, NEW tournament \in 0 .. Full, NEW minutes \in Nat,
           DirectionScore(players, candidate, tournament, minutes) >= AutomaticThreshold
    PROVE  players.p1 = candidate.p1 /\ players.p2 = candidate.p2
<1>1. TimeScore(minutes) \in 0 .. 300
  BY TimeScoreBounds
<1>2. tournament \in 0 .. 300
  BY DEF Full
<1>3. /\ IdentityScore(players.p1, candidate.p1) \in {0, 300}
      /\ IdentityScore(players.p2, candidate.p2) \in {0, 300}
  BY IdentityScoreMeaning
<1>4. 5 * IdentityScore(players.p1, candidate.p1) + 5 * IdentityScore(players.p2, candidate.p2)
        + 4 * tournament + 4 * TimeScore(minutes) >= 4860
  BY DEF DirectionScore, AutomaticThreshold
<1>5. /\ IdentityScore(players.p1, candidate.p1) = 300
      /\ IdentityScore(players.p2, candidate.p2) = 300
  BY <1>1, <1>2, <1>3, <1>4, ThresholdNeedsIdentities
<1>6. players.p1 = candidate.p1
  BY <1>5, IdentityScoreMeaning
<1>7. players.p2 = candidate.p2
  BY <1>5, IdentityScoreMeaning
<1> QED
  BY <1>6, <1>7

\* What an automatic decision rests on: the same two players.
LEMMA AutomaticNeedsPlayers ==
    ASSUME NEW tournament \in 0 .. Full, NEW minutes \in Nat,
           NEW players, players = [p1 |-> players.p1, p2 |-> players.p2],
           NEW candidate, candidate = [p1 |-> candidate.p1, p2 |-> candidate.p2],
           ScoreEventPair(players, candidate, tournament, minutes) >= AutomaticThreshold
    PROVE  SamePlayers(players, candidate)
<1>1. CASE DirectionScore(players, candidate, tournament, minutes) >= AutomaticThreshold
  BY <1>1, DirectionScoreNeedsPlayers DEF SamePlayers
<1>2. CASE DirectionScore(players, Reverse(candidate), tournament, minutes)
              >= AutomaticThreshold
  <2>1. players.p1 = Reverse(candidate).p1 /\ players.p2 = Reverse(candidate).p2
    BY <1>2, DirectionScoreNeedsPlayers
  <2> QED
    BY <2>1 DEF SamePlayers, Reverse
<1> QED
  BY <1>1, <1>2 DEF ScoreEventPair
-----------------------------------------------------------------------------
\* The pairs that may be matched.
Agree(p) == /\ p[1] \in resolved /\ p[2] \in resolved
            /\ SamePlayers(PlayersOf[p[1]], PlayersOf[p[2]])

\* What an open run holds: it writes every row it inserts, and it matches
\* only pairs that agree.
RunsAgree ==
    \A m \in Matcher, p \in Pair :
        /\ p \in run[m].fresh => run[m].writes[p] # "keep"
        /\ run[m].writes[p] = "matched" => Agree(p)

\* The inductive invariant.
IInv == TypeOK /\ RunsAgree /\ MatchedPlayersAgree /\ MatchedOnce

LEMMA PairType ==
    ASSUME NEW p \in Pair
    PROVE  p[1] \in Source /\ p[2] \in Book /\ p = <<p[1], p[2]>>
BY DEF Pair

LEMMA PairFinite == IsFiniteSet(Pair)
BY EventsAssumption, FS_Product DEF Pair

LEMMA RowsType == Rows \in Nat
<1>1. IsFiniteSet({p \in Pair : rowId[p] # 0})
  BY PairFinite, FS_Subset
<1> QED
  BY <1>1, FS_CardinalityType DEF Rows

LEMMA FreshCount ==
    ASSUME NEW S \in SUBSET Pair
    PROVE  Cardinality(S) \in Nat
BY PairFinite, FS_Subset, FS_CardinalityType

LEMMA ClosedType == Closed \in RunState
BY DEF Closed, RunState, NoWrite

\* The initial state.
LEMMA InitHolds == Init => IInv
<1> SUFFICES ASSUME Init PROVE IInv
  OBVIOUS
<1>1. TypeOK
  BY ClosedType, EventsAssumption DEF Init, TypeOK, Closed, NoWrite, Status
<1>2. RunsAgree
  BY DEF Init, RunsAgree, Closed, NoWrite
<1>3. MatchedPlayersAgree /\ MatchedOnce
  BY DEF Init, MatchedPlayersAgree, MatchedOnce
<1> QED
  BY <1>1, <1>2, <1>3 DEF IInv
-----------------------------------------------------------------------------
(* What a run decides.                                                     *)

\* Evidence enough for a match names the players.
LEMMA PointsNeedPlayers ==
    ASSUME TypeOK, NEW s \in Source, NEW b \in Book, Points(s, b) >= AutomaticThreshold
    PROVE  SamePlayers(PlayersOf[s], PlayersOf[b])
<1>1. s \in AnyEvent /\ b \in AnyEvent
  BY DEF AnyEvent
<1>2. Distance(start[s], start[b]) \in Nat
  BY <1>1, DistanceType DEF TypeOK
<1>3. Alike[<<s, b>>] \in 0 .. Full
  BY EventsAssumption DEF Pair
<1>4. /\ PlayersOf[s] = [p1 |-> PlayersOf[s].p1, p2 |-> PlayersOf[s].p2]
      /\ PlayersOf[b] = [p1 |-> PlayersOf[b].p1, p2 |-> PlayersOf[b].p2]
  BY <1>1, EventsAssumption
<1> QED
  BY <1>2, <1>3, <1>4, AutomaticNeedsPlayers DEF Points

\* Whatever best candidates a run came to, its writes fit the table, and those
\* to "matched" are of pairs that agree.
LEMMA WritesOfRead ==
    ASSUME TypeOK, NEW books \in SUBSET Book, NEW best,
           DOMAIN best \subseteq Source \cap resolved,
           \A s \in DOMAIN best : best[s] = None \/ best[s] \in Best(s, books)
    PROVE  /\ Writes(books, best) \in [Pair -> Status \cup {"keep"}]
           /\ \A p \in Pair : Writes(books, best)[p] = "matched" => Agree(p)
<1>1. ASSUME NEW p \in Pair
      PROVE  Decided(p, books, best) \in Status \cup {"absent"}
  BY DEF Decided, NewStatus, Status
<1>2. ASSUME NEW p \in Pair, Decided(p, books, best) = "absent"
      PROVE  status[p] = "absent"
  BY <1>2 DEF Decided, NewStatus
<1>3. Writes(books, best) \in [Pair -> Status \cup {"keep"}]
  BY <1>1, <1>2 DEF Writes, Write, Status
<1>4. ASSUME NEW p \in Pair, Writes(books, best)[p] = "matched"
      PROVE  Agree(p)
  <2>1. p[1] \in Source /\ p[2] \in Book
    BY PairType
  <2>2. p[1] \in DOMAIN best /\ Decided(p, books, best) = "matched"
    BY <1>4 DEF Writes, Write
  <2>3. best[p[1]] = p[2] /\ Automatic(p[1], p[2], books)
    BY <2>2 DEF Decided, NewStatus
  <2>4. p[2] \in Candidates(p[1], books)
    BY <2>1, <2>2, <2>3, EventsAssumption DEF Best
  <2>5. p[1] \in resolved /\ p[2] \in resolved
    BY <2>2, <2>4 DEF Candidates
  <2>6. Points(p[1], p[2]) >= AutomaticThreshold
    BY <2>3 DEF Automatic, IsAutomatic
  <2> QED
    BY <2>1, <2>5, <2>6, PointsNeedPlayers DEF Agree
<1> QED
  BY <1>3, <1>4

\* A run that opens with such writes keeps the invariant.
LEMMA OpenKeeps ==
    ASSUME IInv, NEW m \in Matcher, NEW writes \in [Pair -> Status \cup {"keep"}],
           \A p \in Pair : writes[p] = "matched" => Agree(p),
           run' = [run EXCEPT ![m] = Opened(writes)],
           UNCHANGED <<now, eventVars, status, rowId, faults>>
    PROVE  IInv'
<1> USE DEF eventVars
<1>1. Opened(writes) \in RunState
  BY DEF IInv, TypeOK, Opened, RunState
<1>2. run' \in [Matcher -> RunState]
  BY <1>1 DEF IInv, TypeOK
<1>3. ASSUME NEW n \in Matcher, NEW p \in Pair
      PROVE  /\ run'[n].writes[p] # "keep" => p \in run'[n].fresh \/ rowId[p] # 0
             /\ p \in run'[n].fresh => run'[n].writes[p] # "keep"
             /\ run'[n].writes[p] = "matched" => Agree(p)
  <2>1. CASE n = m
    <3>1. run'[n] = Opened(writes)
      BY <2>1 DEF IInv, TypeOK
    <3> QED
      BY <3>1 DEF Opened, IInv, TypeOK
  <2>2. CASE n # m
    <3>1. run'[n] = run[n]
      BY <2>2 DEF IInv, TypeOK
    <3> QED
      BY <3>1 DEF IInv, TypeOK, RunsAgree
  <2> QED
    BY <2>1, <2>2
<1>4. TypeOK'
  BY <1>2, <1>3 DEF IInv, TypeOK
<1>5. RunsAgree'
  BY <1>3 DEF RunsAgree, Agree
<1>6. MatchedPlayersAgree' /\ MatchedOnce'
  BY DEF IInv, MatchedPlayersAgree, MatchedOnce
<1> QED
  BY <1>4, <1>5, <1>6 DEF IInv

LEMMA ReadKeeps ==
    ASSUME IInv, NEW m \in Matcher, MatchRead(m)
    PROVE  IInv'
<1> DEFINE books == BooksIn(ModeOf[m])
           sources == SourcesIn(ModeOf[m], books)
<1>1. books \in SUBSET Book
  BY EventsAssumption DEF BooksIn, IInv, TypeOK
<1>2. sources \subseteq Source
  BY DEF SourcesIn
<1>3. UNCHANGED <<now, eventVars, status, rowId, faults>>
  BY DEF MatchRead
<1>4. CASE \E best \in [sources \cap resolved -> Book \cup {None}] :
              /\ \A s \in sources \cap resolved :
                    IF Candidates(s, books) = {} THEN best[s] = None
                    ELSE best[s] \in Best(s, books)
              /\ run' = [run EXCEPT ![m] = Opened(Writes(books, best))]
  <2>1. PICK best \in [sources \cap resolved -> Book \cup {None}] :
              /\ \A s \in sources \cap resolved :
                    IF Candidates(s, books) = {} THEN best[s] = None
                    ELSE best[s] \in Best(s, books)
              /\ run' = [run EXCEPT ![m] = Opened(Writes(books, best))]
    BY <1>4
  <2>2. DOMAIN best \subseteq Source \cap resolved
    BY <1>2
  <2>3. \A s \in DOMAIN best : best[s] = None \/ best[s] \in Best(s, books)
    BY <2>1
  <2>4. /\ Writes(books, best) \in [Pair -> Status \cup {"keep"}]
        /\ \A p \in Pair : Writes(books, best)[p] = "matched" => Agree(p)
    BY <1>1, <2>2, <2>3, WritesOfRead DEF IInv
  <2> QED
    BY <1>3, <2>1, <2>4, OpenKeeps
<1>5. CASE run' = [run EXCEPT ![m] = Opened(StaleWrites(books))]
  <2>1. /\ StaleWrites(books) \in [Pair -> Status \cup {"keep"}]
        /\ \A p \in Pair : StaleWrites(books)[p] = "matched" => Agree(p)
    BY DEF StaleWrites, Status
  <2> QED
    BY <1>3, <1>5, <2>1, OpenKeeps
<1> QED
  BY <1>4, <1>5 DEF MatchRead
-----------------------------------------------------------------------------
(* What a flush leaves behind.                                             *)

\* A run that ends without writing keeps the invariant.
LEMMA CloseKeeps ==
    ASSUME IInv, NEW m \in Matcher, run' = [run EXCEPT ![m] = Closed], faults' \in Nat,
           UNCHANGED <<now, eventVars, status, rowId>>
    PROVE  IInv'
<1> USE DEF eventVars
<1>1. run' \in [Matcher -> RunState]
  BY ClosedType DEF IInv, TypeOK
<1>2. ASSUME NEW n \in Matcher, NEW p \in Pair
      PROVE  /\ run'[n].writes[p] # "keep" => p \in run'[n].fresh \/ rowId[p] # 0
             /\ p \in run'[n].fresh => run'[n].writes[p] # "keep"
             /\ run'[n].writes[p] = "matched" => Agree(p)
  <2>1. CASE n = m
    <3>1. run'[n] = Closed
      BY <2>1 DEF IInv, TypeOK
    <3> QED
      BY <3>1 DEF Closed, NoWrite
  <2>2. CASE n # m
    <3>1. run'[n] = run[n]
      BY <2>2 DEF IInv, TypeOK
    <3> QED
      BY <3>1 DEF IInv, TypeOK, RunsAgree
  <2> QED
    BY <2>1, <2>2
<1>3. TypeOK'
  BY <1>1, <1>2 DEF IInv, TypeOK
<1>4. RunsAgree'
  BY <1>2 DEF RunsAgree, Agree
<1>5. MatchedPlayersAgree' /\ MatchedOnce'
  BY DEF IInv, MatchedPlayersAgree, MatchedOnce
<1> QED
  BY <1>3, <1>4, <1>5 DEF IInv

LEMMA CommitKeeps ==
    ASSUME IInv, NEW m \in Matcher, MatchCommit(m)
    PROVE  IInv'
<1> USE DEF eventVars
<1>1. /\ ~Refused(m)
      /\ status' = [p \in Pair |-> After(m, p)]
      /\ run' = [run EXCEPT ![m] = Closed]
      /\ UNCHANGED <<now, eventVars, faults>>
  BY DEF MatchCommit
<1> DEFINE fresh == run[m].fresh
<1>2. PICK ids \in [fresh -> Rows + 1 .. Rows + Cardinality(fresh)] :
              rowId' = [p \in Pair |-> IF p \in fresh THEN ids[p] ELSE rowId[p]]
  BY DEF MatchCommit
<1>3. fresh \in SUBSET Pair /\ run[m].writes \in [Pair -> Status \cup {"keep"}]
  BY DEF IInv, TypeOK, RunState
<1>4. \A p \in fresh : ids[p] \in Nat \ {0}
  BY <1>2, <1>3, RowsType, FreshCount
<1>5. rowId' \in [Pair -> Nat]
  BY <1>2, <1>3, <1>4 DEF IInv, TypeOK
<1>6. ASSUME NEW p \in Pair
      PROVE  /\ status'[p] \in Status \cup {"absent"}
             /\ status'[p] = "absent" <=> rowId'[p] = 0
             /\ rowId[p] # 0 => rowId'[p] # 0
  <2>1. CASE p \in fresh
    <3>1. run[m].writes[p] \in Status
      BY <1>3, <2>1 DEF IInv, RunsAgree
    <3>2. status'[p] = run[m].writes[p]
      BY <1>1, <3>1 DEF After, Status
    <3>3. rowId'[p] # 0
      BY <1>2, <1>4, <2>1
    <3> QED
      BY <3>1, <3>2, <3>3 DEF Status
  <2>2. CASE p \notin fresh
    <3>1. rowId'[p] = rowId[p]
      BY <1>2, <2>2
    <3>2. CASE run[m].writes[p] = "keep"
      BY <1>1, <3>1, <3>2 DEF After, IInv, TypeOK
    <3>3. CASE run[m].writes[p] # "keep"
      <4>1. rowId[p] # 0
        BY <2>2, <3>3 DEF IInv, TypeOK
      <4>2. status'[p] = run[m].writes[p]
        BY <1>1, <3>3 DEF After
      <4> QED
        BY <1>3, <3>1, <3>3, <4>1, <4>2 DEF Status
    <3> QED
      BY <3>2, <3>3
  <2> QED
    BY <2>1, <2>2
<1>7. status' \in [Pair -> Status \cup {"absent"}]
  BY <1>1, <1>6
<1>8. run' \in [Matcher -> RunState]
  BY <1>1, ClosedType DEF IInv, TypeOK
<1>9. ASSUME NEW n \in Matcher, NEW p \in Pair
      PROVE  /\ run'[n].writes[p] # "keep" => p \in run'[n].fresh \/ rowId'[p] # 0
             /\ p \in run'[n].fresh => run'[n].writes[p] # "keep"
             /\ run'[n].writes[p] = "matched" => Agree(p)
  <2>1. CASE n = m
    <3>1. run'[n] = Closed
      BY <1>1, <2>1 DEF IInv, TypeOK
    <3> QED
      BY <3>1 DEF Closed, NoWrite
  <2>2. CASE n # m
    <3>1. run'[n] = run[n]
      BY <1>1, <2>2 DEF IInv, TypeOK
    <3> QED
      BY <3>1, <1>6 DEF IInv, TypeOK, RunsAgree
  <2> QED
    BY <2>1, <2>2
<1>10. TypeOK'
  BY <1>1, <1>5, <1>6, <1>7, <1>8, <1>9 DEF IInv, TypeOK
<1>11. RunsAgree'
  BY <1>1, <1>9 DEF RunsAgree, Agree
<1>12. MatchedPlayersAgree'
  <2>1. ASSUME NEW p \in Pair, status'[p] = "matched"
        PROVE  Agree(p)
    BY <1>1, <2>1 DEF After, IInv, RunsAgree, MatchedPlayersAgree, Agree
  <2> QED
    BY <1>1, <2>1 DEF MatchedPlayersAgree, Agree
<1>13. MatchedOnce'
  <2>1. SUFFICES ASSUME NEW p \in Pair, NEW q \in Pair,
                        status'[p] = "matched", status'[q] = "matched", Meet(p, q)
                 PROVE  FALSE
    BY DEF MatchedOnce, Meet
  <2>2. After(m, p) = "matched" /\ After(m, q) = "matched"
    BY <1>1, <2>1
  <2>3. run[m].writes[p] # "matched" /\ run[m].writes[q] # "matched"
    BY <1>1, <2>1, <2>2 DEF Refused, Meet
  <2>4. status[p] = "matched" /\ status[q] = "matched"
    BY <2>2, <2>3 DEF After
  <2> QED
    BY <2>1, <2>4 DEF IInv, MatchedOnce
<1> QED
  BY <1>10, <1>11, <1>12, <1>13 DEF IInv
-----------------------------------------------------------------------------
(* The collectors and the normalizer: names are only ever added.           *)

LEMMA EnvironmentKeeps ==
    ASSUME IInv, Environment
    PROVE  IInv'
<1> USE DEF eventVars
<1>1. UNCHANGED <<status, rowId, run, faults>> /\ resolved \subseteq resolved'
  BY DEF Environment, Tick, Reschedule, Resolve, GoLive, Finish
<1>2. /\ now' \in Nat
      /\ start' \in [AnyEvent -> Nat]
      /\ resolved' \subseteq AnyEvent
      /\ prematch' \subseteq Book
      /\ finished' \subseteq Source
  <2> USE DEF IInv, TypeOK
  <2>1. CASE Tick
    BY <2>1, EventsAssumption DEF Tick
  <2>2. ASSUME NEW e \in AnyEvent, Reschedule(e)
        PROVE  <1>2!1 /\ <1>2!2 /\ <1>2!3 /\ <1>2!4 /\ <1>2!5
    <3>1. PICK at \in (MovesTo[e] \cup {StartsAt[e]}) \ {start[e]} :
                  start' = [start EXCEPT ![e] = at]
      BY <2>2 DEF Reschedule
    <3>2. at \in Nat
      BY <2>2, EventsAssumption
    <3> QED
      BY <2>2, <3>1, <3>2 DEF Reschedule
  <2>3. ASSUME NEW e \in AnyEvent, Resolve(e)
        PROVE  <1>2!1 /\ <1>2!2 /\ <1>2!3 /\ <1>2!4 /\ <1>2!5
    BY <2>3 DEF Resolve
  <2>4. ASSUME NEW b \in Book, GoLive(b)
        PROVE  <1>2!1 /\ <1>2!2 /\ <1>2!3 /\ <1>2!4 /\ <1>2!5
    BY <2>4 DEF GoLive
  <2>5. ASSUME NEW s \in Source, Finish(s)
        PROVE  <1>2!1 /\ <1>2!2 /\ <1>2!3 /\ <1>2!4 /\ <1>2!5
    BY <2>5 DEF Finish
  <2> QED
    BY <2>1, <2>2, <2>3, <2>4, <2>5 DEF Environment
<1>3. TypeOK'
  BY <1>1, <1>2 DEF IInv, TypeOK
<1>4. RunsAgree'
  BY <1>1 DEF IInv, RunsAgree, Agree
<1>5. MatchedPlayersAgree' /\ MatchedOnce'
  BY <1>1 DEF IInv, MatchedPlayersAgree, MatchedOnce
<1> QED
  BY <1>3, <1>4, <1>5 DEF IInv

LEMMA StepKeeps == IInv /\ [Next]_vars => IInv'
<1> SUFFICES ASSUME IInv, [Next]_vars PROVE IInv'
  OBVIOUS
<1>1. CASE Environment
  BY <1>1, EnvironmentKeeps
<1>2. ASSUME NEW m \in Matcher, MatchRead(m)
      PROVE  IInv'
  BY <1>2, ReadKeeps
<1>3. ASSUME NEW m \in Matcher, MatchCommit(m)
      PROVE  IInv'
  BY <1>3, CommitKeeps
<1>4. ASSUME NEW m \in Matcher, MatchRefused(m)
      PROVE  IInv'
  <2>1. faults' \in Nat
    BY <1>4 DEF MatchRefused, IInv, TypeOK
  <2> QED
    BY <1>4, <2>1, CloseKeeps DEF MatchRefused
<1>5. ASSUME NEW m \in Matcher, MatchAbort(m)
      PROVE  IInv'
  <2>1. faults' \in Nat
    BY <1>5 DEF MatchAbort, IInv, TypeOK
  <2> QED
    BY <1>5, <2>1, CloseKeeps DEF MatchAbort
<1>6. CASE UNCHANGED vars
  BY <1>6 DEF vars, eventVars, IInv, TypeOK, RunsAgree, Agree, MatchedPlayersAgree, MatchedOnce
<1> QED
  BY <1>1, <1>2, <1>3, <1>4, <1>5, <1>6 DEF Next, Match
-----------------------------------------------------------------------------
LEMMA Invariance == Spec => []IInv
<1>1. Init => IInv
  BY InitHolds
<1>2. IInv /\ [Next]_vars => IInv'
  BY StepKeeps
<1> QED
  BY <1>1, <1>2, PTL DEF Spec

\* The rows of event_matches and the writes of its matchers are of their types,
\* a pair has an id just when it has a status, and no run updates a row that
\* is not there (event_repository.py:243-269).
THEOREM TypeCorrect == Spec => []TypeOK
<1>1. IInv => TypeOK
  BY DEF IInv
<1> QED
  BY <1>1, Invariance, PTL

\* Only events with the same two named players are ever matched, whatever the
\* modes of the jobs and however they interleave (events.py:101-113).
THEOREM PlayersAgree == Spec => []MatchedPlayersAgree
<1>1. IInv => MatchedPlayersAgree
  BY DEF IInv
<1> QED
  BY <1>1, Invariance, PTL

\* No event is matched twice, though the runs decide on what they read before
\* another one wrote (the unique indexes of models.py:396-409).
THEOREM MatchedOnceAlways == Spec => []MatchedOnce
<1>1. IInv => MatchedOnce
  BY DEF IInv
<1> QED
  BY <1>1, Invariance, PTL
=============================================================================
