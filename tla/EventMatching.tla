---------------------------- MODULE EventMatching ----------------------------
(***************************************************************************)
(* The table event_matches, which says what bookmaker event a historical   *)
(* source event is, and the runs of EventMatchingRepository.match_sources  *)
(* that keep it: `live' before each prediction cycle, `completed' before   *)
(* each corridor rebuild, and `full' from the command line.                *)
(*                                                                         *)
(* A run is one transaction: it reads events and rows, decides, and writes *)
(* everything in the flush at its end.  The session flushes UPDATEs in the *)
(* order of the rows' ids and then INSERTs, and the database checks the    *)
(* unique indexes on matched rows at each statement.                       *)
(***************************************************************************)
EXTENDS EventScoring, FiniteSets

CONSTANTS
    Source, Book,    \* events of the historical source and of the bookmaker
    PlayersOf,       \* of an event, in the order it lists them
    Alike,           \* tournament score of a pair of events
    StartsAt,        \* kickoff of an event, as first announced
    MovesTo,         \* other kickoffs that may be announced for it (bound)
    LateNamed,       \* events whose players are named later than they are stored
    Matcher, ModeOf, \* the jobs that run the matcher, and in what mode
    Step,            \* minutes the clock moves on at once (bound)
    MaxTime, MaxFaults,    \* bounds of the model
    None

AnyEvent == Source \cup Book
Pair     == Source \X Book

ASSUME EventsAssumption ==
    /\ Source \cap Book = {} /\ None \notin Book
    /\ IsFiniteSet(Source) /\ IsFiniteSet(Book)
    /\ \A e \in AnyEvent : PlayersOf[e] = [p1 |-> PlayersOf[e].p1, p2 |-> PlayersOf[e].p2]
    /\ Alike \in [Pair -> 0 .. Full]
    /\ StartsAt \in [AnyEvent -> Nat]
    /\ MovesTo \in [AnyEvent -> SUBSET Nat]
    /\ LateNamed \subseteq AnyEvent
    /\ ModeOf \in [Matcher -> {"live", "completed", "full"}]
    /\ Step \in Nat \ {0} /\ MaxTime \in Nat /\ MaxFaults \in Nat

VARIABLES
    now,             \* in minutes
    start,           \* events.started_at
    resolved,        \* events whose two players the normalizer has named
    prematch,        \* bookmaker events with status "scheduled"
    finished,        \* source events with a results row
    status,          \* event_matches.status of a pair, or "absent"
    rowId,           \* event_matches.id, or 0
    run,             \* what an open transaction is going to write
    faults           \* transactions lost (bound)

eventVars == <<start, resolved, prematch, finished>>
vars == <<now, eventVars, status, rowId, run, faults>>

-----------------------------------------------------------------------------
Status  == {"matched", "ambiguous", "rejected"}
NoWrite == [p \in Pair |-> "keep"]
Closed  == [open |-> FALSE, writes |-> NoWrite, fresh |-> {},
            starts |-> [e \in AnyEvent |-> 0]]

\* A bookmaker event is stored with its first quotes, before it starts.
Init ==
    /\ now = 0
    /\ start = StartsAt
    /\ resolved = AnyEvent \ LateNamed
    /\ prematch = Book
    /\ finished = {}
    /\ status = [p \in Pair |-> "absent"]
    /\ rowId = [p \in Pair |-> 0]
    /\ run = [m \in Matcher |-> Closed]
    /\ faults = 0

(* The collectors and the normalizer.                                      *)

Tick ==
    /\ now + Step <= MaxTime
    /\ now' = now + Step
    /\ UNCHANGED <<eventVars, status, rowId, run, faults>>

\* A poll announces another kickoff of an event that is yet to start.
Reschedule(e) ==
    /\ now < start[e]
    /\ \E at \in (MovesTo[e] \cup {StartsAt[e]}) \ {start[e]} :
          now < at /\ start' = [start EXCEPT ![e] = at]
    /\ UNCHANGED <<now, resolved, prematch, finished, status, rowId, run, faults>>

\* The normalizer names the players of an event once both are decided, and
\* never takes a name back.
Resolve(e) ==
    /\ e \notin resolved
    /\ resolved' = resolved \cup {e}
    /\ UNCHANGED <<now, start, prematch, finished, status, rowId, run, faults>>

\* The bookmaker lists the event as in play.
GoLive(b) ==
    /\ b \in prematch
    /\ now >= start[b]
    /\ prematch' = prematch \ {b}
    /\ UNCHANGED <<now, start, resolved, finished, status, rowId, run, faults>>

\* The source reports the final score.
Finish(s) ==
    /\ s \notin finished
    /\ now >= start[s]
    /\ finished' = finished \cup {s}
    /\ UNCHANGED <<now, start, resolved, prematch, status, rowId, run, faults>>

-----------------------------------------------------------------------------
(* EventMatchingRepository.match_sources: what a run reads.                *)

CandidateWindow == 30

\* The bookmaker events of a mode.
BooksIn(mode) ==
    CASE mode = "live"      -> {b \in prematch : start[b] > now}
      [] mode = "completed" -> {b \in Book : start[b] <= now}
      [] mode = "full"      -> Book

\* The source events of a mode, around the kickoffs of the bookmaker events.
Around(s, books) ==
    /\ \E b \in books : start[s] >= start[b] - CandidateWindow
    /\ \E b \in books : start[s] <= start[b] + CandidateWindow

SourcesIn(mode, books) ==
    {s \in Source : /\ Around(s, books)
                    /\ mode = "live" => start[s] > now
                    /\ mode = "completed" => s \in finished /\ start[s] <= now}

Near(s, b) == Distance(start[s], start[b]) <= CandidateWindow

Points(s, b) ==
    ScoreEventPair(PlayersOf[s], PlayersOf[b], Alike[<<s, b>>], Distance(start[s], start[b]))

Candidates(s, books) == {b \in books \cap resolved : Near(s, b)}

\* The best candidates of a source event: ties are left open.
Best(s, books) ==
    {b \in Candidates(s, books) : \A c \in Candidates(s, books) : Points(s, b) >= Points(s, c)}

Automatic(s, b, books) ==
    IsAutomatic(Points(s, b), {Points(s, c) : c \in Candidates(s, books) \ {b}})

\* Another source event holds the bookmaker event.
AlreadyMatchedByAnyone(s, b) == \E t \in Source : status[<<t, b>>] = "matched"
AlreadyMatched(s, b) == \E t \in Source \ {s} : status[<<t, b>>] = "matched"

\* More than one source event would have it automatically.
Collision(b, books, best) ==
    \E s, t \in DOMAIN best : /\ s # t /\ best[s] = b /\ best[t] = b
                              /\ Automatic(s, b, books) /\ Automatic(t, b, books)

NewStatus(s, books, best) ==
    IF /\ Automatic(s, best[s], books)
       /\ ~Collision(best[s], books, best)
       /\ ~AlreadyMatched(s, best[s])
    THEN "matched" ELSE "ambiguous"

\* What becomes of a pair whose source event was decided on: its best pair
\* is matched or ambiguous, every other row of it is rejected.
Decided(p, books, best) ==
    IF best[p[1]] = p[2] THEN NewStatus(p[1], books, best)
    ELSE IF status[p] = "absent" THEN "absent" ELSE "rejected"

\* Only columns that change are written.
Write(p, new) == IF new = status[p] THEN "keep" ELSE new

Writes(books, best) ==
    [p \in Pair |-> IF p[1] \in DOMAIN best THEN Write(p, Decided(p, books, best)) ELSE "keep"]

\* A full run that finds no source events rejects what its bookmaker events
\* were matched to.
StaleWrites(books) ==
    [p \in Pair |-> IF p[2] \in books /\ status[p] = "matched" THEN "rejected" ELSE "keep"]

Opened(writes) ==
    [open |-> TRUE, writes |-> writes, starts |-> start,
     fresh |-> {p \in Pair : writes[p] # "keep" /\ status[p] = "absent"}]

MatchRead(m) ==
    /\ ~run[m].open
    /\ LET books   == BooksIn(ModeOf[m])
           sources == SourcesIn(ModeOf[m], books)
       IN  /\ books # {}
           /\ \/ /\ sources # {}
                 /\ \E best \in [sources \cap resolved -> Book \cup {None}] :
                      /\ \A s \in sources \cap resolved :
                            IF Candidates(s, books) = {} THEN best[s] = None
                            ELSE best[s] \in Best(s, books)
                      /\ run' = [run EXCEPT ![m] = Opened(Writes(books, best))]
              \/ /\ sources = {} /\ ModeOf[m] = "full"
                 /\ run' = [run EXCEPT ![m] = Opened(StaleWrites(books))]
    /\ UNCHANGED <<now, eventVars, status, rowId, faults>>

-----------------------------------------------------------------------------
(* The flush.                                                              *)

Meet(p, q) == p # q /\ (p[1] = q[1] \/ p[2] = q[2])

After(m, p) == IF run[m].writes[p] = "keep" THEN status[p] ELSE run[m].writes[p]

\* The flush of m fails: a concurrent run inserted the same pair, or a row
\* that becomes matched meets one that still is when its statement runs,
\* because it stays so or because its own UPDATE, of a higher id, comes later.
RefusedByPairOnly(m) == \E p \in run[m].fresh : status[p] # "absent"
Refused(m) ==
    \/ \E p \in run[m].fresh : status[p] # "absent"
    \/ \E p, q \in Pair :
          /\ Meet(p, q)
          /\ run[m].writes[p] = "matched"
          /\ \/ After(m, q) = "matched"
             \/ p \notin run[m].fresh /\ status[q] = "matched" /\ rowId[q] > rowId[p]

Rows == Cardinality({p \in Pair : rowId[p] # 0})

\* Rows are inserted in the order in which their source events were decided.
InsertedInOrder(m, ids) ==
    /\ \A p, q \in run[m].fresh : ids[p] = ids[q] => p = q
    /\ \A p, q \in run[m].fresh : run[m].starts[p[1]] < run[m].starts[q[1]] => ids[p] < ids[q]

MatchCommit(m) ==
    /\ run[m].open
    /\ ~Refused(m)
    /\ status' = [p \in Pair |-> After(m, p)]
    /\ \E ids \in [run[m].fresh -> Rows + 1 .. Rows + Cardinality(run[m].fresh)] :
          /\ InsertedInOrder(m, ids)
          /\ rowId' = [p \in Pair |-> IF p \in run[m].fresh THEN ids[p] ELSE rowId[p]]
    /\ run' = [run EXCEPT ![m] = Closed]
    /\ UNCHANGED <<now, eventVars, faults>>

\* An IntegrityError rolls everything back; the job is logged as failed.
MatchRefused(m) ==
    /\ run[m].open
    /\ Refused(m)
    /\ run' = [run EXCEPT ![m] = Closed]
    /\ UNCHANGED <<now, eventVars, status, rowId, faults>>

\* So does a lost connection, a deadlock or a crash.
MatchAbort(m) ==
    /\ run[m].open
    /\ faults < MaxFaults
    /\ faults' = faults + 1
    /\ run' = [run EXCEPT ![m] = Closed]
    /\ UNCHANGED <<now, eventVars, status, rowId>>

-----------------------------------------------------------------------------
Environment ==
    \/ Tick
    \/ \E e \in AnyEvent : Reschedule(e) \/ Resolve(e)
    \/ \E b \in Book : GoLive(b)
    \/ \E s \in Source : Finish(s)

Match(m) == MatchRead(m) \/ MatchCommit(m) \/ MatchRefused(m) \/ MatchAbort(m)

Next == Environment \/ \E m \in Matcher : Match(m)

Spec == Init /\ [][Next]_vars

\* The scheduler keeps starting the jobs, whatever their last run did, and a
\* run comes to its flush.
Fairness ==
    \A m \in Matcher : /\ WF_vars(MatchRead(m))
                       /\ WF_vars(MatchCommit(m) \/ MatchRefused(m))

FairSpec == Spec /\ Fairness
-----------------------------------------------------------------------------
RunState == [open : BOOLEAN, writes : [Pair -> Status \cup {"keep"}],
             fresh : SUBSET Pair, starts : [AnyEvent -> Nat]]

\* Every variable holds values of its column's domain, a pair has a row when
\* it has a status, and a run updates no row that it did not find.
TypeOK ==
    /\ now \in Nat
    /\ start \in [AnyEvent -> Nat]
    /\ resolved \subseteq AnyEvent
    /\ prematch \subseteq Book
    /\ finished \subseteq Source
    /\ status \in [Pair -> Status \cup {"absent"}]
    /\ rowId \in [Pair -> Nat]
    /\ \A p \in Pair : status[p] = "absent" <=> rowId[p] = 0
    /\ run \in [Matcher -> RunState]
    /\ \A m \in Matcher, p \in Pair :
          run[m].writes[p] # "keep" => p \in run[m].fresh \/ rowId[p] # 0
    /\ faults \in Nat

(***************************************************************************)
(* Safety.                                                                 *)
(***************************************************************************)

\* A matched pair has the same two players: no amount of likeness in time
\* and tournament makes up for one of them, in any mode, whatever was moved
\* or named meanwhile.
MatchedPlayersAgree ==
    \A p \in Pair : status[p] = "matched" =>
        /\ p[1] \in resolved /\ p[2] \in resolved
        /\ SamePlayers(PlayersOf[p[1]], PlayersOf[p[2]])

\* Overlapping runs never match an event twice.
MatchedOnce ==
    \A p, q \in Pair : status[p] = "matched" /\ status[q] = "matched" => ~Meet(p, q)

(***************************************************************************)
(* Liveness, under FairSpec.                                               *)
(***************************************************************************)

\* Nothing speaks against the pair p: both events are over and named, and no
\* other event of either side comes close to them or holds the bookmaker's.
Plain(p) ==
    /\ p[1] \in finished /\ {p[1], p[2]} \subseteq resolved
    /\ now >= start[p[1]] /\ now >= start[p[2]]
    /\ Near(p[1], p[2])
    /\ Automatic(p[1], p[2], Book)
    /\ \A t \in Source \ {p[1]} : /\ Points(t, p[2]) < AutomaticThreshold
                                  /\ status[<<t, p[2]>>] # "matched"

\* A finished match whose bookmaker event is plain is matched in the end and
\* stays so, though a live run may have taken the pair apart at kickoff.
FinishedPairIsMatched ==
    \A p \in Pair : <>[]Plain(p) => <>[](status[p] = "matched")
=============================================================================
