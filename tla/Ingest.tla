-------------------------------- MODULE Ingest --------------------------------
(***************************************************************************)
(* How the answers of one source become rows: the parsers, and the         *)
(* transactions of the repositories that store what was parsed (Fonbet's   *)
(* catalogue, and the histories of UEL, ESportsBattle and SIS).            *)
(*                                                                         *)
(* A collector downloads documents, then opens a transaction, reads the    *)
(* events it already has, and commits.  The service has one collector of   *)
(* a source; an operator's `backfill' is another one.  The session writes  *)
(* the columns that differ from what it read, and always the id of the     *)
(* payload: so two transactions on one event queue at that write, and the  *)
(* rows read after it (participants, results) are up to date, while the    *)
(* event itself may have been read before the other one's commit.          *)
(***************************************************************************)
EXTENDS Integers, FiniteSets

CONSTANTS
    Match, Tour,     \* the source's matches, and its tours: sets of matches
    Collector,
    Kind,            \* the kinds of source this instance may be of
    Listing,         \* what a source of a kind may say of a match (bound)
    Score, Side,     \* final scores, and orders of the two participants
    None,
    MaxTime, MaxNews \* bounds of the model

ASSUME SourceAssumption ==
    /\ IsFiniteSet(Match) /\ Tour \subseteq SUBSET Match
    /\ \A t, u \in Tour : t # u => t \cap u = {}
    /\ Kind \subseteq {"fonbet", "uel", "esb", "sis"}
    /\ None \notin Score /\ None \notin Int
    /\ MaxTime \in Nat /\ MaxNews \in Nat

ASSUME ListingAssumption ==
    \A k \in Kind : \A l \in Listing[k] :
        l.start \in Int /\ l.score \in Score \cup {None} /\ l.sides \in Side

VARIABLES
    kind,            \* the source's kind: never changes
    now, news,       \* the clock, and how often the source changed (bound)
    listed,          \* what the source says of a match now
    col,             \* what a collector holds
    raws,            \* raw_payloads: the stored documents
    events,          \* events, and their participants
    participants,
    results,
    quotes,          \* odds_snapshots
    overtaken        \* events whose last write was decided on an outdated row

tables == <<raws, events, participants, results, quotes, overtaken>>
vars   == <<kind, now, news, listed, col, tables>>

-----------------------------------------------------------------------------
(* The parsers.  A listing gives its core fields or is rejected; its score *)
(* is None unless both sides have one; half says that one side has.        *)

UELStatus(l) ==
    IF l.state \in {"scheduled", "live", "finished", "cancelled"} THEN l.state ELSE "unknown"

\* An upcoming row is stamped when it is created.
UELUpdated(l) == IF l.updated > l.start THEN l.updated ELSE None

ESBStatus(l) ==
    IF l.state = "completed" /\ l.score # None THEN "finished" ELSE "unknown"

SISStatus(l) ==
    CASE l.state = "cancelled"                        -> "cancelled"
      [] l.state = "MATCH_ENDED" /\ l.score # None    -> "finished"
      [] l.state = "none" /\ l.score = None /\ ~l.half -> "scheduled"
      [] OTHER                                        -> "unknown"

FonbetStatus(l) ==
    CASE l.state = "live" -> "live" [] l.state = "line" -> "scheduled" [] OTHER -> "unknown"

\* Odds of one and less are no quote.
FonbetQuote(l) == IF l.odds > 100 THEN l.odds ELSE None

Fields(l, status, score) ==
    [start |-> l.start, status |-> status, score |-> score,
     updated |-> None, odds |-> None, sides |-> l.sides]

UELParsed(l) == [Fields(l, UELStatus(l), l.score) EXCEPT !.updated = UELUpdated(l)]

ESBParsed(l) == Fields(l, ESBStatus(l), l.score)

SISParsed(l) == Fields(l, SISStatus(l), l.score)

FonbetParsed(l) == [Fields(l, FonbetStatus(l), None) EXCEPT !.odds = FonbetQuote(l)]

Parsed(l) ==
    CASE kind = "uel" -> UELParsed(l) [] kind = "esb" -> ESBParsed(l)
      [] kind = "sis" -> SISParsed(l) [] OTHER -> FonbetParsed(l)

IsFinished(p) == p.status = "finished" /\ p.score # None

\* The matches one answer lists: a tour's, or all.
Unit == IF kind \in {"uel", "esb"} THEN Tour ELSE {Match}

Answer(u) == [m \in {m \in u : listed[m].core} |-> Parsed(listed[m])]

-----------------------------------------------------------------------------
Idle == [open |-> FALSE, docs |-> {}, read |-> [m \in {} |-> 0]]

Init ==
    /\ kind \in Kind
    /\ now = 0 /\ news = 0
    /\ listed \in [Match -> Listing[kind]]
    /\ col = [c \in Collector |-> Idle]
    /\ raws = {} /\ quotes = {} /\ overtaken = {}
    /\ events = [m \in {} |-> 0]
    /\ participants = [m \in {} |-> 0]
    /\ results = [m \in {} |-> 0]

Tick ==
    /\ now < MaxTime
    /\ now' = now + 1
    /\ UNCHANGED <<kind, news, listed, col, tables>>

\* The source says something else of a match, a correction included.
Announce(m) ==
    /\ news < MaxNews
    /\ news' = news + 1
    /\ \E l \in Listing[kind] : listed' = [listed EXCEPT ![m] = l]
    /\ UNCHANGED <<kind, now, col, tables>>

-----------------------------------------------------------------------------
(* A collector.                                                            *)

Shown(docs) == UNION {DOMAIN d.shows : d \in docs}
DocOf(docs, m) == CHOOSE d \in docs : m \in DOMAIN d.shows

Fetch(c, u) ==
    /\ ~col[c].open
    /\ \A d \in col[c].docs : d.unit # u
    /\ col' = [col EXCEPT ![c].docs = @ \cup {[unit |-> u, at |-> now, shows |-> Answer(u)]}]
    /\ UNCHANGED <<kind, now, news, listed, tables>>

\* The events stored already.
ReadEvents(c) ==
    /\ ~col[c].open /\ col[c].docs # {}
    /\ col' = [col EXCEPT ![c].open = TRUE,
                 ![c].read = [m \in Shown(col[c].docs) \cap DOMAIN events |->
                                [start |-> events[m].start, status |-> events[m].status]]]
    /\ UNCHANGED <<kind, now, news, listed, tables>>

\* A column is written if it differs from what was read.
StoredStart(read, p, m) ==
    IF m \in DOMAIN read /\ read[m].start = p.start THEN events[m].start ELSE p.start
StoredStatus(read, p, m) ==
    IF m \in DOMAIN read /\ read[m].status = p.status THEN events[m].status ELSE p.status

StoredEvent(read, d, m) ==
    [start  |-> StoredStart(read, d.shows[m], m),
     status |-> StoredStatus(read, d.shows[m], m),
     raw    |-> d]

\* Mutant: the moment of the last payload.
LastOf(d, m) == d.at

FirstOf(d, m) ==
    IF m \in DOMAIN results /\ results[m].observed <= d.at THEN results[m].observed ELSE d.at

\* Mutant: a stored score is not corrected.
StoredResultOnce(d, m) ==
    [score    |-> IF m \in DOMAIN results THEN results[m].score ELSE d.shows[m].score,
     updated  |-> d.shows[m].updated,
     observed |-> FirstOf(d, m),
     raw      |-> d]

StoredResult(d, m) ==
    [score    |-> d.shows[m].score,
     updated  |-> d.shows[m].updated,
     observed |-> FirstOf(d, m),
     raw      |-> d]

\* The matches a document shows with a final score.
FinishedIn(docs) == {m \in Shown(docs) : IsFinished(DocOf(docs, m).shows[m])}

Quotes(docs) ==
    {[match |-> m, odds |-> DocOf(docs, m).shows[m].odds, at |-> DocOf(docs, m).at] :
        m \in {m \in Shown(docs) : DocOf(docs, m).shows[m].odds # None}}

\* Rows that changed after they were read.
Outdated(docs, read) ==
    {m \in Shown(docs) \cap DOMAIN events :
        read[m] # [start |-> events[m].start, status |-> events[m].status]}

\* The stored payloads, and the events and participants they show.  An event
\* that is new to the transaction is inserted; one that another transaction
\* has inserted since refuses everything.
UpsertEvents(docs, read) ==
    /\ Shown(docs) \cap DOMAIN events \subseteq DOMAIN read
    /\ raws' = raws \cup docs
    /\ events' = [m \in DOMAIN events \cup Shown(docs) |->
                    IF m \in Shown(docs) THEN StoredEvent(read, DocOf(docs, m), m)
                                         ELSE events[m]]
    /\ participants' = [m \in DOMAIN participants \cup Shown(docs) |->
                          IF m \in Shown(docs) THEN DocOf(docs, m).shows[m].sides
                                               ELSE participants[m]]
    /\ overtaken' = (overtaken \ Shown(docs)) \cup Outdated(docs, read)

UpsertResults(docs) ==
    results' = [m \in DOMAIN results \cup FinishedIn(docs) |->
                  IF m \in FinishedIn(docs) THEN StoredResult(DocOf(docs, m), m)
                                            ELSE results[m]]

\* The transaction of a repository.  Quotes are only ever inserted.
Persist(c, k) ==
    /\ kind = k /\ col[c].open
    /\ UpsertEvents(col[c].docs, col[c].read)
    /\ col' = [col EXCEPT ![c] = Idle]
    /\ UNCHANGED <<kind, now, news, listed>>

FonbetPersist(c) ==
    /\ Persist(c, "fonbet")
    /\ quotes' = quotes \cup Quotes(col[c].docs)
    /\ UNCHANGED results

ESBPersist(c) == Persist(c, "esb") /\ UpsertResults(col[c].docs) /\ UNCHANGED quotes

UELPersist(c) == Persist(c, "uel") /\ UpsertResults(col[c].docs) /\ UNCHANGED quotes

SISPersist(c) == Persist(c, "sis") /\ UpsertResults(col[c].docs) /\ UNCHANGED quotes

\* A download, the parser or the database fails, or the process ends.
Rollback(c) ==
    /\ col[c] # Idle
    /\ col' = [col EXCEPT ![c] = Idle]
    /\ UNCHANGED <<kind, now, news, listed, tables>>

Next ==
    \/ Tick
    \/ \E m \in Match : Announce(m)
    \/ \E c \in Collector :
          \/ \E u \in Unit : Fetch(c, u)
          \/ ReadEvents(c)
          \/ FonbetPersist(c)
          \/ ESBPersist(c)
          \/ UELPersist(c)
          \/ SISPersist(c)
          \/ Rollback(c)

Spec == Init /\ [][Next]_vars

-----------------------------------------------------------------------------
Status == {"scheduled", "live", "finished", "cancelled", "unknown"}

ParsedMatch ==
    [start : Int, status : Status, score : Score \cup {None}, updated : Int \cup {None},
     odds : Int \cup {None}, sides : Side]

Document == [unit : SUBSET Match, at : 0 .. MaxTime,
             shows : UNION {[S -> ParsedMatch] : S \in SUBSET Match}]

TypeOK ==
    /\ kind \in Kind /\ now \in 0 .. MaxTime /\ news \in 0 .. MaxNews
    /\ DOMAIN results \subseteq DOMAIN events
    /\ DOMAIN participants = DOMAIN events
    /\ \A d \in raws : d.at <= now
    /\ \A m \in DOMAIN events :
          events[m].start \in Int /\ events[m].status \in Status /\ participants[m] \in Side
    /\ \A m \in DOMAIN results :
          results[m].score \in Score /\ results[m].observed \in 0 .. now

\* The stored documents that show a final score of a match.
Confirming(m) == {d \in raws : m \in DOMAIN d.shows /\ IsFinished(d.shows[m])}

\* A match has a result exactly when a stored payload shows its final score,
\* and observed_at is the moment the first of those was received: whatever
\* the order in which overlapping collectors store what they hold, an answer
\* that comes in late never hides an earlier one, and none comes too early
\* (the min over first_observation in the repositories).
FirstObserved ==
    \A m \in Match :
        /\ m \in DOMAIN results <=> Confirming(m) # {}
        /\ m \in DOMAIN results =>
              /\ \E d \in Confirming(m) : results[m].observed = d.at
              /\ \A d \in Confirming(m) : results[m].observed <= d.at

\* The rows of a match are those of the payload they name: the participants,
\* in their order, are those the event's payload lists; the score is the one
\* the result's payload shows; and kickoff and status are the payload's too,
\* unless the transaction that wrote them had read the event before another
\* one changed it (then a row may mix two answers).
RowsOfOnePayload ==
    /\ \A m \in DOMAIN events :
          LET d == events[m].raw IN
          /\ d \in raws /\ m \in DOMAIN d.shows
          /\ participants[m] = d.shows[m].sides
          /\ m \notin overtaken => /\ events[m].start = d.shows[m].start
                                   /\ events[m].status = d.shows[m].status
    /\ \A m \in DOMAIN results :
          LET d == results[m].raw IN
          /\ d \in Confirming(m)
          /\ results[m].score = d.shows[m].score
          /\ results[m].updated # None => results[m].updated > d.shows[m].start
=============================================================================
