---------------------------- MODULE Ingest_proofs ----------------------------
(***************************************************************************)
(* Ingest proved for every source, any answers and any number of           *)
(* overlapping collectors.                                                 *)
(***************************************************************************)
EXTENDS Ingest, TLAPS

\* A document lists matches of its unit; only a source of results says that
\* one is finished; a time of its last change is after the kickoff.
IsDocument(d) ==
    /\ d.unit \in Unit /\ d.at \in Nat
    /\ DOMAIN d.shows \subseteq d.unit
    /\ \A m \in DOMAIN d.shows :
          /\ kind = "fonbet" => ~IsFinished(d.shows[m])
          /\ d.shows[m].updated # None => d.shows[m].updated > d.shows[m].start

\* No two documents of one collector list the same match.
Disjoint(docs) == \A d, e \in docs : d.unit = e.unit => d = e

\* The fields a collector's state has.
IsState(w) == w \in [open : {w.open}, docs : {w.docs}, read : {w.read}]

CollectorsInv ==
    /\ col = [c \in Collector |-> col[c]]
    /\ \A c \in Collector :
        /\ IsState(col[c])
        /\ \A d \in col[c].docs : IsDocument(d)
        /\ Disjoint(col[c].docs)
        /\ DOMAIN col[c].read \subseteq DOMAIN events

IngestInv ==
    /\ now \in Nat
    /\ \A d \in raws : IsDocument(d)
    /\ CollectorsInv
    /\ DOMAIN participants = DOMAIN events
    /\ FirstObserved
    /\ RowsOfOnePayload

LEMMA UnitsDisjoint ==
    ASSUME NEW u \in Unit, NEW v \in Unit, u # v
    PROVE  u \cap v = {}
  BY SourceAssumption DEF Unit

\* Each match is shown by the one document that DocOf chooses.
LEMMA TheDocument ==
    ASSUME NEW docs, \A d \in docs : IsDocument(d), Disjoint(docs), NEW m \in Shown(docs)
    PROVE  /\ DocOf(docs, m) \in docs /\ m \in DOMAIN DocOf(docs, m).shows
           /\ \A d \in docs : m \in DOMAIN d.shows => d = DocOf(docs, m)
<1>1. \E d \in docs : m \in DOMAIN d.shows
  BY DEF Shown
<1>2. DocOf(docs, m) \in docs /\ m \in DOMAIN DocOf(docs, m).shows
  BY <1>1 DEF DocOf
<1>3. ASSUME NEW d \in docs, m \in DOMAIN d.shows
      PROVE  d = DocOf(docs, m)
  <2>. DEFINE e == DocOf(docs, m)
  <2>1. m \in d.unit /\ m \in e.unit /\ d.unit \in Unit /\ e.unit \in Unit
    BY <1>2, <1>3 DEF IsDocument
  <2>2. d.unit = e.unit
    BY <2>1, UnitsDisjoint
  <2>. QED
    BY <1>2, <2>2 DEF Disjoint
<1>. QED
  BY <1>2, <1>3

\* What the parsers make of a listing.
LEMMA ParsedListing ==
    ASSUME NEW l
    PROVE  /\ kind = "fonbet" => ~IsFinished(Parsed(l))
           /\ Parsed(l).updated # None => Parsed(l).updated > Parsed(l).start
<1>1. /\ UELParsed(l).updated # None => UELParsed(l).updated > UELParsed(l).start
      /\ ESBParsed(l).updated = None /\ SISParsed(l).updated = None
  BY DEF UELParsed, UELUpdated, ESBParsed, SISParsed, Fields
<1>2. FonbetParsed(l).updated = None /\ FonbetParsed(l).score = None
  BY DEF FonbetParsed, Fields
<1>3. kind = "uel" => Parsed(l) = UELParsed(l)
  BY DEF Parsed
<1>4. kind = "esb" => Parsed(l) = ESBParsed(l)
  BY DEF Parsed
<1>5. kind = "sis" => Parsed(l) = SISParsed(l)
  BY DEF Parsed
<1>6. kind \notin {"uel", "esb", "sis"} => Parsed(l) = FonbetParsed(l)
  BY DEF Parsed
<1>. QED
  BY <1>1, <1>2, <1>3, <1>4, <1>5, <1>6 DEF IsFinished

LEMMA IngestInit == Init => IngestInv
<1>. SUFFICES ASSUME Init
              PROVE  IngestInv
  OBVIOUS
<1>1. \A c \in Collector : col[c] = Idle
  BY DEF Init
<1>2. CollectorsInv
  BY <1>1 DEF Init, CollectorsInv, Idle, Disjoint, IsState
<1>3. FirstObserved /\ RowsOfOnePayload
  BY DEF Init, FirstObserved, RowsOfOnePayload, Confirming
<1>4. DOMAIN participants = DOMAIN events
  BY DEF Init
<1>. QED
  BY <1>2, <1>3, <1>4 DEF IngestInv, Init

\* The parts of the invariant about the tables need not be looked at again
\* where no table changes.
LEMMA TablesKept ==
    ASSUME IngestInv, UNCHANGED <<kind, tables>>, now' \in Nat, CollectorsInv'
    PROVE  IngestInv'
<1>1. UNCHANGED <<raws, events, participants, results, overtaken>>
  BY DEF tables
<1>2. \A d \in raws : IsDocument(d)'
  BY DEF IngestInv, IsDocument, Unit, IsFinished
<1>3. \A m : Confirming(m)' = Confirming(m)
  BY <1>1 DEF Confirming, IsFinished
<1>4. FirstObserved' /\ RowsOfOnePayload'
  BY <1>1, <1>3 DEF IngestInv, FirstObserved, RowsOfOnePayload
<1>. QED
  BY <1>1, <1>2, <1>4 DEF IngestInv

LEMMA CollectorsKept ==
    ASSUME CollectorsInv, UNCHANGED <<kind, col>>, DOMAIN events \subseteq DOMAIN events'
    PROVE  CollectorsInv'
  BY DEF CollectorsInv, IsDocument, Unit, IsFinished, Disjoint

LEMMA FetchKeeps ==
    ASSUME IngestInv, NEW c \in Collector, NEW u \in Unit, Fetch(c, u)
    PROVE  IngestInv'
<1>. DEFINE doc == [unit |-> u, at |-> now, shows |-> Answer(u)]
<1>1. UNCHANGED <<kind, now, tables>>
  BY DEF Fetch
<1>2. IsDocument(doc)
  <2>1. DOMAIN Answer(u) \subseteq u
    BY DEF Answer
  <2>2. \A m \in DOMAIN Answer(u) : Answer(u)[m] = Parsed(listed[m])
    BY DEF Answer
  <2>. QED
    BY <2>1, <2>2, ParsedListing DEF IsDocument, IngestInv
<1>3. \A d \in col[c].docs : d.unit # u
  BY DEF Fetch
<1>4. /\ \A d \in col[c].docs \cup {doc} : IsDocument(d)
      /\ Disjoint(col[c].docs \cup {doc})
  BY <1>2, <1>3 DEF IngestInv, CollectorsInv, Disjoint
<1>5. /\ \A b \in Collector : /\ IsState(col'[b])
                              /\ b = c => col'[b].docs = col[b].docs \cup {doc}
                              /\ b # c => col'[b].docs = col[b].docs
                              /\ col'[b].read = col[b].read
      /\ col' = [b \in Collector |-> col'[b]]
  <2>. DEFINE w == [col[c] EXCEPT !.docs = @ \cup {doc}]
  <2>1. /\ col = [b \in Collector |-> col[b]]
        /\ \A b \in Collector : IsState(col[b])
    BY DEF IngestInv, CollectorsInv
  <2>2. IsState(w) /\ w.docs = col[c].docs \cup {doc} /\ w.read = col[c].read
    BY <2>1 DEF IsState
  <2>3. col' = [col EXCEPT ![c] = w]
    BY DEF Fetch
  <2>. HIDE DEF w
  <2>. QED
    BY <2>1, <2>2, <2>3
<1>6. \A d : IsDocument(d)' <=> IsDocument(d)
  BY <1>1 DEF IsDocument, Unit, IsFinished
<1>7. CollectorsInv'
  BY <1>1, <1>4, <1>5, <1>6 DEF IngestInv, CollectorsInv, Disjoint, tables
<1>. QED
  BY <1>1, <1>7, TablesKept DEF IngestInv

LEMMA ReadKeeps ==
    ASSUME IngestInv, NEW c \in Collector, ReadEvents(c)
    PROVE  IngestInv'
<1>1. UNCHANGED <<kind, now, tables>>
  BY DEF ReadEvents
<1>2. /\ \A b \in Collector : /\ IsState(col'[b])
                              /\ col'[b].docs = col[b].docs
                              /\ DOMAIN col'[b].read \subseteq DOMAIN events
      /\ col' = [b \in Collector |-> col'[b]]
  <2>. DEFINE known == [m \in Shown(col[c].docs) \cap DOMAIN events |->
                          [start |-> events[m].start, status |-> events[m].status]]
              w == [col[c] EXCEPT !.open = TRUE, !.read = known]
  <2>1. /\ col = [b \in Collector |-> col[b]]
        /\ \A b \in Collector : IsState(col[b]) /\ DOMAIN col[b].read \subseteq DOMAIN events
    BY DEF IngestInv, CollectorsInv
  <2>2. col' = [col EXCEPT ![c] = w]
    BY DEF ReadEvents
  <2>3. DOMAIN known \subseteq DOMAIN events
    OBVIOUS
  <2>. HIDE DEF known
  <2>4. IsState(w) /\ w.docs = col[c].docs /\ w.read = known
    BY <2>1 DEF IsState
  <2>. HIDE DEF w
  <2>. QED
    BY <2>1, <2>2, <2>3, <2>4
<1>3. \A d : IsDocument(d)' <=> IsDocument(d)
  BY <1>1 DEF IsDocument, Unit, IsFinished
<1>4. CollectorsInv'
  BY <1>1, <1>2, <1>3 DEF IngestInv, CollectorsInv, Disjoint, tables
<1>. QED
  BY <1>1, <1>4, TablesKept DEF IngestInv

LEMMA RollbackKeeps ==
    ASSUME IngestInv, NEW c \in Collector, Rollback(c)
    PROVE  IngestInv'
<1>1. UNCHANGED <<kind, now, tables>> /\ col' = [col EXCEPT ![c] = Idle]
  BY DEF Rollback
<1>2. Idle.docs = {} /\ DOMAIN Idle.read = {} /\ IsState(Idle)
  BY DEF Idle, IsState
<1>3. \A d : IsDocument(d)' <=> IsDocument(d)
  BY <1>1 DEF IsDocument, Unit, IsFinished
<1>4. /\ \A b \in Collector : col'[b] = col[b] \/ col'[b] = Idle
      /\ col' = [b \in Collector |-> col'[b]]
  BY <1>1 DEF IngestInv, CollectorsInv
<1>5. CollectorsInv'
  BY <1>1, <1>2, <1>3, <1>4 DEF IngestInv, CollectorsInv, Disjoint, tables
<1>. QED
  BY <1>1, <1>5, TablesKept DEF IngestInv

(***************************************************************************)
(* The transaction.  Of a match it shows, the results row is of the one    *)
(* document of its own that lists it.                                      *)
(***************************************************************************)

LEMMA PersistShape ==
    ASSUME NEW c \in Collector, FonbetPersist(c) \/ ESBPersist(c) \/ UELPersist(c) \/ SISPersist(c)
    PROVE  /\ UpsertEvents(col[c].docs, col[c].read)
           /\ col' = [col EXCEPT ![c] = Idle]
           /\ UNCHANGED <<kind, now>>
           /\ \/ kind = "fonbet" /\ UNCHANGED results
              \/ UpsertResults(col[c].docs)
  BY DEF FonbetPersist, ESBPersist, UELPersist, SISPersist, Persist

LEMMA ConfirmedBy ==
    ASSUME NEW docs, \A d \in docs : IsDocument(d), Disjoint(docs),
           raws' = raws \cup docs, NEW m
    PROVE  Confirming(m)' = Confirming(m) \cup
              (IF m \in FinishedIn(docs) THEN {DocOf(docs, m)} ELSE {})
<1>1. Confirming(m)' = Confirming(m) \cup {d \in docs : m \in DOMAIN d.shows /\ IsFinished(d.shows[m])}
  BY DEF Confirming, IsFinished
<1>2. CASE m \in Shown(docs)
  <2>1. /\ DocOf(docs, m) \in docs /\ m \in DOMAIN DocOf(docs, m).shows
        /\ \A d \in docs : m \in DOMAIN d.shows => d = DocOf(docs, m)
    BY <1>2, TheDocument
  <2>2. m \in FinishedIn(docs) <=> IsFinished(DocOf(docs, m).shows[m])
    BY <1>2 DEF FinishedIn
  <2>. QED
    BY <1>1, <2>1, <2>2
<1>3. CASE m \notin Shown(docs)
  BY <1>1, <1>3 DEF Shown, FinishedIn
<1>. QED
  BY <1>2, <1>3

LEMMA PersistFirst ==
    ASSUME IngestInv, NEW c \in Collector, raws' = raws \cup col[c].docs, UNCHANGED kind,
           \/ kind = "fonbet" /\ UNCHANGED results
           \/ UpsertResults(col[c].docs)
    PROVE  FirstObserved'
<1>. DEFINE docs == col[c].docs
<1>1. (\A d \in docs : IsDocument(d)) /\ Disjoint(docs)
  BY DEF IngestInv, CollectorsInv
<1>. HIDE DEF docs
<1>. SUFFICES ASSUME NEW m \in Match
              PROVE  /\ m \in DOMAIN results' <=> Confirming(m)' # {}
                     /\ m \in DOMAIN results' =>
                           /\ \E d \in Confirming(m)' : results'[m].observed = d.at
                           /\ \A d \in Confirming(m)' : results'[m].observed <= d.at
  BY DEF FirstObserved
<1>2. Confirming(m)' = Confirming(m) \cup
         (IF m \in FinishedIn(docs) THEN {DocOf(docs, m)} ELSE {})
  BY <1>1, ConfirmedBy DEF docs
<1>3. /\ m \in DOMAIN results <=> Confirming(m) # {}
      /\ m \in DOMAIN results =>
            /\ \E d \in Confirming(m) : results[m].observed = d.at
            /\ \A d \in Confirming(m) : results[m].observed <= d.at
  BY DEF IngestInv, FirstObserved
<1>4. CASE kind = "fonbet" /\ UNCHANGED results
  <2>1. m \notin FinishedIn(docs)
    BY <1>1, <1>4, TheDocument DEF FinishedIn, IsDocument
  <2>. QED
    BY <1>2, <1>3, <1>4, <2>1
<1>5. CASE UpsertResults(docs) /\ m \notin FinishedIn(docs)
  <2>1. /\ m \in DOMAIN results' <=> m \in DOMAIN results
        /\ m \in DOMAIN results => results'[m] = results[m]
    BY <1>5 DEF UpsertResults
  <2>. QED
    BY <1>2, <1>3, <1>5, <2>1
<1>6. CASE UpsertResults(docs) /\ m \in FinishedIn(docs)
  <2>. DEFINE d == DocOf(docs, m)
  <2>1. d.at \in Nat
    BY <1>1, <1>6, TheDocument DEF FinishedIn, IsDocument
  <2>2. m \in DOMAIN results' /\ results'[m].observed = FirstOf(d, m)
    BY <1>6 DEF UpsertResults, StoredResult
  <2>3. \A e \in Confirming(m) : e.at \in Nat
    BY DEF IngestInv, Confirming, IsDocument
  <2>. HIDE DEF d
  <2>4. CASE m \in DOMAIN results /\ results[m].observed <= d.at
    <3>1. FirstOf(d, m) = results[m].observed
      BY <2>4 DEF FirstOf
    <3>. QED
      BY <1>2, <1>3, <1>6, <2>1, <2>2, <2>3, <2>4, <3>1 DEF d
  <2>5. CASE ~(m \in DOMAIN results /\ results[m].observed <= d.at)
    <3>1. FirstOf(d, m) = d.at
      BY <2>5 DEF FirstOf
    <3>2. \A e \in Confirming(m) : d.at <= e.at
      BY <1>3, <2>1, <2>3, <2>5
    <3>. QED
      BY <1>2, <1>6, <2>1, <2>2, <3>1, <3>2 DEF d
  <2>. QED
    BY <2>4, <2>5
<1>. QED
  BY <1>4, <1>5, <1>6 DEF docs

LEMMA PersistEvents ==
    ASSUME IngestInv, NEW c \in Collector, UpsertEvents(col[c].docs, col[c].read)
    PROVE  \A m \in DOMAIN events' :
              LET d == events'[m].raw IN
              /\ d \in raws' /\ m \in DOMAIN d.shows
              /\ participants'[m] = d.shows[m].sides
              /\ m \notin overtaken' => /\ events'[m].start = d.shows[m].start
                                        /\ events'[m].status = d.shows[m].status
<1>. DEFINE docs == col[c].docs
            read == col[c].read
<1>1. /\ (\A d \in docs : IsDocument(d)) /\ Disjoint(docs)
      /\ DOMAIN read \subseteq DOMAIN events
  BY DEF IngestInv, CollectorsInv
<1>2. /\ Shown(docs) \cap DOMAIN events \subseteq DOMAIN read
      /\ raws' = raws \cup docs
      /\ DOMAIN events' = DOMAIN events \cup Shown(docs)
      /\ \A m \in Shown(docs) : /\ events'[m] = StoredEvent(read, DocOf(docs, m), m)
                                /\ participants'[m] = DocOf(docs, m).shows[m].sides
      /\ \A m \in DOMAIN events \ Shown(docs) : events'[m] = events[m]
      /\ participants' = [m \in DOMAIN participants \cup Shown(docs) |->
                            IF m \in Shown(docs) THEN DocOf(docs, m).shows[m].sides
                                                 ELSE participants[m]]
      /\ overtaken' = (overtaken \ Shown(docs)) \cup Outdated(docs, read)
  BY DEF UpsertEvents
<1>. HIDE DEF docs, read
<1>. SUFFICES ASSUME NEW m \in DOMAIN events'
              PROVE  LET d == events'[m].raw IN
                     /\ d \in raws' /\ m \in DOMAIN d.shows
                     /\ participants'[m] = d.shows[m].sides
                     /\ m \notin overtaken' => /\ events'[m].start = d.shows[m].start
                                               /\ events'[m].status = d.shows[m].status
  OBVIOUS
<1>3. CASE m \in Shown(docs)
  <2>. DEFINE d == DocOf(docs, m)
  <2>1. d \in docs /\ m \in DOMAIN d.shows
    BY <1>1, <1>3, TheDocument
  <2>2. /\ events'[m].raw = d
        /\ events'[m].start = StoredStart(read, d.shows[m], m)
        /\ events'[m].status = StoredStatus(read, d.shows[m], m)
    BY <1>2, <1>3 DEF StoredEvent
  <2>3. ASSUME m \notin overtaken', m \in DOMAIN read
        PROVE  read[m].start = events[m].start /\ read[m].status = events[m].status
    BY <1>1, <1>2, <1>3, <2>3 DEF Outdated
  <2>4. m \notin overtaken' => /\ events'[m].start = d.shows[m].start
                              /\ events'[m].status = d.shows[m].status
    BY <2>2, <2>3 DEF StoredStart, StoredStatus
  <2>. QED
    BY <1>2, <1>3, <2>1, <2>2, <2>4
<1>4. CASE m \notin Shown(docs)
  <2>1. m \in DOMAIN events /\ events'[m] = events[m] /\ (m \notin overtaken' => m \notin overtaken)
    BY <1>2, <1>4
  <2>2. m \in DOMAIN participants /\ participants'[m] = participants[m]
    BY <1>2, <1>4, <2>1 DEF IngestInv
  <2>. QED
    BY <1>2, <2>1, <2>2 DEF IngestInv, RowsOfOnePayload
<1>. QED
  BY <1>3, <1>4

LEMMA PersistResults ==
    ASSUME IngestInv, NEW c \in Collector, raws' = raws \cup col[c].docs, UNCHANGED kind,
           \/ kind = "fonbet" /\ UNCHANGED results
           \/ UpsertResults(col[c].docs)
    PROVE  \A m \in DOMAIN results' :
              LET d == results'[m].raw IN
              /\ d \in Confirming(m)'
              /\ results'[m].score = d.shows[m].score
              /\ results'[m].updated # None => results'[m].updated > d.shows[m].start
<1>. DEFINE docs == col[c].docs
<1>1. (\A d \in docs : IsDocument(d)) /\ Disjoint(docs)
  BY DEF IngestInv, CollectorsInv
<1>. SUFFICES ASSUME NEW m \in DOMAIN results'
              PROVE  LET d == results'[m].raw IN
                     /\ d \in Confirming(m)'
                     /\ results'[m].score = d.shows[m].score
                     /\ results'[m].updated # None => results'[m].updated > d.shows[m].start
  OBVIOUS
<1>. HIDE DEF docs
<1>2. Confirming(m)' = Confirming(m) \cup
         (IF m \in FinishedIn(docs) THEN {DocOf(docs, m)} ELSE {})
  BY <1>1, ConfirmedBy DEF docs
<1>3. CASE m \in DOMAIN results /\ results'[m] = results[m]
  BY <1>2, <1>3 DEF IngestInv, RowsOfOnePayload
<1>4. CASE UpsertResults(docs) /\ m \in FinishedIn(docs)
  <2>. DEFINE d == DocOf(docs, m)
  <2>1. /\ results'[m].raw = d /\ results'[m].score = d.shows[m].score
        /\ results'[m].updated = d.shows[m].updated
    BY <1>4 DEF UpsertResults, StoredResult
  <2>2. d.shows[m].updated # None => d.shows[m].updated > d.shows[m].start
    BY <1>1, <1>4, TheDocument DEF FinishedIn, IsDocument
  <2>. QED
    BY <1>2, <1>4, <2>1, <2>2
<1>5. CASE UpsertResults(docs) /\ m \notin FinishedIn(docs)
  BY <1>3, <1>5 DEF UpsertResults
<1>. QED
  BY <1>3, <1>4, <1>5 DEF docs

LEMMA PersistKeeps ==
    ASSUME IngestInv, NEW c \in Collector,
           FonbetPersist(c) \/ ESBPersist(c) \/ UELPersist(c) \/ SISPersist(c)
    PROVE  IngestInv'
<1>1. /\ UpsertEvents(col[c].docs, col[c].read)
      /\ col' = [col EXCEPT ![c] = Idle]
      /\ UNCHANGED <<kind, now>>
      /\ \/ kind = "fonbet" /\ UNCHANGED results
         \/ UpsertResults(col[c].docs)
  BY PersistShape
<1>2. raws' = raws \cup col[c].docs /\ DOMAIN events \subseteq DOMAIN events'
  BY <1>1 DEF UpsertEvents
<1>3. \A d : IsDocument(d)' <=> IsDocument(d)
  BY <1>1 DEF IsDocument, Unit, IsFinished
<1>4. Idle.docs = {} /\ DOMAIN Idle.read = {} /\ IsState(Idle)
  BY DEF Idle, IsState
<1>5. /\ \A b \in Collector : col'[b] = col[b] \/ col'[b] = Idle
      /\ col' = [b \in Collector |-> col'[b]]
  BY <1>1 DEF IngestInv, CollectorsInv
<1>6. CollectorsInv'
  BY <1>2, <1>3, <1>4, <1>5 DEF IngestInv, CollectorsInv, Disjoint
<1>7. \A d \in raws' : IsDocument(d)'
  BY <1>2, <1>3 DEF IngestInv, CollectorsInv
<1>8. RowsOfOnePayload'
  BY <1>1, <1>2, PersistEvents, PersistResults DEF RowsOfOnePayload
<1>9. FirstObserved'
  BY <1>1, <1>2, PersistFirst
<1>10. DOMAIN participants' = DOMAIN events'
  BY <1>1 DEF UpsertEvents, IngestInv
<1>. QED
  BY <1>1, <1>6, <1>7, <1>8, <1>9, <1>10 DEF IngestInv

LEMMA IngestStep ==
    ASSUME IngestInv, [Next]_vars
    PROVE  IngestInv'
<1>1. CASE Tick \/ (\E m \in Match : Announce(m)) \/ UNCHANGED vars
  <2>1. UNCHANGED <<kind, col, tables>> /\ now' \in {now, now + 1}
    BY <1>1 DEF Tick, Announce, vars
  <2>2. now' \in Nat
    BY <2>1 DEF IngestInv
  <2>3. CollectorsInv'
    BY <2>1, CollectorsKept DEF IngestInv, tables
  <2>. QED
    BY <2>1, <2>2, <2>3, TablesKept
<1>. QED
  BY <1>1, FetchKeeps, ReadKeeps, PersistKeeps, RollbackKeeps DEF Next

LEMMA Ingested == Spec => []IngestInv
  BY IngestInit, IngestStep, PTL DEF Spec

\* A match has a result exactly when a stored payload shows its final score,
\* and observed_at is the moment the first of those was received, in whatever
\* order overlapping collectors store what they hold.
THEOREM Observed == Spec => []FirstObserved
<1>1. IngestInv => FirstObserved
  BY DEF IngestInv
<1>. QED
  BY <1>1, Ingested, PTL

\* The rows of a match are those of the payload they name, its kickoff and
\* status too unless they were decided on an event read before another
\* transaction changed it.
THEOREM OnePayload == Spec => []RowsOfOnePayload
<1>1. IngestInv => RowsOfOnePayload
  BY DEF IngestInv
<1>. QED
  BY <1>1, Ingested, PTL

(***************************************************************************)
(* Types.  What is stored was shown, and what is shown was parsed from a   *)
(* listing, and not later than now.                                        *)
(***************************************************************************)

IsParsed(p) ==
    p.start \in Int /\ p.status \in Status /\ p.score \in Score \cup {None} /\ p.sides \in Side

IsTyped(d) == d.at \in 0 .. now /\ \A m \in DOMAIN d.shows : IsParsed(d.shows[m])

TypedInv ==
    /\ kind \in Kind /\ now \in 0 .. MaxTime /\ news \in 0 .. MaxNews
    /\ listed \in [Match -> Listing[kind]]
    /\ \A c \in Collector : \A d \in col[c].docs : IsTyped(d)
    /\ \A d \in raws : IsTyped(d) /\ DOMAIN d.shows \subseteq DOMAIN events
    /\ \A m \in DOMAIN events : events[m].start \in Int /\ events[m].status \in Status

LEMMA ParsedType ==
    ASSUME kind \in Kind, NEW l \in Listing[kind]
    PROVE  IsParsed(Parsed(l))
<1>1. l.start \in Int /\ l.score \in Score \cup {None} /\ l.sides \in Side
  BY ListingAssumption
<1>2. kind \in {"fonbet", "uel", "esb", "sis"}
  BY SourceAssumption
<1>3. ASSUME NEW status \in Status, NEW score \in Score \cup {None}
      PROVE  IsParsed(Fields(l, status, score))
  BY <1>1 DEF IsParsed, Fields
<1>4. CASE kind = "uel"
  <2>1. UELStatus(l) \in Status
    BY DEF UELStatus, Status
  <2>2. IsParsed(Fields(l, UELStatus(l), l.score))
    BY <1>1, <1>3, <2>1
  <2>3. IsParsed(UELParsed(l))
    BY <2>2 DEF UELParsed, Fields, IsParsed
  <2>. QED
    BY <1>4, <2>3 DEF Parsed
<1>5. CASE kind = "esb"
  <2>1. ESBStatus(l) \in Status
    BY DEF ESBStatus, Status
  <2>. QED
    BY <1>1, <1>3, <1>5, <2>1 DEF Parsed, ESBParsed
<1>6. CASE kind = "sis"
  <2>1. SISStatus(l) \in Status
    BY DEF SISStatus, Status
  <2>. QED
    BY <1>1, <1>3, <1>6, <2>1 DEF Parsed, SISParsed
<1>7. CASE kind = "fonbet"
  <2>1. FonbetStatus(l) \in Status
    BY DEF FonbetStatus, Status
  <2>2. IsParsed(Fields(l, FonbetStatus(l), None))
    BY <1>3, <2>1
  <2>3. IsParsed(FonbetParsed(l))
    BY <2>2 DEF FonbetParsed, Fields, IsParsed
  <2>. QED
    BY <1>7, <2>3 DEF Parsed
<1>. QED
  BY <1>2, <1>4, <1>5, <1>6, <1>7

LEMMA TypedInit == Init => TypedInv
  BY SourceAssumption DEF Init, TypedInv, Idle

LEMMA TypedFetch ==
    ASSUME IngestInv, TypedInv, NEW c \in Collector, NEW u \in Unit, Fetch(c, u)
    PROVE  TypedInv'
<1>. DEFINE doc == [unit |-> u, at |-> now, shows |-> Answer(u)]
<1>1. UNCHANGED <<kind, now, news, listed, tables>>
  BY DEF Fetch
<1>2. u \subseteq Match
  BY SourceAssumption DEF Unit
<1>3. IsTyped(doc)
  <2>1. \A m \in DOMAIN Answer(u) : m \in Match /\ Answer(u)[m] = Parsed(listed[m])
    BY <1>2 DEF Answer
  <2>2. \A m \in Match : listed[m] \in Listing[kind]
    BY DEF TypedInv
  <2>3. \A m \in DOMAIN Answer(u) : IsParsed(Answer(u)[m])
    BY <2>1, <2>2, ParsedType DEF TypedInv
  <2>4. now \in 0 .. now
    BY SourceAssumption DEF TypedInv
  <2>. QED
    BY <2>3, <2>4 DEF IsTyped
<1>4. \A b \in Collector : col'[b].docs \subseteq col[b].docs \cup {doc}
  <2>. DEFINE w == [col[c] EXCEPT !.docs = @ \cup {doc}]
  <2>1. /\ col = [b \in Collector |-> col[b]]
        /\ \A b \in Collector : IsState(col[b])
    BY DEF IngestInv, CollectorsInv
  <2>2. w.docs = col[c].docs \cup {doc}
    BY <2>1 DEF IsState
  <2>3. col' = [col EXCEPT ![c] = w]
    BY DEF Fetch
  <2>. HIDE DEF w, doc
  <2>. QED
    BY <2>1, <2>2, <2>3
<1>. HIDE DEF doc
<1>5. \A d : IsTyped(d)' <=> IsTyped(d)
  BY <1>1 DEF IsTyped
<1>. QED
  BY <1>1, <1>3, <1>4, <1>5 DEF TypedInv, tables

LEMMA TypedPersist ==
    ASSUME IngestInv, TypedInv, NEW c \in Collector,
           FonbetPersist(c) \/ ESBPersist(c) \/ UELPersist(c) \/ SISPersist(c)
    PROVE  TypedInv'
<1>. DEFINE docs == col[c].docs
            read == col[c].read
<1>1. /\ UpsertEvents(docs, read) /\ col' = [col EXCEPT ![c] = Idle]
      /\ UNCHANGED <<kind, now, news, listed>>
  BY DEF FonbetPersist, ESBPersist, UELPersist, SISPersist, Persist
<1>2. \A d \in docs : IsDocument(d) /\ IsTyped(d)
  BY DEF IngestInv, CollectorsInv, TypedInv
<1>3. Disjoint(docs) /\ DOMAIN read \subseteq DOMAIN events
  BY DEF IngestInv, CollectorsInv
<1>. HIDE DEF docs, read
<1>4. ASSUME NEW m \in Shown(docs)
      PROVE  IsParsed(DocOf(docs, m).shows[m])
  BY <1>2, <1>3, TheDocument DEF IsTyped
<1>5. /\ raws' = raws \cup docs
      /\ DOMAIN events' = DOMAIN events \cup Shown(docs)
      /\ \A m \in DOMAIN events' :
            IF m \in Shown(docs) THEN events'[m] = StoredEvent(read, DocOf(docs, m), m)
                                 ELSE events'[m] = events[m]
  BY <1>1 DEF UpsertEvents
<1>6. ASSUME NEW m \in DOMAIN events'
      PROVE  events'[m].start \in Int /\ events'[m].status \in Status
  <2>1. CASE m \in Shown(docs)
    <3>. DEFINE p == DocOf(docs, m).shows[m]
    <3>1. p.start \in Int /\ p.status \in Status
      BY <1>4, <2>1 DEF IsParsed
    <3>2. m \in DOMAIN read => events[m].start \in Int /\ events[m].status \in Status
      BY <1>3 DEF TypedInv
    <3>3. /\ events'[m].start = StoredStart(read, p, m)
          /\ events'[m].status = StoredStatus(read, p, m)
      BY <1>5, <2>1 DEF StoredEvent
    <3>. HIDE DEF p
    <3>. QED
      BY <3>1, <3>2, <3>3 DEF StoredStart, StoredStatus
  <2>2. CASE m \notin Shown(docs)
    BY <1>5, <2>2 DEF TypedInv
  <2>. QED
    BY <2>1, <2>2
<1>7. \A d : IsTyped(d)' <=> IsTyped(d)
  BY <1>1 DEF IsTyped
<1>8. \A d \in raws' : IsTyped(d)' /\ DOMAIN d.shows \subseteq DOMAIN events'
  BY <1>2, <1>5, <1>7 DEF TypedInv, Shown
<1>9. \A b \in Collector : \A d \in col'[b].docs : IsTyped(d)'
  <2>1. \A b \in Collector : col'[b] = col[b] \/ col'[b].docs = {}
    BY <1>1 DEF IngestInv, CollectorsInv, Idle
  <2>. QED
    BY <1>7, <2>1 DEF TypedInv
<1>. QED
  BY <1>1, <1>6, <1>8, <1>9 DEF TypedInv

LEMMA TypedStep ==
    ASSUME IngestInv, TypedInv, [Next]_vars
    PROVE  TypedInv'
<1>1. ASSUME now <= now', now' \in 0 .. MaxTime, news' \in 0 .. MaxNews, UNCHANGED <<kind, tables>>,
             listed' \in [Match -> Listing[kind]],
             \A c \in Collector : col'[c].docs \subseteq col[c].docs
      PROVE  TypedInv'
  <2>1. now \in Nat /\ now' \in Nat
    BY <1>1, SourceAssumption DEF TypedInv
  <2>2. \A d : IsTyped(d) => IsTyped(d)'
    BY <1>1, <2>1 DEF IsTyped
  <2>. QED
    BY <1>1, <2>2 DEF TypedInv, tables
<1>2. now \in Nat /\ news \in Nat /\ MaxTime \in Nat /\ MaxNews \in Nat
  BY SourceAssumption DEF TypedInv
<1>3. CASE Tick \/ UNCHANGED vars
  BY <1>1, <1>2, <1>3 DEF Tick, vars, TypedInv
<1>4. ASSUME NEW m \in Match, Announce(m)
      PROVE  TypedInv'
  <2>1. listed' \in [Match -> Listing[kind]]
    BY <1>4 DEF Announce, TypedInv
  <2>. QED
    BY <1>1, <1>2, <1>4, <2>1 DEF Announce, TypedInv
<1>5. ASSUME NEW c \in Collector, ReadEvents(c) \/ Rollback(c)
      PROVE  TypedInv'
  <2>1. \A b \in Collector : col'[b].docs \subseteq col[b].docs
    <3>1. /\ col = [b \in Collector |-> col[b]]
          /\ \A b \in Collector : IsState(col[b])
      BY DEF IngestInv, CollectorsInv
    <3>2. CASE Rollback(c)
      <4>1. Idle.docs = {} /\ col' = [col EXCEPT ![c] = Idle]
        BY <3>2 DEF Rollback, Idle
      <4>. QED
        BY <3>1, <4>1
    <3>3. CASE ReadEvents(c)
      <4>1. PICK known : col' = [col EXCEPT ![c].open = TRUE, ![c].read = known]
        BY <3>3 DEF ReadEvents
      <4>. DEFINE w == [col[c] EXCEPT !.open = TRUE, !.read = known]
      <4>2. w.docs = col[c].docs
        BY <3>1 DEF IsState
      <4>3. col' = [col EXCEPT ![c] = w]
        BY <4>1
      <4>. HIDE DEF w
      <4>. QED
        BY <3>1, <4>2, <4>3
    <3>. QED
      BY <1>5, <3>2, <3>3
  <2>. QED
    BY <1>1, <1>2, <1>5, <2>1 DEF ReadEvents, Rollback, TypedInv
<1>. QED
  BY <1>3, <1>4, <1>5, TypedFetch, TypedPersist DEF Next

\* Type correctness: no result is without its event or of a time to come, and
\* every stored event has participants, for any listings of any source.
THEOREM TypeCorrect == Spec => []TypeOK
<1>1. IngestInv /\ TypedInv => TypeOK
  <2>. SUFFICES ASSUME IngestInv, TypedInv PROVE TypeOK
    OBVIOUS
  <2>1. now \in Nat
    BY DEF IngestInv
  <2>2. \A d \in raws : d.at <= now /\ IsTyped(d) /\ DOMAIN d.shows \subseteq DOMAIN events
    BY <2>1 DEF TypedInv, IsTyped
  <2>3. \A m \in DOMAIN events : participants[m] \in Side
    BY <2>2 DEF IngestInv, RowsOfOnePayload, IsTyped, IsParsed
  <2>4. ASSUME NEW m \in DOMAIN results
        PROVE  /\ m \in DOMAIN events
               /\ results[m].score \in Score /\ results[m].observed \in 0 .. now
    <3>. DEFINE d == results[m].raw
    <3>1. /\ d \in raws /\ m \in DOMAIN d.shows /\ IsFinished(d.shows[m])
          /\ results[m].score = d.shows[m].score
      BY DEF IngestInv, RowsOfOnePayload, Confirming
    <3>2. m \in DOMAIN events /\ results[m].score \in Score
      BY <2>2, <3>1 DEF IsTyped, IsParsed, IsFinished
    <3>3. m \in Match
      <4>1. d.unit \in Unit /\ m \in d.unit
        BY <3>1 DEF IngestInv, IsDocument
      <4>. QED
        BY <4>1, SourceAssumption DEF Unit
    <3>4. PICK e \in Confirming(m) : results[m].observed = e.at
      BY <3>3 DEF IngestInv, FirstObserved
    <3>5. e.at \in 0 .. now
      BY <2>2, <3>4 DEF Confirming, IsTyped
    <3>. QED
      BY <3>2, <3>4, <3>5
  <2>. QED
    BY <2>2, <2>3, <2>4 DEF TypeOK, TypedInv, IngestInv
<1>. QED
  BY <1>1, Ingested, TypedInit, TypedStep, PTL DEF Spec
=============================================================================
