--------------------------- MODULE Collectors_proofs ---------------------------
(***************************************************************************)
(* What the history jobs keep of the archive and the database, for any     *)
(* sources, any settings and any number of failures and restarts.          *)
(***************************************************************************)
EXTENDS Collectors, FiniteSetTheorems, SequenceTheorems, TLAPS

(***************************************************************************)
(* RowsHaveTheirBodies.  A job stores what it has downloaded, so what it   *)
(* has downloaded must be archived: every failure that loses an answer     *)
(* also keeps it out of the job's documents.                               *)
(***************************************************************************)

\* What the jobs hold is archived already.
HeldIsArchived == \A j \in Job : job[j].docs \subseteq metas

ArchiveInv ==
    /\ DOMAIN job = Job
    /\ HeldIsArchived
    /\ RowsHaveTheirBodies

\* A job that starts, moves on or gives up holds nothing.
LEMMA FreshHoldsNothing ==
    Idle.docs = {} /\ \A target : At(target).docs = {}
  BY DEF Idle, At

\* A download adds its document to the archive before the job holds it.
LEMMA DownloadKeepsArchive ==
    ASSUME ArchiveInv, NEW j \in Job, NEW h, Download(j, h)
    PROVE  ArchiveInv'
<1>. DEFINE doc == <<h, Version(h)>>
<1>1. /\ bodies' = bodies \cup {doc} /\ metas' = metas \cup {doc}
      /\ raws' = raws /\ stored' = stored
      /\ DOMAIN job' = Job
      /\ job'[j].docs = job[j].docs \cup {doc}
      /\ \A i \in Job \ {j} : job'[i] = job[i]
  BY DEF Download, ArchiveInv
<1>. HIDE DEF doc
<1>. QED
  BY <1>1 DEF ArchiveInv, HeldIsArchived, RowsHaveTheirBodies

\* A transaction writes rows of what its job holds, and of every tour and day
\* the row and the state that row shows together.
LEMMA PersistKeepsArchive ==
    ASSUME ArchiveInv, NEW j \in Job, Persist(j)
    PROVE  ArchiveInv'
<1>1. /\ raws' = raws \cup job[j].docs
      /\ bodies' = bodies /\ metas' = metas
      /\ job' = [job EXCEPT ![j] = At(NextTarget(j))]
  BY DEF Persist, archived
<1>2. \A i \in Job : job'[i].docs \in {{}, job[i].docs}
  BY <1>1, FreshHoldsNothing DEF ArchiveInv
<1>3. ASSUME NEW h \in History, stored'[h] # None
      PROVE  <<h, stored'[h]>> \in raws'
  <2>. DEFINE Held(v) == v \in {"running", "final"} /\ <<h, v>> \in job[j].docs
  <2>1. stored'[h] = IF \E v \in {"running", "final"} : <<h, v>> \in job[j].docs
                     THEN CHOOSE v \in {"running", "final"} : <<h, v>> \in job[j].docs
                     ELSE stored[h]
    BY DEF Persist
  <2>2. CASE \E v \in {"running", "final"} : <<h, v>> \in job[j].docs
    <3>1. <<h, stored'[h]>> \in job[j].docs
      BY <2>1, <2>2
    <3>. QED
      BY <1>1, <3>1
  <2>3. CASE ~ \E v \in {"running", "final"} : <<h, v>> \in job[j].docs
    BY <1>1, <1>3, <2>1, <2>3 DEF ArchiveInv, RowsHaveTheirBodies
  <2>. QED
    BY <2>2, <2>3
<1>4. DOMAIN job' = Job
  BY <1>1 DEF ArchiveInv
<1>. QED
  BY <1>1, <1>2, <1>3, <1>4 DEF ArchiveInv, HeldIsArchived, RowsHaveTheirBodies

\* Whatever fails leaves a job that holds no more than before.  The body may
\* be there without its metadata, never the other way round.
LEMMA FailKeepsArchive ==
    ASSUME ArchiveInv, NEW j \in Job, NEW h, Fail(j, h)
    PROVE  ArchiveInv'
<1>1. /\ bodies \subseteq bodies' /\ metas' = metas /\ raws' = raws /\ stored' = stored
      /\ job' = [job EXCEPT ![j] = Without(j, h)]
  BY DEF Fail
<1>2. Without(j, h).docs \in {{}, job[j].docs}
  BY FreshHoldsNothing DEF Without
<1>3. DOMAIN job' = Job /\ \A i \in Job : job'[i].docs \in {{}, job[i].docs}
  BY <1>1, <1>2 DEF ArchiveInv
<1>. QED
  BY <1>1, <1>3 DEF ArchiveInv, HeldIsArchived, RowsHaveTheirBodies

\* The other steps write neither files nor rows.
LEMMA OthersKeepArchive ==
    ASSUME ArchiveInv, UNCHANGED <<archived, raws, stored>>,
           \/ UNCHANGED job
           \/ job' = [i \in Job |-> Idle]
           \/ \E j \in Job : \E target : job' = [job EXCEPT ![j] = At(target)]
           \/ \E j \in Job : job' = [job EXCEPT ![j] = Idle]
    PROVE  ArchiveInv'
<1>1. DOMAIN job' = Job /\ \A i \in Job : job'[i].docs \in {{}, job[i].docs}
  BY FreshHoldsNothing DEF ArchiveInv
<1>. QED
  BY <1>1 DEF ArchiveInv, HeldIsArchived, RowsHaveTheirBodies, archived

LEMMA ArchiveInit == Init => ArchiveInv
  BY DEF Init, ArchiveInv, HeldIsArchived, RowsHaveTheirBodies, Idle

LEMMA ArchiveStep == ArchiveInv /\ [Next]_vars => ArchiveInv'
<1>. SUFFICES ASSUME ArchiveInv, [Next]_vars PROVE ArchiveInv'
  OBVIOUS
<1>1. CASE UNCHANGED vars
  BY <1>1, OthersKeepArchive DEF vars
<1>2. CASE (\E t \in UELTour : List(t)) \/ (\E h \in History : End(h)) \/ Midnight
  BY <1>2, OthersKeepArchive DEF List, End, Midnight
<1>3. CASE Restart
  BY <1>3, OthersKeepArchive DEF Restart
<1>4. ASSUME NEW j \in Job, StartCycle(j) \/ NotFound(j) \/ PersistFails(j)
      PROVE  ArchiveInv'
  BY <1>4, OthersKeepArchive DEF StartCycle, NotFound, PersistFails
<1>5. ASSUME NEW j \in Job, NEW h \in Target \cup History, Download(j, h) \/ Fail(j, h)
      PROVE  ArchiveInv'
  BY <1>5, DownloadKeepsArchive, FailKeepsArchive
<1>6. ASSUME NEW j \in Job, Persist(j)
      PROVE  ArchiveInv'
  BY <1>6, PersistKeepsArchive
<1>. QED
  BY <1>1, <1>2, <1>3, <1>4, <1>5, <1>6 DEF Next, Work

\* A row of raw_payloads names a body that has its metadata, and what the
\* database holds of a tour or a day such a row shows, after any failures,
\* restarts and steps of the other jobs.
THEOREM RowsAreArchived == Spec => []RowsHaveTheirBodies
<1>1. ArchiveInv => RowsHaveTheirBodies
  BY DEF ArchiveInv
<1>. QED
  BY <1>1, ArchiveInit, ArchiveStep, PTL DEF Spec

(***************************************************************************)
(* TypeOK.  What a job is at is a target of its own, and UEL lists no tour *)
(* twice, so it has no more pages than there are tours.                    *)
(***************************************************************************)

TargetsOf(j) == CASE j = "uel" -> Page [] j = "esb" -> Range(Participants) [] OTHER -> Day

CollectorsInv ==
    /\ TypeOK
    /\ enabled \in Enabled
    /\ IsInjective(catalogue)
    /\ "sis" \in enabled => today \in DOMAIN Days
    /\ \A j \in Job : job[j].at \in TargetsOf(j) \cup {None}

\* The jobs' own targets are targets.
LEMMA TargetsAreTargets == \A j \in Job : TargetsOf(j) \subseteq Target
  BY DEF TargetsOf, Target

\* A job that starts, moves on or gives up.
LEMMA FreshType ==
    /\ Idle \in Jobs
    /\ \A target \in Target \cup {None} : At(target) \in Jobs /\ At(target).at = target
<1>1. Cardinality(UELTour) \in Nat
  BY FS_CardinalityType, CollectorsAssumption
<1>2. Idle \in Jobs
  BY <1>1 DEF Idle, Jobs
<1>3. ASSUME NEW target \in Target \cup {None}
      PROVE  At(target) \in Jobs /\ At(target).at = target
  BY <1>2 DEF At, Jobs
<1>. QED
  BY <1>2, <1>3

\* UEL has no more pages than tours.
LEMMA PagesBound ==
    ASSUME CollectorsInv
    PROVE  Pages \in 0 .. Cardinality(UELTour)
<1>. DEFINE L == Len(catalogue)  P == PerPage  q == Pages
<1>1. L \in Nat /\ DOMAIN catalogue = 1 .. L /\ catalogue \in Injection(1 .. L, UELTour)
  BY DEF CollectorsInv, TypeOK, Injection, IsInjective
<1>2. L <= Cardinality(UELTour) /\ Cardinality(UELTour) \in Nat
  <2>. HIDE DEF L
  <2>1. Cardinality(1 .. L) = IF 1 > L THEN 0 ELSE L - 1 + 1
    BY <1>1, FS_Interval
  <2>2. Cardinality(1 .. L) = L
    BY <1>1, <2>1
  <2>. QED
    BY <1>1, <2>2, FS_Injection, FS_CardinalityType, CollectorsAssumption
<1>3. P \in Nat \ {0}
  BY CollectorsAssumption DEF PerPage
<1>4. q = (L + P - 1) \div P
  BY DEF Pages
<1>. HIDE DEF L, P, q
<1>5. q \in Int /\ q * P <= L + P - 1 /\ L + P - 1 < (q + 1) * P
  BY <1>1, <1>3, <1>4
<1>6. q >= 0
  <2>. SUFFICES ASSUME q + 1 <= 0 PROVE FALSE
    BY <1>5
  <2>1. (q + 1) * P <= 0
    BY <1>3, <1>5
  <2>. QED
    BY <1>1, <1>3, <1>5, <2>1
<1>7. q <= L
  <2>. SUFFICES ASSUME q >= L + 1 PROVE FALSE
    BY <1>1, <1>5
  <2>1. q * P >= (L + 1) * P
    BY <1>1, <1>3, <1>5
  <2>2. (L + 1) * P >= L + P
    BY <1>1, <1>3
  <2>. QED
    BY <1>1, <1>3, <1>5, <2>1, <2>2
<1>. QED
  BY <1>1, <1>2, <1>5, <1>6, <1>7 DEF q

\* The tours chosen of a target.
LEMMA ChosenType ==
    ASSUME CollectorsInv, NEW target \in Target \cup History
    PROVE  Chosen(target) \subseteq Tour
<1>1. CASE target \in Page
  <2>. PICK n \in 1 .. Cardinality(UELTour) : target = <<"page", n>>
    BY <1>1 DEF Page
  <2>1. n \in Nat \ {0} /\ target[2] = n
    BY FS_CardinalityType, CollectorsAssumption
  <2>. DEFINE L == Len(catalogue)
              first == (n - 1) * PerPage + 1
              last == IF n * PerPage <= L THEN n * PerPage ELSE L
  <2>2. L \in Nat /\ \A i \in 1 .. L : catalogue[i] \in UELTour
    BY DEF CollectorsInv, TypeOK
  <2>3. PerPage \in Nat \ {0}
    BY CollectorsAssumption DEF PerPage
  <2>4. (n - 1) * PerPage \in Nat /\ n * PerPage \in Nat
    BY <2>1, <2>3
  <2>5. first \in Int /\ last \in Int /\ first >= 1 /\ last <= L
    BY <2>2, <2>4
  <2>6. OnPage(n) = SubSeq(catalogue, first, last)
    BY DEF OnPage
  <2>. HIDE DEF first, last
  <2>7. OnPage(n) \in Seq(UELTour)
    <3>1. \A i \in first .. last : catalogue[i] \in UELTour
      BY <2>2, <2>5
    <3>. QED
      BY <2>5, <2>6, <3>1, SubSeqProperties
  <2>8. FirstOf(OnPage(n), MaxTournaments) \subseteq UELTour
    <3>. PICK s : s = OnPage(n)
      OBVIOUS
    <3>1. \A i \in 1 .. Len(s) : s[i] \in UELTour
      BY <2>7
    <3>2. Len(s) \in Nat
      BY <2>7
    <3>. QED
      BY <3>1, <3>2, CollectorsAssumption DEF FirstOf
  <2>. QED
    BY <1>1, <2>1, <2>8 DEF Chosen, Tour
<1>2. CASE target \notin Page /\ target \in Range(Participants)
  <2>1. \A i \in DOMAIN ToursOf[target] : ToursOf[target][i] \in ESBTour
    BY <1>2, CollectorsAssumption
  <2>. QED
    BY <1>2, <2>1 DEF Chosen, Newest, Finished, Tour
<1>3. CASE target \notin Page /\ target \notin Range(Participants)
  BY <1>3 DEF Chosen
<1>. QED
  BY <1>1, <1>2, <1>3

\* What a job starts with is its own, if the job is one of those that run.
LEMMA FirstTargetType ==
    ASSUME CollectorsInv, NEW j \in enabled
    PROVE  j \in Job /\ FirstTarget(j) \in TargetsOf(j)
<1>1. j \in Job /\ enabled \in Enabled
  BY DEF CollectorsInv, TypeOK
<1>2. CASE j = "uel"
  <2>1. Cardinality(UELTour) \in Nat \ {0}
    BY <1>1, <1>2, FS_CardinalityType, FS_EmptySet, CollectorsAssumption
  <2>. QED
    BY <1>1, <1>2, <2>1 DEF FirstTarget, TargetsOf, Page
<1>3. CASE j = "esb"
  <2>1. 1 \in DOMAIN Participants
    BY <1>1, <1>3, EmptySeq, LenProperties, CollectorsAssumption
  <2>. QED
    BY <1>1, <1>3, <2>1 DEF FirstTarget, TargetsOf, Range
<1>4. CASE j = "sis"
  BY <1>1, <1>4 DEF FirstTarget, TargetsOf, Range, Day, CollectorsInv
<1>. QED
  BY <1>1, <1>2, <1>3, <1>4 DEF Job

\* What a job goes on with is its own.
LEMMA NextTargetType ==
    ASSUME CollectorsInv, NEW j \in Job, job[j].at # None
    PROVE  NextTarget(j) \in TargetsOf(j) \cup {None}
<1>1. job[j] \in Jobs /\ job[j].at \in TargetsOf(j)
  BY DEF CollectorsInv, TypeOK
<1>2. CASE j = "uel"
  <2>1. Cardinality(UELTour) \in Nat /\ cursor \in Nat \ {0, 1}
    BY FS_CardinalityType, CollectorsAssumption DEF CollectorsInv, TypeOK
  <2>2. job[j].total \in 0 .. Cardinality(UELTour)
    BY <1>1 DEF Jobs
  <2>3. job[j].total > 1 => OlderPage(job[j].total) \in 1 .. Cardinality(UELTour)
    BY <2>1, <2>2 DEF OlderPage
  <2>. QED
    BY <1>2, <2>3 DEF NextTarget, TargetsOf, Page
<1>3. CASE j = "esb"
  <2>. DEFINE i == CHOOSE i \in DOMAIN Participants : Participants[i] = job[j].at
  <2>1. i \in DOMAIN Participants
    BY <1>1, <1>3 DEF TargetsOf, Range
  <2>2. NextTarget(j) = IF i < Len(Participants) THEN Participants[i + 1] ELSE None
    BY <1>3 DEF NextTarget
  <2>. HIDE DEF i
  <2>3. DOMAIN Participants = 1 .. Len(Participants) /\ Len(Participants) \in Nat
    BY CollectorsAssumption
  <2>4. i < Len(Participants) => i + 1 \in DOMAIN Participants
    BY <2>1, <2>3
  <2>. QED
    BY <1>3, <2>2, <2>4 DEF TargetsOf, Range
<1>4. CASE j = "sis"
  BY <1>4 DEF NextTarget
<1>. QED
  BY <1>2, <1>3, <1>4 DEF Job

\* A step of one job, all of it but what the job becomes.
LEMMA JobStep ==
    ASSUME CollectorsInv, NEW j \in Job, NEW w,
           UNCHANGED sources,
           w \in Jobs, w.at \in TargetsOf(j) \cup {None},
           job' = [job EXCEPT ![j] = w],
           cursor' \in Nat \ {0, 1}, faults' \in 0 .. MaxFaults,
           stored' \in [History -> {"running", "final", None}]
    PROVE  CollectorsInv'
<1>1. /\ enabled' = enabled /\ catalogue' = catalogue /\ over' = over /\ today' = today
      /\ job' \in [Job -> Jobs]
  BY DEF sources, CollectorsInv, TypeOK
<1>2. \A i \in Job : job'[i].at \in TargetsOf(i) \cup {None}
  BY DEF CollectorsInv, TypeOK
<1>3. TypeOK'
  BY <1>1 DEF CollectorsInv, TypeOK
<1>. QED
  BY <1>1, <1>2, <1>3 DEF CollectorsInv, IsInjective


\* A download keeps the types: the total of pages is read off the catalogue.
LEMMA DownloadType ==
    ASSUME CollectorsInv, NEW j \in Job, NEW h \in Target \cup History, Download(j, h)
    PROVE  CollectorsInv'
<1>. DEFINE doc == <<h, Version(h)>>
            left == IF job[j].listed THEN job[j].left \ {h} ELSE Chosen(h)
            total == IF h = <<"page", 1>> THEN Pages ELSE job[j].total
            docs == job[j].docs \cup {doc}
            w == [job[j] EXCEPT !.listed = TRUE, !.left = left, !.total = total, !.docs = docs]
<1>1. job[j] \in Jobs /\ job[j].at \in TargetsOf(j) \cup {None}
      /\ job \in [Job -> Jobs]
  BY DEF CollectorsInv, TypeOK
<1>2. doc \in (Target \cup History) \X {"list", "running", "final"}
  BY DEF Version
<1>3. left \in SUBSET Tour
  BY <1>1, ChosenType DEF Jobs
<1>4. total \in 0 .. Cardinality(UELTour)
  BY <1>1, PagesBound DEF Jobs
<1>5. docs \in SUBSET ((Target \cup History) \X {"list", "running", "final"})
  BY <1>1, <1>2 DEF Jobs
<1>6. job' = [job EXCEPT ![j] = w]
  BY DEF Download
<1>. HIDE DEF doc, left, total, docs
<1>7. w \in Jobs /\ w.at = job[j].at
  BY <1>1, <1>3, <1>4, <1>5 DEF Jobs
<1>. HIDE DEF w
<1>8. /\ UNCHANGED sources /\ cursor' = cursor /\ faults' = faults /\ stored' = stored
  BY DEF Download
<1>. QED
  BY <1>1, <1>6, <1>7, <1>8, JobStep DEF CollectorsInv, TypeOK

\* A failure keeps the types.
LEMMA FailType ==
    ASSUME CollectorsInv, NEW j \in Job, NEW h, Fail(j, h)
    PROVE  CollectorsInv'
<1>1. job[j] \in Jobs /\ job[j].at \in TargetsOf(j) \cup {None}
  BY DEF CollectorsInv, TypeOK
<1>2. Idle \in Jobs /\ Idle.at = None
  BY FreshType DEF Idle
<1>3. [job[j] EXCEPT !.left = job[j].left \ {h}] \in Jobs
      /\ [job[j] EXCEPT !.left = job[j].left \ {h}].at = job[j].at
  BY <1>1 DEF Jobs
<1>4. Without(j, h) \in Jobs /\ Without(j, h).at \in TargetsOf(j) \cup {None}
  BY <1>1, <1>2, <1>3 DEF Without
<1>5. /\ UNCHANGED sources /\ cursor' = cursor /\ stored' = stored
      /\ faults' = faults + 1 /\ faults < MaxFaults
      /\ job' = [job EXCEPT ![j] = Without(j, h)]
  BY DEF Fail
<1>6. faults' \in 0 .. MaxFaults
  BY <1>5, CollectorsAssumption DEF CollectorsInv, TypeOK
<1>. QED
  BY <1>4, <1>5, <1>6, JobStep DEF CollectorsInv, TypeOK

\* A job that starts, gives up or moves on keeps the types.
LEMMA MoveType ==
    ASSUME CollectorsInv, NEW j \in Job,
           StartCycle(j) \/ NotFound(j) \/ PersistFails(j) \/ Persist(j)
    PROVE  CollectorsInv'
<1>1. Idle \in Jobs /\ Idle.at = None
  BY FreshType DEF Idle
<1>2. \A target \in TargetsOf(j) \cup {None} : At(target) \in Jobs /\ At(target).at = target
  BY FreshType, TargetsAreTargets
<1>3. /\ cursor \in Nat \ {0, 1} /\ faults \in 0 .. MaxFaults /\ MaxFaults \in Nat
      /\ stored \in [History -> {"running", "final", None}]
      /\ job[j] \in Jobs
  BY CollectorsAssumption DEF CollectorsInv, TypeOK
<1>4. CASE StartCycle(j)
  <2>1. /\ UNCHANGED sources /\ cursor' = cursor /\ faults' = faults /\ stored' = stored
        /\ job' = [job EXCEPT ![j] = At(FirstTarget(j))] /\ j \in enabled
    BY <1>4 DEF StartCycle
  <2>2. FirstTarget(j) \in TargetsOf(j)
    BY <2>1, FirstTargetType
  <2>. QED
    BY <1>2, <1>3, <2>1, <2>2, JobStep
<1>5. CASE NotFound(j) \/ PersistFails(j)
  <2>1. /\ UNCHANGED sources /\ cursor' = cursor /\ stored' = stored
        /\ job' = [job EXCEPT ![j] = Idle]
        /\ faults' = faults \/ (faults < MaxFaults /\ faults' = faults + 1)
    BY <1>5 DEF NotFound, PersistFails
  <2>2. faults' \in 0 .. MaxFaults
    BY <1>3, <2>1
  <2>. QED
    BY <1>1, <1>3, <2>1, <2>2, JobStep
<1>6. CASE Persist(j)
  <2>1. /\ UNCHANGED sources /\ faults' = faults
        /\ job' = [job EXCEPT ![j] = At(NextTarget(j))] /\ job[j].at # None
        /\ cursor' = NextCursor(j)
    BY <1>6 DEF Persist
  <2>2. NextTarget(j) \in TargetsOf(j) \cup {None}
    BY <2>1, NextTargetType
  <2>3. cursor' \in Nat \ {0, 1}
    BY <1>3, <2>1 DEF NextCursor, OlderPage
  <2>4. stored' \in [History -> {"running", "final", None}]
    <3>1. stored' = [h \in History |->
                        IF \E v \in {"running", "final"} : <<h, v>> \in job[j].docs
                        THEN CHOOSE v \in {"running", "final"} : <<h, v>> \in job[j].docs
                        ELSE stored[h]]
      BY <1>6 DEF Persist
    <3>2. \A h \in History :
            (\E v \in {"running", "final"} : <<h, v>> \in job[j].docs)
              => (CHOOSE v \in {"running", "final"} : <<h, v>> \in job[j].docs)
                    \in {"running", "final"}
      OBVIOUS
    <3>. QED
      BY <1>3, <3>1, <3>2
  <2>. QED
    BY <1>2, <1>3, <2>1, <2>2, <2>3, <2>4, JobStep
<1>. QED
  BY <1>4, <1>5, <1>6

\* What happens at the sources: a tour is listed once.
LEMMA SourcesType ==
    ASSUME CollectorsInv,
           (\E t \in UELTour : List(t)) \/ (\E h \in History : End(h)) \/ Midnight
    PROVE  CollectorsInv'
<1>1. /\ enabled' = enabled /\ job' = job /\ cursor' = cursor /\ stored' = stored
      /\ faults' = faults
  BY DEF List, End, Midnight
<1>2. ASSUME NEW t \in UELTour, List(t)
      PROVE  CollectorsInv'
  <2>. DEFINE n == Len(catalogue)
  <2>1. catalogue \in Seq(UELTour) /\ n \in Nat /\ DOMAIN catalogue = 1 .. n
        /\ t \notin Range(catalogue)
        /\ catalogue' = <<t>> \o catalogue /\ over' = over /\ today' = today
    BY <1>2 DEF List, CollectorsInv, TypeOK
  <2>2. <<t>> \in Seq(UELTour) /\ Len(<<t>>) = 1 /\ <<t>>[1] = t
    OBVIOUS
  <2>3. /\ catalogue' \in Seq(UELTour) /\ Len(catalogue') = 1 + n
        /\ \A i \in 1 .. 1 + n : catalogue'[i] = IF i <= 1 THEN <<t>>[i] ELSE catalogue[i - 1]
    BY <2>1, <2>2, ConcatProperties
  <2>. HIDE DEF n
  <2>4. DOMAIN catalogue' = 1 .. 1 + n
    BY <2>3
  <2>5. \A i \in 1 .. n : catalogue[i] # t
    BY <2>1 DEF Range
  <2>6. \A a, b \in 1 .. n : catalogue[a] = catalogue[b] => a = b
    BY <2>1 DEF CollectorsInv, IsInjective
  <2>7. ASSUME NEW a \in 1 .. 1 + n, NEW b \in 1 .. 1 + n, catalogue'[a] = catalogue'[b]
        PROVE  a = b
    <3>1. \A i \in 1 .. 1 + n : \/ i = 1 /\ catalogue'[i] = t
                                \/ i - 1 \in 1 .. n /\ catalogue'[i] = catalogue[i - 1]
      BY <2>1, <2>2, <2>3
    <3>2. a \in Int /\ b \in Int
      OBVIOUS
    <3>3. CASE a = 1 \/ b = 1
      BY <2>5, <2>7, <3>1, <3>2, <3>3
    <3>4. CASE a - 1 \in 1 .. n /\ b - 1 \in 1 .. n
               /\ catalogue'[a] = catalogue[a - 1] /\ catalogue'[b] = catalogue[b - 1]
      <4>1. a - 1 = b - 1
        BY <2>6, <2>7, <3>4
      <4>. QED
        BY <3>2, <4>1
    <3>. QED
      BY <3>1, <3>3, <3>4
  <2>8. IsInjective(catalogue')
    BY <2>4, <2>7 DEF IsInjective
  <2>. QED
    BY <1>1, <2>1, <2>3, <2>8 DEF CollectorsInv, TypeOK, IsInjective
<1>3. ASSUME NEW h \in History, End(h)
      PROVE  CollectorsInv'
  BY <1>1, <1>3 DEF End, CollectorsInv, TypeOK, IsInjective
<1>4. CASE Midnight
  <2>1. /\ catalogue' = catalogue /\ over' = over
        /\ today' = today + 1 /\ today < Len(Days) /\ today \in Nat \ {0}
    BY <1>4 DEF Midnight, CollectorsInv, TypeOK
  <2>2. DOMAIN Days = 1 .. Len(Days) /\ Len(Days) \in Nat
    BY CollectorsAssumption
  <2>3. today' \in Nat \ {0} /\ today' \in DOMAIN Days
    BY <2>1, <2>2
  <2>. QED
    BY <1>1, <2>1, <2>3 DEF CollectorsInv, TypeOK, IsInjective
<1>. QED
  BY <1>2, <1>3, <1>4

LEMMA CollectorsInit == Init => CollectorsInv
<1>. SUFFICES ASSUME Init PROVE CollectorsInv
  OBVIOUS
<1>1. /\ enabled \in Enabled /\ catalogue = Listed /\ over = {} /\ today = 1
      /\ job = [j \in Job |-> Idle] /\ cursor = 2 /\ faults = 0
      /\ stored = [h \in History |-> None]
  BY DEF Init
<1>2. Idle \in Jobs /\ Idle.at = None
  BY FreshType DEF Idle
<1>3. "sis" \in enabled => today \in DOMAIN Days
  BY <1>1, EmptySeq, LenProperties, CollectorsAssumption
<1>4. TypeOK
  BY <1>1, <1>2, CollectorsAssumption DEF TypeOK
<1>. QED
  BY <1>1, <1>2, <1>3, <1>4, CollectorsAssumption DEF CollectorsInv

LEMMA CollectorsStep == CollectorsInv /\ [Next]_vars => CollectorsInv'
<1>. SUFFICES ASSUME CollectorsInv, [Next]_vars PROVE CollectorsInv'
  OBVIOUS
<1>1. CASE UNCHANGED vars
  BY <1>1 DEF vars, sources, CollectorsInv, TypeOK, IsInjective
<1>2. CASE (\E t \in UELTour : List(t)) \/ (\E h \in History : End(h)) \/ Midnight
  BY <1>2, SourcesType
<1>3. CASE Restart
  <2>1. /\ UNCHANGED sources /\ stored' = stored /\ cursor' = 2
        /\ faults < MaxFaults /\ faults' = faults + 1
        /\ job' = [j \in Job |-> Idle]
    BY <1>3 DEF Restart
  <2>2. Idle \in Jobs /\ Idle.at = None
    BY FreshType DEF Idle
  <2>3. faults' \in 0 .. MaxFaults
    BY <2>1, CollectorsAssumption DEF CollectorsInv, TypeOK
  <2>. QED
    BY <2>1, <2>2, <2>3 DEF sources, CollectorsInv, TypeOK, IsInjective
<1>4. ASSUME NEW j \in Job, NEW h \in Target \cup History, Download(j, h) \/ Fail(j, h)
      PROVE  CollectorsInv'
  BY <1>4, DownloadType, FailType
<1>5. ASSUME NEW j \in Job,
             StartCycle(j) \/ NotFound(j) \/ PersistFails(j) \/ Persist(j)
      PROVE  CollectorsInv'
  BY <1>5, MoveType
<1>. QED
  BY <1>1, <1>2, <1>3, <1>4, <1>5 DEF Next, Work

\* The model's variables have their types.
LEMMA TypeCorrect == Spec => []TypeOK
<1>1. CollectorsInv => TypeOK
  BY DEF CollectorsInv
<1>. QED
  BY <1>1, CollectorsInit, CollectorsStep, PTL DEF Spec

(***************************************************************************)
(* AsksForItsOwn.  The page a job asks for was counted at an earlier time, *)
(* by the total read off page one; it still exists because the catalogue   *)
(* only grows, and the number of pages with it.                            *)
(***************************************************************************)

\* What a job is at, and the tours it still awaits, when it is not idle.
OwnPage(n, left) ==
    /\ n = 1 \/ n <= Pages
    /\ left \subseteq Range(catalogue)

OwnParticipant(p, left) == left \subseteq Range(ToursOf[p]) \cap over

OwnDay(d, left) ==
    /\ d \in {Days[i] : i \in 1 .. today}
    /\ left = {}

\* A job only asks for what its source has by then: a page that UEL has, the
\* first or one up to the last, and tours that UEL lists; a participant, and
\* tours of his that are over; a day of the schedule that has come, and nothing
\* beside it.  (uel_history_worker.py, h2h_history_worker.py and the jobs of
\* __main__.py; the pages are counted before they are asked for.)
AsksForItsOwn ==
    /\ job["uel"].at # None =>
          \E n \in 1 .. Cardinality(UELTour) :
              job["uel"].at = <<"page", n>> /\ OwnPage(n, job["uel"].left)
    /\ job["esb"].at # None =>
          job["esb"].at \in Range(Participants) /\ OwnParticipant(job["esb"].at, job["esb"].left)
    /\ job["sis"].at # None => OwnDay(job["sis"].at, job["sis"].left)

AskInv ==
    /\ CollectorsInv
    /\ job["uel"].total <= Pages
    /\ AsksForItsOwn

\* The same, one job at a time: what a job may be at and await.
Own(j) ==
    job[j].at # None =>
        CASE j = "uel" -> \E n \in 1 .. Cardinality(UELTour) :
                              job[j].at = <<"page", n>> /\ OwnPage(n, job[j].left)
          [] j = "esb" -> OwnParticipant(job[j].at, job[j].left)
          [] OTHER     -> OwnDay(job[j].at, job[j].left)

LEMMA OwnJobs ==
    CollectorsInv => (AsksForItsOwn <=> \A j \in Job : Own(j))
<1>1. CollectorsInv => (job["esb"].at # None => job["esb"].at \in Range(Participants))
  BY DEF CollectorsInv, TargetsOf, Job
<1>. QED
  BY <1>1 DEF AsksForItsOwn, Own, Job

LEMMA OwnJobsNext ==
    CollectorsInv' => (AsksForItsOwn' <=> \A j \in Job : Own(j)')
<1>1. CollectorsInv' => (job'["esb"].at # None => job'["esb"].at \in Range(Participants))
  BY DEF CollectorsInv, TargetsOf, Job
<1>. QED
  BY <1>1 DEF AsksForItsOwn, Own, Job

\* More tours never take fewer pages.
LEMMA PagesGrow ==
    ASSUME CollectorsInv, NEW t \in UELTour, catalogue' = <<t>> \o catalogue
    PROVE  Pages <= Pages'
<1>. DEFINE L == Len(catalogue)  P == PerPage  q == Pages  r == Pages'
<1>1. L \in Nat /\ Len(catalogue') = L + 1
  <2>1. catalogue \in Seq(UELTour) /\ <<t>> \in Seq(UELTour) /\ Len(<<t>>) = 1
    BY DEF CollectorsInv, TypeOK
  <2>. QED
    BY <2>1, ConcatProperties
<1>2. P \in Nat \ {0}
  BY CollectorsAssumption DEF PerPage
<1>3. q = (L + P - 1) \div P /\ r = (L + P) \div P
  <2>1. r = (Len(catalogue') + P - 1) \div P
    BY DEF Pages, PerPage
  <2>. QED
    BY <1>1, <1>2, <2>1 DEF Pages
<1>. HIDE DEF L, P, q, r
<1>4. /\ q \in Int /\ q * P <= L + P - 1
      /\ r \in Int /\ L + P < (r + 1) * P
  BY <1>1, <1>2, <1>3
<1>5. q <= r
  <2>. SUFFICES ASSUME q >= r + 1 PROVE FALSE
    BY <1>4
  <2>1. q * P >= (r + 1) * P
    BY <1>2, <1>4
  <2>. QED
    BY <1>1, <1>2, <1>4, <2>1
<1>. QED
  BY <1>5 DEF q, r

\* The tours chosen of a target are the target's.
LEMMA ChosenOwn ==
    ASSUME CollectorsInv
    PROVE  /\ \A n \in 1 .. Cardinality(UELTour) :
                 Chosen(<<"page", n>>) \subseteq Range(catalogue)
           /\ \A p \in Range(Participants) : Chosen(p) \subseteq Range(ToursOf[p]) \cap over
           /\ \A d \in Day : Chosen(d) = {}
<1>1. ASSUME NEW n \in 1 .. Cardinality(UELTour)
      PROVE  Chosen(<<"page", n>>) \subseteq Range(catalogue)
  <2>1. n \in Nat \ {0}
    BY FS_CardinalityType, CollectorsAssumption
  <2>. DEFINE L == Len(catalogue)
              first == (n - 1) * PerPage + 1
              last == IF n * PerPage <= L THEN n * PerPage ELSE L
              R == Range(catalogue)
  <2>2. L \in Nat /\ \A i \in 1 .. L : catalogue[i] \in R
    BY DEF CollectorsInv, TypeOK, Range
  <2>3. PerPage \in Nat \ {0}
    BY CollectorsAssumption DEF PerPage
  <2>4. (n - 1) * PerPage \in Nat /\ n * PerPage \in Nat
    BY <2>1, <2>3
  <2>5. first \in Int /\ last \in Int /\ first >= 1 /\ last <= L
    BY <2>2, <2>4
  <2>6. OnPage(n) = SubSeq(catalogue, first, last)
    BY DEF OnPage
  <2>. HIDE DEF first, last, R
  <2>7. OnPage(n) \in Seq(R)
    <3>1. \A i \in first .. last : catalogue[i] \in R
      BY <2>2, <2>5
    <3>. QED
      BY <2>5, <2>6, <3>1, SubSeqProperties
  <2>8. FirstOf(OnPage(n), MaxTournaments) \subseteq R
    <3>. PICK s : s = OnPage(n)
      OBVIOUS
    <3>1. Len(s) \in Nat /\ \A i \in 1 .. Len(s) : s[i] \in R
      BY <2>7
    <3>. QED
      BY <3>1, CollectorsAssumption DEF FirstOf
  <2>9. <<"page", n>> \in Page /\ <<"page", n>>[2] = n
    BY DEF Page
  <2>. QED
    BY <2>8, <2>9 DEF Chosen, R
<1>2. ASSUME NEW p \in Range(Participants)
      PROVE  Chosen(p) \subseteq Range(ToursOf[p]) \cap over
  <2>1. p \notin Page
    BY CollectorsAssumption
  <2>2. Chosen(p) = {ToursOf[p][i] : i \in Newest(p)}
    BY <2>1 DEF Chosen
  <2>. QED
    BY <2>2 DEF Newest, Finished, Range
<1>3. ASSUME NEW d \in Day
      PROVE  Chosen(d) = {}
  BY CollectorsAssumption DEF Chosen
<1>. QED
  BY <1>1, <1>2, <1>3

\* A job at a fresh target awaits nothing yet.
LEMMA FreshOwn ==
    Idle.at = None /\ \A target : At(target).at = target /\ At(target).left = {}
                                  /\ At(target).total = 0
  BY DEF Idle, At

\* Whatever the sources come to show, what was a job's own remains so.
LEMMA OwnRemains ==
    ASSUME CollectorsInv, NEW j \in Job, Own(j), job'[j] = job[j],
           Pages <= Pages', Pages \in Int, Pages' \in Int,
           Range(catalogue) \subseteq Range(catalogue'), over \subseteq over',
           today \in Nat, today' \in Nat, today <= today'
    PROVE  Own(j)'
<1>1. \A n \in 1 .. Cardinality(UELTour) : OwnPage(n, job[j].left) => OwnPage(n, job[j].left)'
  <2>. SUFFICES ASSUME NEW n \in 1 .. Cardinality(UELTour), OwnPage(n, job[j].left)
                PROVE  OwnPage(n, job[j].left)'
    OBVIOUS
  <2>1. n \in Int
    OBVIOUS
  <2>2. n = 1 \/ n <= Pages'
    BY <2>1 DEF OwnPage
  <2>. QED
    BY <2>2 DEF OwnPage
<1>2. \A p : OwnParticipant(p, job[j].left) => OwnParticipant(p, job[j].left)'
  BY DEF OwnParticipant
<1>3. \A d : OwnDay(d, job[j].left) => OwnDay(d, job[j].left)'
  BY DEF OwnDay
<1>. QED
  BY <1>1, <1>2, <1>3 DEF Own, Job

\* A step of one job, when nothing happens at the sources.
LEMMA OwnStep ==
    ASSUME AskInv, CollectorsInv', NEW j \in Job, NEW STATE w,
           UNCHANGED sources, job' = [job EXCEPT ![j] = w],
           j = "uel" => w.total <= Pages,
           w.at # None =>
               /\ j = "uel" => \E n \in 1 .. Cardinality(UELTour) :
                                   w.at = <<"page", n>> /\ OwnPage(n, w.left)
               /\ j = "esb" => OwnParticipant(w.at, w.left)
               /\ j = "sis" => OwnDay(w.at, w.left)
    PROVE  AskInv'
<1>1. DOMAIN job = Job
  BY DEF AskInv, CollectorsInv, TypeOK
<1>2. /\ job'[j] = w /\ \A i \in Job \ {j} : job'[i] = job[i]
      /\ catalogue' = catalogue /\ over' = over /\ today' = today
  BY <1>1 DEF sources
<1>3. Pages' = Pages
  BY <1>2 DEF Pages, PerPage
<1>4. ASSUME NEW i \in Job
      PROVE  Own(i)'
  <2>1. CASE i = j
    <3>. SUFFICES ASSUME job'[i].at # None PROVE Own(i)'
      BY DEF Own
    <3>1. CASE i = "uel"
      BY <1>2, <1>3, <2>1, <3>1 DEF Own, OwnPage
    <3>2. CASE i = "esb"
      BY <1>2, <2>1, <3>2 DEF Own, OwnParticipant
    <3>3. CASE i = "sis"
      BY <1>2, <2>1, <3>3 DEF Own, OwnDay
    <3>. QED
      BY <3>1, <3>2, <3>3 DEF Job
  <2>2. CASE i # j
    <3>1. Own(i) /\ Pages \in Int /\ today \in Nat
      BY OwnJobs, PagesBound, FS_CardinalityType, CollectorsAssumption
      DEF AskInv, CollectorsInv, TypeOK
    <3>. QED
      BY <1>2, <1>3, <2>2, <3>1, OwnRemains DEF AskInv
  <2>. QED
    BY <2>1, <2>2
<1>5. job'["uel"].total <= Pages'
  BY <1>2, <1>3 DEF AskInv, Job
<1>6. AsksForItsOwn'
  BY <1>4, OwnJobsNext
<1>. QED
  BY <1>5, <1>6 DEF AskInv

\* A download: page one shows how many pages there are, the tours chosen are
\* of the list just read.
LEMMA DownloadOwn ==
    ASSUME AskInv, CollectorsInv', NEW j \in Job, NEW h \in Target \cup History, Download(j, h)
    PROVE  AskInv'
<1>. DEFINE doc == <<h, Version(h)>>
            left == IF job[j].listed THEN job[j].left \ {h} ELSE Chosen(h)
            total == IF h = <<"page", 1>> THEN Pages ELSE job[j].total
            docs == job[j].docs \cup {doc}
            w == [job[j] EXCEPT !.listed = TRUE, !.left = left, !.total = total, !.docs = docs]
<1>1. /\ job[j] \in Jobs /\ Own(j) /\ job[j].at # None
      /\ job[j].at \in TargetsOf(j) /\ job["uel"].total <= Pages
      /\ ~ job[j].listed => h = job[j].at
      /\ Pages \in Int
  BY OwnJobs, PagesBound, FS_CardinalityType, CollectorsAssumption
  DEF AskInv, CollectorsInv, TypeOK, Download, Requests
<1>2. job' = [job EXCEPT ![j] = w] /\ UNCHANGED sources
  BY DEF Download
<1>3. j = "uel" => \E n \in 1 .. Cardinality(UELTour) :
                       job[j].at = <<"page", n>> /\ OwnPage(n, left)
  <2>. SUFFICES ASSUME j = "uel",
                       NEW n \in 1 .. Cardinality(UELTour),
                       job[j].at = <<"page", n>>, OwnPage(n, job[j].left)
                PROVE  OwnPage(n, left)
    BY <1>1 DEF Own
  <2>1. Chosen(<<"page", n>>) \subseteq Range(catalogue)
    BY ChosenOwn DEF AskInv
  <2>2. left \subseteq Range(catalogue)
    BY <1>1, <2>1 DEF OwnPage
  <2>. QED
    BY <2>2 DEF OwnPage
<1>4. j = "esb" => OwnParticipant(job[j].at, left)
  <2>. SUFFICES ASSUME j = "esb" PROVE OwnParticipant(job[j].at, left)
    OBVIOUS
  <2>1. job[j].at \in Range(Participants) /\ OwnParticipant(job[j].at, job[j].left)
    BY <1>1 DEF Own, TargetsOf
  <2>2. Chosen(job[j].at) \subseteq Range(ToursOf[job[j].at]) \cap over
    BY <2>1, ChosenOwn DEF AskInv
  <2>. QED
    BY <1>1, <2>1, <2>2 DEF OwnParticipant
<1>5. j = "sis" => OwnDay(job[j].at, left)
  <2>. SUFFICES ASSUME j = "sis" PROVE OwnDay(job[j].at, left)
    OBVIOUS
  <2>1. job[j].at \in Day /\ OwnDay(job[j].at, job[j].left)
    BY <1>1 DEF Own, TargetsOf
  <2>2. Chosen(job[j].at) = {}
    BY <2>1, ChosenOwn DEF AskInv
  <2>. QED
    BY <1>1, <2>1, <2>2 DEF OwnDay
<1>6. j = "uel" => total <= Pages
  BY <1>1
<1>. HIDE DEF left, total, docs
<1>7. w.at = job[j].at /\ w.left = left /\ w.total = total
  BY <1>1 DEF Jobs
<1>. HIDE DEF w
<1>. QED
  BY <1>2, <1>3, <1>4, <1>5, <1>6, <1>7, OwnStep

\* A job that gives up asks for nothing.
LEMMA GiveUp ==
    ASSUME AskInv, CollectorsInv', NEW j \in Job,
           job' = [job EXCEPT ![j] = Idle], UNCHANGED sources
    PROVE  AskInv'
<1>. DEFINE w == Idle
<1>1. w.at = None /\ w.total = 0
  BY DEF Idle
<1>2. job' = [job EXCEPT ![j] = w]
  OBVIOUS
<1>. HIDE DEF w
<1>3. 0 <= Pages
  BY PagesBound, FS_CardinalityType, CollectorsAssumption DEF AskInv
<1>. QED
  BY <1>1, <1>2, <1>3, OwnStep

\* What a job awaits only shrinks when a tour fails.
LEMMA FailOwn ==
    ASSUME AskInv, CollectorsInv', NEW j \in Job, NEW h, Fail(j, h)
    PROVE  AskInv'
<1>1. /\ job[j] \in Jobs /\ Own(j) /\ job["uel"].total <= Pages
      /\ Pages \in 0 .. Cardinality(UELTour) /\ Cardinality(UELTour) \in Nat
      /\ job[j].at # None
  BY OwnJobs, PagesBound, FS_CardinalityType, CollectorsAssumption
  DEF AskInv, CollectorsInv, TypeOK, Fail
<1>2. job' = [job EXCEPT ![j] = Without(j, h)] /\ UNCHANGED sources
  BY DEF Fail
<1>3. CASE j = "uel" /\ job[j].listed
  <2>. DEFINE w == [job[j] EXCEPT !.left = job[j].left \ {h}]
  <2>1. Without(j, h) = w
    BY <1>3 DEF Without
  <2>2. w.at = job[j].at /\ w.left = job[j].left \ {h} /\ w.total = job[j].total
    BY <1>1 DEF Jobs
  <2>. HIDE DEF w
  <2>3. \E n \in 1 .. Cardinality(UELTour) : w.at = <<"page", n>> /\ OwnPage(n, w.left)
    BY <1>1, <1>3, <2>2 DEF Own, OwnPage
  <2>. QED
    BY <1>1, <1>2, <1>3, <2>1, <2>2, <2>3, OwnStep
<1>4. CASE ~ (j = "uel" /\ job[j].listed)
  <2>1. Without(j, h) = Idle
    BY <1>4 DEF Without
  <2>. QED
    BY <1>2, <2>1, GiveUp
<1>. QED
  BY <1>3, <1>4

\* A job that moves on to a target of its own awaits nothing there yet.
LEMMA MoveTo ==
    ASSUME AskInv, CollectorsInv', NEW j \in Job, NEW STATE target,
           job' = [job EXCEPT ![j] = At(target)], UNCHANGED sources,
           j = "uel" /\ target # None =>
               \E n \in 1 .. Cardinality(UELTour) : target = <<"page", n>> /\ (n = 1 \/ n <= Pages),
           j = "sis" /\ target # None => target \in {Days[i] : i \in 1 .. today}
    PROVE  AskInv'
<1>. DEFINE w == At(target)
<1>1. w.at = target /\ w.left = {} /\ w.total = 0
  BY FreshOwn
<1>2. job' = [job EXCEPT ![j] = w]
  OBVIOUS
<1>. HIDE DEF w
<1>3. 0 <= Pages
  BY PagesBound, FS_CardinalityType, CollectorsAssumption DEF AskInv
<1>4. j = "uel" /\ target # None =>
          \E n \in 1 .. Cardinality(UELTour) : w.at = <<"page", n>> /\ OwnPage(n, w.left)
  BY <1>1 DEF OwnPage
<1>5. OwnParticipant(w.at, w.left)
  BY <1>1 DEF OwnParticipant
<1>6. j = "sis" /\ target # None => OwnDay(w.at, w.left)
  BY <1>1 DEF OwnDay
<1>. QED
  BY <1>1, <1>2, <1>3, <1>4, <1>5, <1>6, OwnStep

\* The targets a job moves on to: after page one an older page up to the last
\* that page one showed, then nothing.
LEMMA MoveOwn ==
    ASSUME AskInv, CollectorsInv', NEW j \in Job,
           StartCycle(j) \/ NotFound(j) \/ PersistFails(j) \/ Persist(j)
    PROVE  AskInv'
<1>1. /\ job[j] \in Jobs /\ job["uel"].total <= Pages /\ cursor \in Nat \ {0, 1}
      /\ Pages \in 0 .. Cardinality(UELTour) /\ Cardinality(UELTour) \in Nat
      /\ job[j].at \in TargetsOf(j) \cup {None}
  BY PagesBound, FS_CardinalityType, CollectorsAssumption DEF AskInv, CollectorsInv, TypeOK
<1>2. CASE NotFound(j) \/ PersistFails(j)
  <2>1. job' = [job EXCEPT ![j] = Idle] /\ UNCHANGED sources
    BY <1>2 DEF NotFound, PersistFails
  <2>. QED
    BY <2>1, GiveUp
<1>3. CASE StartCycle(j)
  <2>1. job' = [job EXCEPT ![j] = At(FirstTarget(j))] /\ UNCHANGED sources /\ j \in enabled
    BY <1>3 DEF StartCycle
  <2>2. j = "uel" => FirstTarget(j) = <<"page", 1>> /\ 1 \in 1 .. Cardinality(UELTour)
    <3>. SUFFICES ASSUME j = "uel" PROVE 1 \in 1 .. Cardinality(UELTour)
      BY DEF FirstTarget
    <3>1. UELTour # {}
      BY <2>1, CollectorsAssumption DEF AskInv, CollectorsInv
    <3>. QED
      BY <1>1, <3>1, FS_EmptySet, CollectorsAssumption
  <2>3. j = "sis" => FirstTarget(j) = Days[today] /\ today \in 1 .. today
    BY DEF FirstTarget, AskInv, CollectorsInv, TypeOK
  <2>. QED
    BY <2>1, <2>2, <2>3, <1>1, MoveTo
<1>4. CASE Persist(j)
  <2>1. job' = [job EXCEPT ![j] = At(NextTarget(j))] /\ UNCHANGED sources
    BY <1>4 DEF Persist
  <2>2. j = "uel" /\ NextTarget(j) # None =>
            \E n \in 1 .. Cardinality(UELTour) : NextTarget(j) = <<"page", n>> /\ n <= Pages
    <3>. SUFFICES ASSUME j = "uel", NextTarget(j) # None
                  PROVE  \E n \in 1 .. Cardinality(UELTour) :
                             NextTarget(j) = <<"page", n>> /\ n <= Pages
      OBVIOUS
    <3>. DEFINE n == OlderPage(job[j].total)
    <3>1. NextTarget(j) = <<"page", n>> /\ job[j].total > 1
      BY DEF NextTarget
    <3>2. job[j].total \in Int
      BY <1>1 DEF Jobs
    <3>3. n \in 1 .. job[j].total
      BY <1>1, <3>1, <3>2 DEF OlderPage
    <3>. HIDE DEF n
    <3>4. n \in 1 .. Cardinality(UELTour) /\ n <= Pages
      BY <1>1, <3>2, <3>3
    <3>. QED
      BY <3>1, <3>4
  <2>3. j = "sis" => NextTarget(j) = None
    BY DEF NextTarget
  <2>. QED
    BY <2>1, <2>2, <2>3, <1>1, MoveTo
<1>. QED
  BY <1>2, <1>3, <1>4

LEMMA AskInit == Init => AskInv
<1>. SUFFICES ASSUME Init PROVE AskInv
  OBVIOUS
<1>1. CollectorsInv
  BY CollectorsInit
<1>2. \A j \in Job : job[j] = Idle
  BY DEF Init
<1>3. \A j \in Job : job[j].at = None /\ job[j].total = 0
  BY <1>2 DEF Idle
<1>4. 0 <= Pages
  BY <1>1, PagesBound, FS_CardinalityType, CollectorsAssumption
<1>. QED
  BY <1>1, <1>3, <1>4 DEF AskInv, AsksForItsOwn, Job

LEMMA AskStep == AskInv /\ [Next]_vars => AskInv'
<1>. SUFFICES ASSUME AskInv, [Next]_vars PROVE AskInv'
  OBVIOUS
<1>1. CollectorsInv /\ CollectorsInv'
  BY CollectorsStep DEF AskInv
<1>2. /\ Pages \in 0 .. Cardinality(UELTour) /\ Cardinality(UELTour) \in Nat
      /\ today \in Nat /\ today' \in Nat
  BY <1>1, PagesBound, FS_CardinalityType, CollectorsAssumption DEF CollectorsInv, TypeOK
<1>3. ASSUME job' = job, Pages <= Pages', Pages' \in Int,
             Range(catalogue) \subseteq Range(catalogue'), over \subseteq over', today <= today'
      PROVE  AskInv'
  <2>1. \A j \in Job : Own(j)
    BY <1>1, OwnJobs DEF AskInv
  <2>2. \A j \in Job : Own(j)'
    BY <1>1, <1>2, <1>3, <2>1, OwnRemains
  <2>3. job'["uel"].total <= Pages'
    <3>1. job["uel"].total \in Int /\ job["uel"].total <= Pages
      BY <1>1, <1>2 DEF AskInv, CollectorsInv, TypeOK, Jobs, Job
    <3>. QED
      BY <1>2, <1>3, <3>1
  <2>. QED
    BY <1>1, <2>2, <2>3, OwnJobsNext DEF AskInv
<1>4. CASE UNCHANGED vars
  <2>1. Pages' = Pages
    BY <1>4 DEF vars, sources, Pages, PerPage
  <2>. QED
    BY <1>2, <1>3, <1>4, <2>1 DEF vars, sources
<1>5. ASSUME NEW t \in UELTour, List(t)
      PROVE  AskInv'
  <2>1. /\ job' = job /\ over' = over /\ today' = today
        /\ catalogue' = <<t>> \o catalogue
    BY <1>5 DEF List
  <2>2. Pages' \in Int
    <3>1. Len(catalogue') \in Int /\ PerPage \in Nat \ {0}
      BY <1>1, CollectorsAssumption DEF CollectorsInv, TypeOK, PerPage
    <3>2. Pages' = (Len(catalogue') + PerPage - 1) \div PerPage
      BY DEF Pages, PerPage
    <3>. QED
      BY <3>1, <3>2
  <2>3. Range(catalogue) \subseteq Range(catalogue')
    <3>1. catalogue \in Seq(UELTour) /\ <<t>> \in Seq(UELTour) /\ Len(<<t>>) = 1
      BY <1>1 DEF CollectorsInv, TypeOK
    <3>2. /\ Len(catalogue') = 1 + Len(catalogue) /\ catalogue' \in Seq(UELTour)
          /\ \A i \in 1 .. 1 + Len(catalogue) :
                catalogue'[i] = IF i <= 1 THEN <<t>>[i] ELSE catalogue[i - 1]
      BY <2>1, <3>1, ConcatProperties
    <3>3. ASSUME NEW i \in DOMAIN catalogue
          PROVE  i + 1 \in DOMAIN catalogue' /\ catalogue'[i + 1] = catalogue[i]
      <4>. DEFINE n == Len(catalogue)
      <4>1. i \in 1 .. n /\ n \in Nat
        BY <3>1
      <4>2. i + 1 \in 1 .. 1 + n /\ ~ (i + 1 <= 1) /\ i + 1 - 1 = i
        BY <4>1
      <4>. QED
        BY <3>2, <4>2
    <3>. QED
      BY <3>3 DEF Range
  <2>. QED
    BY <1>1, <1>2, <1>3, <2>1, <2>2, <2>3, PagesGrow
<1>6. CASE (\E h \in History : End(h)) \/ Midnight
  <2>1. /\ job' = job /\ catalogue' = catalogue
        /\ over \subseteq over' /\ today <= today'
    BY <1>2, <1>6 DEF End, Midnight
  <2>2. Pages' = Pages
    BY <2>1 DEF Pages, PerPage
  <2>. QED
    BY <1>2, <1>3, <2>1, <2>2
<1>7. CASE Restart
  <2>1. /\ \A j \in Job : job'[j] = Idle
        /\ catalogue' = catalogue
    BY <1>7 DEF Restart, sources
  <2>2. \A j \in Job : job'[j].at = None /\ job'[j].total = 0
    BY <2>1 DEF Idle
  <2>3. Pages' = Pages
    BY <2>1 DEF Pages, PerPage
  <2>. QED
    BY <1>1, <1>2, <2>2, <2>3 DEF AskInv, AsksForItsOwn, Job
<1>8. ASSUME NEW j \in Job, NEW h \in Target \cup History, Download(j, h) \/ Fail(j, h)
      PROVE  AskInv'
  BY <1>1, <1>8, DownloadOwn, FailOwn
<1>9. ASSUME NEW j \in Job,
             StartCycle(j) \/ NotFound(j) \/ PersistFails(j) \/ Persist(j)
      PROVE  AskInv'
  BY <1>1, <1>9, MoveOwn
<1>. QED
  BY <1>4, <1>5, <1>6, <1>7, <1>8, <1>9 DEF Next, Work

\* A job asks for nothing but what its source has by then, whatever was listed,
\* played or failed since its cycle began, and whenever it was restarted.
THEOREM OwnTargets == Spec => []AsksForItsOwn
<1>1. AskInv => AsksForItsOwn
  BY DEF AskInv
<1>. QED
  BY <1>1, AskInit, AskStep, PTL DEF Spec
=============================================================================
