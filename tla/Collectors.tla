------------------------------- MODULE Collectors -------------------------------
(***************************************************************************)
(* The jobs that collect histories, at the level of their requests: which  *)
(* documents of the sources reach the raw archive and the database.        *)
(*                                                                         *)
(* A cycle of a job has one or more targets: a page of UEL's list of       *)
(* tours, an ESportsBattle participant, a day of the SIS schedule.  The    *)
(* list of a target is downloaded first, then the tours chosen from it,    *)
(* each answer is archived (the body, then its metadata), and all of the   *)
(* target's documents are stored in one transaction.  The jobs run beside  *)
(* each other and share nothing but the archive and the database.          *)
(***************************************************************************)
EXTENDS Integers, FiniteSets, Sequences, SequencesExt

CONSTANTS
    UELTour, ESBTour,    \* tours the sources have or will have
    Listed,          \* the tours UEL lists first: a sequence, newest first
    Participants,    \* ESB_PARTICIPANTS: a sequence
    ToursOf,         \* the tours on the first page of a participant, newest first
    Gone,            \* participants the source no longer answers for
    Days,            \* the days of the model (bound), in their order
    Enabled,         \* the sets of jobs the settings may enable
    MaxTournaments,  \* HISTORY_MAX_TOURNAMENTS
    ESBMaxTournaments,
    PageFloor,       \* the least number of tours on a page: 10 in the code
    MaxFaults,       \* bound of the model
    None

Job     == {"uel", "esb", "sis"}
Day     == Range(Days)
Tour    == UELTour \cup ESBTour
History == Tour \cup Day
PerPage == IF PageFloor >= MaxTournaments THEN PageFloor ELSE MaxTournaments
Page    == {<<"page", n>> : n \in 1 .. Cardinality(UELTour)}
Target  == Page \cup Range(Participants) \cup Day

ASSUME CollectorsAssumption ==
    /\ Listed \in Seq(UELTour) /\ IsInjective(Listed) /\ IsFiniteSet(UELTour)
    /\ Participants \in Seq(Range(Participants)) /\ Days \in Seq(Day)
    /\ \A p \in Range(Participants) : ToursOf[p] \in Seq(ESBTour)
    /\ Enabled \subseteq SUBSET Job
    /\ \A js \in Enabled : /\ "uel" \in js => UELTour # {}
                           /\ "esb" \in js => Participants # <<>>
                           /\ "sis" \in js => Days # <<>>
    /\ Gone \subseteq Range(Participants)
    /\ MaxTournaments \in Nat \ {0} /\ ESBMaxTournaments \in Nat \ {0}
    /\ PageFloor \in Nat \ {0} /\ MaxFaults \in Nat
    /\ None \notin Target \cup History
    /\ Page \cap Range(Participants) = {} /\ Day \cap (Page \cup Range(Participants)) = {}

VARIABLES
    enabled,         \* the jobs that run: never changes
    catalogue,       \* what UEL lists, newest first
    over,            \* tours and days whose last result the source shows
    today,           \* which of the days it is
    job,             \* what a job is at
    cursor,          \* uel_backfill_page: in memory only
    bodies, metas,   \* the files of the archive
    raws,            \* raw_payloads
    stored,          \* what the database holds of a tour or a day
    faults

sources  == <<enabled, catalogue, over, today>>
archived == <<bodies, metas>>
vars     == <<sources, job, cursor, archived, raws, stored, faults>>

-----------------------------------------------------------------------------
Idle == [at |-> None, total |-> 0, listed |-> FALSE, left |-> {}, docs |-> {}]

At(target) == [Idle EXCEPT !.at = target]

Init ==
    /\ enabled \in Enabled
    /\ catalogue = Listed /\ over = {} /\ today = 1
    /\ job = [j \in Job |-> Idle]
    /\ cursor = 2
    /\ bodies = {} /\ metas = {} /\ raws = {}
    /\ stored = [h \in History |-> None]
    /\ faults = 0

\* A new tour is listed first; a tour or a day comes to its end; midnight.  (Of
\* a source nobody asks nothing need be said.)
Shown ==
    (IF "uel" \in enabled THEN Range(catalogue) ELSE {})
        \cup (IF "esb" \in enabled THEN ESBTour ELSE {})
        \cup (IF "sis" \in enabled THEN {Days[i] : i \in 1 .. today} ELSE {})

List(t) ==
    /\ "uel" \in enabled /\ t \notin Range(catalogue)
    /\ catalogue' = <<t>> \o catalogue
    /\ UNCHANGED <<enabled, over, today, job, cursor, archived, raws, stored, faults>>

End(h) ==
    /\ h \in Shown \ over
    /\ over' = over \cup {h}
    /\ UNCHANGED <<enabled, catalogue, today, job, cursor, archived, raws, stored, faults>>

Midnight ==
    /\ "sis" \in enabled /\ today < Len(Days)
    /\ today' = today + 1
    /\ UNCHANGED <<enabled, catalogue, over, job, cursor, archived, raws, stored, faults>>

-----------------------------------------------------------------------------
(* What a job collects.                                                    *)

Pages == (Len(catalogue) + PerPage - 1) \div PerPage

\* UEL's page n, and of it as many tours as HISTORY_MAX_TOURNAMENTS says.
OnPage(n)  == SubSeq(catalogue, (n - 1) * PerPage + 1,
                     IF n * PerPage <= Len(catalogue) THEN n * PerPage ELSE Len(catalogue))
FirstOf(s, n) == {s[i] : i \in 1 .. (IF n <= Len(s) THEN n ELSE Len(s))}

\* Of a participant's tours, the newest that are over.
Finished(p) == {i \in DOMAIN ToursOf[p] : ToursOf[p][i] \in over}
Newest(p)   == {i \in Finished(p) : Cardinality({k \in Finished(p) : k <= i}) <= ESBMaxTournaments}

Chosen(target) ==
    IF target \in Page THEN FirstOf(OnPage(target[2]), MaxTournaments)
    ELSE IF target \in Range(Participants) THEN {ToursOf[target][i] : i \in Newest(target)}
    ELSE {}

FirstTarget(j) ==
    CASE j = "uel" -> <<"page", 1>> [] j = "esb" -> Participants[1] [] OTHER -> Days[today]

\* After page one, the older page whose turn it is.
OlderPage(total) == IF cursor > total THEN 2 ELSE cursor

\* Mutant: only the first participant is collected.
NextTargetUELOnly(j) ==
    IF j = "uel" /\ job[j].at = <<"page", 1>> /\ job[j].total > 1
    THEN <<"page", OlderPage(job[j].total)>> ELSE None

NextTarget(j) ==
    LET at == job[j].at IN
    CASE j = "uel" -> IF at = <<"page", 1>> /\ job[j].total > 1
                      THEN <<"page", OlderPage(job[j].total)>> ELSE None
      [] j = "esb" -> LET i == CHOOSE i \in DOMAIN Participants : Participants[i] = at
                      IN  IF i < Len(Participants) THEN Participants[i + 1] ELSE None
      [] OTHER     -> None

\* Mutant: the page does not move on.
NextCursorStill(j) == cursor

\* The page moves on once an older page is stored, and starts over past the end.
NextCursor(j) ==
    IF j # "uel" THEN cursor
    ELSE IF job[j].at # <<"page", 1>> THEN cursor + 1
    ELSE IF job[j].total > 1 THEN OlderPage(job[j].total)
    ELSE cursor

Version(h) == IF h \in Page \cup Range(Participants) THEN "list"
              ELSE IF h \in over THEN "final" ELSE "running"

-----------------------------------------------------------------------------
(* The steps of a job.                                                     *)

StartCycle(j) ==
    /\ j \in enabled /\ job[j].at = None
    /\ job' = [job EXCEPT ![j] = At(FirstTarget(j))]
    /\ UNCHANGED <<sources, cursor, archived, raws, stored, faults>>

Requests(j) == IF job[j].listed THEN job[j].left ELSE {job[j].at}

\* An answer is downloaded, and archived before it is parsed.
Download(j, h) ==
    /\ job[j].at # None
    /\ h \in Requests(j) \ Gone
    /\ LET doc == <<h, Version(h)>> IN
       /\ bodies' = bodies \cup {doc}
       /\ metas' = metas \cup {doc}
       /\ job' = [job EXCEPT
                    ![j].listed = TRUE,
                    ![j].left = IF job[j].listed THEN @ \ {h} ELSE Chosen(h),
                    ![j].total = IF h = <<"page", 1>> THEN Pages ELSE @,
                    ![j].docs = @ \cup {doc}]
    /\ UNCHANGED <<sources, cursor, raws, stored, faults>>

\* Mutant: the tour that failed is stored all the same.
WithoutItsFiles(j, h) ==
    IF j = "uel" /\ job[j].listed
    THEN [job[j] EXCEPT !.left = @ \ {h}, !.docs = @ \cup {<<h, Version(h)>>}] ELSE Idle

\* A tour of a UEL page that fails is left out; anything else ends the job's
\* cycle, and what the target had so far is not stored.
Without(j, h) ==
    IF j = "uel" /\ job[j].listed THEN [job[j] EXCEPT !.left = @ \ {h}] ELSE Idle

\* A request, the archive or the parser fails, maybe between the two files.
Fail(j, h) ==
    /\ job[j].at # None /\ faults < MaxFaults
    /\ h \in Requests(j)
    /\ faults' = faults + 1
    /\ bodies' \in {bodies, bodies \cup {<<h, Version(h)>>}}
    /\ job' = [job EXCEPT ![j] = Without(j, h)]
    /\ UNCHANGED <<sources, cursor, metas, raws, stored>>

\* The transaction of a target fails.
PersistFails(j) ==
    /\ job[j].at # None /\ job[j].listed /\ job[j].left = {} /\ faults < MaxFaults
    /\ faults' = faults + 1
    /\ job' = [job EXCEPT ![j] = Idle]
    /\ UNCHANGED <<sources, cursor, archived, raws, stored>>

\* The source does not know the participant any more.
NotFound(j) ==
    /\ job[j].at \in Gone /\ ~job[j].listed
    /\ job' = [job EXCEPT ![j] = Idle]
    /\ UNCHANGED <<sources, cursor, archived, raws, stored, faults>>

Persist(j) ==
    /\ job[j].at # None /\ job[j].listed /\ job[j].left = {}
    /\ raws' = raws \cup job[j].docs
    /\ stored' = [h \in History |->
                    IF \E v \in {"running", "final"} : <<h, v>> \in job[j].docs
                    THEN CHOOSE v \in {"running", "final"} : <<h, v>> \in job[j].docs
                    ELSE stored[h]]
    /\ cursor' = NextCursor(j)
    /\ job' = [job EXCEPT ![j] = At(NextTarget(j))]
    /\ UNCHANGED <<sources, archived, faults>>

\* The worker process is restarted.
Restart ==
    /\ faults < MaxFaults
    /\ faults' = faults + 1
    /\ job' = [j \in Job |-> Idle]
    /\ cursor' = 2
    /\ UNCHANGED <<sources, archived, raws, stored>>

Work(j) ==
    \/ StartCycle(j)
    \/ \E h \in Target \cup History : Download(j, h)
    \/ NotFound(j)
    \/ Persist(j)

Next ==
    \/ \E t \in UELTour : List(t)
    \/ \E h \in History : End(h)
    \/ Midnight
    \/ \E j \in Job : Work(j) \/ PersistFails(j)
    \/ \E j \in Job : \E h \in Target \cup History : Fail(j, h)
    \/ Restart

Spec == Init /\ [][Next]_vars

\* Every job is repeated, whatever happens to the others.
Fairness == \A j \in Job : WF_vars(Work(j))
FairSpec == Spec /\ Fairness

-----------------------------------------------------------------------------
Jobs == [at : Target \cup {None}, total : 0 .. Cardinality(UELTour), listed : BOOLEAN,
         left : SUBSET Tour, docs : SUBSET ((Target \cup History) \X {"list", "running", "final"})]

TypeOK ==
    /\ enabled \subseteq Job
    /\ catalogue \in Seq(UELTour) /\ over \subseteq History /\ today \in Nat \ {0}
    /\ job \in [Job -> Jobs] /\ cursor \in Nat \ {0, 1}
    /\ stored \in [History -> {"running", "final", None}]
    /\ faults \in 0 .. MaxFaults

\* Each answer is archived before anything of it is stored: whatever fails or
\* restarts, a row of raw_payloads names a body on disk that has its metadata,
\* and what the database holds of a tour or a day, such a row shows (README:
\* every answer is archived byte for byte before parsing and before the
\* database is written).
RowsHaveTheirBodies ==
    /\ raws \subseteq metas /\ metas \subseteq bodies
    /\ \A h \in History : stored[h] # None => <<h, stored[h]>> \in raws

\* Every tour UEL lists is stored with its last result in the end: tours move
\* to older pages as new ones are listed, the page cursor is lost in a
\* restart, and downloads and transactions fail.
CatalogueCovered ==
    \A t \in UELTour : ("uel" \in enabled /\ t \in Range(catalogue) /\ t \in over) ~> (stored[t] = "final")

\* The newest finished tours of a participant are stored in the end, if the
\* source knows all the participants before it.
IsReached(p) ==
    \A i, k \in DOMAIN Participants : Participants[k] = p /\ i <= k => Participants[i] \notin Gone

ParticipantsCovered ==
    \A p \in {p \in Range(Participants) : IsReached(p)} : \A t \in Range(ToursOf[p]) :
        ("esb" \in enabled /\ t \in Chosen(p)) ~> (stored[t] = "final" \/ t \notin Chosen(p))
=============================================================================
