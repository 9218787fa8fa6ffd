----------------------------- MODULE Normalization -----------------------------
(***************************************************************************)
(* SourceParticipantNormalizer: the players and teams that stand behind    *)
(* the names the sources use.                                              *)
(*                                                                         *)
(* A run is one transaction over the participants of one source, in the    *)
(* order of their ids.  It reads everything first, decides name by name    *)
(* (its own decisions included), and its inserts are refused if another    *)
(* transaction has committed the same entity or the same alias since: then *)
(* all of it is lost, and the job's next cycle starts again.               *)
(*                                                                         *)
(* An entity is its normalized name, which is unique.  A participant's     *)
(* link is its player_id (team_id), and the id its event holds for that    *)
(* side: a run writes the two together.                                    *)
(***************************************************************************)
EXTENDS Integers, FiniteSets

CONSTANTS
    Source,
    Participant, SourceOf,
    Rank,            \* the order of the participants' ids
    Name,            \* normalized names
    Like,            \* SequenceMatcher.ratio of a pair of names, in thousandths
    Long,            \* names of at least five characters
    Early,           \* participants that are stored when the jobs begin
    NamesOf,         \* what a participant is stored with: [player, team, alt]
    Renames,         \* what else its source may call it later (bound)
    Runner, RunnerOf,    \* the jobs that normalize, and their sources
    Fallible,        \* the jobs that may be lost in the middle of a run (bound)
    None

Type    == {"player", "team"}
Naming  == [player : Name \cup {None}, team : Name \cup {None}, alt : Name \cup {None}]

ASSUME NamesAssumption ==
    /\ None \notin Name
    /\ SourceOf \in [Participant -> Source] /\ RunnerOf \in [Runner -> Source]
    /\ Rank \in [Participant -> Nat]
    /\ \A p, q \in Participant : p # q => Rank[p] # Rank[q]
    /\ Like \in [Name \X Name -> 0 .. 1000]
    /\ Early \subseteq Participant
    /\ NamesOf \in [Participant -> Naming]
    /\ Renames \in [Participant -> SUBSET Naming]
    /\ Fallible \subseteq Runner

VARIABLES
    stored,          \* participants a collector has stored
    names,           \* event_participants.raw_*, as last collected
    renamed,         \* participants that were collected with other names since
    entities,        \* players and teams
    alias,           \* player_aliases and team_aliases: <<source, name>> to entity
    reviews,         \* normalization_reviews, all pending: nothing decides them
    link,
    run,             \* what a transaction has read, and what it has come to
    raced            \* a run has committed over tables it had not read

tables == <<entities, alias, reviews, link>>
vars   == <<stored, names, renamed, tables, run, raced>>

-----------------------------------------------------------------------------
(* decide_normalization                                                    *)

AutoFuzzy == 985
ToReview  == 800
Margin    == 50

\* The one entity a name is all but equal to, if it is far ahead of the others.
IsFuzzy(n, e, among) ==
    /\ Like[<<n, e>>] >= AutoFuzzy
    /\ \A f \in among \ {e} : Like[<<n, e>>] - Like[<<n, f>>] >= Margin
    /\ n \in Long /\ e \in Long

Fuzzy(n, among)  == {e \in among : IsFuzzy(n, e, among)}
Doubtful(n, among) == \E e \in among : Like[<<n, e>>] >= ToReview

\* Mutant: the best of doubtful candidates is taken.
DecisionWithoutReview(n, among) ==
    CASE n \in among           -> [how |-> "exact", to |-> n]
      [] n \notin among /\ Doubtful(n, among) ->
            [how |-> "fuzzy", to |-> CHOOSE e \in among : Like[<<n, e>>] >= ToReview]
      [] OTHER                 -> [how |-> "new", to |-> n]

Decision(n, among) ==
    CASE n \in among           -> [how |-> "exact", to |-> n]
      [] n \notin among /\ Fuzzy(n, among) # {} ->
            [how |-> "fuzzy", to |-> CHOOSE e \in Fuzzy(n, among) : TRUE]
      [] n \notin among /\ Fuzzy(n, among) = {} /\ Doubtful(n, among) ->
            [how |-> "review", to |-> None]
      [] OTHER                 -> [how |-> "new", to |-> n]

\* What all sources call by a name.
Called(aliases, n) == {aliases[k].to : k \in {k \in DOMAIN aliases : k[2] = n}}

\* Mutant: what other sources call by the name is not asked.
DecisionByNames(n, among, aliases) == Decision(n, among)

DecisionWithAliases(n, among, aliases) ==
    LET called == Called(aliases, n) IN
    IF called = {} THEN Decision(n, among)
    ELSE IF \E e \in called : called = {e}
         THEN [how |-> "exact", to |-> CHOOSE e \in called : TRUE]
         ELSE [how |-> "review", to |-> None]

-----------------------------------------------------------------------------
(* One participant, against what the transaction w has read and written.   *)

With(aliases, s, n, to, how) ==
    [k \in DOMAIN aliases \cup {<<s, n>>} |->
        IF k = <<s, n>> THEN [to |-> to, how |-> how] ELSE aliases[k]]

\* Mutant: the alias is not stored.
ApplyDecisionOnce(w, t, s, p, n, d) ==
    IF d.how = "review"
    THEN [w EXCEPT !.reviews = @ \cup {<<s, t, n>>}]
    ELSE [w EXCEPT !.entities[t] = @ \cup {d.to}, !.link[t][p] = d.to]

ApplyDecision(w, t, s, p, n, d) ==
    IF d.how = "review"
    THEN [w EXCEPT !.reviews = @ \cup {<<s, t, n>>}]
    ELSE [w EXCEPT !.entities[t] = @ \cup {d.to},
                   !.alias[t] = With(@, s, n, d.to, d.how),
                   !.link[t][p] = d.to]

\* A participant that has a player keeps it.
NameIt(w, t, p) ==
    LET s == SourceOf[p]
        n == w.names[p][t]
    IN  IF w.link[t][p] # None \/ n = None THEN w
        ELSE IF <<s, n>> \in DOMAIN w.alias[t]
             THEN [w EXCEPT !.link[t][p] = w.alias[t][<<s, n>>].to]
             ELSE ApplyDecision(w, t, s, p, n,
                      DecisionWithAliases(n, w.entities[t], w.alias[t]))

\* The team's other name is an alias too, unless somebody else has it.
AlsoCalled(w, p) ==
    LET s      == SourceOf[p]
        n      == w.names[p].alt
        e      == w.link["team"][p]
        called == Called(w.alias["team"], n)
    IN  IF e = None \/ n = None THEN w
        ELSE IF <<s, n>> \notin DOMAIN w.alias["team"] /\ called \subseteq {e}
             THEN [w EXCEPT !.alias["team"] = With(@, s, n, e, "exact_alt")]
             ELSE IF \/ e \notin called
                     \/ <<s, n>> \in DOMAIN w.alias["team"] /\ w.alias["team"][<<s, n>>].to # e
                  THEN [w EXCEPT !.reviews = @ \cup {<<s, "team", n>>}]
                  ELSE w

-----------------------------------------------------------------------------
NoAlias == [k \in {} |-> 0]
Read    == [names |-> names, entities |-> entities, alias |-> alias,
            reviews |-> reviews, link |-> link]

Empty ==
    [names |-> NamesOf, entities |-> [t \in Type |-> {}], alias |-> [t \in Type |-> NoAlias],
     reviews |-> {}, link |-> [t \in Type |-> [p \in Participant |-> None]]]
Closed == [open |-> FALSE, left |-> {}, base |-> Empty, work |-> Empty]

Init ==
    /\ stored = Early /\ renamed = {}
    /\ names = NamesOf
    /\ entities = [t \in Type |-> {}]
    /\ alias = [t \in Type |-> NoAlias]
    /\ reviews = {}
    /\ link = [t \in Type |-> [p \in Participant |-> None]]
    /\ run = [r \in Runner |-> Closed]
    /\ raced = FALSE

\* A collector stores an event with its participants.
Arrive(p) ==
    /\ p \notin stored
    /\ stored' = stored \cup {p}
    /\ UNCHANGED <<names, renamed, tables, run, raced>>

\* The source lists other names on the same side of the same event.
Rename(p) ==
    /\ p \in stored
    /\ \E l \in Renames[p] \ {names[p]} : names' = [names EXCEPT ![p] = l]
    /\ renamed' = renamed \cup {p}
    /\ UNCHANGED <<stored, tables, run, raced>>

Begin(r) ==
    /\ ~run[r].open
    /\ \E p \in stored : SourceOf[p] = RunnerOf[r]
    /\ run' = [run EXCEPT ![r] =
                 [open |-> TRUE, left |-> {p \in stored : SourceOf[p] = RunnerOf[r]},
                  base |-> Read, work |-> Read]]
    /\ UNCHANGED <<stored, names, renamed, tables, raced>>

IsNext(p, left) == p \in left /\ \A q \in left : Rank[p] <= Rank[q]

NormalizeNext(r) ==
    /\ run[r].open
    /\ \E p \in run[r].left :
          /\ IsNext(p, run[r].left)
          /\ \E w1 \in {NameIt(run[r].work, "player", p)} :
             \E w2 \in {NameIt(w1, "team", p)} :
                run' = [run EXCEPT ![r].left = @ \ {p}, ![r].work = AlsoCalled(w2, p)]
    /\ UNCHANGED <<stored, names, renamed, tables, raced>>

\* Mutant: what the run found in the tables counts as inserted.
InsertableIfUnknown(r) ==
    \A t \in Type : run[r].work.entities[t] \cap entities[t] = {}

\* No row the run inserts was inserted by another transaction.
Insertable(r) ==
    \A t \in Type :
        /\ (run[r].work.entities[t] \ run[r].base.entities[t]) \cap entities[t] = {}
        /\ (DOMAIN run[r].work.alias[t] \ DOMAIN run[r].base.alias[t]) \cap DOMAIN alias[t] = {}

Merged(old, new) ==
    [k \in DOMAIN old \cup DOMAIN new |-> IF k \in DOMAIN old THEN old[k] ELSE new[k]]

Commit(r) ==
    /\ run[r].open /\ run[r].left = {}
    /\ Insertable(r)
    /\ LET w == run[r].work IN
       /\ entities' = [t \in Type |-> entities[t] \cup w.entities[t]]
       /\ alias' = [t \in Type |-> Merged(alias[t], w.alias[t])]
       /\ reviews' = reviews \cup w.reviews
       /\ link' = [t \in Type |-> [p \in Participant |->
                     IF w.link[t][p] # run[r].base.link[t][p] THEN w.link[t][p] ELSE link[t][p]]]
       /\ raced' = (raced \/ entities # run[r].base.entities \/ alias # run[r].base.alias)
    /\ run' = [run EXCEPT ![r] = Closed]
    /\ UNCHANGED <<stored, names, renamed>>

\* The database refuses an insert, and everything with it.
Refused(r) ==
    /\ run[r].open /\ ~Insertable(r)
    /\ run' = [run EXCEPT ![r] = Closed]
    /\ UNCHANGED <<stored, names, renamed, tables, raced>>

\* The connection or the process is lost.
Lost(r) ==
    /\ run[r].open
    /\ run' = [run EXCEPT ![r] = Closed]
    /\ UNCHANGED <<stored, names, renamed, tables, raced>>

Cycle(r) == Begin(r) \/ NormalizeNext(r) \/ Commit(r) \/ Refused(r)

Next ==
    \/ \E p \in Participant : Arrive(p) \/ Rename(p)
    \/ \E r \in Runner : Cycle(r)
    \/ \E r \in Fallible : Lost(r)

Spec == Init /\ [][Next]_vars

\* Every job's cycle is repeated and comes to its end.
Fairness == \A r \in Runner : WF_vars(Cycle(r))
FairSpec == Spec /\ Fairness

-----------------------------------------------------------------------------
How == {"exact", "fuzzy", "new", "exact_alt"}

IsAliasTable(a, among) ==
    /\ DOMAIN a \subseteq Source \X Name
    /\ \A k \in DOMAIN a : a[k].to \in among /\ a[k].how \in How

TypeOK ==
    /\ stored \subseteq Participant /\ renamed \subseteq stored
    /\ names \in [Participant -> Naming]
    /\ \A t \in Type :
          /\ entities[t] \subseteq Name
          /\ IsAliasTable(alias[t], entities[t])
          /\ \A p \in Participant : link[t][p] \in entities[t] \cup {None}
    /\ reviews \subseteq Source \X Type \X Name

\* No silent merge: an alias of a name that is neither the entity's own nor
\* all but equal to it was either a team's listed other name, or some source
\* called the same entity by it before, for one of these reasons.  Holds for
\* runs of several sources that overlap in any way (the class promises to
\* resolve names "without silent ambiguous merges").
Justified(a, k) ==
    LET n == k[2]
        e == a[k].to
    IN  \/ a[k].how = "new" /\ n = e
        \/ a[k].how = "fuzzy" /\ Like[<<n, e>>] >= AutoFuzzy /\ n \in Long /\ e \in Long
        \/ a[k].how = "exact_alt"
        \/ a[k].how = "exact" /\
              \/ n = e
              \/ \E j \in DOMAIN a : j[2] = n /\ a[j].to = e /\ a[j].how # "exact"

NoSilentMerge == \A t \in Type : \A k \in DOMAIN alias[t] : Justified(alias[t], k)

\* One identity: sources that use one name mean one entity, and of two
\* entities with look-alike names none was made while the other was known,
\* unless some run committed over tables that had changed since it read them
\* (the jobs of several sources normalize at the same time).
OneEntityPerName(a) == \A j, k \in DOMAIN a : j[2] = k[2] => a[j].to = a[k].to
NoLookAlikes(among) ==
    \A e, f \in among : e # f => Like[<<e, f>>] < ToReview \/ Like[<<f, e>>] < ToReview

OnlyRacesDisagree ==
    ~raced => \A t \in Type : OneEntityPerName(alias[t]) /\ NoLookAlikes(entities[t])

\* A participant's player is the one its source means by the name it was
\* normalized under.  A participant that was renamed keeps the player it has.
NamedAsListed ==
    \A t \in Type : \A p \in Participant \ renamed :
        LET k == <<SourceOf[p], names[p][t]>> IN
        link[t][p] # None => k \in DOMAIN alias[t] /\ alias[t][k].to = link[t][p]

\* The names a participant is stored with are decided in the end or wait for a
\* review, whatever the other jobs insert meanwhile, however often a run is
\* refused for it, and as often as a fallible job is lost.
IsDecided(t, p) ==
    \/ names[p][t] = None
    \/ link[t][p] # None
    \/ <<SourceOf[p], t, names[p][t]>> \in reviews

NamesAreDecided ==
    \A p \in Participant : p \in stored ~> \A t \in Type : IsDecided(t, p)
=============================================================================
