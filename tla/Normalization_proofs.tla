------------------------- MODULE Normalization_proofs -------------------------
(***************************************************************************)
(* What SourceParticipantNormalizer keeps, for any names and likenesses,   *)
(* any sources, and any number of runs that overlap, are refused or lost.  *)
(*                                                                         *)
(* The tables and what a run works on are the same kind of thing, a record *)
(* as Read makes it, and the same must hold of both: so the invariants are *)
(* stated of such a record.                                                *)
(***************************************************************************)
EXTENDS Normalization, TLAPS

Entry      == [to : Name, how : How]
AliasTable == UNION {[keys -> Entry] : keys \in SUBSET (Source \X Name)}

Tables ==
    [names    : [Participant -> Naming],
     entities : [Type -> SUBSET Name],
     alias    : [Type -> AliasTable],
     reviews  : SUBSET (Source \X Type \X Name),
     link     : [Type -> [Participant -> Name \cup {None}]]]

\* Of the participants in R, the player is what the source's alias says.
LinksAreNamed(w, R) ==
    \A t \in Type : \A p \in R :
        LET k == <<SourceOf[p], w.names[p][t]>> IN
        w.link[t][p] # None => k \in DOMAIN w.alias[t] /\ w.alias[t][k].to = w.link[t][p]

Sound(w, R) ==
    /\ w \in Tables
    /\ \A t \in Type :
          /\ \A k \in DOMAIN w.alias[t] :
                w.alias[t][k].to \in w.entities[t] /\ Justified(w.alias[t], k)
          /\ \A p \in Participant : w.link[t][p] \in w.entities[t] \cup {None}
    /\ LinksAreNamed(w, R)

Clean(w) == \A t \in Type : OneEntityPerName(w.alias[t]) /\ NoLookAlikes(w.entities[t])

\* An alias is never taken back or given to another entity.
Grown(old, new) ==
    /\ DOMAIN old \subseteq DOMAIN new
    /\ \A k \in DOMAIN old : new[k] = old[k]

\* What a transaction may come to from w.
Leads(w, v, R) ==
    /\ Sound(v, R)
    /\ v.names = w.names
    /\ \A t \in Type : w.entities[t] \subseteq v.entities[t] /\ Grown(w.alias[t], v.alias[t])
    /\ Clean(w) => Clean(v)

(***************************************************************************)
(* Aliases.                                                                *)
(***************************************************************************)

LEMMA AliasTableIs ==
    ASSUME NEW a
    PROVE  a \in AliasTable <=> /\ a = [k \in DOMAIN a |-> a[k]]
                                /\ DOMAIN a \subseteq Source \X Name
                                /\ \A k \in DOMAIN a : a[k] \in Entry
<1>1. ASSUME a \in AliasTable
      PROVE  /\ a = [k \in DOMAIN a |-> a[k]]
             /\ DOMAIN a \subseteq Source \X Name
             /\ \A k \in DOMAIN a : a[k] \in Entry
  <2>1. PICK keys \in SUBSET (Source \X Name) : a \in [keys -> Entry]
    BY <1>1 DEF AliasTable
  <2>. QED
    BY <2>1
<1>2. ASSUME a = [k \in DOMAIN a |-> a[k]], DOMAIN a \subseteq Source \X Name,
             \A k \in DOMAIN a : a[k] \in Entry
      PROVE  a \in AliasTable
  <2>1. a \in [DOMAIN a -> Entry]
    BY <1>2
  <2>. QED
    BY <1>2, <2>1 DEF AliasTable
<1>. QED
  BY <1>1, <1>2

\* What was justified stays so as aliases are added.
LEMMA StaysJustified ==
    ASSUME NEW a, NEW b, Grown(a, b), NEW k \in DOMAIN a, Justified(a, k)
    PROVE  k \in DOMAIN b /\ Justified(b, k)
  BY DEF Grown, Justified

\* Whatever some alias calls by a name, an alias that is not just exact does,
\* or it is the entity of that name.
LEMMA CalledForAReason ==
    ASSUME NEW a, \A k \in DOMAIN a : Justified(a, k), NEW n, NEW e \in Called(a, n)
    PROVE  n = e \/ \E j \in DOMAIN a : j[2] = n /\ a[j].to = e /\ a[j].how # "exact"
<1>1. PICK k \in DOMAIN a : k[2] = n /\ a[k].to = e
  BY DEF Called
<1>2. Justified(a, k)
  OBVIOUS
<1>. QED
  BY <1>1, <1>2 DEF Justified

\* One alias more.
IsNew(a, s, n, to, how) ==
    /\ a \in AliasTable /\ <<s, n>> \notin DOMAIN a
    /\ s \in Source /\ n \in Name /\ to \in Name /\ how \in How

IsOneMore(a, b, s, n, to, how) ==
    /\ b \in AliasTable /\ Grown(a, b)
    /\ DOMAIN b = DOMAIN a \cup {<<s, n>>}
    /\ b[<<s, n>>].to = to /\ b[<<s, n>>].how = how

LEMMA WithIs ==
    ASSUME NEW a, NEW s, NEW n, NEW to, NEW how, IsNew(a, s, n, to, how)
    PROVE  IsOneMore(a, With(a, s, n, to, how), s, n, to, how)
<1>. DEFINE b == With(a, s, n, to, how)
<1>1. /\ b = [k \in DOMAIN a \cup {<<s, n>>} |->
                 IF k = <<s, n>> THEN [to |-> to, how |-> how] ELSE a[k]]
      /\ DOMAIN a \subseteq Source \X Name /\ \A k \in DOMAIN a : a[k] \in Entry
  BY AliasTableIs DEF With, IsNew
<1>2. DOMAIN b = DOMAIN a \cup {<<s, n>>} /\ DOMAIN b \subseteq Source \X Name
  BY <1>1 DEF IsNew
<1>3. b[<<s, n>>] = [to |-> to, how |-> how]
  BY <1>1
<1>4. \A k \in DOMAIN a : b[k] = a[k]
  BY <1>1 DEF IsNew
<1>5. \A k \in DOMAIN b : b[k] \in Entry
  BY <1>1, <1>2, <1>3, <1>4 DEF Entry, IsNew
<1>6. b = [k \in DOMAIN b |-> b[k]]
  BY <1>1
<1>7. b \in AliasTable
  BY <1>2, <1>5, <1>6, AliasTableIs
<1>. QED
  BY <1>2, <1>3, <1>4, <1>7 DEF Grown, IsOneMore

\* Why n may be an alias of an entity, beside the aliases a.
IsReason(a, n, to, how) ==
    \/ how = "new" /\ n = to
    \/ how = "fuzzy" /\ Like[<<n, to>>] >= AutoFuzzy /\ n \in Long /\ to \in Long
    \/ how = "exact_alt"
    \/ how = "exact" /\ (n = to \/ to \in Called(a, n))

\* An alias may be added for a reason, and keeps one entity to a name if no
\* other is called so.
LEMMA AddAlias ==
    ASSUME NEW a, NEW s, NEW n, NEW to, NEW how, IsNew(a, s, n, to, how),
           NEW b, b = With(a, s, n, to, how),
           \A k \in DOMAIN a : Justified(a, k),
           IsReason(a, n, to, how)
    PROVE  /\ \A k \in DOMAIN b : Justified(b, k)
           /\ Called(a, n) \subseteq {to} /\ OneEntityPerName(a) => OneEntityPerName(b)
<1>. DEFINE new == <<s, n>>
<1>1. /\ Grown(a, b) /\ DOMAIN b = DOMAIN a \cup {new}
      /\ b[new].to = to /\ b[new].how = how /\ new[2] = n
  <2>1. IsOneMore(a, b, s, n, to, how)
    BY WithIs
  <2>. QED
    BY <2>1 DEF IsOneMore
<1>. HIDE DEF new
<1>2. \A k \in DOMAIN a : Justified(b, k)
  BY <1>1, StaysJustified
<1>3. Justified(b, new)
  <2>1. CASE how # "exact"
    BY <1>1, <2>1 DEF Justified, IsReason
  <2>2. CASE how = "exact" /\ n = to
    BY <1>1, <2>2 DEF Justified
  <2>3. CASE how = "exact" /\ n # to
    <3>1. PICK j \in DOMAIN a : j[2] = n /\ a[j].to = to /\ a[j].how # "exact"
      BY <2>3, CalledForAReason DEF IsReason
    <3>2. j \in DOMAIN b /\ b[j] = a[j]
      BY <1>1 DEF Grown
    <3>. QED
      BY <1>1, <2>3, <3>1, <3>2 DEF Justified
  <2>. QED
    BY <2>1, <2>2, <2>3
<1>4. ASSUME Called(a, n) \subseteq {to}, OneEntityPerName(a)
      PROVE  OneEntityPerName(b)
  <2>1. \A k \in DOMAIN a : b[k] = a[k]
    BY <1>1 DEF Grown
  <2>2. \A k \in DOMAIN a : k[2] = n => a[k].to = to
    BY <1>4 DEF Called
  <2>. QED
    BY <1>1, <1>4, <2>1, <2>2 DEF OneEntityPerName
<1>5. \A k \in DOMAIN b : Justified(b, k)
  BY <1>1, <1>2, <1>3
<1>. QED
  BY <1>4, <1>5

-----------------------------------------------------------------------------
(* Decisions.                                                              *)

LEMMA LikeType ==
    ASSUME NEW n \in Name, NEW e \in Name
    PROVE  Like[<<n, e>>] \in 0 .. 1000
  BY NamesAssumption

\* A name is decided for a reason, and what is decided is one of the known
\* entities or the name itself, if no known one is like it.
IsReasoned(d, n, among) ==
    \/ d.how = "review"
    \/ d.how = "exact" /\ d.to = n /\ n \in among
    \/ /\ d.how = "fuzzy" /\ d.to \in among
       /\ Like[<<n, d.to>>] >= AutoFuzzy /\ n \in Long /\ d.to \in Long
    \/ d.how = "new" /\ d.to = n /\ \A e \in among : Like[<<n, e>>] < ToReview

LEMMA DecisionIs ==
    ASSUME NEW n \in Name, NEW among \in SUBSET Name
    PROVE  IsReasoned(Decision(n, among), n, among)
<1>. DEFINE d == Decision(n, among)
<1>1. CASE n \in among
  BY <1>1 DEF Decision, IsReasoned
<1>2. CASE n \notin among /\ Fuzzy(n, among) # {}
  <2>1. d.how = "fuzzy" /\ d.to = CHOOSE e \in Fuzzy(n, among) : TRUE
    BY <1>2 DEF Decision
  <2>2. d.to \in Fuzzy(n, among)
    BY <1>2, <2>1
  <2>. QED
    BY <2>1, <2>2 DEF Fuzzy, IsFuzzy, IsReasoned
<1>3. CASE n \notin among /\ Fuzzy(n, among) = {} /\ Doubtful(n, among)
  BY <1>3 DEF Decision, IsReasoned
<1>4. CASE n \notin among /\ Fuzzy(n, among) = {} /\ ~Doubtful(n, among)
  <2>1. d.how = "new" /\ d.to = n
    BY <1>4 DEF Decision
  <2>2. ASSUME NEW e \in among
        PROVE  Like[<<n, e>>] < ToReview
    <3>1. Like[<<n, e>>] \in 0 .. 1000
      BY LikeType
    <3>2. ~(Like[<<n, e>>] >= ToReview)
      BY <1>4 DEF Doubtful
    <3>. QED
      BY <3>1, <3>2 DEF ToReview
  <2>. QED
    BY <2>1, <2>2 DEF IsReasoned
<1>. QED
  BY <1>1, <1>2, <1>3, <1>4

\* With what other sources call by the name: all of them call one entity so,
\* none does, or the name waits for a review.
RefersTo(a, among) == \A k \in DOMAIN a : a[k].to \in among

Agrees(d, n, among, a) ==
    /\ d.how \in How /\ d.to \in Name /\ Called(a, n) \subseteq {d.to}
    /\ IsReasoned(d, n, among) \/ (d.how = "exact" /\ d.to \in Called(a, n))
    /\ d.to \in among \/ (d.to = n /\ \A e \in among : Like[<<n, e>>] < ToReview)

LEMMA DecisionWithAliasesIs ==
    ASSUME NEW n \in Name, NEW among \in SUBSET Name, NEW a, RefersTo(a, among),
           NEW d, d = DecisionWithAliases(n, among, a)
    PROVE  d.how = "review" \/ Agrees(d, n, among, a)
<1>1. CASE Called(a, n) = {}
  <2>1. d = Decision(n, among)
    BY <1>1 DEF DecisionWithAliases
  <2>2. IsReasoned(d, n, among)
    BY <2>1, DecisionIs
  <2>3. d.how = "review" \/ (d.how \in How /\ d.to \in Name)
    BY <2>2 DEF IsReasoned, How
  <2>4. \/ d.how = "review"
        \/ d.to \in among
        \/ d.to = n /\ \A e \in among : Like[<<n, e>>] < ToReview
    BY <2>2 DEF IsReasoned
  <2>. QED
    BY <1>1, <2>2, <2>3, <2>4 DEF Agrees
<1>2. CASE \E e \in Called(a, n) : Called(a, n) = {e}
  <2>1. PICK e \in Called(a, n) : Called(a, n) = {e}
    BY <1>2
  <2>2. d = [how |-> "exact", to |-> CHOOSE x \in Called(a, n) : TRUE]
    BY <1>2 DEF DecisionWithAliases
  <2>3. d.how = "exact" /\ d.to = e
    BY <2>1, <2>2
  <2>4. e \in among
    BY DEF Called, RefersTo
  <2>. QED
    BY <2>1, <2>3, <2>4 DEF How, Agrees
<1>3. CASE Called(a, n) # {} /\ ~ \E e \in Called(a, n) : Called(a, n) = {e}
  BY <1>3 DEF DecisionWithAliases
<1>. QED
  BY <1>1, <1>2, <1>3

-----------------------------------------------------------------------------
(* One participant.                                                        *)

\* Nothing changes, or a review is added.
LEMMA StandingStill ==
    ASSUME NEW R, NEW w, Sound(w, R), NEW v \in Tables,
           v.names = w.names, v.entities = w.entities, v.alias = w.alias, v.link = w.link
    PROVE  Leads(w, v, R)
  BY DEF Leads, Sound, LinksAreNamed, Clean, Grown

\* A participant is linked to what its source's alias says.
LEMMA Linking ==
    ASSUME NEW R \in SUBSET Participant, NEW w, Sound(w, R), NEW t \in Type, NEW p \in Participant,
           <<SourceOf[p], w.names[p][t]>> \in DOMAIN w.alias[t],
           NEW v \in Tables, v.names = w.names, v.entities = w.entities, v.alias = w.alias,
           \A u \in Type : \A q \in Participant :
              v.link[u][q] = IF u = t /\ q = p
                             THEN w.alias[t][<<SourceOf[p], w.names[p][t]>>].to
                             ELSE w.link[u][q]
    PROVE  Leads(w, v, R)
<1>1. \A u \in Type : \A q \in Participant : v.link[u][q] \in v.entities[u] \cup {None}
  BY DEF Sound
<1>2. LinksAreNamed(v, R)
  BY DEF Sound, LinksAreNamed
<1>. QED
  BY <1>1, <1>2 DEF Leads, Sound, Clean, Grown

\* An alias is added to an entity that is known, or made under its own name.
IsNamed(w, v, t, s, n, to, how) ==
    /\ v \in Tables /\ v.names = w.names
    /\ \A u \in Type :
          /\ v.entities[u] = IF u = t THEN w.entities[t] \cup {to} ELSE w.entities[u]
          /\ v.alias[u] = IF u = t THEN With(w.alias[t], s, n, to, how) ELSE w.alias[u]
    /\ \A u \in Type : \A q \in Participant :
          \/ v.link[u][q] = w.link[u][q]
          \/ u = t /\ SourceOf[q] = s /\ w.names[q][t] = n /\ v.link[u][q] = to

LEMMA NamingLeads ==
    ASSUME NEW R \in SUBSET Participant, NEW w, Sound(w, R), NEW t \in Type, NEW s \in Source,
           NEW n \in Name, NEW to \in Name, NEW how \in How,
           <<s, n>> \notin DOMAIN w.alias[t],
           Called(w.alias[t], n) \subseteq {to},
           IsReason(w.alias[t], n, to, how),
           to \in w.entities[t] \/ \A e \in w.entities[t] : Like[<<to, e>>] < ToReview,
           NEW v, IsNamed(w, v, t, s, n, to, how)
    PROVE  Leads(w, v, R)
<1>. DEFINE a == w.alias[t]
            b == With(a, s, n, to, how)
<1>1. a \in AliasTable /\ \A k \in DOMAIN a : Justified(a, k) /\ a[k].to \in w.entities[t]
  BY DEF Sound, Tables
<1>4. v.alias[t] = b /\ v.entities[t] = w.entities[t] \cup {to}
  BY DEF IsNamed
<1>11. b = With(a, s, n, to, how) /\ IsNew(a, s, n, to, how) /\ Called(a, n) \subseteq {to}
  BY <1>1 DEF IsNew
<1>12. IsReason(a, n, to, how)
  OBVIOUS
<1>. HIDE DEF a, b
<1>2. /\ b \in AliasTable /\ Grown(a, b) /\ DOMAIN b = DOMAIN a \cup {<<s, n>>}
      /\ b[<<s, n>>].to = to /\ b[<<s, n>>].how = how
  <2>1. IsOneMore(a, b, s, n, to, how)
    BY <1>11, WithIs
  <2>. QED
    BY <2>1 DEF IsOneMore
<1>3. /\ \A k \in DOMAIN b : Justified(b, k)
      /\ OneEntityPerName(a) => OneEntityPerName(b)
  BY <1>1, <1>11, <1>12, AddAlias
<1>5. \A u \in Type : w.entities[u] \subseteq v.entities[u]
  BY DEF IsNamed
<1>6. \A u \in Type : Grown(w.alias[u], v.alias[u])
  BY <1>2, <1>4 DEF a, Grown, IsNamed
<1>7. ASSUME NEW u \in Type, NEW k \in DOMAIN v.alias[u]
      PROVE  v.alias[u][k].to \in v.entities[u] /\ Justified(v.alias[u], k)
  <2>1. CASE u # t
    BY <2>1 DEF Sound, IsNamed
  <2>2. CASE u = t
    <3>1. k \in DOMAIN b /\ Justified(b, k)
      BY <1>3, <1>4, <2>2
    <3>2. b[k].to \in w.entities[t] \cup {to}
      <4>1. CASE k = <<s, n>>
        BY <1>2, <4>1
      <4>2. CASE k \in DOMAIN a
        BY <1>1, <1>2, <4>2 DEF Grown
      <4>. QED
        BY <1>2, <3>1, <4>1, <4>2
    <3>. QED
      BY <1>4, <2>2, <3>1, <3>2
  <2>. QED
    BY <2>1, <2>2
<1>8. ASSUME NEW u \in Type, NEW q \in Participant
      PROVE  v.link[u][q] \in v.entities[u] \cup {None}
  BY <1>4, <1>5 DEF Sound, IsNamed
<1>9. LinksAreNamed(v, R)
  <2>1. ASSUME NEW u \in Type, NEW q \in R, v.link[u][q] # None,
               NEW k, k = <<SourceOf[q], v.names[q][u]>>
        PROVE  k \in DOMAIN v.alias[u] /\ v.alias[u][k].to = v.link[u][q]
    <3>1. CASE v.link[u][q] = w.link[u][q]
      <4>0. LinksAreNamed(w, R) /\ w.link[u][q] # None /\ k = <<SourceOf[q], w.names[q][u]>>
        BY <2>1, <3>1 DEF Sound, IsNamed
      <4>1. k \in DOMAIN w.alias[u] /\ w.alias[u][k].to = w.link[u][q]
        BY <4>0 DEF LinksAreNamed
      <4>. QED
        BY <1>6, <3>1, <4>1 DEF Grown
    <3>2. CASE u = t /\ SourceOf[q] = s /\ w.names[q][t] = n /\ v.link[u][q] = to
      <4>1. k = <<s, n>>
        BY <2>1, <3>2 DEF IsNamed
      <4>. QED
        BY <1>2, <1>4, <3>2, <4>1
    <3>. QED
      BY <3>1, <3>2 DEF IsNamed
  <2>. QED
    BY <2>1 DEF LinksAreNamed
<1>10. ASSUME Clean(w)
       PROVE  Clean(v)
  <2>1. OneEntityPerName(b)
    BY <1>3, <1>10 DEF Clean, a
  <2>2. NoLookAlikes(w.entities[t] \cup {to})
    BY <1>10 DEF Clean, NoLookAlikes
  <2>. QED
    BY <1>4, <1>10, <2>1, <2>2 DEF Clean, IsNamed
<1>. QED
  BY <1>5, <1>6, <1>7, <1>8, <1>9, <1>10 DEF Leads, Sound, IsNamed

\* A review more is a review more.
LEMMA Reviewing ==
    ASSUME NEW R, NEW w, Sound(w, R), NEW t \in Type, NEW s \in Source, NEW n \in Name
    PROVE  Leads(w, [w EXCEPT !.reviews = @ \cup {<<s, t, n>>}], R)
<1>. DEFINE v == [w EXCEPT !.reviews = @ \cup {<<s, t, n>>}]
<1>1. w \in Tables
  BY DEF Sound
<1>2. /\ v \in Tables /\ v.names = w.names /\ v.entities = w.entities
      /\ v.alias = w.alias /\ v.link = w.link
  BY <1>1 DEF Tables
<1>. QED
  BY <1>2, StandingStill

LEMMA ApplyDecisionLeads ==
    ASSUME NEW R \in SUBSET Participant, NEW w, Sound(w, R), NEW t \in Type,
           NEW p \in Participant, NEW n \in Name, n = w.names[p][t],
           <<SourceOf[p], n>> \notin DOMAIN w.alias[t],
           NEW d, d = DecisionWithAliases(n, w.entities[t], w.alias[t])
    PROVE  Leads(w, ApplyDecision(w, t, SourceOf[p], p, n, d), R)
<1>. DEFINE s == SourceOf[p]
            v == ApplyDecision(w, t, s, p, n, d)
<1>1. w \in Tables /\ s \in Source
  BY NamesAssumption DEF Sound
<1>2. CASE d.how = "review"
  BY <1>1, <1>2, Reviewing DEF ApplyDecision
<1>3. CASE d.how # "review"
  <2>1. w.entities[t] \in SUBSET Name /\ RefersTo(w.alias[t], w.entities[t])
    BY <1>1 DEF Sound, Tables, RefersTo
  <2>2. /\ d.how \in How /\ d.to \in Name /\ Called(w.alias[t], n) \subseteq {d.to}
        /\ IsReasoned(d, n, w.entities[t]) \/ (d.how = "exact" /\ d.to \in Called(w.alias[t], n))
        /\ \/ d.to \in w.entities[t]
           \/ d.to = n /\ \A e \in w.entities[t] : Like[<<n, e>>] < ToReview
    <3>1. Agrees(d, n, w.entities[t], w.alias[t])
      BY <1>3, <2>1, DecisionWithAliasesIs
    <3>. QED
      BY <3>1 DEF Agrees
  <2>3. IsReason(w.alias[t], n, d.to, d.how)
    BY <1>3, <2>2 DEF IsReasoned, IsReason
  <2>4. v = [w EXCEPT !.entities[t] = @ \cup {d.to},
                      !.alias[t] = With(@, s, n, d.to, d.how),
                      !.link[t][p] = d.to]
    BY <1>3 DEF ApplyDecision
  <2>5. IsNew(w.alias[t], s, n, d.to, d.how)
    BY <1>1, <2>2 DEF IsNew, Tables
  <2>6. With(w.alias[t], s, n, d.to, d.how) \in AliasTable
    BY <2>5, WithIs DEF IsOneMore
  <2>7. v \in Tables /\ v.names = w.names
    <3>. DEFINE E == [u \in Type |-> IF u = t THEN w.entities[t] \cup {d.to} ELSE w.entities[u]]
                A == [u \in Type |-> IF u = t THEN With(w.alias[t], s, n, d.to, d.how)
                                     ELSE w.alias[u]]
                L == [u \in Type |-> [q \in Participant |->
                         IF u = t /\ q = p THEN d.to ELSE w.link[u][q]]]
    <3>1. E \in [Type -> SUBSET Name]
      BY <1>1, <2>2 DEF Tables
    <3>2. A \in [Type -> AliasTable]
      BY <1>1, <2>6 DEF Tables
    <3>3. L \in [Type -> [Participant -> Name \cup {None}]]
      BY <1>1, <2>2 DEF Tables
    <3>4. v.entities = E
      <4>1. v.entities = [w.entities EXCEPT ![t] = w.entities[t] \cup {d.to}]
        BY <1>1, <2>4 DEF Tables
      <4>2. w.entities = [u \in Type |-> w.entities[u]]
        BY <1>1 DEF Tables
      <4>. QED
        BY <4>1, <4>2
    <3>5. v.alias = A
      BY <1>1, <2>4 DEF Tables
    <3>6. v.link = L
      BY <1>1, <2>4 DEF Tables
    <3>7. v = [names |-> w.names, entities |-> v.entities, alias |-> v.alias,
               reviews |-> w.reviews, link |-> v.link]
      BY <1>1, <2>4 DEF Tables
    <3>. HIDE DEF E, A, L
    <3>. QED
      BY <1>1, <3>1, <3>2, <3>3, <3>4, <3>5, <3>6, <3>7 DEF Tables
  <2>8. \A u \in Type :
           /\ v.entities[u] = IF u = t THEN w.entities[t] \cup {d.to} ELSE w.entities[u]
           /\ v.alias[u] = IF u = t THEN With(w.alias[t], s, n, d.to, d.how) ELSE w.alias[u]
    BY <1>1, <2>4 DEF Tables
  <2>9. \A u \in Type : \A q \in Participant :
           v.link[u][q] = IF u = t /\ q = p THEN d.to ELSE w.link[u][q]
    BY <1>1, <2>4 DEF Tables
  <2>10. \A u \in Type : \A q \in Participant :
            \/ v.link[u][q] = w.link[u][q]
            \/ u = t /\ SourceOf[q] = s /\ w.names[q][t] = n /\ v.link[u][q] = d.to
    BY <2>9
  <2>11. IsNamed(w, v, t, s, n, d.to, d.how)
    BY <2>7, <2>8, <2>10 DEF IsNamed
  <2>12. d.to \in w.entities[t] \/ \A e \in w.entities[t] : Like[<<d.to, e>>] < ToReview
    BY <2>2
  <2>. HIDE DEF v
  <2>13. Leads(w, v, R)
    BY <1>1, <2>2, <2>3, <2>5, <2>11, <2>12, NamingLeads DEF IsNew
  <2>. QED
    BY <2>13 DEF v
<1>. QED
  BY <1>2, <1>3

LEMMA NameItLeads ==
    ASSUME NEW R \in SUBSET Participant, NEW w, Sound(w, R), NEW t \in Type,
           NEW p \in Participant
    PROVE  Leads(w, NameIt(w, t, p), R)
<1>. DEFINE s == SourceOf[p]
            n == w.names[p][t]
            v == NameIt(w, t, p)
<1>1. w \in Tables /\ s \in Source /\ n \in Name \cup {None}
  BY NamesAssumption DEF Sound, Tables, Naming, Type
<1>2. CASE w.link[t][p] # None \/ n = None
  BY <1>1, <1>2, StandingStill DEF NameIt
<1>3. CASE w.link[t][p] = None /\ n # None /\ <<s, n>> \in DOMAIN w.alias[t]
  <2>1. v = [w EXCEPT !.link[t][p] = w.alias[t][<<s, n>>].to]
    BY <1>3 DEF NameIt
  <2>2. w.alias[t][<<s, n>>].to \in Name
    BY <1>1, <1>3 DEF Sound, Tables
  <2>3. /\ v \in Tables /\ v.names = w.names /\ v.entities = w.entities /\ v.alias = w.alias
    <3>1. [w.link EXCEPT ![t][p] = w.alias[t][<<s, n>>].to]
             \in [Type -> [Participant -> Name \cup {None}]]
      BY <1>1, <2>2 DEF Tables
    <3>2. v = [w EXCEPT !.link = [w.link EXCEPT ![t][p] = w.alias[t][<<s, n>>].to]]
      BY <1>1, <2>1 DEF Tables
    <3>. QED
      BY <1>1, <3>1, <3>2 DEF Tables
  <2>4. \A u \in Type : \A q \in Participant :
           v.link[u][q] = IF u = t /\ q = p THEN w.alias[t][<<s, n>>].to ELSE w.link[u][q]
    BY <1>1, <2>1 DEF Tables
  <2>. QED
    BY <1>3, <2>3, <2>4, Linking
<1>4. CASE w.link[t][p] = None /\ n # None /\ <<s, n>> \notin DOMAIN w.alias[t]
  <2>1. v = ApplyDecision(w, t, s, p, n, DecisionWithAliases(n, w.entities[t], w.alias[t]))
    BY <1>4 DEF NameIt
  <2>. QED
    BY <1>1, <1>4, <2>1, ApplyDecisionLeads
<1>. QED
  BY <1>2, <1>3, <1>4

LEMMA AlsoCalledLeads ==
    ASSUME NEW R \in SUBSET Participant, NEW w, Sound(w, R), NEW p \in Participant
    PROVE  Leads(w, AlsoCalled(w, p), R)
<1>. DEFINE s == SourceOf[p]
            n == w.names[p].alt
            e == w.link["team"][p]
            a == w.alias["team"]
            v == AlsoCalled(w, p)
<1>1. /\ w \in Tables /\ s \in Source /\ "team" \in Type
      /\ n \in Name \cup {None} /\ e \in w.entities["team"] \cup {None}
  BY NamesAssumption DEF Sound, Tables, Naming, Type
<1>2. CASE v = w
  BY <1>1, <1>2, StandingStill
<1>3. CASE n \in Name /\ v = [w EXCEPT !.reviews = @ \cup {<<s, "team", n>>}]
  BY <1>1, <1>3, Reviewing
<1>4. CASE /\ e # None /\ n \in Name /\ <<s, n>> \notin DOMAIN a /\ Called(a, n) \subseteq {e}
           /\ v = [w EXCEPT !.alias["team"] = With(@, s, n, e, "exact_alt")]
  <2>1. e \in Name /\ e \in w.entities["team"] /\ "exact_alt" \in How
    BY <1>1, <1>4 DEF Tables, How
  <2>2. IsNew(a, s, n, e, "exact_alt") /\ IsReason(a, n, e, "exact_alt")
    BY <1>1, <1>4, <2>1 DEF IsNew, IsReason, Tables
  <2>3. With(a, s, n, e, "exact_alt") \in AliasTable
    BY <2>2, WithIs DEF IsOneMore
  <2>4. v \in Tables /\ v.names = w.names /\ v.link = w.link
    <3>1. [w.alias EXCEPT !["team"] = With(a, s, n, e, "exact_alt")] \in [Type -> AliasTable]
      BY <1>1, <2>3 DEF Tables
    <3>2. v = [w EXCEPT !.alias = [w.alias EXCEPT !["team"] = With(a, s, n, e, "exact_alt")]]
      BY <1>1, <1>4 DEF Tables
    <3>. QED
      BY <1>1, <3>1, <3>2 DEF Tables
  <2>5. \A u \in Type :
           /\ v.entities[u] = IF u = "team" THEN w.entities["team"] \cup {e} ELSE w.entities[u]
           /\ v.alias[u] = IF u = "team" THEN With(a, s, n, e, "exact_alt") ELSE w.alias[u]
    BY <1>1, <1>4, <2>1 DEF Tables
  <2>6. \A u \in Type : \A q \in Participant : v.link[u][q] = w.link[u][q]
    BY <2>4
  <2>7. IsNamed(w, v, "team", s, n, e, "exact_alt")
    BY <2>4, <2>5, <2>6 DEF IsNamed
  <2>. QED
    BY <1>1, <1>4, <2>1, <2>2, <2>7, NamingLeads
<1>5. \/ v = w
      \/ n \in Name /\ v = [w EXCEPT !.reviews = @ \cup {<<s, "team", n>>}]
      \/ /\ e # None /\ n \in Name /\ <<s, n>> \notin DOMAIN a /\ Called(a, n) \subseteq {e}
         /\ v = [w EXCEPT !.alias["team"] = With(@, s, n, e, "exact_alt")]
  BY <1>1 DEF AlsoCalled
<1>. QED
  BY <1>2, <1>3, <1>4, <1>5

LEMMA LeadsOn ==
    ASSUME NEW R, NEW u, NEW v, NEW w, Leads(u, v, R), Leads(v, w, R)
    PROVE  Leads(u, w, R)
  BY DEF Leads, Grown

(***************************************************************************)
(* Runs and tables.                                                        *)
(***************************************************************************)

Unrenamed == Participant \ renamed

\* A run goes by the names it read, which are still those of whoever was not
\* renamed since; what it works on is sound, adds to what it read, and is as
\* clean as that was; and the tables have grown from what it read.
RunSound(r) ==
    LET base == run[r].base   work == run[r].work IN
    /\ run[r].left \subseteq Participant
    /\ base \in Tables /\ Sound(work, Unrenamed)
    /\ \A p \in Unrenamed : work.names[p] = names[p]
    /\ \A t \in Type :
          /\ Grown(base.alias[t], work.alias[t]) /\ base.entities[t] \subseteq work.entities[t]
          /\ Grown(base.alias[t], alias[t])
    /\ Clean(base) => Clean(work)

NormalizationInv ==
    /\ renamed \subseteq stored /\ stored \subseteq Participant
    /\ \A p \in Unrenamed : names[p] = NamesOf[p]
    /\ Sound(Read, Unrenamed)
    /\ ~raced => Clean(Read)
    /\ DOMAIN run = Runner
    /\ \A r \in Runner : RunSound(r)

\* What holds of all participants' links holds of some.
LEMMA SoundOfSome ==
    ASSUME NEW w, NEW R, NEW S, S \subseteq R, Sound(w, R)
    PROVE  Sound(w, S)
  BY DEF Sound, LinksAreNamed

LEMMA EmptyIsSound ==
    ASSUME NEW R \in SUBSET Participant
    PROVE  Sound(Empty, R) /\ Clean(Empty)
<1>1. /\ Empty.names = NamesOf /\ Empty.entities = [t \in Type |-> {}]
      /\ Empty.alias = [t \in Type |-> NoAlias] /\ Empty.reviews = {}
      /\ Empty.link = [t \in Type |-> [p \in Participant |-> None]]
  BY DEF Empty
<1>2. DOMAIN NoAlias = {} /\ NoAlias \in AliasTable
  <2>1. DOMAIN NoAlias = {} /\ NoAlias = [k \in DOMAIN NoAlias |-> NoAlias[k]]
    BY DEF NoAlias
  <2>. QED
    BY <2>1, AliasTableIs
<1>3. Empty \in Tables
  <2>1. NamesOf \in [Participant -> Naming]
    BY NamesAssumption
  <2>. QED
    BY <1>2, <2>1 DEF Empty, Tables
<1>. QED
  BY <1>1, <1>2, <1>3 DEF Sound, LinksAreNamed, Clean, OneEntityPerName, NoLookAlikes

LEMMA ClosedIsSound ==
    ASSUME \A p \in Unrenamed : names[p] = NamesOf[p], NEW r \in Runner, run[r] = Closed
    PROVE  RunSound(r)
<1>1. /\ run[r].left = {} /\ run[r].base = Empty /\ run[r].work = Empty
      /\ Empty.names = NamesOf /\ \A t \in Type : DOMAIN Empty.alias[t] = {}
  BY DEF Closed, Empty, NoAlias
<1>2. Unrenamed \in SUBSET Participant
  BY DEF Unrenamed
<1>3. Sound(Empty, Unrenamed) /\ Empty \in Tables
  BY <1>2, EmptyIsSound DEF Sound
<1>. QED
  BY <1>1, <1>3 DEF RunSound, Grown

LEMMA NormalizationInit == Init => NormalizationInv
<1>. SUFFICES ASSUME Init PROVE NormalizationInv
  OBVIOUS
<1>1. /\ stored \subseteq Participant /\ renamed = {} /\ names = NamesOf
      /\ run = [r \in Runner |-> Closed] /\ Unrenamed = Participant
  BY NamesAssumption DEF Init, Unrenamed
<1>2. Read = Empty
  BY DEF Init, Read, Empty
<1>3. \A r \in Runner : RunSound(r)
  BY <1>1, ClosedIsSound
<1>. QED
  BY <1>1, <1>2, <1>3, EmptyIsSound DEF NormalizationInv

\* A run begins with what the tables hold.
LEMMA BeginKeeps ==
    ASSUME NormalizationInv, NEW r \in Runner, Begin(r)
    PROVE  NormalizationInv'
<1>1. UNCHANGED <<stored, names, renamed, tables, raced>>
  BY DEF Begin
<1>2. /\ Read' = Read /\ Unrenamed' = Unrenamed
      /\ DOMAIN run' = Runner /\ \A q \in Runner \ {r} : run'[q] = run[q]
      /\ run'[r].base = Read /\ run'[r].work = Read
      /\ run'[r].left = {p \in stored : SourceOf[p] = RunnerOf[r]}
  BY <1>1 DEF Begin, Read, tables, Unrenamed, NormalizationInv
<1>3. Read.names = names /\ Read.alias = alias
  BY DEF Read
<1>4. RunSound(r)'
  BY <1>1, <1>2, <1>3 DEF NormalizationInv, RunSound, Sound, Grown, tables
<1>5. \A q \in Runner \ {r} : RunSound(q)'
  BY <1>1, <1>2 DEF NormalizationInv, RunSound, tables
<1>. QED
  BY <1>1, <1>2, <1>4, <1>5 DEF NormalizationInv

\* One participant more: the work leads on, by the three operators in turn.
LEMMA NormalizeNextKeeps ==
    ASSUME NormalizationInv, NEW r \in Runner, NormalizeNext(r)
    PROVE  NormalizationInv'
<1>. DEFINE R == Unrenamed
            w == run[r].work
<1>1. UNCHANGED <<stored, names, renamed, tables, raced>>
  BY DEF NormalizeNext
<1>2. PICK p \in run[r].left :
        run' = [run EXCEPT ![r].left = @ \ {p},
                           ![r].work = AlsoCalled(NameIt(NameIt(w, "player", p), "team", p), p)]
  BY DEF NormalizeNext
<1>. DEFINE w1 == NameIt(w, "player", p)
            w2 == NameIt(w1, "team", p)
<1>3. R \in SUBSET Participant /\ p \in Participant /\ Sound(w, R) /\ RunSound(r)
  BY DEF NormalizationInv, RunSound, Unrenamed
<1>4. Leads(w, w1, R) /\ Sound(w1, R)
  <2>1. w1 = NameIt(w, "player", p) /\ "player" \in Type
    BY DEF Type
  <2>2. Leads(w, w1, R)
    BY <1>3, <2>1, NameItLeads
  <2>. QED
    BY <2>2 DEF Leads
<1>5. Leads(w1, w2, R) /\ Sound(w2, R)
  <2>1. w2 = NameIt(w1, "team", p) /\ "team" \in Type
    BY DEF Type
  <2>2. Leads(w1, w2, R)
    BY <1>3, <1>4, <2>1, NameItLeads
  <2>. QED
    BY <2>2 DEF Leads
<1>6. Leads(w, AlsoCalled(w2, p), R)
  <2>1. Leads(w2, AlsoCalled(w2, p), R)
    BY <1>3, <1>5, AlsoCalledLeads
  <2>2. Leads(w1, AlsoCalled(w2, p), R)
    BY <1>5, <2>1, LeadsOn
  <2>. QED
    BY <1>4, <2>2, LeadsOn
<1>7. /\ DOMAIN run' = Runner /\ \A q \in Runner \ {r} : run'[q] = run[q]
      /\ run'[r].base = run[r].base /\ run'[r].left \subseteq run[r].left
      /\ run'[r].work = AlsoCalled(w2, p)
  BY <1>2 DEF NormalizationInv
<1>8. R' = R /\ Read' = Read
  BY <1>1 DEF Unrenamed, Read, tables
<1>. HIDE DEF R, w
<1>9. RunSound(r)'
  <2>. DEFINE v == run'[r].work
  <2>1. Leads(w, v, R)
    BY <1>6, <1>7
  <2>. HIDE DEF v
  <2>2. /\ Sound(v, R) /\ v.names = w.names /\ (Clean(w) => Clean(v))
        /\ \A t \in Type : w.entities[t] \subseteq v.entities[t] /\ Grown(w.alias[t], v.alias[t])
    BY <2>1 DEF Leads
  <2>3. /\ run[r].left \subseteq Participant /\ run[r].base \in Tables
        /\ \A p1 \in R : w.names[p1] = names[p1]
        /\ \A t \in Type :
              /\ Grown(run[r].base.alias[t], w.alias[t])
              /\ run[r].base.entities[t] \subseteq w.entities[t]
              /\ Grown(run[r].base.alias[t], alias[t])
        /\ Clean(run[r].base) => Clean(w)
    BY <1>3 DEF RunSound, R, w
  <2>4. \A t \in Type : Grown(run[r].base.alias[t], v.alias[t])
    BY <2>2, <2>3 DEF Grown
  <2>. QED
    BY <1>1, <1>7, <1>8, <2>2, <2>3, <2>4 DEF RunSound, v, R, tables
<1>10. \A q \in Runner \ {r} : RunSound(q)'
  BY <1>1, <1>7, <1>8 DEF NormalizationInv, RunSound, tables, R
<1>. QED
  BY <1>1, <1>7, <1>8, <1>9, <1>10 DEF NormalizationInv, R

\* Of what a run read, what it comes to, and what is there when it commits,
\* if nobody has inserted what it inserts, each name is called what it is
\* called in either.
LEMMA MergedIs ==
    ASSUME NEW base, NEW old \in AliasTable, NEW new \in AliasTable,
           Grown(base, old), Grown(base, new),
           (DOMAIN new \ DOMAIN base) \cap DOMAIN old = {}
    PROVE  /\ Merged(old, new) \in AliasTable
           /\ DOMAIN Merged(old, new) = DOMAIN old \cup DOMAIN new
           /\ Grown(old, Merged(old, new)) /\ Grown(new, Merged(old, new))
<1>. DEFINE m == Merged(old, new)
<1>1. /\ DOMAIN m = DOMAIN old \cup DOMAIN new /\ m = [k \in DOMAIN m |-> m[k]]
      /\ \A k \in DOMAIN m : m[k] = IF k \in DOMAIN old THEN old[k] ELSE new[k]
  BY DEF Merged
<1>2. /\ DOMAIN old \subseteq Source \X Name /\ \A k \in DOMAIN old : old[k] \in Entry
      /\ DOMAIN new \subseteq Source \X Name /\ \A k \in DOMAIN new : new[k] \in Entry
  BY AliasTableIs
<1>. HIDE DEF m
<1>3. DOMAIN m \subseteq Source \X Name /\ \A k \in DOMAIN m : m[k] \in Entry
  BY <1>1, <1>2
<1>4. m \in AliasTable
  BY <1>1, <1>3, AliasTableIs
<1>5. Grown(old, m)
  BY <1>1 DEF Grown
<1>6. Grown(new, m)
  <2>1. ASSUME NEW k \in DOMAIN new
        PROVE  k \in DOMAIN m /\ m[k] = new[k]
    <3>1. CASE k \in DOMAIN base
      BY <1>1, <3>1 DEF Grown
    <3>2. CASE k \notin DOMAIN base
      BY <1>1, <3>2
    <3>. QED
      BY <3>1, <3>2
  <2>. QED
    BY <2>1 DEF Grown
<1>. QED
  BY <1>1, <1>4, <1>5, <1>6 DEF m

\* The tables after a commit hold what they held and what the run came to.
LEMMA CommitTables ==
    ASSUME NormalizationInv, NEW r \in Runner, Commit(r)
    PROVE  /\ Sound(Read', Unrenamed)
           /\ \A t \in Type : Grown(alias[t], alias'[t]) /\ entities[t] \subseteq entities'[t]
           /\ ~raced' => Clean(Read')
<1>. DEFINE R == Unrenamed
            base == run[r].base
            w == run[r].work
            o == Read
            n == Read'
<1>1. /\ base \in Tables /\ Sound(w, R) /\ w \in Tables /\ Sound(o, R) /\ o \in Tables
      /\ \A p \in R : w.names[p] = names[p]
      /\ \A t \in Type :
            /\ Grown(base.alias[t], w.alias[t]) /\ base.entities[t] \subseteq w.entities[t]
            /\ Grown(base.alias[t], alias[t])
      /\ Clean(base) => Clean(w)
  BY DEF NormalizationInv, RunSound, Sound
<1>2. /\ o.names = names /\ o.entities = entities /\ o.alias = alias
      /\ o.reviews = reviews /\ o.link = link
  BY DEF Read
<1>3. /\ n.names = names /\ n.entities = entities' /\ n.alias = alias'
      /\ n.reviews = reviews' /\ n.link = link'
  BY DEF Read, Commit
<1>4. /\ entities' = [t \in Type |-> entities[t] \cup w.entities[t]]
      /\ alias' = [t \in Type |-> Merged(alias[t], w.alias[t])]
      /\ reviews' = reviews \cup w.reviews
      /\ link' = [t \in Type |-> [p \in Participant |->
                    IF w.link[t][p] # base.link[t][p] THEN w.link[t][p] ELSE link[t][p]]]
      /\ raced' = (raced \/ entities # base.entities \/ alias # base.alias)
  BY DEF Commit
<1>5. ASSUME NEW t \in Type
      PROVE  /\ alias'[t] \in AliasTable /\ DOMAIN alias'[t] = DOMAIN alias[t] \cup DOMAIN w.alias[t]
             /\ Grown(alias[t], alias'[t]) /\ Grown(w.alias[t], alias'[t])
  <2>1. (DOMAIN w.alias[t] \ DOMAIN base.alias[t]) \cap DOMAIN alias[t] = {}
    BY DEF Commit, Insertable
  <2>2. alias[t] \in AliasTable /\ w.alias[t] \in AliasTable
    BY <1>1, <1>2 DEF Tables
  <2>3. alias'[t] = Merged(alias[t], w.alias[t])
    BY <1>4
  <2>. HIDE DEF base, w
  <2>. QED
    BY <1>1, <2>1, <2>2, <2>3, MergedIs
<1>6. n = [names |-> n.names, entities |-> n.entities, alias |-> n.alias,
           reviews |-> n.reviews, link |-> n.link]
  BY DEF Read
<1>. HIDE DEF R, base, w, o, n
<1>7. n \in Tables
  <2>1. names \in [Participant -> Naming] /\ reviews' \in SUBSET (Source \X Type \X Name)
    BY <1>1, <1>2, <1>4 DEF Tables
  <2>2. entities' \in [Type -> SUBSET Name]
    BY <1>1, <1>2, <1>4 DEF Tables
  <2>3. alias' \in [Type -> AliasTable]
    BY <1>4, <1>5
  <2>4. link' \in [Type -> [Participant -> Name \cup {None}]]
    BY <1>1, <1>2, <1>4 DEF Tables
  <2>. QED
    BY <1>3, <1>6, <2>1, <2>2, <2>3, <2>4 DEF Tables
<1>8. ASSUME NEW t \in Type, NEW k \in DOMAIN alias'[t]
      PROVE  alias'[t][k].to \in entities'[t] /\ Justified(alias'[t], k)
  <2>0. entities'[t] = entities[t] \cup w.entities[t]
    BY <1>4
  <2>1. CASE k \in DOMAIN alias[t]
    <3>1. alias[t][k].to \in entities[t] /\ Justified(alias[t], k)
      BY <1>1, <1>2, <2>1 DEF Sound
    <3>2. alias'[t][k] = alias[t][k]
      BY <1>5, <2>1 DEF Grown
    <3>. QED
      BY <1>5, <2>0, <2>1, <3>1, <3>2, StaysJustified
  <2>2. CASE k \in DOMAIN w.alias[t]
    <3>1. w.alias[t][k].to \in w.entities[t] /\ Justified(w.alias[t], k)
      BY <1>1, <2>2 DEF Sound
    <3>2. alias'[t][k] = w.alias[t][k]
      BY <1>5, <2>2 DEF Grown
    <3>. QED
      BY <1>5, <2>0, <2>2, <3>1, <3>2, StaysJustified
  <2>. QED
    BY <1>5, <2>1, <2>2
<1>9. ASSUME NEW t \in Type, NEW p \in Participant
      PROVE  link'[t][p] \in entities'[t] \cup {None}
  <2>1. link'[t][p] \in {w.link[t][p], link[t][p]} /\ entities'[t] = entities[t] \cup w.entities[t]
    BY <1>4
  <2>2. w.link[t][p] \in w.entities[t] \cup {None} /\ link[t][p] \in entities[t] \cup {None}
    BY <1>1, <1>2 DEF Sound
  <2>. QED
    BY <2>1, <2>2
<1>10. ASSUME NEW t \in Type, NEW p \in R, link'[t][p] # None,
              NEW k, k = <<SourceOf[p], names[p][t]>>
       PROVE  k \in DOMAIN alias'[t] /\ alias'[t][k].to = link'[t][p]
  <2>1. link'[t][p] = w.link[t][p] \/ link'[t][p] = link[t][p]
    BY <1>4 DEF R, Unrenamed
  <2>2. CASE link'[t][p] = w.link[t][p]
    <3>1. LinksAreNamed(w, R) /\ k = <<SourceOf[p], w.names[p][t]>> /\ w.link[t][p] # None
      BY <1>1, <1>10, <2>2 DEF Sound
    <3>2. k \in DOMAIN w.alias[t] /\ w.alias[t][k].to = w.link[t][p]
      BY <3>1 DEF LinksAreNamed
    <3>. QED
      BY <1>5, <2>2, <3>2 DEF Grown
  <2>3. CASE link'[t][p] = link[t][p]
    <3>1. LinksAreNamed(o, R) /\ k = <<SourceOf[p], o.names[p][t]>> /\ o.link[t][p] # None
      BY <1>1, <1>2, <1>10, <2>3 DEF Sound
    <3>2. k \in DOMAIN alias[t] /\ alias[t][k].to = link[t][p]
      BY <1>2, <3>1 DEF LinksAreNamed
    <3>. QED
      BY <1>5, <2>3, <3>2 DEF Grown
  <2>. QED
    BY <2>1, <2>2, <2>3
<1>11. Sound(n, R)
  <2>1. LinksAreNamed(n, R)
    BY <1>3, <1>10 DEF LinksAreNamed
  <2>. QED
    BY <1>3, <1>7, <1>8, <1>9, <2>1 DEF Sound
<1>12. ASSUME ~raced'
       PROVE  Clean(n)
  <2>1. ~raced /\ entities = base.entities /\ alias = base.alias
    BY <1>4, <1>12
  <2>2. Clean(o)
    BY <2>1 DEF NormalizationInv, o
  <2>3. Clean(w)
    BY <1>1, <1>2, <2>1, <2>2 DEF Clean
  <2>4. ASSUME NEW t \in Type
        PROVE  OneEntityPerName(alias'[t]) /\ NoLookAlikes(entities'[t])
    <3>1. entities'[t] = w.entities[t]
      BY <1>1, <1>4, <2>1
    <3>2. DOMAIN alias'[t] = DOMAIN w.alias[t] /\ \A k \in DOMAIN w.alias[t] : alias'[t][k] = w.alias[t][k]
      BY <1>1, <1>5, <2>1 DEF Grown
    <3>. QED
      BY <2>3, <3>1, <3>2 DEF Clean, OneEntityPerName
  <2>. QED
    BY <1>3, <2>4 DEF Clean
<1>. QED
  BY <1>4, <1>5, <1>11, <1>12 DEF n, R

LEMMA ClosedAfter ==
    ASSUME \A p \in Unrenamed' : names'[p] = NamesOf[p], NEW r \in Runner, run'[r] = Closed
    PROVE  RunSound(r)'
<1>1. /\ run'[r].left = {} /\ run'[r].base = Empty /\ run'[r].work = Empty
      /\ Empty.names = NamesOf /\ \A t \in Type : DOMAIN Empty.alias[t] = {}
  BY DEF Closed, Empty, NoAlias
<1>2. Unrenamed' \in SUBSET Participant
  BY DEF Unrenamed
<1>3. Sound(Empty, Unrenamed') /\ Empty \in Tables
  BY <1>2, EmptyIsSound DEF Sound
<1>. QED
  BY <1>1, <1>3 DEF RunSound, Grown

\* The other runs still work on what they read, which the tables still hold.
LEMMA CommitKeeps ==
    ASSUME NormalizationInv, NEW r \in Runner, Commit(r)
    PROVE  NormalizationInv'
<1>1. UNCHANGED <<stored, names, renamed>> /\ Unrenamed' = Unrenamed
  BY DEF Commit, Unrenamed
<1>2. /\ DOMAIN run' = Runner /\ \A q \in Runner \ {r} : run'[q] = run[q]
      /\ run'[r] = Closed
  BY DEF Commit, NormalizationInv
<1>3. /\ Sound(Read', Unrenamed)
      /\ \A t \in Type : Grown(alias[t], alias'[t])
      /\ ~raced' => Clean(Read')
  BY CommitTables
<1>4. RunSound(r)'
  BY <1>1, <1>2, ClosedAfter DEF NormalizationInv
<1>5. ASSUME NEW q \in Runner \ {r}
      PROVE  RunSound(q)'
  <2>1. RunSound(q)
    BY DEF NormalizationInv
  <2>2. \A t \in Type : Grown(run[q].base.alias[t], alias'[t])
    BY <1>3, <2>1 DEF RunSound, Grown
  <2>. QED
    BY <1>1, <1>2, <2>1, <2>2 DEF RunSound
<1>. QED
  BY <1>1, <1>2, <1>3, <1>4, <1>5 DEF NormalizationInv

\* A run that is given up leaves nothing behind.
LEMMA GivingUpKeeps ==
    ASSUME NormalizationInv, NEW r \in Runner,
           run' = [run EXCEPT ![r] = Closed],
           UNCHANGED <<stored, names, renamed, tables, raced>>
    PROVE  NormalizationInv'
<1>1. /\ DOMAIN run' = Runner /\ \A q \in Runner \ {r} : run'[q] = run[q]
      /\ run'[r] = Closed
      /\ Unrenamed' = Unrenamed /\ Read' = Read
  BY DEF NormalizationInv, Unrenamed, Read, tables
<1>2. RunSound(r)'
  BY <1>1, ClosedAfter DEF NormalizationInv
<1>3. \A q \in Runner \ {r} : RunSound(q)'
  BY <1>1 DEF NormalizationInv, RunSound, tables
<1>. QED
  BY <1>1, <1>2, <1>3 DEF NormalizationInv

LEMMA ArriveKeeps ==
    ASSUME NormalizationInv, NEW p \in Participant, Arrive(p)
    PROVE  NormalizationInv'
<1>1. /\ UNCHANGED <<names, renamed, tables, run, raced>> /\ stored' = stored \cup {p}
      /\ Unrenamed' = Unrenamed /\ Read' = Read
  BY DEF Arrive, Unrenamed, Read, tables
<1>2. \A q \in Runner : RunSound(q)'
  BY <1>1 DEF NormalizationInv, RunSound, tables
<1>. QED
  BY <1>1, <1>2 DEF NormalizationInv

\* Other names for one participant say nothing of the others.
LEMMA RenameKeeps ==
    ASSUME NormalizationInv, NEW p \in Participant, Rename(p)
    PROVE  NormalizationInv'
<1>1. /\ UNCHANGED <<stored, tables, run, raced>> /\ p \in stored
      /\ renamed' = renamed \cup {p}
      /\ Unrenamed' = Unrenamed \ {p}
  BY DEF Rename, Unrenamed
<1>2. Read \in Tables /\ Sound(Read, Unrenamed)
  BY DEF NormalizationInv, Sound
<1>3. /\ names' \in [Participant -> Naming]
      /\ \A q \in Participant \ {p} : names'[q] = names[q]
  <2>1. names \in [Participant -> Naming]
    BY <1>2 DEF Tables, Read
  <2>2. PICK l \in Renames[p] : names' = [names EXCEPT ![p] = l]
    BY DEF Rename
  <2>3. l \in Naming
    BY <2>2, NamesAssumption
  <2>. QED
    BY <2>1, <2>2, <2>3
<1>. DEFINE n == Read'
            S == Unrenamed'
<1>4. /\ n.names = names' /\ n.entities = Read.entities /\ n.alias = Read.alias
      /\ n.reviews = Read.reviews /\ n.link = Read.link
      /\ Read.names = names
      /\ n = [names |-> names', entities |-> Read.entities, alias |-> Read.alias,
              reviews |-> Read.reviews, link |-> Read.link]
  BY <1>1 DEF Read, tables
<1>5. S \subseteq Unrenamed /\ \A q \in S : names'[q] = names[q]
  BY <1>1, <1>3 DEF Unrenamed
<1>. HIDE DEF n, S
<1>6. n \in Tables
  BY <1>2, <1>3, <1>4 DEF Tables
<1>7. LinksAreNamed(n, S)
  BY <1>2, <1>4, <1>5 DEF LinksAreNamed, Sound
<1>8. Sound(n, S)
  BY <1>2, <1>4, <1>6, <1>7 DEF Sound
<1>9. ~raced' => Clean(n)
  BY <1>1, <1>4 DEF NormalizationInv, Clean
<1>10. ASSUME NEW q \in Runner
       PROVE  RunSound(q)'
  <2>1. RunSound(q)
    BY DEF NormalizationInv
  <2>2. Sound(run[q].work, S)
    BY <1>5, <2>1, SoundOfSome DEF RunSound
  <2>3. \A u \in S : run[q].work.names[u] = names'[u]
    BY <1>5, <2>1 DEF RunSound
  <2>. QED
    BY <1>1, <2>1, <2>2, <2>3 DEF RunSound, S, tables
<1>11. \A q \in S : names'[q] = NamesOf[q]
  BY <1>5 DEF NormalizationInv
<1>. QED
  BY <1>1, <1>8, <1>9, <1>10, <1>11 DEF NormalizationInv, n, S

LEMMA NormalizationStep == NormalizationInv /\ [Next]_vars => NormalizationInv'
<1>. SUFFICES ASSUME NormalizationInv, [Next]_vars PROVE NormalizationInv'
  OBVIOUS
<1>1. CASE \E p \in Participant : Arrive(p) \/ Rename(p)
  BY <1>1, ArriveKeeps, RenameKeeps
<1>2. CASE \E r \in Runner : Cycle(r)
  <2>. PICK r \in Runner : Cycle(r)
    BY <1>2
  <2>1. CASE Begin(r)
    BY <2>1, BeginKeeps
  <2>2. CASE NormalizeNext(r)
    BY <2>2, NormalizeNextKeeps
  <2>3. CASE Commit(r)
    BY <2>3, CommitKeeps
  <2>4. CASE Refused(r)
    BY <2>4, GivingUpKeeps DEF Refused
  <2>. QED
    BY <2>1, <2>2, <2>3, <2>4 DEF Cycle
<1>3. CASE \E r \in Fallible : Lost(r)
  BY <1>3, GivingUpKeeps, NamesAssumption DEF Lost
<1>4. CASE UNCHANGED vars
  <2>1. Unrenamed' = Unrenamed /\ Read' = Read
    BY <1>4 DEF vars, tables, Unrenamed, Read
  <2>2. \A q \in Runner : RunSound(q)'
    BY <1>4, <2>1 DEF NormalizationInv, RunSound, vars, tables
  <2>. QED
    BY <1>4, <2>1, <2>2 DEF NormalizationInv, vars, tables
<1>. QED
  BY <1>1, <1>2, <1>3, <1>4 DEF Next

LEMMA NormalizationInvariant == Spec => []NormalizationInv
  BY NormalizationInit, NormalizationStep, PTL DEF Spec

(***************************************************************************)
(* The theorems.                                                           *)
(***************************************************************************)

\* Type correctness: among others, every alias and every link leads to an
\* entity that exists.
THEOREM TypeCorrect == Spec => []TypeOK
<1>1. NormalizationInv => TypeOK
  <2>. SUFFICES ASSUME NormalizationInv PROVE TypeOK
    OBVIOUS
  <2>1. /\ Read.names = names /\ Read.entities = entities /\ Read.alias = alias
        /\ Read.reviews = reviews /\ Read.link = link
        /\ Sound(Read, Unrenamed) /\ Read \in Tables
    BY DEF Read, NormalizationInv, Sound
  <2>2. ASSUME NEW t \in Type
        PROVE  /\ entities[t] \subseteq Name
               /\ IsAliasTable(alias[t], entities[t])
               /\ \A p \in Participant : link[t][p] \in entities[t] \cup {None}
    <3>1. entities[t] \subseteq Name /\ alias[t] \in AliasTable
      BY <2>1 DEF Tables
    <3>2. \A k \in DOMAIN alias[t] : alias[t][k].to \in entities[t]
      BY <2>1 DEF Sound
    <3>3. DOMAIN alias[t] \subseteq Source \X Name /\ \A k \in DOMAIN alias[t] : alias[t][k] \in Entry
      BY <3>1, AliasTableIs
    <3>4. \A k \in DOMAIN alias[t] : alias[t][k].how \in How
      BY <3>3 DEF Entry
    <3>5. \A p \in Participant : link[t][p] \in entities[t] \cup {None}
      BY <2>1 DEF Sound
    <3>. QED
      BY <3>1, <3>2, <3>3, <3>4, <3>5 DEF IsAliasTable
  <2>3. names \in [Participant -> Naming] /\ reviews \subseteq Source \X Type \X Name
    BY <2>1 DEF Tables
  <2>. QED
    BY <2>2, <2>3 DEF TypeOK, NormalizationInv
<1>. QED
  BY <1>1, NormalizationInvariant, PTL

\* No silent merge (decide_normalization, decide_with_aliases): an alias of a
\* name that is neither the entity's own nor all but equal to it was a team's
\* listed other name, or says what another alias said for such a reason, for
\* any number of jobs whose transactions overlap, are refused or lost.
THEOREM MergesAreJustified == Spec => []NoSilentMerge
<1>1. NormalizationInv => NoSilentMerge
  BY DEF NormalizationInv, Sound, Read, NoSilentMerge
<1>. QED
  BY <1>1, NormalizationInvariant, PTL

\* One name is one entity, and no entity was made beside one it looks like,
\* as long as no run has committed over tables that changed since it read
\* them: a single job, or jobs that do not overlap, cannot make two of one.
THEOREM OnlyRacesPart == Spec => []OnlyRacesDisagree
<1>1. NormalizationInv => OnlyRacesDisagree
  BY DEF NormalizationInv, Clean, Read, OnlyRacesDisagree
<1>. QED
  BY <1>1, NormalizationInvariant, PTL

\* A participant that was not renamed is linked to what its source means by
\* its name, whatever the runs that linked it had read.
THEOREM LinksHold == Spec => []NamedAsListed
<1>1. NormalizationInv => NamedAsListed
  BY DEF NormalizationInv, Sound, LinksAreNamed, Read, NamedAsListed, Unrenamed
<1>. QED
  BY <1>1, NormalizationInvariant, PTL
=============================================================================
