------------------------------- MODULE Backtest -------------------------------
(***************************************************************************)
(* What the models are judged by: `python -m app backtest', which replays  *)
(* the baselines over the stored history and bets on the stored prices,    *)
(* and `python -m app train', which fits, calibrates and tests FON_ml_v1.  *)
(*                                                                         *)
(* A run is many statements of one session: the rows it replays are read   *)
(* at its start, the features of each of them later, one by one, while the *)
(* collectors and the normalizer go on.  A row of results says when it may *)
(* be used: it is known at the first of its three times.                   *)
(*                                                                         *)
(* Features are the matches they are computed from: counts, rates, windows *)
(* and sessions over those are left out, and so are the probabilities.     *)
(***************************************************************************)
EXTENDS Integers, FiniteSets

CONSTANTS
    NoLine, None,
    Match, SportOf, PlayersOf, StartOf,
    PublicAt,        \* when its source has the final score of a match
    Known,           \* the results rows that may be stored of it (bound)
    Early,           \* the results rows there are when the run begins
    Named,           \* matches with players when the run begins
    MinSamples,
    Train, Validation, Test, Step,   \* the lengths of a fold's intervals
    Quote, QuoteOf,  \* prices of matched events, whose matches are named:
                     \* [id, match, bet, at, kickoff, reversed]
    Lead,            \* how long before kickoff a price is of use
    Report           \* the commands: subset of {"backtest", "train"}

Rules == INSTANCE SettlementRules

Time == Nat
ResultRow == [score : Rules!Score, settled : Time \cup {None}, updated : Time \cup {None},
              observed : Time]

Times(r) == {r.settled, r.updated, r.observed} \ {None}

ASSUME CorpusAssumption ==
    /\ None \notin Int
    /\ IsFiniteSet(Match) /\ Match # {}
    /\ StartOf \in [Match -> Time] /\ PublicAt \in [Match -> Time]
    /\ Known \in [Match -> SUBSET ResultRow]
    /\ \A m \in Match : \A r \in Known[m] : \A t \in Times(r) : PublicAt[m] <= t
    /\ DOMAIN Early \subseteq Match /\ \A m \in DOMAIN Early : Early[m] \in Known[m]
    /\ Named \subseteq Match
    /\ Report \subseteq {"backtest", "train"}

ASSUME FoldAssumption ==
    /\ Train \in Nat \ {0} /\ Validation \in Nat \ {0} /\ Test \in Nat \ {0}
    /\ Step \in Nat \ {0}
    /\ MinSamples \in Nat

ASSUME QuoteAssumption ==
    /\ QuoteOf \in [Quote -> [id : Nat, match : Named, bet : Rules!Bet, at : Time,
                              kickoff : Time, reversed : BOOLEAN]]
    /\ \A q, r \in Quote : QuoteOf[q].id = QuoteOf[r].id => q = r

VARIABLES
    results, linked, \* the database: results, and matches with players
    report, pc,
    rows,            \* what the run read: the main result of each match
    left,            \* rows whose features are not built yet
    made,            \* predictions, or rows of the dataset
    skipped,
    fold, folds,
    prices,          \* prices left to be looked at, with the score
    bets

database == <<results, linked>>
vars == <<database, report, pc, rows, left, made, skipped, fold, folds, prices, bets>>

-----------------------------------------------------------------------------
(* DatabaseFeatureBuilder and FeatureBuilder                               *)

\* Mutant: a result received at the cutoff itself counts as known.
KnownBy(r, cutoff) == \E t \in Times(r) : t <= cutoff

KnownBefore(r, cutoff) == \E t \in Times(r) : t < cutoff

Eligible(target, cutoff) ==
    {m \in DOMAIN results \cap linked :
        /\ m # target
        /\ SportOf[m] = SportOf[target]
        /\ PlayersOf[m] \cap PlayersOf[target] # {}
        /\ StartOf[m] < cutoff
        /\ KnownBefore(results[m], cutoff)}

Form(player, among) == {m \in among : player \in PlayersOf[m]}
HeadToHead(target, among) == {m \in among : PlayersOf[m] = PlayersOf[target]}

Features(target, cutoff) ==
    LET among == Eligible(target, cutoff)
    IN  [form |-> [p \in PlayersOf[target] |-> Form(p, among)],
         h2h  |-> HeadToHead(target, among)]

\* The models read every player's form; h2h is a part of it.
ReadBy(f) == f.h2h \cup UNION {f.form[p] : p \in DOMAIN f.form}
Enough(f) == \A p \in DOMAIN f.form : Cardinality(f.form[p]) >= MinSamples

Winner(score) ==
    CASE score.s1 > score.s2 -> "P1" [] score.s1 < score.s2 -> "P2" [] OTHER -> "X"

-----------------------------------------------------------------------------
(* walk_forward_splits, from the first kickoff to just after the last      *)

First == CHOOSE t \in {StartOf[m] : m \in Match} : \A m \in Match : t <= StartOf[m]
Last  == CHOOSE t \in {StartOf[m] : m \in Match} : \A m \in Match : StartOf[m] <= t

TrainStart(n)      == First + n * Step
ValidationStart(n) == TrainStart(n) + Train
TestStart(n)       == ValidationStart(n) + Validation
TestEnd(n)         == TestStart(n) + Test

IsFold(n) == TestEnd(n) <= Last + 1

\* Mutant: the interval holds its end.
BetweenBoth(lo, hi) == {m \in made : lo <= StartOf[m.match] /\ StartOf[m.match] <= hi}

Between(lo, hi) == {m \in made : lo <= StartOf[m.match] /\ StartOf[m.match] < hi}

Split(n) ==
    [fold       |-> n,
     train      |-> {p.match : p \in Between(TrainStart(n), ValidationStart(n))},
     validation |-> {p.match : p \in Between(ValidationStart(n), TestStart(n))},
     test       |-> {p.match : p \in Between(TestStart(n), TestEnd(n))}]

-----------------------------------------------------------------------------
Rows(read) == [m \in read |-> Winner(results[m].score)]

Init ==
    /\ results = Early
    /\ linked = Named
    /\ report \in Report /\ pc = "ready"
    /\ rows = [m \in {} |-> "X"]
    /\ left = {} /\ made = {} /\ skipped = {}
    /\ fold = 0 /\ folds = {}
    /\ prices = {} /\ bets = {}

\* A collector stores a result, or stores it anew: observed_at keeps the
\* first receipt.
Store(m) ==
    /\ \E r \in Known[m] :
          results' = [n \in DOMAIN results \cup {m} |->
             IF n # m THEN results[n]
             ELSE IF m \in DOMAIN results /\ results[m].observed <= r.observed
                  THEN [r EXCEPT !.observed = results[m].observed] ELSE r]
    /\ UNCHANGED <<linked, report, pc, rows, left, made, skipped, fold, folds, prices, bets>>

\* The normalizer gives a match its players.
Link(m) ==
    /\ m \notin linked
    /\ linked' = linked \cup {m}
    /\ UNCHANGED <<results, report, pc, rows, left, made, skipped, fold, folds, prices, bets>>

\* Too short a history for one fold is an error.
Start ==
    /\ pc = "ready"
    /\ IF IsFold(0)
       THEN /\ rows' = Rows(DOMAIN results \cap linked)
            /\ left' = DOMAIN rows'
            /\ pc' = "features"
       ELSE pc' = "failed" /\ UNCHANGED <<rows, left>>
    /\ UNCHANGED <<database, report, made, skipped, fold, folds, prices, bets>>

\* By kickoff; two of one kickoff in either order.
Replay ==
    /\ pc = "features" /\ left # {}
    /\ \E m \in left :
          /\ \A n \in left : StartOf[m] <= StartOf[n]
          /\ left' = left \ {m}
          /\ LET f == Features(m, StartOf[m]) IN
             IF Enough(f)
             THEN /\ made' = made \cup {[match |-> m, actual |-> rows[m], from |-> ReadBy(f)]}
                  /\ UNCHANGED skipped
             ELSE skipped' = skipped \cup {m} /\ UNCHANGED made
    /\ UNCHANGED <<database, report, pc, rows, fold, folds, prices, bets>>

\* The main results a set of rows has.
Classes(matches) == {p.actual : p \in {p \in made : p.match \in matches}}
AllClasses(s) == Classes(s.train) = {"P1", "X", "P2"} /\ Classes(s.validation) = {"P1", "X", "P2"}

\* A baseline's fold needs test rows only; it learns nothing.
EvaluateFold ==
    /\ pc = "features" /\ left = {} /\ IsFold(fold)
    /\ report = "backtest"
    /\ folds' = IF Split(fold).test = {} THEN folds ELSE folds \cup {Split(fold)}
    /\ fold' = fold + 1
    /\ UNCHANGED <<database, report, pc, rows, left, made, skipped, prices, bets>>

\* Fitted on train, calibrated and chosen on validation, used on test.  A
\* fold with an empty part is passed over; one whose parts lack a class ends
\* the run.
TrainFold ==
    /\ pc = "features" /\ left = {} /\ IsFold(fold)
    /\ report = "train"
    /\ LET s == Split(fold) IN
       IF s.train = {} \/ s.validation = {} \/ s.test = {}
       THEN fold' = fold + 1 /\ UNCHANGED <<pc, folds>>
       ELSE IF AllClasses(s)
            THEN fold' = fold + 1 /\ folds' = folds \cup {s} /\ UNCHANGED pc
            ELSE pc' = "failed" /\ UNCHANGED <<fold, folds>>
    /\ UNCHANGED <<database, report, rows, left, made, skipped, prices, bets>>

-----------------------------------------------------------------------------
(* _market_backtest                                                        *)

InTime(q) ==
    /\ QuoteOf[q].at < QuoteOf[q].kickoff
    /\ QuoteOf[q].at >= QuoteOf[q].kickoff - Lead

SamePick(q, r) == QuoteOf[q].match = QuoteOf[r].match /\ QuoteOf[q].bet = QuoteOf[r].bet

Newer(r, q) ==
    \/ QuoteOf[r].at > QuoteOf[q].at
    \/ QuoteOf[r].at = QuoteOf[q].at /\ QuoteOf[r].id > QuoteOf[q].id

\* The markets the models price.
Priceable(bet) == bet.market = "1x2" \/ (bet.market = "total" /\ bet.line # NoLine)

\* The last price of each pick before the kickoff.
LastPrices ==
    {q \in Quote :
        /\ InTime(q) /\ Priceable(QuoteOf[q].bet) /\ QuoteOf[q].match \in DOMAIN results
        /\ \A r \in Quote : SamePick(q, r) /\ InTime(r) => ~Newer(r, q)}

Mirrored(selection) ==
    CASE selection = "P1" -> "P2" [] selection = "P2" -> "P1" [] OTHER -> selection

\* The selection in the source's order, whose probability is compared with
\* the price.
Priced(q) ==
    IF QuoteOf[q].reversed THEN Mirrored(QuoteOf[q].bet.selection)
                           ELSE QuoteOf[q].bet.selection

\* A run that trained is over; it must have tested something.
FoldsDone ==
    /\ pc = "features" /\ left = {} /\ ~IsFold(fold)
    /\ IF report = "backtest"
       THEN /\ pc' = "market"
            /\ prices' = {[quote |-> q, score |-> results[QuoteOf[q].match].score] :
                             q \in LastPrices}
       ELSE /\ pc' = IF folds = {} THEN "failed" ELSE "done"
            /\ UNCHANGED prices
    /\ UNCHANGED <<database, report, rows, left, made, skipped, fold, folds, bets>>

\* Mutant: the source's score is taken for the bookmaker's.
BetOnUnturned(x, f) ==
    LET q == x.quote IN
    [quote   |-> q,
     from    |-> ReadBy(f),
     priced  |-> Priced(q),
     source  |-> x.score,
     outcome |-> Rules!SettleMarket(QuoteOf[q].bet, x.score)]

BetOn(x, f) ==
    LET q == x.quote IN
    [quote   |-> q,
     from    |-> ReadBy(f),
     priced  |-> Priced(q),
     source  |-> x.score,
     outcome |-> Rules!SettleMarket(QuoteOf[q].bet, Rules!Orient(x.score, QuoteOf[q].reversed))]

\* A price is bet on if enough is known of both players and it is above the
\* fair one, which it may or may not be.
LookAt ==
    /\ pc = "market"
    /\ \E x \in prices :
          /\ prices' = prices \ {x}
          /\ LET f == Features(QuoteOf[x.quote].match, QuoteOf[x.quote].at) IN
             \/ Enough(f) /\ bets' = bets \cup {BetOn(x, f)}
             \/ UNCHANGED bets
    /\ UNCHANGED <<database, report, pc, rows, left, made, skipped, fold, folds>>

Finish ==
    /\ pc = "market" /\ prices = {}
    /\ pc' = "done"
    /\ UNCHANGED <<database, report, rows, left, made, skipped, fold, folds, prices, bets>>

Environment == \E m \in Match : Store(m) \/ Link(m)

Next ==
    \/ Environment
    \/ Start \/ Replay \/ EvaluateFold \/ TrainFold \/ FoldsDone
    \/ LookAt \/ Finish

Spec == Init /\ [][Next]_vars

-----------------------------------------------------------------------------
TypeOK ==
    /\ DOMAIN results \subseteq Match
    /\ \A m \in DOMAIN results :
          results[m] \in ResultRow /\ \A t \in Times(results[m]) : PublicAt[m] <= t
    /\ linked \subseteq Match
    /\ report \in Report /\ pc \in {"ready", "features", "market", "done", "failed"}
    /\ DOMAIN rows \subseteq Match /\ left \subseteq DOMAIN rows /\ skipped \subseteq DOMAIN rows
    /\ \A p \in made : p.match \in DOMAIN rows
    /\ fold \in Nat
    /\ \A x \in prices : x.quote \in Quote
    /\ \A b \in bets : b.quote \in Quote

\* No look-ahead: whatever is stored while a run goes on, a match replayed
\* or bet on is predicted from other matches only, of which the source had
\* the final score before the kickoff, or before the price was received.
\* (Of a match whose result was corrected later it is the corrected score.)
FromThePast(matches, target, cutoff) ==
    \A m \in matches : m # target /\ StartOf[m] < cutoff /\ PublicAt[m] < cutoff

NothingFromTheFuture ==
    /\ \A p \in made : FromThePast(p.from, p.match, StartOf[p.match])
    /\ \A b \in bets : FromThePast(b.from, QuoteOf[b.quote].match, QuoteOf[b.quote].at)

\* The report is out of sample: what a fold was fitted and chosen on started
\* before what it is tested on, no row is in two parts of a fold, and with a
\* step not shorter than the test interval no match is tested twice.
TestedOnce ==
    /\ \A s \in folds :
          /\ \A m \in s.train \cup s.validation, n \in s.test : StartOf[m] < StartOf[n]
          /\ \A m \in s.train, n \in s.validation : StartOf[m] < StartOf[n]
    /\ Step >= Test => \A s, t \in folds : s # t => s.test \cap t.test = {}

\* A bet is settled as what it was taken for: the selection whose probability
\* made the price good, in the source's order of the players, wins on the
\* source's score exactly when the bet does; and no pick is bet on twice.
BetsMeanWhatTheyPrice ==
    /\ \A b \in bets :
          b.outcome = Rules!SettleMarket([QuoteOf[b.quote].bet EXCEPT !.selection = b.priced],
                                         b.source)
    /\ \A b, c \in bets : SamePick(b.quote, c.quote) => b.quote = c.quote
=============================================================================
