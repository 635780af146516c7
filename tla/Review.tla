------------------------------- MODULE Review -------------------------------
(***************************************************************************)
(* The scheduled weight review of pkg/learn as operators: which tags of    *)
(* closed trades and which sleeve periods are evidence, and what they do   *)
(* to the weights.                                                         *)
(*                                                                         *)
(* Weights are shares: an id's weight is its share of the total, so a      *)
(* renormalisation changes nothing and no fraction is rounded.  Shares     *)
(* have no common divisor.                                                 *)
(***************************************************************************)
EXTENDS Naturals, Integers, FiniteSets, FiniteSetsExt, Sequences

CONSTANTS
    Strategies,   \* every strategy id
    Method,       \* the method of each id
    Regimes,      \* tape regimes a close is tagged with
    Policies,     \* ids of statements a period may be booked under
    MinN,         \* fills or periods below which nothing moves
    Parts,        \* MinWeight is one part in Parts
    ReviewEvery   \* days between two reviews

\* MinN = 20, MinWeight = 0.05 and ReviewEvery = 7 days in the code.
ASSUME ReviewAssumption ==
    /\ IsFiniteSet(Strategies) /\ DOMAIN Method = Strategies
    /\ IsFiniteSet(Regimes) /\ IsFiniteSet(Policies)
    /\ MinN \in Nat \ {0} /\ Parts \in Nat \ {0} /\ ReviewEvery \in Nat \ {0}

Methods == {Method[s] : s \in Strategies}

\* A row of closes.jsonl and a row of periods.jsonl.
Close  == [strategy : Strategies, regime : Regimes, pnl : Int]
Period == [ips : Policies, sleeve : {"core", "satellite"},
           method : Methods \cup {"core"}, excess : Int]

Total(w) == MapThenSumSet(LAMBDA s : w[s], DOMAIN w)

Pow2(k) == 2 ^ k

Divides(d, w) == \A s \in DOMAIN w : w[s] % d = 0
Reduced(w) ==
    LET divisors == {d \in 1 .. Total(w) : Divides(d, w)}
        gcd == Max(divisors)
    IN  IF divisors = {} THEN w ELSE [s \in DOMAIN w |-> w[s] \div gcd]

EqualWeights(ids) == [s \in ids |-> 1]

\* What ids weigh in prev: 0 is kept, an id that prev does not name weighs
\* as much as in an equal book.
CopyWeights(prev, ids) ==
    IF DOMAIN prev = {} THEN EqualWeights(ids)
    ELSE LET n   == Cardinality(ids)
             tot == Total(prev)
             one == IF tot = 0 THEN 1 ELSE tot
         IN  [s \in ids |-> IF s \in DOMAIN prev THEN prev[s] * n ELSE one]

-----------------------------------------------------------------------------
(* Evidence.  Closes and periods are rows by their line. *)

RowsOf(closes, s, r) == {k \in DOMAIN closes : closes[k].strategy = s /\ closes[k].regime = r}
PnlOf(closes, rows) == MapThenSumSet(LAMBDA k : closes[k].pnl, rows)

\* The tags (strategy, regime) that shrink s.  The mutant lets one losing
\* fill qualify.
LosingTagsAnyN(closes, s) ==
    {r \in Regimes : PnlOf(closes, RowsOf(closes, s, r)) < 0}
LosingTags(closes, s) ==
    {r \in Regimes : LET rows == RowsOf(closes, s, r) IN
        Cardinality(rows) >= MinN /\ PnlOf(closes, rows) < 0}

Fills(closes, m) == Cardinality({k \in DOMAIN closes : Method[closes[k].strategy] = m})

PeriodRows(periods, i, m) ==
    {k \in DOMAIN periods : /\ periods[k].ips = i /\ periods[k].method = m
                            /\ periods[k].sleeve = "satellite"}
ExcessOf(periods, rows) == MapThenSumSet(LAMBDA k : periods[k].excess, rows)

\* The statements under whose benchmark method m lost often enough: enough
\* periods, or enough fills.  Core rows never count.
LosingPeriods(periods, closes, m) ==
    {i \in Policies : LET rows == PeriodRows(periods, i, m) IN
        /\ rows # {} /\ m # "core"
        /\ Cardinality(rows) >= MinN \/ Fills(closes, m) >= MinN
        /\ ExcessOf(periods, rows) < 0}

-----------------------------------------------------------------------------
(* Moving the weights. *)

\* Halved once per losing tag, never below MinWeight: a weight that was below
\* it, or 0, is raised.  The mutant divides by Shrink.
ReweightDoubles(ids, prev, closes) ==
    LET w == CopyWeights(prev, ids)
    IN  Reduced([s \in ids |-> w[s] * Pow2(Cardinality(LosingTags(closes, s)))])
Reweight(ids, prev, closes) ==
    LET w   == CopyWeights(prev, ids)
        tot == IF Total(w) = 0 THEN 1 ELSE Total(w)
        top == Cardinality(Regimes)
        k(s) == Cardinality(LosingTags(closes, s))
        halved(s) == w[s] * Pow2(top - k(s)) * Parts
        floor == tot * Pow2(top)
    IN  Reduced([s \in ids |-> IF k(s) = 0 THEN halved(s)
                               ELSE IF halved(s) < floor THEN floor ELSE halved(s)])

\* Halved once per statement it lost under, to nothing below MinWeight.
ReweightPeriods(ids, prev, periods, closes) ==
    LET w   == CopyWeights(prev, ids)
        tot == Total(w)
        top == Cardinality(Policies)
        k(s) == Cardinality(LosingPeriods(periods, closes, Method[s]))
        halved(s) == w[s] * Pow2(top - k(s))
    IN  Reduced([s \in ids |->
            IF k(s) > 0 /\ halved(s) * Parts < tot * Pow2(top) THEN 0 ELSE halved(s)])

\* weights.json: shares by id, the day of the next review, whether the last
\* one moved anything.
EqualSnapshot(ids, day) ==
    [weights |-> EqualWeights(ids), due |-> day + ReviewEvery, moved |-> FALSE]

Due(snap, day) == day >= snap.due

Shrunk(ids, closes, periods) ==
    {s \in ids : \/ LosingTags(closes, s) # {}
                 \/ LosingPeriods(periods, closes, Method[s]) # {}}

ApplyReview(ids, snap, closes, periods, day, force) ==
    IF ~force /\ ~Due(snap, day) THEN [snap EXCEPT !.moved = FALSE]
    ELSE [weights |-> ReweightPeriods(ids, Reweight(ids, snap.weights, closes),
                                      periods, closes),
          due     |-> day + ReviewEvery,
          moved   |-> Shrunk(ids, closes, periods) # {}]
=============================================================================
