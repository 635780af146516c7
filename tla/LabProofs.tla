----------------------------- MODULE LabProofs -----------------------------
(***************************************************************************)
(* What the lab promises, for every universe, exchange, search grid, cache *)
(* and number of runs: what trades was saved, nothing is promoted where    *)
(* nothing rises, no fold sees the day after, and the closes it judges are *)
(* the exchange's.                                                         *)
(***************************************************************************)
EXTENDS Lab, FiniteSetTheorems, SequenceTheorems, WellFoundedInduction, TLAPS

-----------------------------------------------------------------------------
(* Least and greatest.                                                     *)

\* Every set of numbers has a least one.
LEMMA LeastNumber ==
    ASSUME NEW S \in SUBSET Nat, S # {}
    PROVE  \E n \in S : \A m \in S : n <= m
<1>. DEFINE R == {ss \in Nat \X Nat : ss[1] < ss[2]}
<1>1. \A x, y \in Nat : <<y, x>> \notin R => x <= y
  OBVIOUS
<1>2. IsWellFoundedOn(R, Nat)
  BY NatLessThanWellFounded DEF OpToRel
<1>. HIDE DEF R
<1>3. \E x \in S : \A y \in S : <<y, x>> \notin R
  BY <1>2, WFMin
<1>. QED
  BY <1>1, <1>3

LEMMA MinIs ==
    ASSUME NEW S \in SUBSET Int, NEW f \in S, \A e \in S : f <= e
    PROVE  Min(S) = f
<1>1. \A x \in S : (\A y \in S : x <= y) => x = f
  OBVIOUS
<1>. QED
  BY <1>1, Zenon DEF Min

LEMMA MaxIs ==
    ASSUME NEW S \in SUBSET Int, NEW f \in S, \A e \in S : f >= e
    PROVE  Max(S) = f
<1>1. \A x \in S : (\A y \in S : x >= y) => x = f
  OBVIOUS
<1>. QED
  BY <1>1, Zenon DEF Max

LEMMA MinOf ==
    ASSUME NEW S \in SUBSET Nat, S # {}
    PROVE  Min(S) \in S /\ \A e \in S : Min(S) <= e
<1>1. PICK f \in S : \A e \in S : f <= e
  BY LeastNumber
<1>2. Min(S) = f
  BY <1>1, MinIs
<1>. QED
  BY <1>1, <1>2

LEMMA MaxOf ==
    ASSUME NEW S \in SUBSET Nat, S # {}, NEW top \in Nat, \A e \in S : e <= top
    PROVE  Max(S) \in S /\ \A e \in S : Max(S) >= e
<1>. DEFINE gaps == {g \in Nat : \E e \in S : g = top - e}
<1>0. \A e \in S : e \in Nat /\ top - e \in Nat
  OBVIOUS
<1>1. gaps \in SUBSET Nat /\ gaps # {}
  BY <1>0
<1>2. PICK g \in gaps : \A h \in gaps : g <= h
  BY <1>1, LeastNumber
<1>3. PICK f \in S : g = top - f
  OBVIOUS
<1>4. \A e \in S : top - e \in gaps
  BY <1>0
<1>. HIDE DEF gaps
<1>5. \A e \in S : f >= e
  BY <1>2, <1>3, <1>4
<1>6. Max(S) = f
  BY <1>5, MaxIs
<1>. QED
  BY <1>5, <1>6

-----------------------------------------------------------------------------
(* What is saved and what trades.                                          *)

\* A verdict on the exchange's tape.
Verdicts ==
    {s \in [status : {"complete"}, date : 0..LastDay, tape : {Real}, roster : SUBSET Variants,
            added : SUBSET Variants, failing : SUBSET Defaults] : s.roster \cap s.failing = {}}

Attempts == [pc : {"idle", "seed"}, rep : {NoVerdict}] \cup [pc : {"judged", "saved"}, rep : Verdicts]

\* What a name may show of a day: its close, a candle of before the close, or none.
Shows(x, d, v) ==
    /\ v \in Nat
    /\ v > 0 => /\ tape[x][d] > 0
                /\ v = tape[x][d] \/ \E m \in Mornings : v = m[x][d]

MarketTyped ==
    /\ day \in 1..LastDay /\ tape \in Tapes
    /\ \A x \in Names : Shows(x, day, candle[x])

LEMMA MarketSame ==
    ASSUME MarketTyped, UNCHANGED <<day, tape, candle>> PROVE MarketTyped'
BY DEF MarketTyped, Shows

\* Every whole file was saved, and what the service took up or is about to
\* take up too.
SavedInv ==
    /\ run \in [Runs \cup {Tool} -> Attempts]
    /\ saved \subseteq Verdicts
    /\ \A r \in Runs \cup {Tool} : run[r].pc = "saved" => run[r].rep \in saved
    /\ DOMAIN dir \subseteq 0..LastDay
    /\ \A d \in DOMAIN dir : dir[d] = Cut \/ dir[d] \in saved
    /\ gated \in BOOLEAN
    /\ gated => \E s \in saved : roster = s.roster \ Scalp /\ failing = s.failing

LabInv == MarketTyped /\ SavedInv

\* What is admitted passed, and no default is admitted twice.
LEMMA AdmitPasses == ASSUME NEW vs PROVE Admit(vs) \subseteq {v.id : v \in vs}
BY DEF Admit

LEMMA VerdictIs ==
    ASSUME NEW date \in 0..LastDay, NEW passing, \A v \in passing : v.id \in Variants
    PROVE  Verdict(Real, date, passing) \in Verdicts
<1>. DEFINE kept == Defaults \cap {v.id : v \in passing}
            added == Admit({v \in passing : v.id \notin Defaults})
<1>1. Defaults \subseteq Variants
  BY LabAssumption
<1>2. added \subseteq Variants /\ added \cap Defaults = {}
  BY AdmitPasses
<1>3. ~IsMockTape(Real)
  BY DEF IsMockTape, Mock, Real
<1>4. Verdict(Real, date, passing) = Roster(Real, date, kept, added)
  BY <1>3 DEF Verdict
<1>5. kept \subseteq Variants /\ kept \cap (Defaults \ kept) = {} /\ Defaults \ kept \subseteq Defaults
  BY <1>1
<1>. HIDE DEF kept, added
<1>6. (kept \cup added) \cap (Defaults \ kept) = {}
  BY <1>2, <1>5
<1>. QED
  BY <1>2, <1>4, <1>5, <1>6 DEF Roster, Verdicts

\* A run that may be promoted read the exchange's bars of every name, and its
\* verdict is on those methods that pass on them.
Aligned(years) == [x \in Names |-> Closes(RunBars(x, years), RunDays(years))]
Passing(years) ==
    {v \in {WalkForward(x, Aligned(years), ToSet(OOSWindows(RunDays(years)))) : x \in Variants} :
        PassesGate(v)}

LEMMA JudgedIs ==
    ASSUME NEW years, Promotable(Judged(years))
    PROVE  /\ \A x \in Names : Readable(x, years)
           /\ Judged(years) = Verdict(Real, day, Passing(years))
<1>. DEFINE past == [k \in 1..(day - From(years) + 1) |-> From(years) + k - 1]
            mock == [x \in Names |-> [k \in DOMAIN past |-> MockTape[x][past[k]]]]
<1>1. Judged(years) = IF Pick = Mock THEN RunOn(Mock, day, past, mock)
                      ELSE IF \A x \in Names : Readable(x, years)
                      THEN RunOn(Real, day, RunDays(years), Aligned(years))
                      ELSE NoVerdict
  BY DEF Judged, Aligned
<1>. HIDE DEF past, mock
<1>2. ~Promotable(NoVerdict)
  BY DEF NoVerdict, Promotable, IsMockTape, Mock
<1>3. ~Promotable(RunOn(Mock, day, past, mock))
  BY <1>2 DEF RunOn, Verdict, Roster, IsMockTape, Promotable
<1>4. /\ \A x \in Names : Readable(x, years)
      /\ Judged(years) = RunOn(Real, day, RunDays(years), Aligned(years))
  BY <1>1, <1>2, <1>3
<1>. QED
  BY <1>2, <1>4 DEF RunOn, Passing

LEMMA IdOf == ASSUME NEW x, NEW closes, NEW wins PROVE WalkForward(x, closes, wins).id = x
<1>1. \A ret, nifty, runs : Aggregate(x, ret, nifty, runs).id = x
  BY Zenon DEF Aggregate
<1>. QED
  BY <1>1 DEF WalkForward, Scored

LEMMA JudgedVerdict ==
    ASSUME MarketTyped, NEW years, Promotable(Judged(years))
    PROVE  Judged(years) \in Verdicts
<1>1. \A v \in Passing(years) : v.id \in Variants
  BY IdOf DEF Passing
<1>2. Verdict(Real, day, Passing(years)) \in Verdicts
  BY <1>1, VerdictIs DEF MarketTyped
<1>. QED
  BY <1>2, JudgedIs

\* The newest file that can be read was saved whole.
LEMMA LoadsSaved ==
    ASSUME SavedInv, Loadable
    PROVE  Latest \in saved
<1>1. Dates # {} /\ dir[Max(Dates)] # Cut
  BY DEF Loadable
<1>2. Dates \in SUBSET Nat /\ LastDay \in Nat /\ \A d \in Dates : d <= LastDay
  BY SpanAssumption DEF SavedInv, Dates
<1>3. Max(Dates) \in Dates
  BY <1>1, <1>2, MaxOf
<1>. QED
  BY <1>1, <1>3 DEF SavedInv, Latest, Dates

\* What the service takes up was saved.
LEMMA AdoptKeeps ==
    ASSUME NEW s \in saved, saved' = saved, Adopt(s)
    PROVE  /\ gated' = TRUE
           /\ \E v \in saved' : roster' = v.roster \ Scalp /\ failing' = v.failing
BY DEF Adopt

LEMMA FileKept ==
    ASSUME SavedInv, NEW date \in 0..LastDay, NEW file, saved \subseteq saved',
           file = Cut \/ file \in saved', dir' = WithFile(date, file)
    PROVE  /\ DOMAIN dir' \subseteq 0..LastDay
           /\ \A d \in DOMAIN dir' : dir'[d] = Cut \/ dir'[d] \in saved'
<1>1. DOMAIN dir' = Dates \cup {date}
  BY DEF WithFile
<1>2. \A d \in Dates \cup {date} : dir'[d] = IF d = date THEN file ELSE dir[d]
  BY DEF WithFile
<1>. QED
  BY <1>1, <1>2 DEF SavedInv, Dates

LEMMA IdleAttempt ==
    /\ Idle \in Attempts /\ Idle.pc = "idle"
    /\ [Idle EXCEPT !.pc = "seed"] \in Attempts /\ [Idle EXCEPT !.pc = "seed"].pc = "seed"
BY DEF Idle, Attempts

LEMMA BootKeeps == ASSUME LabInv, Boot PROVE LabInv'
<1>1. /\ run' = [run EXCEPT ![Seed] = [Idle EXCEPT !.pc = "seed"]]
      /\ UNCHANGED <<day, tape, candle, dir, saved>>
      /\ IF Loadable THEN Adopt(Latest) ELSE gated' = FALSE
  BY DEF Boot, market
<1>2. run' \in [Runs \cup {Tool} -> Attempts]
      /\ \A r \in Runs \cup {Tool} : run'[r].pc = "saved" => run'[r] = run[r]
  BY <1>1, IdleAttempt, RunAssumption DEF LabInv, SavedInv
<1>3. gated' \in BOOLEAN
      /\ (gated' => \E s \in saved' : roster' = s.roster \ Scalp /\ failing' = s.failing)
  BY <1>1, LoadsSaved, AdoptKeeps DEF LabInv
<1>. QED
  BY <1>1, <1>2, <1>3, MarketSame DEF LabInv, SavedInv

LEMMA SeedKeeps == ASSUME LabInv, SeedCurrent PROVE LabInv'
<1>1. /\ run' = [run EXCEPT ![Seed] = Idle] /\ UNCHANGED <<day, tape, candle, dir, saved>>
      /\ Loadable /\ Adopt(Latest)
  BY DEF SeedCurrent, market
<1>2. run' \in [Runs \cup {Tool} -> Attempts]
      /\ \A r \in Runs \cup {Tool} : run'[r].pc = "saved" => run'[r] = run[r]
  BY <1>1, IdleAttempt, RunAssumption DEF LabInv, SavedInv
<1>3. gated' = TRUE /\ \E s \in saved' : roster' = s.roster \ Scalp /\ failing' = s.failing
  BY <1>1, LoadsSaved, AdoptKeeps DEF LabInv
<1>. QED
  BY <1>1, <1>2, <1>3, MarketSame DEF LabInv, SavedInv

LEMMA RunKeeps ==
    ASSUME LabInv, NEW r \in Runs \cup {Tool}, NEW years \in Years, RunBacktest(r, years)
    PROVE  LabInv'
<1>1. /\ run' = [run EXCEPT ![r] = IF Promotable(Judged(years))
                                   THEN [pc |-> "judged", rep |-> Judged(years)] ELSE Idle]
      /\ UNCHANGED <<day, tape, candle, dir, saved, gated, roster, failing>>
  BY DEF RunBacktest, market, service
<1>. DEFINE a == IF Promotable(Judged(years)) THEN [pc |-> "judged", rep |-> Judged(years)] ELSE Idle
<1>2. a \in Attempts /\ a.pc # "saved"
  BY IdleAttempt, JudgedVerdict DEF LabInv, Attempts
<1>. HIDE DEF a
<1>3. run' \in [Runs \cup {Tool} -> Attempts]
      /\ \A q \in Runs \cup {Tool} : run'[q].pc = "saved" => run'[q] = run[q]
  BY <1>1, <1>2 DEF LabInv, SavedInv, a
<1>. QED
  BY <1>1, <1>3, MarketSame DEF LabInv, SavedInv

LEMMA JudgedRep ==
    ASSUME SavedInv, NEW r \in Runs \cup {Tool}, run[r].pc \in {"judged", "saved"}
    PROVE  run[r].rep \in Verdicts /\ run[r].rep.date \in 0..LastDay
BY DEF SavedInv, Attempts, Verdicts

LEMMA SaveKeeps ==
    ASSUME LabInv, NEW r \in Runs \cup {Tool}, SaveRoster(r)
    PROVE  LabInv'
<1>. DEFINE snap == run[r].rep
<1>1. /\ run[r].pc = "judged" /\ UNCHANGED <<day, tape, candle, gated, roster, failing>>
  BY DEF SaveRoster, market, service
<1>2. snap \in Verdicts /\ snap.date \in 0..LastDay
  BY <1>1, JudgedRep DEF LabInv
<1>3. CASE /\ dir' = WithFile(snap.date, snap) /\ saved' = saved \cup {snap}
           /\ run' = [run EXCEPT ![r] = IF r = Tool THEN Idle ELSE [pc |-> "saved", rep |-> snap]]
  <2>. HIDE DEF snap
  <2>1. saved' \subseteq Verdicts /\ saved \subseteq saved' /\ snap \in saved'
    BY <1>2, <1>3 DEF LabInv, SavedInv
  <2>2. [pc |-> "saved", rep |-> snap] \in Attempts
    BY <1>2 DEF Attempts
  <2>3. /\ run' \in [Runs \cup {Tool} -> Attempts]
        /\ \A q \in Runs \cup {Tool} : run'[q].pc = "saved" => run'[q].rep = snap \/ run'[q] = run[q]
    BY <1>3, <2>2, IdleAttempt DEF LabInv, SavedInv
  <2>4. /\ DOMAIN dir' \subseteq 0..LastDay
        /\ \A d \in DOMAIN dir' : dir'[d] = Cut \/ dir'[d] \in saved'
    BY <1>2, <1>3, <2>1, FileKept DEF LabInv
  <2>5. \A q \in Runs \cup {Tool} : run'[q].pc = "saved" => run'[q].rep \in saved'
    BY <2>1, <2>3 DEF LabInv, SavedInv
  <2>6. gated' \in BOOLEAN
        /\ (gated' => \E s \in saved' : roster' = s.roster \ Scalp /\ failing' = s.failing)
    BY <1>1, <2>1 DEF LabInv, SavedInv
  <2>. QED
    BY <1>1, <2>1, <2>3, <2>4, <2>5, <2>6, MarketSame DEF LabInv, SavedInv
<1>4. CASE /\ run' = [run EXCEPT ![r] = Idle] /\ UNCHANGED saved
           /\ dir' = WithFile(snap.date, Cut) \/ UNCHANGED dir
  <2>. HIDE DEF snap
  <2>1. /\ run' \in [Runs \cup {Tool} -> Attempts]
        /\ \A q \in Runs \cup {Tool} : run'[q].pc = "saved" => run'[q] = run[q]
    BY <1>4, IdleAttempt DEF LabInv, SavedInv
  <2>2. /\ DOMAIN dir' \subseteq 0..LastDay
        /\ \A d \in DOMAIN dir' : dir'[d] = Cut \/ dir'[d] \in saved'
    <3>1. CASE dir' = WithFile(snap.date, Cut)
      BY <1>2, <1>4, <3>1, FileKept DEF LabInv
    <3>2. CASE UNCHANGED dir
      BY <1>4, <3>2 DEF LabInv, SavedInv
    <3>. QED
      BY <1>4, <3>1, <3>2
  <2>. QED
    BY <1>1, <1>4, <2>1, <2>2, MarketSame DEF LabInv, SavedInv
<1>. QED
  BY <1>3, <1>4 DEF SaveRoster, AfterFailure

LEMMA ApplyKeeps ==
    ASSUME LabInv, NEW r \in Runs \cup {Tool}, ApplyBacktest(r)
    PROVE  LabInv'
<1>1. /\ run[r].pc = "saved" /\ Adopt(run[r].rep)
      /\ run' = [run EXCEPT ![r] = Idle] /\ UNCHANGED <<day, tape, candle, dir, saved>>
  BY DEF ApplyBacktest, market
<1>2. run' \in [Runs \cup {Tool} -> Attempts]
      /\ \A q \in Runs \cup {Tool} : run'[q].pc = "saved" => run'[q] = run[q]
  BY <1>1, IdleAttempt DEF LabInv, SavedInv
<1>3. gated' = TRUE /\ \E s \in saved' : roster' = s.roster \ Scalp /\ failing' = s.failing
  BY <1>1, AdoptKeeps DEF LabInv, SavedInv
<1>. QED
  BY <1>1, <1>2, <1>3, MarketSame DEF LabInv, SavedInv

LEMMA CrashKeeps == ASSUME LabInv, Crash PROVE LabInv'
<1>1. /\ gated' = FALSE /\ UNCHANGED <<day, tape, candle, saved>>
      /\ run' = [r \in DOMAIN run |-> IF r = Tool THEN run[r] ELSE Idle]
  BY DEF Crash, market
<1>2. run' \in [Runs \cup {Tool} -> Attempts]
      /\ \A r \in Runs \cup {Tool} : run'[r].pc = "saved" => run'[r] = run[r]
  BY <1>1, IdleAttempt DEF LabInv, SavedInv
<1>3. /\ DOMAIN dir' \subseteq 0..LastDay
      /\ \A d \in DOMAIN dir' : dir'[d] = Cut \/ dir'[d] \in saved'
  <2>1. CASE UNCHANGED dir
    BY <1>1, <2>1 DEF LabInv, SavedInv
  <2>2. CASE \E r \in Runs : run[r].pc = "judged" /\ dir' = WithFile(run[r].rep.date, Cut)
    <3>1. PICK r \in Runs : run[r].pc = "judged" /\ dir' = WithFile(run[r].rep.date, Cut)
      BY <2>2
    <3>2. run[r].rep.date \in 0..LastDay
      BY <3>1, JudgedRep DEF LabInv
    <3>. QED
      BY <1>1, <3>1, <3>2, FileKept DEF LabInv
  <2>. QED
    BY <2>1, <2>2 DEF Crash
<1>. QED
  BY <1>1, <1>2, <1>3, MarketSame DEF LabInv, SavedInv

LEMMA LabInvariant == LabSpec => []LabInv
<1>1. Init => LabInv
  <2>. SUFFICES ASSUME Init PROVE LabInv
    OBVIOUS
  <2>1. FirstDay \in 1..LastDay /\ \A x \in Names : Shows(x, day, candle[x])
    BY SpanAssumption DEF Init, Shows
  <2>2. run \in [Runs \cup {Tool} -> Attempts] /\ \A r \in Runs \cup {Tool} : run[r].pc # "saved"
    BY IdleAttempt DEF Init
  <2>. QED
    BY <2>1, <2>2 DEF Init, LabInv, MarketTyped, SavedInv
<1>2. LabInv /\ [Next]_vars => LabInv'
  <2>. SUFFICES ASSUME LabInv, [Next]_vars PROVE LabInv'
    OBVIOUS
  <2>1. CASE NextDay \/ Quote \/ CloseMarket
    <3>0. day \in 1..LastDay /\ LastDay \in Nat
      BY SpanAssumption DEF LabInv, MarketTyped
    <3>1. /\ day' \in 1..LastDay /\ tape' = tape
          /\ \A x \in Names : \/ candle'[x] = 0
                              \/ candle'[x] = tape[x][day] /\ day' = day
                              \/ /\ tape[x][day] > 0 /\ day' = day
                                 /\ \E m \in Mornings : candle'[x] = m[x][day]
      <4>1. CASE NextDay
        <5>1. day' = day + 1 /\ day < LastDay /\ tape' = tape /\ candle' = [x \in Names |-> 0]
          BY <4>1 DEF NextDay
        <5>2. day' \in 1..LastDay
          BY <3>0, <5>1
        <5>. QED
          BY <5>1, <5>2
      <4>2. CASE Quote
        BY <3>0, <4>2 DEF Quote
      <4>3. CASE CloseMarket
        BY <3>0, <4>3 DEF CloseMarket
      <4>. QED
        BY <2>1, <4>1, <4>2, <4>3
    <3>2. \A x \in Names : Shows(x, day, candle[x])'
      <4>1. \A x \in Names : /\ tape[x][day] \in Nat
                             /\ \A m \in Mornings : m[x][day] \in Nat
        BY TapeAssumption DEF LabInv, MarketTyped
      <4>. QED
        BY <3>1, <4>1 DEF Shows
    <3>3. UNCHANGED <<dir, saved, run, gated, roster, failing>>
      BY <2>1 DEF NextDay, Quote, CloseMarket, service
    <3>. QED
      BY <3>1, <3>2, <3>3 DEF LabInv, MarketTyped, SavedInv
  <2>2. CASE TokenLapses \/ UNCHANGED vars
    <3>1. UNCHANGED <<day, tape, candle, dir, saved, run, gated, roster, failing>>
      BY <2>2 DEF TokenLapses, vars, market, service
    <3>. QED
      BY <3>1, MarketSame DEF LabInv, SavedInv
  <2>. QED
    BY <2>1, <2>2, BootKeeps, SeedKeeps, CrashKeeps, RunKeeps, SaveKeeps, ApplyKeeps DEF Next
<1>. QED
  BY <1>1, <1>2, PTL DEF LabSpec

\* For every universe, exchange, grid, set of runs and number of deaths and
\* failed saves, what trades on evidence was judged on the exchange's tape,
\* saved whole and taken up as it was saved, and none of it missed the gate.
THEOREM AdoptedAlwaysSaved == LabSpec => []AdoptedWasSaved
<1>1. LabInv => AdoptedWasSaved
  <2>. SUFFICES ASSUME LabInv, gated
                PROVE  /\ \E s \in saved : s.tape = Real /\ roster = s.roster \ Scalp
                                           /\ failing = s.failing
                       /\ Ids \cap failing = {}
    BY DEF AdoptedWasSaved
  <2>1. PICK s \in saved : roster = s.roster \ Scalp /\ failing = s.failing
    BY DEF LabInv, SavedInv
  <2>2. s.tape = Real /\ s.roster \cap s.failing = {}
    BY DEF LabInv, SavedInv, Verdicts
  <2>3. Ids = roster
    BY DEF Ids
  <2>. QED
    BY <2>1, <2>2, <2>3
<1>. QED
  BY <1>1, LabInvariant, PTL

-----------------------------------------------------------------------------
(* Days in order.                                                          *)

Rank(S, d) == Cardinality({e \in S : e <= d})

LEMMA RankType ==
    ASSUME NEW S \in SUBSET Nat, IsFiniteSet(S), NEW d \in S
    PROVE  Rank(S, d) \in 1..Cardinality(S)
<1>1. {e \in S : e <= d} \in SUBSET S /\ d \in {e \in S : e <= d}
  OBVIOUS
<1>2. IsFiniteSet({e \in S : e <= d}) /\ Rank(S, d) <= Cardinality(S)
  BY <1>1, FS_Subset DEF Rank
<1>3. Rank(S, d) \in Nat /\ Rank(S, d) # 0
  BY <1>1, <1>2, FS_CardinalityType, FS_EmptySet DEF Rank
<1>. QED
  BY <1>2, <1>3, FS_CardinalityType

LEMMA RankGrows ==
    ASSUME NEW S \in SUBSET Nat, IsFiniteSet(S), NEW d \in S, NEW e \in S, d < e
    PROVE  Rank(S, d) < Rank(S, e)
<1>. DEFINE A == {x \in S : x <= d}
            B == {x \in S : x <= e}
<1>0. d \in Nat /\ e \in Nat /\ \A x \in S : x \in Nat
  OBVIOUS
<1>1. A \subseteq B /\ e \in B /\ e \notin A
  <2>1. \A x \in S : x <= d => x <= e
    BY <1>0
  <2>2. e <= e /\ ~(e <= d)
    BY <1>0
  <2>. QED
    BY <2>1, <2>2
<1>2. IsFiniteSet(B) /\ B \in SUBSET S
  BY FS_Subset
<1>. HIDE DEF A, B
<1>3. Cardinality(A) <= Cardinality(B) /\ Cardinality(A) # Cardinality(B) /\ IsFiniteSet(A)
  BY <1>1, <1>2, FS_Subset
<1>4. Cardinality(A) \in Nat /\ Cardinality(B) \in Nat
  BY <1>2, <1>3, FS_CardinalityType
<1>. QED
  BY <1>3, <1>4 DEF Rank, A, B

\* There is a day of each rank.
LEMMA RankExists ==
    ASSUME NEW S \in SUBSET Nat, IsFiniteSet(S), NEW k \in 1..Cardinality(S)
    PROVE  \E d \in S : Rank(S, d) = k
<1>. DEFINE T == {d \in S : Rank(S, d) >= k}
<1>0. Cardinality(S) \in Nat /\ k \in Nat /\ k >= 1 /\ k <= Cardinality(S)
  BY FS_CardinalityType
<1>1. \A d \in S : Rank(S, d) \in Nat
  BY RankType, <1>0
\* A part of S has a greatest day, and is what lies below it.
<1>2. ASSUME NEW P \in SUBSET S, P # {}
      PROVE  \E f \in P : \A e \in P : e <= f
  <2>1. IsFiniteSet(P) /\ Cardinality(P) \in Nat
    BY FS_Subset, FS_CardinalityType
  <2>. DEFINE ranks == {n \in Nat : \E e \in P : n = Cardinality(S) - Rank(S, e)}
  <2>2. \A e \in P : Cardinality(S) - Rank(S, e) \in Nat /\ Rank(S, e) \in Nat
    BY <1>0, RankType
  <2>3. ranks \in SUBSET Nat /\ ranks # {}
    <3>1. PICK e \in P : TRUE
      BY <1>2
    <3>2. Cardinality(S) - Rank(S, e) \in ranks
      BY <2>2, <3>1
    <3>. QED
      BY <3>2
  <2>4. PICK n \in ranks : \A m \in ranks : n <= m
    BY <2>3, LeastNumber
  <2>5. PICK f \in P : n = Cardinality(S) - Rank(S, f)
    OBVIOUS
  <2>6. ASSUME NEW e \in P, ~(e <= f) PROVE FALSE
    <3>1. Rank(S, f) < Rank(S, e)
      BY <2>6, RankGrows
    <3>2. Cardinality(S) - Rank(S, e) \in ranks
      BY <2>2
    <3>3. n <= Cardinality(S) - Rank(S, e)
      BY <2>4, <3>2
    <3>. QED
      BY <1>0, <2>2, <2>5, <3>1, <3>3
  <2>. QED
    BY <2>6
<1>3. T # {}
  <2>1. S # {}
    BY <1>0, FS_EmptySet
  <2>2. PICK f \in S : \A e \in S : e <= f
    BY <1>2, <2>1
  <2>3. {e \in S : e <= f} = S
    BY <2>2
  <2>. QED
    BY <1>0, <2>3 DEF Rank
<1>4. PICK d \in T : \A e \in T : d <= e
  BY <1>3, LeastNumber
<1>5. ASSUME Rank(S, d) # k PROVE FALSE
  <2>. DEFINE P == {e \in S : e <= d} \ {d}
  <2>1. IsFiniteSet({e \in S : e <= d})
    BY FS_Subset
  <2>2. Cardinality(P) = Rank(S, d) - 1 /\ P \in SUBSET S
    BY SMTT(60), <2>1, FS_RemoveElement DEF Rank
  <2>3. Rank(S, d) \in Nat /\ Rank(S, d) > k
    BY <1>0, <1>1, <1>5
  <2>. HIDE DEF T
  <2>4. P # {}
    BY <1>0, <2>2, <2>3, FS_EmptySet
  <2>5. PICK f \in P : \A e \in P : e <= f
    BY <1>2, <2>2, <2>4
  <2>6. {e \in S : e <= f} = P
    <3>0. f \in S /\ d \in S /\ f <= d /\ f # d
      BY DEF T
    <3>1. f \in Nat /\ d \in Nat /\ f <= d /\ f # d /\ \A e \in S : e \in Nat
      BY <3>0
    <3>2. ASSUME NEW e \in S PROVE e <= f <=> e \in P
      BY <2>5, <3>1
    <3>. QED
      BY <2>2, <3>2
  <2>7. Rank(S, f) = Rank(S, d) - 1
    BY <2>2, <2>6 DEF Rank
  <2>8. f \in T
    BY <1>0, <2>3, <2>7 DEF T
  <2>. QED
    BY <1>4, <2>8 DEF T
<1>. QED
  BY <1>4, <1>5

\* The days of a finite set, in order.
LEMMA InOrderIs ==
    ASSUME NEW S \in SUBSET Nat, IsFiniteSet(S)
    PROVE  /\ InOrder(S) \in Seq(S) /\ Len(InOrder(S)) = Cardinality(S)
           /\ DOMAIN InOrder(S) = 1..Cardinality(S)
           /\ ToSet(InOrder(S)) = S
           /\ \A k, l \in 1..Cardinality(S) : k < l => InOrder(S)[k] < InOrder(S)[l]
<1>. DEFINE s == InOrder(S)
            n == Cardinality(S)
<1>1. n \in Nat
  BY FS_CardinalityType
<1>2. s = [k \in 1..n |-> CHOOSE d \in S : Rank(S, d) = k]
  <2>. DEFINE rank == [d \in S |-> Rank(S, d)]
  <2>1. s = [k \in 1..n |-> CHOOSE d \in S : rank[d] = k]
    BY Zenon DEF InOrder, Rank
  <2>2. \A d \in S : rank[d] = Rank(S, d)
    OBVIOUS
  <2>3. \A k \in 1..n : (CHOOSE d \in S : rank[d] = k) = (CHOOSE d \in S : Rank(S, d) = k)
    BY <2>2
  <2>. HIDE DEF s, n, rank
  <2>. QED
    BY <2>1, <2>3
<1>3. \A k \in 1..n : s[k] \in S /\ Rank(S, s[k]) = k
  BY <1>2, RankExists
<1>. HIDE DEF s, n
<1>4. s \in [1..n -> S]
  BY <1>2, <1>3
<1>5. s \in Seq(S) /\ Len(s) = n
  BY <1>1, <1>4
<1>6. ASSUME NEW k \in 1..n, NEW l \in 1..n, k < l PROVE s[k] < s[l]
  <2>1. s[k] \in Nat /\ s[l] \in Nat
    BY <1>3
  <2>2. CASE s[l] < s[k]
    <3>1. l < k
      BY <1>3, <2>2, RankGrows
    <3>. QED
      BY <1>6, <3>1
  <2>3. CASE s[l] = s[k]
    BY <1>1, <1>3, <1>6, <2>3
  <2>. QED
    BY <2>1, <2>2, <2>3
<1>7. ASSUME NEW d \in S PROVE \E k \in 1..n : s[k] = d
  <2>1. Rank(S, d) \in 1..n
    BY RankType DEF n
  <2>2. s[Rank(S, d)] \in S /\ Rank(S, s[Rank(S, d)]) = Rank(S, d)
    BY <1>3, <2>1
  <2>3. s[Rank(S, d)] = d
    <3>1. d \in Nat /\ s[Rank(S, d)] \in Nat
      BY <2>2
    <3>2. Rank(S, d) \in Nat
      BY <1>1, <2>1
    <3>. QED
      BY <2>2, <3>1, <3>2, RankGrows
  <2>. QED
    BY <2>1, <2>3
<1>8. ToSet(s) = S
  BY <1>3, <1>4, <1>7 DEF ToSet
<1>. QED
  BY <1>4, <1>5, <1>6, <1>8 DEF s, n

-----------------------------------------------------------------------------
(* The closes a run judges.                                                *)

LEMMA TapeTyped ==
    ASSUME MarketTyped
    PROVE  /\ tape \in [Names -> [1..LastDay -> Nat]] /\ LastDay \in Nat
           /\ day \in Nat /\ 1 <= day /\ day <= LastDay
BY TapeAssumption, SpanAssumption DEF MarketTyped

LEMMA SomeDays ==
    ASSUME NEW S \in SUBSET (1..LastDay)
    PROVE  S \in SUBSET Nat /\ IsFiniteSet(S) /\ \A d \in S : d <= LastDay
<1>1. LastDay \in Nat
  BY SpanAssumption
<1>2. IsFiniteSet(1..LastDay)
  BY <1>1, FS_Interval
<1>3. \A d \in 1..LastDay : d \in Nat /\ d <= LastDay
  BY <1>1
<1>. QED
  BY <1>2, <1>3, FS_Subset

\* A name's file: where it begins and ends, and what its last day showed when it
\* was fetched.
IsFile(x, h) ==
    /\ h.from \in Int /\ h.to \in 1..LastDay /\ h.to <= day
    /\ Shows(x, h.to, h.last)

CacheInv == \A x \in Names : cache[x] # None => IsFile(x, cache[x])

\* What is on disk of a name is what the exchange printed, but for the last day:
\* that may be a candle of before the close, or missing.
LEMMA BarsAre ==
    ASSUME MarketTyped, NEW x \in Names, NEW h, IsFile(x, h)
    PROVE  /\ \A d \in 1..LastDay :
                 h.from <= d /\ d < h.to /\ d \in Printed(tape[x]) => d \in Printed(Bars(x, h))
           /\ \A d \in Printed(Bars(x, h)) :
                 /\ d \in 1..LastDay /\ h.from <= d /\ d <= h.to /\ d <= day
                 /\ d \in Printed(tape[x]) /\ Bars(x, h)[d] \in Nat \ {0}
                 /\ d < h.to => Bars(x, h)[d] = tape[x][d]
                 /\ \/ Bars(x, h)[d] = tape[x][d]
                    \/ \E m \in Mornings : Bars(x, h)[d] = m[x][d]
<1>. DEFINE bars == Bars(x, h)
<1>1. DOMAIN bars = 1..LastDay
  BY DEF Bars, Prints
<1>2. \A d \in 1..LastDay :
         bars[d] = IF ~(h.from <= d /\ d <= h.to /\ d <= day) THEN 0
                   ELSE IF d = h.to THEN h.last ELSE tape[x][d]
  BY DEF Bars, Prints
<1>. HIDE DEF bars
<1>3. /\ tape[x] \in [1..LastDay -> Nat] /\ LastDay \in Nat /\ day \in Nat
      /\ h.from \in Int /\ h.to \in Nat /\ h.to <= day
  BY TapeTyped DEF IsFile
<1>4. ASSUME NEW d \in 1..LastDay, h.from <= d, d < h.to, d \in Printed(tape[x])
      PROVE  d \in Printed(bars)
  <2>1. d <= day /\ d # h.to /\ d <= h.to /\ tape[x][d] > 0
    BY <1>3, <1>4 DEF Printed
  <2>2. bars[d] = tape[x][d]
    BY <1>2, <1>4, <2>1
  <2>. QED
    BY <1>1, <2>1, <2>2 DEF Printed
<1>5. ASSUME NEW d \in Printed(bars)
      PROVE  /\ d \in 1..LastDay /\ h.from <= d /\ d <= h.to /\ d <= day
             /\ d \in Printed(tape[x]) /\ bars[d] \in Nat \ {0}
             /\ d < h.to => bars[d] = tape[x][d]
             /\ bars[d] = tape[x][d] \/ \E m \in Mornings : bars[d] = m[x][d]
  <2>1. d \in 1..LastDay /\ bars[d] > 0
    BY <1>1 DEF Printed
  <2>2. h.from <= d /\ d <= h.to /\ d <= day
    BY <1>2, <2>1
  <2>3. tape[x][d] \in Nat /\ DOMAIN tape[x] = 1..LastDay
    BY <1>3, <2>1
  <2>4. CASE d = h.to
    <3>1. bars[d] = h.last /\ Shows(x, d, h.last)
      BY <1>2, <2>1, <2>2, <2>4 DEF IsFile
    <3>2. /\ bars[d] \in Nat /\ tape[x][d] > 0
          /\ bars[d] = tape[x][d] \/ \E m \in Mornings : bars[d] = m[x][d]
      BY <2>1, <3>1 DEF Shows
    <3>3. ~(d < h.to)
      BY <1>3, <2>4
    <3>. QED
      BY <2>1, <2>2, <2>3, <3>2, <3>3 DEF Printed
  <2>5. CASE d # h.to
    <3>1. bars[d] = tape[x][d]
      BY <1>2, <2>1, <2>2, <2>5
    <3>. QED
      BY <2>1, <2>2, <2>3, <3>1 DEF Printed
  <2>. QED
    BY <2>4, <2>5
<1>. QED
  BY <1>4, <1>5 DEF bars

\* Whatever was cached, a fetched file begins and ends near what was asked for; one
\* that was not fetched anew shows a print of the last days.
LEMMA FetchedIs ==
    ASSUME MarketTyped, CacheInv, NEW x \in Names, NEW from \in Int,
           NEW to \in 1..LastDay, to <= day,
           NEW h, h = Fetched(x, from, to), h # None
    PROVE  /\ IsFile(x, h) /\ h.from <= from + Slack /\ h.to >= to - Lag
           /\ h.to = to \/ \E d \in Printed(Bars(x, h)) : d >= to - Lag
<1>0. Slack \in Nat /\ Lag \in Nat /\ LastDay \in Nat /\ to \in Nat
  BY TapeTyped, SpanAssumption
<1>2. CASE Covers(x, from, to)
  <2>1. h = cache[x] /\ h # None /\ CachedBars(x) = Bars(x, h)
    BY <1>2 DEF Fetched, CachedBars
  <2>2. IsFile(x, h)
    BY <2>1 DEF CacheInv
  <2>3. PICK first \in Printed(Bars(x, h)) : first <= from + Slack
    BY <1>2, <2>1 DEF Covers
  <2>4. PICK last \in Printed(Bars(x, h)) : last >= to - Lag
    BY <1>2, <2>1 DEF Covers
  <2>5. /\ first \in 1..LastDay /\ h.from <= first
        /\ last \in 1..LastDay /\ last <= h.to
    BY <2>2, <2>3, <2>4, BarsAre
  <2>6. h.from \in Int /\ h.to \in Int /\ first \in Int /\ last \in Int
    BY <2>2, <2>5 DEF IsFile
  <2>7. h.from <= from + Slack /\ h.to >= to - Lag
    BY <1>0, <2>3, <2>4, <2>5, <2>6
  <2>. QED
    BY <2>2, <2>4, <2>7
<1>3. CASE ~Covers(x, from, to)
  <2>1. h = DailyHistory(x, from, to)
    BY <1>3 DEF Fetched
  <2>2. h.from = from /\ h.to = to /\ h.last = Shown(x, to)
    BY <2>1 DEF DailyHistory
  <2>3. Shows(x, to, Shown(x, to))
    <3>1. Shows(x, day, candle[x])
      BY DEF MarketTyped
    <3>2. tape[x][to] \in Nat
      BY TapeTyped
    <3>. QED
      BY <3>1, <3>2 DEF Shown, Shows
  <2>4. from <= from + Slack /\ to >= to - Lag
    BY <1>0
  <2>. QED
    BY <2>2, <2>3, <2>4 DEF IsFile
<1>. QED
  BY <1>2, <1>3

LEMMA FromType == ASSUME MarketTyped, NEW years \in Years PROVE From(years) \in Int
<1>. DEFINE m == years * Year
<1>1. m \in Int
  BY RunAssumption, LabAssumption
<1>2. From(years) = day - m /\ day \in Int
  BY TapeTyped DEF From
<1>. HIDE DEF m
<1>. QED
  BY <1>1, <1>2

LEMMA IndexIs ==
    ASSUME MarketTyped, CacheInv, NEW years \in Years, NEW h, h = IndexHas(years), h # None
    PROVE  /\ IsFile(Index, h) /\ h.from <= From(years) + Slack /\ h.to >= day - Lag
           /\ h.to = day \/ \E d \in Printed(Bars(Index, h)) : d >= day - Lag
<1>. DEFINE from == From(years)
<1>1. Index \in Names /\ from \in Int /\ day \in 1..LastDay /\ day <= day
  BY TapeTyped, FromType DEF Names, MarketTyped
<1>2. h = Fetched(Index, from, day)
  BY DEF IndexHas
<1>. HIDE DEF from
<1>3. /\ IsFile(Index, h) /\ h.from <= from + Slack /\ h.to >= day - Lag
      /\ h.to = day \/ \E d \in Printed(Bars(Index, h)) : d >= day - Lag
  BY <1>1, <1>2, FetchedIs
<1>. QED
  BY <1>3 DEF from

\* The sessions of a run: what the index's bars show, in order.
Sessions(years) ==
    {d \in Printed(Bars(Index, IndexHas(years))) : From(years) <= d /\ d <= day}

LEMMA RunDaysIs ==
    ASSUME MarketTyped, CacheInv, NEW years \in Years, RunDays(years) # <<>>
    PROVE  /\ IndexHas(years) # None
           /\ Sessions(years) \in SUBSET (1..LastDay)
           /\ RunDays(years) \in Seq(Sessions(years))
           /\ RunDays(years) \in [1..Len(RunDays(years)) -> Sessions(years)]
           /\ Len(RunDays(years)) \in Nat \ {0}
           /\ ToSet(RunDays(years)) = Sessions(years)
           /\ \A k, l \in 1..Len(RunDays(years)) : k < l => RunDays(years)[k] < RunDays(years)[l]
<1>1. IndexHas(years) # None /\ RunDays(years) = InOrder(Sessions(years))
  BY DEF RunDays, DaysOf, Sessions
<1>2. Index \in Names /\ IsFile(Index, IndexHas(years))
  BY <1>1, IndexIs DEF Names
<1>3. Sessions(years) \in SUBSET (1..LastDay)
  BY <1>2, BarsAre DEF Sessions
<1>4. Sessions(years) \in SUBSET Nat /\ IsFiniteSet(Sessions(years))
  BY <1>3, SomeDays
<1>. HIDE DEF Sessions
<1>5. /\ RunDays(years) \in Seq(Sessions(years)) /\ ToSet(RunDays(years)) = Sessions(years)
      /\ Len(RunDays(years)) = Cardinality(Sessions(years))
      /\ \A k, l \in 1..Cardinality(Sessions(years)) : k < l => RunDays(years)[k] < RunDays(years)[l]
  BY <1>1, <1>4, InOrderIs
<1>6. Len(RunDays(years)) \in Nat \ {0}
  BY <1>5, EmptySeq, LenProperties
<1>7. RunDays(years) \in [1..Len(RunDays(years)) -> Sessions(years)]
  BY <1>5, LenProperties
<1>. QED
  BY <1>1, <1>3, <1>5, <1>6, <1>7

\* An equity is asked for between the first session and the last.
LEMMA EquityIs ==
    ASSUME MarketTyped, CacheInv, NEW years \in Years, NEW x \in Names, x # Index,
           RunDays(years) # <<>>, NEW h, h = Has(x, years), h # None
    PROVE  /\ IsFile(x, h) /\ h.from <= RunDays(years)[1] - 1 + Slack
           /\ h.to >= Last(RunDays(years)) - Lag
           /\ RunDays(years)[1] \in Nat /\ Last(RunDays(years)) \in Nat
<1>. DEFINE days == RunDays(years)
            from == days[1] - 1
            to == Last(days)
<1>1. /\ Len(days) \in Nat \ {0} /\ days \in [1..Len(days) -> Sessions(years)]
      /\ Sessions(years) \in SUBSET (1..LastDay)
  BY RunDaysIs
<1>2. \A d \in Sessions(years) : d <= day
  BY DEF Sessions
<1>3. days[1] \in 1..LastDay /\ to \in 1..LastDay /\ to <= day
  BY <1>1, <1>2 DEF Last
<1>4. h = Fetched(x, from, to)
  BY DEF Has
<1>5. from \in Int /\ to \in Nat /\ days[1] \in Nat
  BY <1>3
<1>. HIDE DEF days, from, to
<1>6. IsFile(x, h) /\ h.from <= from + Slack /\ h.to >= to - Lag
  BY <1>3, <1>4, <1>5, FetchedIs
<1>. QED
  BY <1>5, <1>6 DEF days, from, to

LEMMA HasIs ==
    ASSUME MarketTyped, CacheInv, NEW years \in Years, NEW x \in Names,
           RunDays(years) # <<>>, Has(x, years) # None
    PROVE  IsFile(x, Has(x, years))
<1>1. CASE x = Index
  <2>1. Has(x, years) = IndexHas(years)
    BY <1>1 DEF Has
  <2>. QED
    BY <1>1, <2>1, IndexIs
<1>2. CASE x # Index
  BY <1>2, EquityIs
<1>. QED
  BY <1>1, <1>2

\* What is cached stays a file, whatever is fetched over it.
LEMMA CacheStep ==
    ASSUME LabInv, CacheInv, [Next]_vars
    PROVE  CacheInv'
<1>1. ASSUME NEW r \in Runs \cup {Tool}, NEW years \in Years, RunBacktest(r, years)
      PROVE  CacheInv'
  <2>1. cache' \in CacheAfter(years) /\ UNCHANGED <<day, tape>>
    BY <1>1 DEF RunBacktest, market
  <2>2. \A x \in Names : \/ cache'[x] = cache[x]
                       \/ /\ cache'[x] = Has(x, years) /\ Has(x, years) # None
                          /\ RunDays(years) # <<>>
    <3>. DEFINE kept(s) == [x \in Names |-> IF x \in s /\ Has(x, years) # None THEN Has(x, years)
                                           ELSE cache[x]]
    <3>1. cache' = cache \/ (RunDays(years) # <<>> /\ \E s : cache' = kept(s))
      BY <2>1 DEF CacheAfter
    <3>2. CASE cache' = cache
      BY <3>2
    <3>3. CASE RunDays(years) # <<>> /\ \E s : cache' = kept(s)
      BY <3>3
    <3>. QED
      BY <3>1, <3>2, <3>3
  <2>3. \A x \in Names : cache'[x] # None => IsFile(x, cache'[x])
    BY <2>2, HasIs DEF CacheInv, LabInv
  <2>4. \A x \in Names : cache'[x] # None => IsFile(x, cache[x])'
    BY <2>1, <2>3 DEF IsFile, Shows
  <2>. QED
    BY <2>4 DEF CacheInv
<1>2. CASE UNCHANGED cache /\ tape' = tape /\ day' \in {day, day + 1}
  <2>1. \A x \in Names : cache[x] # None => IsFile(x, cache[x])'
    <3>. SUFFICES ASSUME NEW x \in Names, cache[x] # None PROVE IsFile(x, cache[x])'
      OBVIOUS
    <3>1. IsFile(x, cache[x])
      BY DEF CacheInv
    <3>2. cache[x].to <= day'
      BY <1>2, <3>1, SpanAssumption DEF IsFile, LabInv, MarketTyped
    <3>. QED
      BY <1>2, <3>1, <3>2 DEF IsFile, Shows
  <2>. QED
    BY <1>2, <2>1 DEF CacheInv
<1>3. ASSUME NEW r \in Runs \cup {Tool}, SaveRoster(r) \/ ApplyBacktest(r)
      PROVE  UNCHANGED <<cache, day, tape>>
  BY <1>3 DEF SaveRoster, ApplyBacktest, market
<1>4. ASSUME Boot \/ SeedCurrent \/ Crash \/ TokenLapses \/ UNCHANGED vars
      PROVE  UNCHANGED <<cache, day, tape>>
  BY <1>4 DEF Boot, SeedCurrent, Crash, TokenLapses, vars, market
<1>5. ASSUME Quote \/ CloseMarket \/ NextDay
      PROVE  UNCHANGED <<cache, tape>> /\ (day' = day \/ day' = day + 1)
  BY <1>5 DEF Quote, CloseMarket, NextDay
<1>. QED
  BY <1>1, <1>2, <1>3, <1>4, <1>5 DEF Next

LEMMA CacheInvariant == LabSpec => []CacheInv
<1>1. Init => CacheInv
  BY DEF Init, CacheInv
<1>2. LabInv /\ CacheInv /\ [Next]_vars => CacheInv'
  BY CacheStep
<1>. QED
  BY <1>1, <1>2, LabInvariant, PTL DEF LabSpec

\* Whose close stands for a day: the last print, or else the first.
LEMMA SourceIs ==
    ASSUME NEW bars, NEW days, NEW d \in Nat,
           NEW P, P = Printed(bars) \cap ToSet(days), P \in SUBSET (1..LastDay), P # {}
    PROVE  /\ SourceDay(bars, days, d) \in P
           /\ \A e \in P : e <= d => e <= SourceDay(bars, days, d) /\ SourceDay(bars, days, d) <= d
           /\ (\A e \in P : e > d) => \A e \in P : SourceDay(bars, days, d) <= e
<1>. DEFINE past == {e \in P : e <= d}
<1>1. SourceDay(bars, days, d) = IF past # {} THEN Max(past) ELSE Min(P)
  BY DEF SourceDay
<1>2. P \in SUBSET Nat /\ \A e \in P : e <= LastDay
  BY SomeDays
<1>3. CASE past = {}
  <2>1. Min(P) \in P /\ \A e \in P : Min(P) <= e
    BY <1>2, MinOf
  <2>. QED
    BY <1>1, <1>3, <2>1
<1>4. CASE past # {}
  <2>1. past \in SUBSET Nat /\ \A e \in past : e <= d
    BY <1>2
  <2>2. Max(past) \in past /\ \A e \in past : Max(past) >= e
    BY <1>4, <2>1, MaxOf
  <2>3. SourceDay(bars, days, d) \in past /\ \A e \in past : e <= SourceDay(bars, days, d)
    BY <1>1, <1>2, <1>4, <2>2
  <2>4. ~(\A e \in P : e > d)
    BY <1>2, <2>1, <2>3
  <2>. QED
    BY <2>3, <2>4
<1>. QED
  BY <1>3, <1>4

\* A later day has no earlier source.
LEMMA SourceGrows ==
    ASSUME NEW bars, NEW days, NEW d \in Nat, NEW dd \in Nat, d <= dd,
           NEW P, P = Printed(bars) \cap ToSet(days), P \in SUBSET (1..LastDay), P # {}
    PROVE  SourceDay(bars, days, d) <= SourceDay(bars, days, dd)
<1>. DEFINE s == SourceDay(bars, days, d)
            t == SourceDay(bars, days, dd)
<1>0. P \in SUBSET Nat
  BY SomeDays
<1>1. s \in P /\ t \in P
  BY SourceIs
<1>2. CASE \E e \in P : e <= d
  <2>1. s <= d
    BY <1>2, SourceIs
  <2>2. s <= dd
    BY <1>0, <1>1, <2>1
  <2>. QED
    BY <1>1, <2>2, SourceIs
<1>3. CASE \A e \in P : e > d
  BY <1>1, <1>3, SourceIs
<1>. QED
  BY <1>0, <1>2, <1>3

\* The day whose close a readable name is judged by.
SourceAt(x, years, k) == SourceDay(RunBars(x, years), RunDays(years), RunDays(years)[k])

LEMMA AlignedIs ==
    ASSUME MarketTyped, CacheInv, NEW x \in Names, NEW years \in Years, Readable(x, years)
    PROVE  /\ Aligned(years)[x] \in [1..Len(RunDays(years)) -> Nat \ {0}]
           /\ \A k \in 1..Len(RunDays(years)) :
                 /\ SourceAt(x, years, k) \in Printed(tape[x])
                 /\ Aligned(years)[x][k] = RunBars(x, years)[SourceAt(x, years, k)]
                 /\ \/ Aligned(years)[x][k] = tape[x][SourceAt(x, years, k)]
                    \/ \E m \in Mornings : Aligned(years)[x][k] = m[x][SourceAt(x, years, k)]
           /\ \A k, l \in 1..Len(RunDays(years)) :
                 k <= l => /\ SourceAt(x, years, k) <= SourceAt(x, years, l)
                           /\ SourceAt(x, years, k) < SourceAt(x, years, l)
                                 => Aligned(years)[x][k] = tape[x][SourceAt(x, years, k)]
<1>. DEFINE days == RunDays(years)
            h == Has(x, years)
            bars == RunBars(x, years)
            P == Printed(bars) \cap ToSet(days)
            n == Len(days)
            source(k) == SourceDay(bars, days, days[k])
<1>1. days # <<>> /\ P # {} /\ h # None
  BY DEF Readable, TooThin, RunBars
<1>2. /\ days \in [1..n -> Sessions(years)] /\ Sessions(years) \in SUBSET (1..LastDay)
      /\ \A k, l \in 1..n : k < l => days[k] < days[l]
      /\ n \in Nat
  BY <1>1, RunDaysIs
<1>3. \A k \in 1..n : days[k] \in Nat
  BY <1>2, SomeDays
<1>4. IsFile(x, h) /\ bars = Bars(x, h)
  BY <1>1, HasIs DEF RunBars
<1>5. Aligned(years)[x] = [k \in 1..n |-> bars[source(k)]]
  BY <1>2 DEF Aligned, Closes
<1>. HIDE DEF days, bars, n, h
<1>6. h.to \in Nat
  BY TapeTyped, <1>4 DEF IsFile
<1>7. ASSUME NEW d \in P
      PROVE  /\ d \in 1..LastDay /\ d <= h.to /\ d \in Printed(tape[x]) /\ bars[d] \in Nat \ {0}
             /\ d < h.to => bars[d] = tape[x][d]
             /\ bars[d] = tape[x][d] \/ \E m \in Mornings : bars[d] = m[x][d]
  BY <1>4, BarsAre
<1>8. P \in SUBSET (1..LastDay)
  BY <1>7
<1>. HIDE DEF P
<1>9. \A k \in 1..n : source(k) \in P
  BY <1>1, <1>3, <1>8, SourceIs DEF P
<1>10. Aligned(years)[x] \in [1..n -> Nat \ {0}]
  BY <1>5, <1>7, <1>9
<1>11. ASSUME NEW k \in 1..n, NEW l \in 1..n, k <= l
       PROVE  /\ source(k) <= source(l)
              /\ source(k) < source(l) => bars[source(k)] = tape[x][source(k)]
  <2>1. days[k] <= days[l] /\ days[k] \in Nat /\ days[l] \in Nat
    BY SMTT(60), <1>2, <1>3, <1>11
  <2>2. source(k) <= source(l)
    BY <1>1, <1>8, <2>1, SourceGrows DEF P
  <2>3. source(k) \in P /\ source(l) \in P /\ P \in SUBSET Nat
    BY <1>8, <1>9, SomeDays
  <2>. HIDE DEF source
  <2>4. source(k) < source(l) => source(k) < h.to
    <3>. DEFINE a == source(k)
                b == source(l)
    <3>1. a \in Nat /\ b \in Nat /\ b <= h.to
      BY <1>7, <2>3
    <3>. HIDE DEF a, b
    <3>2. a < b => a < h.to
      BY <1>6, <3>1
    <3>. QED
      BY <3>2 DEF a, b
  <2>. QED
    BY <1>7, <2>2, <2>3, <2>4
<1>. HIDE DEF source
<1>12. \A k \in 1..n : Aligned(years)[x][k] = bars[source(k)]
  BY <1>5
<1>13. \A k \in 1..n : SourceAt(x, years, k) = source(k)
  BY DEF SourceAt, source, days, bars
<1>14. ASSUME NEW k \in 1..n
       PROVE  /\ source(k) \in Printed(tape[x])
              /\ bars[source(k)] = tape[x][source(k)]
                    \/ \E m \in Mornings : bars[source(k)] = m[x][source(k)]
  BY <1>7, <1>9
<1>. QED
  BY <1>10, <1>11, <1>12, <1>13, <1>14 DEF days, bars, n

-----------------------------------------------------------------------------
(* Walks over days: a value for the day before the first, and for each     *)
(* day a step from the value of the day before it.                         *)

Steps(b, F, base, lo, hi) ==
    b[lo - 1] = base /\ \A k \in lo..hi : b[k] = F[<<k, b[k - 1]>>]

LEMMA StepsExist ==
    ASSUME NEW S, NEW base \in S, NEW lo \in Int, NEW hi \in Int, lo - 1 <= hi,
           NEW F \in [(lo..hi) \X S -> S]
    PROVE  \E b \in [lo - 1..hi -> S] : Steps(b, F, base, lo, hi)
<1>. DEFINE top(n) == lo - 1 + n
            bad == {n \in Nat : top(n) <= hi /\ \A b \in [lo - 1..top(n) -> S] :
                                                   ~Steps(b, F, base, lo, top(n))}
<1>1. bad = {}
  <2>. SUFFICES ASSUME bad # {} PROVE FALSE
    OBVIOUS
  <2>1. PICK n \in bad : \A m \in bad : n <= m
    BY LeastNumber
  <2>2. n \in Nat /\ top(n) <= hi /\ top(n) \in Int
    OBVIOUS
  <2>3. CASE n = 0
    <3>. DEFINE b == [k \in lo - 1..lo - 1 |-> base]
    <3>1. top(n) = lo - 1 /\ lo - 1 \in lo - 1..lo - 1 /\ \A k \in lo..lo - 1 : FALSE
      BY <2>3
    <3>2. b \in [lo - 1..top(n) -> S] /\ Steps(b, F, base, lo, top(n))
      BY <3>1 DEF Steps
    <3>. QED
      BY <3>2
  <2>4. CASE n # 0
    <3>1. n - 1 \in Nat /\ n - 1 \notin bad
      <4>1. bad \subseteq Nat
        OBVIOUS
      <4>. HIDE DEF bad
      <4>. QED
        BY <2>1, <2>4, <4>1
    <3>. DEFINE l == top(n)
    <3>2. top(n - 1) = l - 1 /\ l \in Int /\ l >= lo /\ l <= hi /\ l - 1 <= hi
      BY <2>2, <2>4
    <3>3. PICK c \in [lo - 1..l - 1 -> S] : Steps(c, F, base, lo, l - 1)
      BY <3>1, <3>2
    <3>. DEFINE b == [k \in lo - 1..l |-> IF k <= l - 1 THEN c[k] ELSE F[<<l, c[l - 1]>>]]
    <3>. HIDE DEF l
    <3>4. c[l - 1] \in S /\ l \in lo..hi /\ F[<<l, c[l - 1]>>] \in S
      <4>1. l - 1 \in lo - 1..l - 1 /\ l \in lo..hi
        BY <3>2
      <4>2. c[l - 1] \in S
        BY <4>1
      <4>. QED
        BY <4>1, <4>2
    <3>5. b \in [lo - 1..l -> S]
      <4>1. \A k \in lo - 1..l : k <= l - 1 => k \in lo - 1..l - 1
        BY <3>2
      <4>. QED
        BY <3>4, <4>1
    <3>6. b[lo - 1] = base
      <4>1. lo - 1 \in lo - 1..l /\ lo - 1 <= l - 1
        BY SMTT(60), <3>2
      <4>. QED
        BY <3>3, <4>1 DEF Steps
    <3>7. ASSUME NEW k \in lo..l PROVE b[k] = F[<<k, b[k - 1]>>]
      <4>1. k \in Int /\ k - 1 \in lo - 1..l /\ k - 1 <= l - 1 /\ k \in lo - 1..l
        BY <3>2
      <4>2. b[k - 1] = c[k - 1]
        BY SMTT(60), <4>1
      <4>3. CASE k <= l - 1
        <5>1. k \in lo..l - 1
          BY <4>1, <4>3
        <5>2. b[k] = c[k]
          BY <4>1, <4>3
        <5>. QED
          BY <3>3, <4>2, <5>1, <5>2 DEF Steps
      <4>4. CASE ~(k <= l - 1)
        <5>1. k = l
          BY <3>2, <4>1, <4>4
        <5>. QED
          BY <4>1, <4>2, <4>4, <5>1
      <4>. QED
        BY <4>3, <4>4
    <3>. HIDE DEF b
    <3>8. Steps(b, F, base, lo, l)
      BY <3>6, <3>7 DEF Steps
    <3>. QED
      BY <2>1, <3>5, <3>8 DEF l
  <2>. QED
    BY <2>3, <2>4
<1>. DEFINE m == hi - (lo - 1)
<1>2. m \in Nat /\ top(m) = hi
  OBVIOUS
<1>3. m \notin bad
  BY <1>1
<1>. HIDE DEF m, top
<1>4. hi <= hi
  OBVIOUS
<1>. QED
  BY <1>2, <1>3, <1>4

\* What holds before the first day and goes from each day to the next holds on
\* all of them.
LEMMA DayByDay ==
    ASSUME NEW lo \in Int, NEW hi \in Int, NEW good, lo - 1 \in good,
           \A k \in lo..hi : k - 1 \in good => k \in good
    PROVE  \A k \in lo - 1..hi : k \in good
<1>. DEFINE bad == {n \in Nat : lo - 1 + n <= hi /\ lo - 1 + n \notin good}
<1>1. bad = {}
  <2>. SUFFICES ASSUME bad # {} PROVE FALSE
    OBVIOUS
  <2>0. bad \subseteq Nat
    OBVIOUS
  <2>1. PICK n \in bad : \A m \in bad : n <= m
    BY LeastNumber
  <2>2. n \in Nat /\ lo - 1 + n <= hi /\ lo - 1 + n \notin good
    OBVIOUS
  <2>3. CASE n = 0
    BY <2>2, <2>3
  <2>4. CASE n # 0
    <3>1. n - 1 \in Nat /\ n - 1 \notin bad
      <4>. HIDE DEF bad
      <4>. QED
        BY <2>0, <2>1, <2>4
    <3>2. /\ lo - 1 + n \in lo..hi /\ (lo - 1 + n) - 1 = lo - 1 + (n - 1)
          /\ lo - 1 + (n - 1) <= hi
      BY <2>2, <2>4
    <3>3. lo - 1 + (n - 1) \in good
      BY <3>1, <3>2
    <3>. QED
      BY <2>2, <3>2, <3>3
  <2>. QED
    BY <2>3, <2>4
<1>2. ASSUME NEW k \in lo - 1..hi PROVE k \in good
  <2>. DEFINE n == k - (lo - 1)
  <2>1. n \in Nat /\ lo - 1 + n = k /\ k <= hi
    OBVIOUS
  <2>2. n \notin bad
    BY <1>1
  <2>. HIDE DEF n
  <2>. QED
    BY <2>1, <2>2
<1>. QED
  BY <1>2

\* The sum the model walks to.
IsUpto(u, c, first, last) ==
    u = [k \in first - 1..last |-> IF k < first THEN 0 ELSE u[k - 1] + c[k]]

LEMMA UptoExists ==
    ASSUME NEW c, NEW first \in Int, NEW last \in Int, first - 1 <= last,
           \A k \in first..last : c[k] \in Int
    PROVE  \E u \in [first - 1..last -> Int] : IsUpto(u, c, first, last)
<1>. DEFINE F == [ks \in (first..last) \X Int |-> ks[2] + c[ks[1]]]
<1>1. F \in [(first..last) \X Int -> Int]
  OBVIOUS
<1>2. \A k \in first..last, s \in Int : F[<<k, s>>] = s + c[k]
  OBVIOUS
<1>. HIDE DEF F
<1>3. PICK u \in [first - 1..last -> Int] : Steps(u, F, 0, first, last)
  <2>1. 0 \in Int
    OBVIOUS
  <2>. QED
    BY <1>1, <2>1, StepsExist, Zenon
<1>4. ASSUME NEW k \in first - 1..last
      PROVE  u[k] = IF k < first THEN 0 ELSE u[k - 1] + c[k]
  <2>1. CASE k < first
    <3>1. k = first - 1
      BY <2>1
    <3>. QED
      BY <1>3, <2>1, <3>1 DEF Steps
  <2>2. CASE ~(k < first)
    <3>1. k \in first..last /\ k - 1 \in first - 1..last
      BY <2>2
    <3>. QED
      BY <1>2, <1>3, <2>2, <3>1 DEF Steps
  <2>. QED
    BY <2>1, <2>2
<1>5. u = [k \in first - 1..last |-> u[k]]
  OBVIOUS
<1>. QED
  BY <1>4, <1>5 DEF IsUpto

LEMMA UptoRules ==
    ASSUME NEW u, NEW c, NEW first \in Int, NEW last \in Int, first - 1 <= last,
           IsUpto(u, c, first, last)
    PROVE  u[first - 1] = 0 /\ \A k \in first..last : u[k] = u[k - 1] + c[k]
<1>1. \A k \in first - 1..last : u[k] = IF k < first THEN 0 ELSE u[k - 1] + c[k]
  BY DEF IsUpto
<1>2. first - 1 \in first - 1..last /\ first - 1 < first
  OBVIOUS
<1>3. \A k \in first..last : k \in first - 1..last /\ ~(k < first)
  OBVIOUS
<1>. QED
  BY <1>1, <1>2, <1>3

LEMMA SumWalks ==
    ASSUME NEW c, NEW first \in Int, NEW last \in Int, first - 1 <= last,
           \A k \in first..last : c[k] \in Int
    PROVE  \E u : IsUpto(u, c, first, last) /\ SumOver(c, first, last) = u[last]
<1>. DEFINE v == CHOOSE w : IsUpto(w, c, first, last)
<1>1. IsUpto(v, c, first, last)
  BY UptoExists
<1>2. SumOver(c, first, last) = v[last]
  BY Zenon DEF SumOver, IsUpto
<1>. QED
  BY <1>1, <1>2

\* A sum of integers is one, and a sum of the same numbers is the same.
LEMMA SumType ==
    ASSUME NEW c, NEW first \in Int, NEW last \in Int, first - 1 <= last,
           \A k \in first..last : c[k] \in Int
    PROVE  SumOver(c, first, last) \in Int
<1>1. PICK u : IsUpto(u, c, first, last) /\ SumOver(c, first, last) = u[last]
  BY SumWalks
<1>. DEFINE good == {k \in Int : u[k] \in Int}
<1>2. first - 1 \in good
  BY <1>1, UptoRules
<1>3. \A k \in first..last : k - 1 \in good => k \in good
  BY <1>1, UptoRules
<1>. HIDE DEF good
<1>4. last \in good
  BY SMTT(60), <1>2, <1>3, DayByDay
<1>. QED
  BY <1>1, <1>4 DEF good

LEMMA SumSame ==
    ASSUME NEW c, NEW d, NEW first \in Int, NEW last \in Int, first - 1 <= last,
           \A k \in first..last : c[k] \in Int /\ c[k] = d[k]
    PROVE  SumOver(c, first, last) = SumOver(d, first, last)
<1>1. PICK u : IsUpto(u, c, first, last) /\ SumOver(c, first, last) = u[last]
  BY SumWalks
<1>2. PICK v : IsUpto(v, d, first, last) /\ SumOver(d, first, last) = v[last]
  BY SumWalks
<1>. DEFINE good == {k \in Int : u[k] = v[k]}
<1>3. first - 1 \in good
  BY <1>1, <1>2, UptoRules
<1>4. ASSUME NEW k \in first..last, k - 1 \in good PROVE k \in good
  <2>1. u[k] = u[k - 1] + c[k] /\ v[k] = v[k - 1] + d[k]
    BY <1>1, <1>2, UptoRules
  <2>. QED
    BY <1>4, <2>1
<1>. HIDE DEF good
<1>5. last \in good
  BY SMTT(60), <1>3, <1>4, DayByDay
<1>. QED
  BY <1>1, <1>2, <1>5 DEF good

-----------------------------------------------------------------------------
(* A fold: its fills, its book of a day, and the walk over its days.       *)

LEMMA Times ==
    ASSUME NEW a \in Nat, NEW b \in Nat, NEW q \in Nat, a <= b
    PROVE  q * a \in Nat /\ q * b \in Nat /\ q * a <= q * b
<1>1. q * b = q * a + q * (b - a)
  OBVIOUS
<1>2. q * a \in Nat /\ q * b \in Nat /\ q * (b - a) \in Nat
  OBVIOUS
<1>. QED
  BY <1>1, <1>2

\* Slippage is between nothing and forty basis points.
LEMMA SlippageType ==
    ASSUME NEW lakhs \in Int
    PROVE  ADVSlippageBps(lakhs) \in 0..40
<1>1. CASE lakhs <= 0 \/ lakhs * 37 * 37 < 1000000
  BY <1>1 DEF ADVSlippageBps
<1>2. CASE ~(lakhs <= 0) /\ ~(lakhs * 37 * 37 < 1000000)
  <2>. DEFINE S == {b \in 3..39 : 1000000 <= lakhs * (b - 2) * (b - 2)}
  <2>1. 39 \in S
    <3>1. 39 - 2 = 37 /\ 39 \in 3..39
      OBVIOUS
    <3>2. 1000000 <= lakhs * 37 * 37
      BY <1>2
    <3>. QED
      BY <3>1, <3>2
  <2>2. S \in SUBSET Nat /\ \A b \in S : b \in 3..39
    OBVIOUS
  <2>3. ADVSlippageBps(lakhs) = Min(S)
    BY <1>2 DEF ADVSlippageBps
  <2>. HIDE DEF S
  <2>4. Min(S) \in S
    BY <2>1, <2>2, MinOf
  <2>5. Min(S) \in 3..39
    BY <2>2, <2>4
  <2>. QED
    BY <2>3, <2>5
<1>. QED
  BY <1>1, <1>2

\* The closes of the days 1 to n.
CloseDays(c, n) == n \in Nat /\ \A k \in 1..n : c[k] \in Nat \ {0}

LEMMA ADVType ==
    ASSUME NEW c, NEW n, CloseDays(c, n), NEW i \in 1..n
    PROVE  FoldADV(c, i) \in Int
<1>. DEFINE first == IF i > 20 THEN i - 19 ELSE 1
            sum == SumOver(c, first, i)
            count == i - first + 1
            rupees == sum \div count
<1>1. first \in Int /\ i \in Int /\ first - 1 <= i /\ count \in Nat \ {0}
      /\ \A k \in first..i : k \in 1..n
  BY DEF CloseDays
<1>. HIDE DEF first
<1>2. sum \in Int
  BY <1>1, SumType DEF CloseDays
<1>. HIDE DEF sum, count
<1>3. rupees \in Int
  BY <1>1, <1>2
<1>4. FoldADV(c, i) = IF rupees < 100000 THEN 1 ELSE rupees \div 100000
  BY DEF FoldADV, first, sum, count
<1>. HIDE DEF rupees
<1>. QED
  BY <1>3, <1>4

\* A buy fills at the close or above it, a sale between nothing and the close.
LEMMA FillsAre ==
    ASSUME NEW px \in Nat \ {0}, NEW bps \in 0..40
    PROVE  /\ BuyFill(px, bps) \in Nat /\ BuyFill(px, bps) >= px
           /\ SellFill(px, bps) \in Nat /\ SellFill(px, bps) <= px
<1>1. px * bps \in Nat /\ px * bps <= px * 40 /\ bps * px = px * bps
  BY Times
<1>. DEFINE m == bps * px
            slip == (m + 9999) \div 10000
<1>2. m \in Nat /\ m <= 40 * px
  BY <1>1
<1>. HIDE DEF m
<1>3. slip \in Nat /\ slip <= px
  BY <1>2
<1>4. Slip(px, bps) = slip
  BY DEF Slip, m
<1>. HIDE DEF slip
<1>. QED
  BY <1>3, <1>4 DEF BuyFill, SellFill

Books == [cash : Int, qty : Nat, entry : Int, since : Int, peak : Nat \ {0}, dd : Int,
          trades : Int, wins : Int]

\* A book that has not gained: with a position, it is worth no more than the
\* cash it began with; without one, it may have lost its last charge.
Lean(s, px) == /\ s.cash >= -12
               /\ s.qty = 0 => s.cash <= StartCash
               /\ s.qty > 0 => s.cash >= 0 /\ s.cash + s.qty * px <= StartCash

LEMMA FreshIs == Fresh \in Books /\ \A px : Lean(Fresh, px)
BY DEF Fresh, Books, Lean, StartCash

LEMMA CloseIs ==
    ASSUME NEW c, NEW n, CloseDays(c, n), NEW i \in 1..n, NEW s \in Books, s.qty > 0
    PROVE  /\ ClosePos(s, c, i) \in Books /\ ClosePos(s, c, i).qty = 0
           /\ Lean(s, c[i]) => Lean(ClosePos(s, c, i), c[i])
<1>. DEFINE px == c[i]
            fill == SellFill(px, ADVSlippageBps(FoldADV(c, i)))
            m == s.qty * fill
            t == ClosePos(s, c, i)
<1>1. px \in Nat \ {0}
  BY DEF CloseDays
<1>2. fill \in Nat /\ fill <= px
  BY <1>1, ADVType, SlippageType, FillsAre
<1>3. t = [s EXCEPT !.cash = @ + m - SellCharge(m), !.qty = 0, !.trades = @ + 1,
                    !.wins = IF fill > s.entry THEN @ + 1 ELSE @]
  BY DEF ClosePos
<1>. HIDE DEF px, fill, t
<1>4. s.qty \in Nat /\ s.cash \in Int /\ s.trades \in Int /\ s.wins \in Int
  BY DEF Books
<1>5. m \in Nat /\ m <= s.qty * px /\ s.qty * px \in Nat
  BY <1>1, <1>2, <1>4, Times
<1>. DEFINE charge == SellCharge(m)
<1>. HIDE DEF m
<1>6. charge \in Int /\ 12 <= charge /\ charge <= 12 + m
  BY <1>5 DEF SellCharge
<1>. HIDE DEF charge
<1>7. t \in Books /\ t.qty = 0 /\ t.cash = s.cash + m - charge
  <2>1. s.cash + m - charge \in Int
    BY <1>4, <1>5, <1>6
  <2>2. s.trades + 1 \in Int /\ (IF fill > s.entry THEN s.wins + 1 ELSE s.wins) \in Int
    BY <1>4
  <2>. QED
    BY ZenonT(60), <1>3, <2>1, <2>2 DEF Books, charge
<1>8. ASSUME Lean(s, px) PROVE Lean(t, px)
  <2>1. s.cash >= 0 /\ s.cash + s.qty * px <= StartCash
    BY <1>8 DEF Lean
  <2>2. t.cash >= -12 /\ t.cash <= StartCash
    BY <1>4, <1>5, <1>6, <1>7, <2>1 DEF StartCash
  <2>. QED
    BY <1>7, <2>2 DEF Lean
<1>. QED
  BY <1>7, <1>8 DEF px, t

LEMMA OpenIs ==
    ASSUME NEW c, NEW n, CloseDays(c, n), NEW i \in 1..n, NEW s \in Books, s.qty = 0
    PROVE  /\ OpenPos(s, c, i) \in Books
           /\ Lean(s, c[i]) => Lean(OpenPos(s, c, i), c[i])
<1>. DEFINE px == c[i]
            fill == BuyFill(px, ADVSlippageBps(FoldADV(c, i)))
            q == (s.cash \div 5) \div fill
            m == q * fill
            cost == m + BuyCharge(m)
            t == OpenPos(s, c, i)
<1>1. px \in Nat \ {0}
  BY DEF CloseDays
<1>2. fill \in Nat /\ fill >= px /\ fill > 0
  <2>. DEFINE bps == ADVSlippageBps(FoldADV(c, i))
  <2>1. bps \in 0..40
    BY ADVType, SlippageType
  <2>. HIDE DEF bps, px
  <2>2. BuyFill(px, bps) \in Nat /\ BuyFill(px, bps) >= px
    BY <1>1, <2>1, FillsAre
  <2>3. fill = BuyFill(px, bps)
    BY DEF bps
  <2>. HIDE DEF fill
  <2>. QED
    BY <1>1, <2>2, <2>3
<1>3. t = IF q >= 1 /\ cost <= s.cash
          THEN [s EXCEPT !.cash = @ - cost, !.qty = q, !.entry = fill, !.since = i] ELSE s
  BY DEF OpenPos
<1>. HIDE DEF px, fill, t
<1>4. s.cash \in Int /\ i \in Int
  BY DEF Books
<1>5. q \in Int
  <2>1. s.cash \div 5 \in Int
    BY <1>4
  <2>. QED
    BY <1>2, <2>1
<1>. HIDE DEF q
<1>6. CASE ~(q >= 1 /\ cost <= s.cash)
  <2>1. t = s
    BY <1>3, <1>6
  <2>2. t \in Books /\ (Lean(s, px) => Lean(t, px))
    BY <2>1
  <2>. QED
    BY <2>2 DEF px, t
<1>7. CASE q >= 1 /\ cost <= s.cash
  <2>1. q \in Nat
    BY <1>5, <1>7
  <2>2. m \in Nat /\ q * px \in Nat /\ q * px <= m
    BY <1>1, <1>2, <2>1, Times
  <2>3. cost \in Int /\ cost >= m + 12
    <3>. HIDE DEF m
    <3>. QED
      BY <2>2 DEF BuyCharge
  <2>. HIDE DEF m, cost
  <2>4. s.cash - cost \in Int
    BY <1>4, <2>3
  <2>5. t = [s EXCEPT !.cash = @ - cost, !.qty = q, !.entry = fill, !.since = i]
    BY <1>3, <1>7
  <2>6. t \in Books /\ t.qty = q /\ t.cash = s.cash - cost
    <3>1. DOMAIN s = {"cash", "qty", "entry", "since", "peak", "dd", "trades", "wins"}
      BY DEF Books
    <3>2. t.qty = q /\ t.cash = s.cash - cost /\ t.entry = fill /\ t.since = i
      BY <2>5, <3>1
    <3>. HIDE DEF q
    <3>3. t \in Books
      <4>. DEFINE left == s.cash - cost
      <4>1. left \in Int /\ q \in Nat /\ fill \in Int /\ i \in Int
        BY <1>2, <1>4, <2>1, <2>4
      <4>2. t = [s EXCEPT !.cash = left, !.qty = q, !.entry = fill, !.since = i]
        BY <2>5
      <4>. HIDE DEF left
      <4>. QED
        BY <4>1, <4>2 DEF Books
    <3>. QED
      BY <3>2, <3>3
  <2>7. ASSUME Lean(s, px) PROVE Lean(t, px)
    <3>1. s.cash <= StartCash
      BY <2>7 DEF Lean
    <3>2. t.cash >= 0 /\ t.cash + q * px <= StartCash
      BY <1>4, <1>7, <2>2, <2>3, <2>6, <3>1 DEF StartCash
    <3>3. t.cash >= -12 /\ q # 0
      BY <1>7, <2>1, <2>6, <3>2, <2>4
    <3>. QED
      BY <2>6, <3>2, <3>3 DEF Lean
  <2>8. t \in Books /\ (Lean(s, px) => Lean(t, px))
    BY <2>6, <2>7
  <2>. QED
    BY <2>8 DEF px, t
<1>. QED
  BY <1>6, <1>7

LEMMA MarkIs ==
    ASSUME NEW c, NEW n, CloseDays(c, n), NEW i \in 1..n, NEW s \in Books
    PROVE  /\ MarkDD(s, c, i) \in Books
           /\ MarkDD(s, c, i).qty = s.qty /\ MarkDD(s, c, i).cash = s.cash
<1>. DEFINE m == s.qty * c[i]
            eq == s.cash + m
            peak == IF eq > s.peak THEN eq ELSE s.peak
            dd == ((peak - eq) * 1000 + peak - 1) \div peak
<1>1. s.qty \in Nat /\ s.cash \in Int /\ s.peak \in Nat \ {0} /\ s.dd \in Int /\ c[i] \in Nat
  BY DEF Books, CloseDays
<1>2. m \in Nat
  BY <1>1
<1>3. MarkDD(s, c, i) = [s EXCEPT !.peak = peak, !.dd = IF dd > @ THEN dd ELSE @]
  BY DEF MarkDD
<1>. HIDE DEF m
<1>4. eq \in Int
  BY <1>1, <1>2
<1>. HIDE DEF eq
<1>5. peak \in Nat \ {0}
  BY <1>1, <1>4
<1>. HIDE DEF peak
<1>6. dd \in Int
  <2>. DEFINE x == (peak - eq) * 1000 + peak - 1
  <2>1. x \in Int
    BY <1>4, <1>5
  <2>. HIDE DEF x
  <2>2. x \div peak \in Int
    BY <1>5, <2>1
  <2>. QED
    BY <2>2 DEF x
<1>. HIDE DEF dd
<1>. QED
  BY ZenonT(60), <1>1, <1>3, <1>5, <1>6 DEF Books

\* Whatever the signal, a day keeps a book a book, and a lean one lean.
LEMMA DayIs ==
    ASSUME NEW c, NEW n, CloseDays(c, n), NEW i \in 1..n, NEW p, NEW s \in Books
    PROVE  /\ FoldDay(p, c, s, i) \in Books
           /\ Lean(s, c[i]) => Lean(FoldDay(p, c, s, i), c[i])
<1>. DEFINE sig == Evaluate(p, c, i)
            a == ExitOn(sig, p, c, s, i)
            b == EnterOn(sig, c, a, i)
<1>1. FoldDay(p, c, s, i) = MarkDD(b, c, i)
  BY DEF FoldDay, DayOn
<1>. HIDE DEF sig
<1>2. a \in Books /\ (Lean(s, c[i]) => Lean(a, c[i]))
  BY CloseIs DEF ExitOn
<1>. HIDE DEF a
<1>3. b \in Books /\ (Lean(a, c[i]) => Lean(b, c[i]))
  BY <1>2, OpenIs DEF EnterOn
<1>. HIDE DEF b
<1>4. MarkDD(b, c, i) \in Books /\ (Lean(b, c[i]) => Lean(MarkDD(b, c, i), c[i]))
  BY <1>3, MarkIs DEF Lean
<1>. QED
  BY <1>1, <1>2, <1>3, <1>4

\* The walk of a fold: a fresh book, and a day from the book of the day before.
IsBook(b, p, c, first, i) ==
    b = [d \in first - 1 .. i |-> IF d < first THEN Fresh ELSE FoldDay(p, c, b[d - 1], d)]

LEMMA BookExists ==
    ASSUME NEW c, NEW n, CloseDays(c, n), NEW p, NEW first \in Nat \ {0}, NEW i \in Int,
           first - 1 <= i, i <= n
    PROVE  \E b \in [first - 1..i -> Books] : IsBook(b, p, c, first, i)
<1>. DEFINE F == [ks \in (first..i) \X Books |-> FoldDay(p, c, ks[2], ks[1])]
<1>0. \A k \in first..i : k \in 1..n
  BY DEF CloseDays
<1>1. \A k \in first..i, s \in Books : FoldDay(p, c, s, k) \in Books
  BY <1>0, DayIs
<1>2. F \in [(first..i) \X Books -> Books]
  BY <1>1
<1>3. \A k \in first..i, s \in Books : F[<<k, s>>] = FoldDay(p, c, s, k)
  OBVIOUS
<1>. HIDE DEF F
<1>4. PICK b \in [first - 1..i -> Books] : Steps(b, F, Fresh, first, i)
  <2>1. first \in Int /\ Fresh \in Books
    BY FreshIs
  <2>. QED
    BY <1>2, <2>1, StepsExist, Zenon
<1>5. ASSUME NEW k \in first - 1..i
      PROVE  b[k] = IF k < first THEN Fresh ELSE FoldDay(p, c, b[k - 1], k)
  <2>1. CASE k < first
    <3>1. k = first - 1
      BY <2>1
    <3>. QED
      BY <1>4, <2>1, <3>1 DEF Steps
  <2>2. CASE ~(k < first)
    <3>1. k \in first..i /\ k - 1 \in first - 1..i
      BY <2>2
    <3>2. b[k] = F[<<k, b[k - 1]>>] /\ b[k - 1] \in Books
      BY <1>4, <3>1 DEF Steps
    <3>3. b[k] = FoldDay(p, c, b[k - 1], k)
      BY <1>3, <3>1, <3>2
    <3>. QED
      BY <2>2, <3>3
  <2>. QED
    BY <2>1, <2>2
<1>6. b = [k \in first - 1..i |-> b[k]]
  OBVIOUS
<1>. QED
  BY <1>5, <1>6, Zenon DEF IsBook

LEMMA BookRules ==
    ASSUME NEW b, NEW p, NEW c, NEW first \in Int, NEW i \in Int, first - 1 <= i,
           IsBook(b, p, c, first, i)
    PROVE  b[first - 1] = Fresh /\ \A k \in first..i : b[k] = FoldDay(p, c, b[k - 1], k)
<1>1. \A k \in first - 1..i : b[k] = IF k < first THEN Fresh ELSE FoldDay(p, c, b[k - 1], k)
  BY Zenon DEF IsBook
<1>2. first - 1 \in first - 1..i /\ first - 1 < first
  OBVIOUS
<1>3. \A k \in first..i : k \in first - 1..i /\ ~(k < first)
  OBVIOUS
<1>. QED
  BY <1>1, <1>2, <1>3, Zenon

LEMMA WalkedIs ==
    ASSUME NEW c, NEW n, CloseDays(c, n), NEW p, NEW from, FirstTraded(p, from) \in Nat \ {0},
           NEW to \in Int, FirstTraded(p, from) < to,
           NEW i \in Int, FirstTraded(p, from) - 1 <= i, i <= n
    PROVE  \E b : /\ IsBook(b, p, c, FirstTraded(p, from), i)
                  /\ Walked(p, c, from, to, i) = b[i]
<1>. DEFINE first == FirstTraded(p, from)
            book == CHOOSE b : IsBook(b, p, c, first, i)
<1>1. IsBook(book, p, c, first, i)
  <2>1. \E b : IsBook(b, p, c, first, i)
    BY BookExists
  <2>. QED
    BY <2>1, Zenon
<1>2. ~(first >= to)
  BY DEF FirstTraded
<1>3. Walked(p, c, from, to, i) = book[i]
  BY <1>2, Zenon DEF Walked, IsBook
<1>. QED
  BY <1>1, <1>3

\* How many closes a method needs behind it.
LEMMA NeedIs ==
    ASSUME NEW v \in Variants
    PROVE  /\ Need(Params[v]) \in Nat
           /\ Need(Params[v]) >= Params[v].fast /\ Need(Params[v]) >= Params[v].slow
           /\ Need(Params[v]) >= Params[v].lookback /\ Need(Params[v]) >= Warm
<1>. DEFINE p == Params[v]
            S == {p.slow, p.lookback, Warm}
            top == p.slow + p.lookback + Warm
<1>1. p.fast \in Nat /\ p.slow \in Nat /\ p.lookback \in Nat /\ Warm \in Nat /\ p.fast <= p.slow
  BY LabAssumption
<1>2. Need(p) = Max(S)
  BY DEF Need
<1>. HIDE DEF p
<1>3. S \in SUBSET Nat /\ S # {} /\ top \in Nat /\ \A e \in S : e <= top
  BY <1>1
<1>4. Max(S) \in S /\ \A e \in S : Max(S) >= e
  <2>. HIDE DEF S, top
  <2>. QED
    BY <1>3, MaxOf
<1>5. Need(p) \in Nat /\ Need(p) >= p.slow /\ Need(p) >= p.lookback /\ Need(p) >= Warm
  BY <1>1, <1>2, <1>4
<1>6. Need(p) >= p.fast
  BY <1>1, <1>5
<1>. QED
  BY <1>5, <1>6 DEF p

\* Where no close is above the one before it no book gains.
Falls(c, n) == \A k, l \in 1..n : k <= l => c[l] <= c[k]

LEMMA LeanFalls ==
    ASSUME NEW s \in Books, NEW a \in Nat, NEW b \in Nat, b <= a, Lean(s, a)
    PROVE  Lean(s, b)
<1>1. s.cash \in Int /\ s.qty \in Nat
  BY DEF Books
<1>2. s.qty * b \in Nat /\ s.qty * a \in Nat /\ s.qty * b <= s.qty * a
  BY <1>1, Times
<1>. DEFINE m == s.qty * b
            k == s.qty * a
<1>3. m \in Nat /\ k \in Nat /\ m <= k
  BY <1>2
<1>4. s.qty > 0 => s.cash >= 0 /\ s.cash + k <= StartCash
  BY DEF Lean
<1>. HIDE DEF m, k
<1>5. s.qty > 0 => s.cash >= 0 /\ s.cash + m <= StartCash
  BY <1>1, <1>3, <1>4 DEF StartCash
<1>. QED
  BY <1>5 DEF Lean, m

LEMMA LeanWalk ==
    ASSUME NEW c, NEW n, CloseDays(c, n), Falls(c, n), NEW p, NEW first \in Nat \ {0},
           NEW i \in Int, first <= i, i <= n, NEW b, IsBook(b, p, c, first, i)
    PROVE  b[i] \in Books /\ Lean(b[i], c[i])
<1>. DEFINE good == {k \in Int : /\ b[k] \in Books
                                 /\ k < first => b[k] = Fresh
                                 /\ k >= first => Lean(b[k], c[k])}
<1>0. n \in Nat /\ \A k \in first..i : k \in 1..n /\ c[k] \in Nat /\ k - 1 \in Int
  BY DEF CloseDays
<1>1. b[first - 1] = Fresh /\ \A k \in first..i : b[k] = FoldDay(p, c, b[k - 1], k)
  BY BookRules
<1>2. first - 1 \in good
  BY <1>1, FreshIs
<1>3. ASSUME NEW k \in first..i, k - 1 \in good PROVE k \in good
  <2>1. b[k - 1] \in Books
    BY <1>3
  <2>2. Lean(b[k - 1], c[k])
    <3>1. CASE k - 1 < first
      BY <1>3, <3>1, FreshIs
    <3>2. CASE ~(k - 1 < first)
      <4>1. k - 1 \in first..i /\ k - 1 >= first /\ k - 1 <= k
        BY <3>2
      <4>2. c[k] <= c[k - 1] /\ c[k] \in Nat /\ c[k - 1] \in Nat
        BY <1>0, <4>1 DEF Falls
      <4>3. Lean(b[k - 1], c[k - 1])
        BY <1>3, <4>1
      <4>. QED
        BY <2>1, <4>2, <4>3, LeanFalls
    <3>. QED
      BY <3>1, <3>2
  <2>3. FoldDay(p, c, b[k - 1], k) \in Books /\ Lean(FoldDay(p, c, b[k - 1], k), c[k])
    BY <1>0, <2>1, <2>2, DayIs
  <2>4. b[k] = FoldDay(p, c, b[k - 1], k)
    BY <1>1
  <2>5. k \in Int /\ ~(k < first)
    OBVIOUS
  <2>. HIDE DEF good
  <2>6. b[k] \in Books /\ Lean(b[k], c[k])
    BY <2>3, <2>4
  <2>. QED
    BY <2>5, <2>6 DEF good
<1>. HIDE DEF good
<1>4. \A k \in first - 1..i : k \in good
  <2>1. first \in Int
    OBVIOUS
  <2>. QED
    BY <1>2, <1>3, <2>1, DayByDay
<1>5. i \in good
  BY <1>4
<1>. QED
  BY <1>5 DEF good

\* Nor does a fold: it ends with at most the cash it began with.
BareCash(x) == x \in Int /\ -12 <= x /\ x <= StartCash

LEMMA LeanFold ==
    ASSUME NEW c, NEW n, CloseDays(c, n), Falls(c, n), NEW v \in Variants,
           NEW from \in 1..n, NEW to \in Int, to <= n
    PROVE  BareCash(SimulateFold(Params[v], c, from, to).cash)
<1>. DEFINE p == Params[v]
            s == Walked(p, c, from, to, to)
            first == FirstTraded(p, from)
<1>1. first \in Nat \ {0}
  <2>1. n \in Nat /\ from \in Nat \ {0}
    BY DEF CloseDays
  <2>2. Need(p) \in Nat
    BY NeedIs
  <2>. QED
    BY <2>1, <2>2 DEF FirstTraded
<1>2. SimulateFold(p, c, from, to) = Liquidated(s, c, to)
  BY DEF SimulateFold
<1>. HIDE DEF p
<1>3. ASSUME first >= to PROVE BareCash(SimulateFold(p, c, from, to).cash)
  <2>1. s = Fresh
    BY <1>3 DEF Walked
  <2>. HIDE DEF s
  <2>2. s.qty = 0 /\ BareCash(s.cash)
    BY <2>1 DEF Fresh, StartCash, BareCash
  <2>3. Liquidated(s, c, to) = s
    BY <2>2 DEF Liquidated
  <2>. QED
    BY <1>2, <2>2, <2>3
<1>4. ASSUME ~(first >= to) PROVE BareCash(SimulateFold(p, c, from, to).cash)
  <2>. HIDE DEF first, s
  <2>1. first < to /\ first - 1 <= to /\ first <= to /\ to \in 1..n
    BY <1>1, <1>4 DEF CloseDays
  <2>2. PICK b : IsBook(b, p, c, first, to) /\ s = b[to]
    BY <1>1, <2>1, WalkedIs DEF first, s
  <2>3. s \in Books /\ Lean(s, c[to])
    BY <1>1, <2>1, <2>2, LeanWalk
  <2>. DEFINE t == Liquidated(s, c, to)
  <2>4. t \in Books /\ t.qty = 0 /\ Lean(t, c[to])
    <3>1. s.qty \in Nat
      BY <2>3 DEF Books
    <3>2. CASE s.qty > 0
      BY <2>1, <2>3, <3>2, CloseIs DEF Liquidated
    <3>3. CASE ~(s.qty > 0)
      BY <2>3, <3>1, <3>3 DEF Liquidated
    <3>. QED
      BY <3>2, <3>3
  <2>6. BareCash(t.cash)
    BY <2>4 DEF Lean, Books, BareCash
  <2>. QED
    BY <1>2, <2>6 DEF t
<1>5. BareCash(SimulateFold(p, c, from, to).cash)
  BY <1>3, <1>4
<1>. QED
  BY <1>5 DEF p

-----------------------------------------------------------------------------
(* Folds over a finite set, as the library computes them: an element of a  *)
(* part, and the rest of it.                                               *)

Pick1(s) == CHOOSE x \in s : TRUE
Unfolds(g, F, base, S) ==
    \A s \in SUBSET S : g[s] = IF s = {} THEN base ELSE F[<<Pick1(s), g[s \ {Pick1(s)}]>>]

LEMMA PartSizes ==
    ASSUME NEW S, IsFiniteSet(S), NEW s \in SUBSET S
    PROVE  /\ IsFiniteSet(s) /\ Cardinality(s) \in Nat
           /\ \A x \in s : Cardinality(s \ {x}) = Cardinality(s) - 1
           /\ s # {} => Pick1(s) \in s
BY FS_Subset, FS_CardinalityType, FS_RemoveElement DEF Pick1

\* What holds of the empty part and goes from a part without its picked element
\* to the part holds of all parts.
LEMMA PartByPart ==
    ASSUME NEW S, IsFiniteSet(S), NEW good, {} \in good,
           \A s \in SUBSET S : s # {} /\ s \ {Pick1(s)} \in good => s \in good
    PROVE  \A s \in SUBSET S : s \in good
<1>. DEFINE sizes == {n \in Nat : \E s \in SUBSET S : s \notin good /\ n = Cardinality(s)}
<1>1. sizes = {}
  <2>. SUFFICES ASSUME sizes # {} PROVE FALSE
    OBVIOUS
  <2>1. sizes \in SUBSET Nat
    OBVIOUS
  <2>2. PICK n \in sizes : \A m \in sizes : n <= m
    BY <2>1, LeastNumber
  <2>3. PICK s \in SUBSET S : s \notin good /\ n = Cardinality(s)
    OBVIOUS
  <2>. DEFINE t == s \ {Pick1(s)}
  <2>4. s # {} /\ Pick1(s) \in s
    BY <2>3, PartSizes
  <2>5. t \in SUBSET S /\ t \notin good
    BY <2>3, <2>4
  <2>6. Cardinality(t) = n - 1 /\ n - 1 \in Nat
    <3>1. Cardinality(t) = n - 1
      BY <2>3, <2>4, PartSizes
    <3>2. Cardinality(t) \in Nat
      BY <2>5, PartSizes
    <3>. QED
      BY <3>1, <3>2
  <2>7. n - 1 \in sizes
    BY <2>5, <2>6
  <2>. HIDE DEF sizes
  <2>. QED
    BY <2>1, <2>2, <2>7
<1>2. ASSUME NEW s \in SUBSET S, s \notin good PROVE FALSE
  <2>1. Cardinality(s) \in Nat
    BY PartSizes
  <2>. QED
    BY <1>1, <1>2, <2>1
<1>. QED
  BY <1>2

FoldsUpto(g, F, base, S, V, n) ==
    LET parts == {s \in SUBSET S : Cardinality(s) <= n}
    IN  /\ g \in [parts -> V]
        /\ \A s \in parts : g[s] = IF s = {} THEN base ELSE F[<<Pick1(s), g[s \ {Pick1(s)}]>>]

LEMMA FoldExists ==
    ASSUME NEW S, IsFiniteSet(S), NEW V, NEW base \in V, NEW F \in [S \X V -> V]
    PROVE  \E g \in [SUBSET S -> V] : Unfolds(g, F, base, S)
<1>. DEFINE Parts(n) == {s \in SUBSET S : Cardinality(s) <= n}
            Next1(s, g) == F[<<Pick1(s), g[s \ {Pick1(s)}]>>]
            Upto(g, n) == FoldsUpto(g, F, base, S, V, n)
            good == {n \in Nat : \E g : FoldsUpto(g, F, base, S, V, n)}
<1>0. \A g, n : Upto(g, n) <=> /\ g \in [Parts(n) -> V]
                             /\ \A s \in Parts(n) : g[s] = IF s = {} THEN base ELSE Next1(s, g)
  BY DEF FoldsUpto
<1>1. \A s \in SUBSET S : Cardinality(s) \in Nat
  BY PartSizes
<1>2. \A s \in Parts(0) : s = {}
  <2>1. ASSUME NEW s \in Parts(0), s # {} PROVE FALSE
    <3>1. s \in SUBSET S /\ Cardinality(s) = 0 /\ Pick1(s) \in s
      BY <1>1, <2>1, PartSizes
    <3>2. Cardinality(s \ {Pick1(s)}) = 0 - 1 /\ Cardinality(s \ {Pick1(s)}) \in Nat
      BY <1>1, <3>1, PartSizes
    <3>. QED
      BY <3>2
  <2>. QED
    BY <2>1
<1>3. 0 \in good
  <2>. DEFINE g == [s \in Parts(0) |-> base]
  <2>1. g \in [Parts(0) -> V]
    OBVIOUS
  <2>2. \A s \in Parts(0) : g[s] = base /\ s = {}
    BY <1>2
  <2>. HIDE DEF g
  <2>3. Upto(g, 0)
    BY <1>0, <2>1, <2>2
  <2>. QED
    BY <2>3
<1>4. ASSUME NEW n \in Nat, n # 0, n - 1 \in good PROVE n \in good
  <2>1. n - 1 \in Nat
    BY <1>4
  <2>2. PICK g : Upto(g, n - 1)
    BY <1>4, <2>1
  <2>. HIDE DEF Upto
  <2>. DEFINE h == [s \in Parts(n) |-> IF s \in Parts(n - 1) THEN g[s] ELSE Next1(s, g)]
  <2>3. ASSUME NEW s \in Parts(n), s # {}
        PROVE  /\ s \ {Pick1(s)} \in Parts(n - 1) /\ g[s \ {Pick1(s)}] \in V
               /\ Next1(s, g) \in V
    <3>1. Pick1(s) \in s /\ Pick1(s) \in S /\ Cardinality(s \ {Pick1(s)}) = Cardinality(s) - 1
      BY <2>3, PartSizes
    <3>2. s \ {Pick1(s)} \in Parts(n - 1)
      BY <1>1, <3>1
    <3>3. g[s \ {Pick1(s)}] \in V
      BY <1>0, <2>2, <3>2
    <3>. QED
      BY <3>1, <3>2, <3>3
  <2>4. \A s \in Parts(n - 1) : s \in Parts(n) /\ g[s] \in V
    <3>1. Parts(n - 1) \subseteq Parts(n)
      BY <1>1
    <3>. QED
      BY <1>0, <2>2, <3>1
  <2>5. {} \in Parts(n - 1)
    BY <2>1, FS_EmptySet
  <2>6. ASSUME NEW s \in Parts(n)
        PROVE  h[s] \in V /\ h[s] = IF s = {} THEN base ELSE Next1(s, h)
    <3>1. CASE s = {}
      <4>1. h[s] = g[s] /\ g[s] = base
        BY <1>0, <2>2, <2>5, <3>1
      <4>. QED
        BY <3>1, <4>1
    <3>2. CASE s # {}
      <4>1. h[s \ {Pick1(s)}] = g[s \ {Pick1(s)}]
        BY <2>3, <2>4, <3>2
      <4>2. Next1(s, h) = Next1(s, g) /\ Next1(s, g) \in V
        BY <2>3, <3>2, <4>1
      <4>3. h[s] = Next1(s, g)
        BY <1>0, <2>2, <3>2
      <4>. QED
        BY <3>2, <4>2, <4>3
    <3>. QED
      BY <3>1, <3>2
  <2>7. h \in [Parts(n) -> V]
    BY <2>6
  <2>. HIDE DEF h
  <2>8. Upto(h, n)
    BY <1>0, <2>6, <2>7
  <2>. QED
    BY <2>8 DEF Upto
<1>. DEFINE m == Cardinality(S)
<1>5. m \in Nat /\ Parts(m) = SUBSET S
  <2>1. \A s \in SUBSET S : Cardinality(s) <= Cardinality(S)
    BY FS_Subset
  <2>. QED
    BY <1>1, <2>1
<1>6. m \in good
  <2>. DEFINE one == 1
  <2>1. ASSUME NEW k \in one..m, k - 1 \in good PROVE k \in good
    <3>1. k \in Nat /\ k # 0
      OBVIOUS
    <3>. HIDE DEF good, m
    <3>. QED
      BY <1>4, <2>1, <3>1
  <2>. HIDE DEF good, m
  <2>2. one \in Int /\ one - 1 = 0 /\ m \in one - 1..m /\ m \in Int
    BY <1>5
  <2>. HIDE DEF one
  <2>3. one - 1 \in good
    BY <1>3, <2>2
  <2>4. \A k \in one - 1..m : k \in good
    BY <2>1, <2>2, <2>3, DayByDay
  <2>. QED
    BY <2>2, <2>4
<1>7. PICK g : Upto(g, m)
  BY <1>5, <1>6
<1>. HIDE DEF Upto
<1>8. g \in [SUBSET S -> V]
  BY <1>0, <1>5, <1>7
<1>9. Unfolds(g, F, base, S)
  BY <1>0, <1>5, <1>7 DEF Unfolds
<1>. QED
  BY <1>8, <1>9

\* Returns that lose or break even compound to one that does.
Bps == {x \in Int : -10000 <= x /\ x <= 10000}

LEMMA BpsProduct ==
    ASSUME NEW f \in Bps, NEW t \in Bps
    PROVE  (f * t) \div Whole \in Bps
<1>1. \A a, b \in Nat : a <= 10000 /\ b <= 10000 => a * b \in Nat /\ a * b <= 100000000
  <2>. SUFFICES ASSUME NEW a \in Nat, NEW b \in Nat, a <= 10000, b <= 10000
               PROVE  a * b \in Nat /\ a * b <= 100000000
    OBVIOUS
  <2>1. a * b \in Nat /\ a * b <= a * 10000
    BY Times
  <2>. QED
    BY <2>1
<1>. DEFINE a == IF f < 0 THEN -f ELSE f
            b == IF t < 0 THEN -t ELSE t
            m == f * t
            k == a * b
<1>2. f \in Int /\ t \in Int /\ -10000 <= f /\ f <= 10000 /\ -10000 <= t /\ t <= 10000
  BY DEF Bps
<1>3. k \in Nat /\ k <= 100000000
  <2>1. a \in Nat /\ b \in Nat /\ a <= 10000 /\ b <= 10000
    BY <1>2
  <2>. QED
    BY <1>1, <2>1
<1>4. m \in Int /\ (m = k \/ m = -k)
  <2>1. CASE f < 0 /\ t < 0
    BY <1>2, <2>1
  <2>2. CASE f < 0 /\ ~(t < 0)
    BY <1>2, <2>2
  <2>3. CASE ~(f < 0) /\ t < 0
    BY <1>2, <2>3
  <2>4. CASE ~(f < 0) /\ ~(t < 0)
    BY <1>2, <2>4
  <2>. QED
    BY <2>1, <2>2, <2>3, <2>4
<1>. HIDE DEF m, k
<1>5. m \div 10000 \in Int /\ -10000 <= m \div 10000 /\ m \div 10000 <= 10000
  BY <1>3, <1>4
<1>. QED
  BY <1>5 DEF Bps, Whole, m

IsProduct(g, f, S) ==
    g = [s \in SUBSET S |->
           IF s = {} THEN Whole
           ELSE (f[CHOOSE x \in s : TRUE] * g[s \ {CHOOSE x \in s : TRUE}]) \div Whole]

LEMMA CompoundedIs ==
    ASSUME NEW S, IsFiniteSet(S), NEW f, \A x \in S : f[x] \in Bps
    PROVE  Compounded(f, S) \in Int /\ Compounded(f, S) <= 0
<1>. DEFINE F == [xt \in S \X Bps |-> (f[xt[1]] * xt[2]) \div Whole]
            v == CHOOSE g : IsProduct(g, f, S)
<1>1. F \in [S \X Bps -> Bps]
  <2>1. ASSUME NEW xt \in S \X Bps PROVE (f[xt[1]] * xt[2]) \div Whole \in Bps
    <3>1. f[xt[1]] \in Bps /\ xt[2] \in Bps
      OBVIOUS
    <3>. QED
      BY <3>1, BpsProduct
  <2>. QED
    BY <2>1
<1>2. \A x \in S, t \in Bps : F[<<x, t>>] = (f[x] * t) \div Whole
  OBVIOUS
<1>3. Whole \in Bps
  BY DEF Bps, Whole
<1>. HIDE DEF F
<1>4. PICK g \in [SUBSET S -> Bps] : Unfolds(g, F, Whole, S)
  BY <1>1, <1>3, FoldExists, Zenon
<1>5. IsProduct(g, f, S)
  <2>1. ASSUME NEW s \in SUBSET S
        PROVE  g[s] = IF s = {} THEN Whole
                      ELSE (f[CHOOSE x \in s : TRUE] * g[s \ {CHOOSE x \in s : TRUE}]) \div Whole
    <3>1. CASE s = {}
      BY <1>4, <3>1 DEF Unfolds
    <3>2. CASE s # {}
      <4>1. Pick1(s) \in S /\ g[s \ {Pick1(s)}] \in Bps
        BY <3>2 DEF Pick1
      <4>2. g[s] = F[<<Pick1(s), g[s \ {Pick1(s)}]>>]
        BY <1>4, <3>2 DEF Unfolds
      <4>3. g[s] = (f[Pick1(s)] * g[s \ {Pick1(s)}]) \div Whole
        BY <1>2, <4>1, <4>2
      <4>. QED
        BY <3>2, <4>3, Zenon DEF Pick1
    <3>. QED
      BY <3>1, <3>2
  <2>2. g = [s \in SUBSET S |-> g[s]]
    OBVIOUS
  <2>. QED
    BY <2>1, <2>2, Zenon DEF IsProduct
<1>6. IsProduct(v, f, S)
  BY <1>5, Zenon
<1>7. Compounded(f, S) = v[S] - Whole
  BY Zenon DEF Compounded, FoldSet, MapThenFoldSet, IsProduct
<1>. HIDE DEF v
<1>. DEFINE good == {s \in SUBSET S : v[s] \in Bps}
<1>8. \A s \in SUBSET S :
         v[s] = IF s = {} THEN Whole ELSE (f[Pick1(s)] * v[s \ {Pick1(s)}]) \div Whole
  BY <1>6, Zenon DEF IsProduct, Pick1
<1>9. {} \in good
  BY <1>3, <1>8
<1>10. ASSUME NEW s \in SUBSET S, s # {}, s \ {Pick1(s)} \in good PROVE s \in good
  <2>1. f[Pick1(s)] \in Bps
    BY <1>10 DEF Pick1
  <2>2. v[s \ {Pick1(s)}] \in Bps
    BY <1>10
  <2>3. (f[Pick1(s)] * v[s \ {Pick1(s)}]) \div Whole \in Bps
    BY <2>1, <2>2, BpsProduct
  <2>4. v[s] \in Bps
    BY <1>8, <1>10, <2>3
  <2>. QED
    BY <2>4
<1>11. S \in good
  <2>. HIDE DEF good
  <2>1. \A s \in SUBSET S : s \in good
    BY <1>9, <1>10, PartByPart
  <2>. QED
    BY <2>1
<1>12. v[S] \in Bps
  BY <1>11
<1>. HIDE DEF good
<1>. QED
  BY <1>7, <1>12 DEF Bps, Whole

\* The mean over the names.
IsTotal(g, runs) ==
    g = [s \in SUBSET Equities |->
           IF s = {} THEN 0
           ELSE NameReturn({r \in runs : r.name = CHOOSE x \in s : TRUE})
                  + g[s \ {CHOOSE x \in s : TRUE}]]

LEMMA SomeEquities == IsFiniteSet(Equities) /\ Cardinality(Equities) \in Nat \ {0}
<1>1. IsFiniteSet(Equities)
  <2>1. IsFiniteSet(Names) /\ Equities \in SUBSET Names
    BY LabAssumption DEF Names
  <2>. QED
    BY <2>1, FS_Subset
<1>2. Equities # {}
  BY LabAssumption
<1>. QED
  BY <1>1, <1>2, FS_CardinalityType, FS_EmptySet

LEMMA MeanReturnIs ==
    ASSUME NEW runs,
           \A y \in Equities : /\ NameReturn({r \in runs : r.name = y}) \in Int
                               /\ NameReturn({r \in runs : r.name = y}) <= 0
    PROVE  MeanReturn(runs) \in Int /\ MeanReturn(runs) <= 0
<1>. DEFINE V == {x \in Int : x <= 0}
            R == [y \in Equities |-> NameReturn({r \in runs : r.name = y})]
            F == [yt \in Equities \X V |-> R[yt[1]] + yt[2]]
            v == CHOOSE g : IsTotal(g, runs)
<1>0. \A y \in Equities : R[y] = NameReturn({r \in runs : r.name = y}) /\ R[y] \in V
  OBVIOUS
<1>. HIDE DEF R
<1>1. ASSUME NEW y \in Equities, NEW t \in V PROVE R[y] + t \in V
  <2>1. R[y] \in Int /\ R[y] <= 0 /\ t \in Int /\ t <= 0
    BY <1>0
  <2>. QED
    BY <2>1
<1>2. F \in [Equities \X V -> V]
  BY <1>1
<1>3. \A y \in Equities, t \in V : F[<<y, t>>] = R[y] + t
  OBVIOUS
<1>4. 0 \in V
  OBVIOUS
<1>. HIDE DEF F, V
<1>5. PICK g \in [SUBSET Equities -> V] : Unfolds(g, F, 0, Equities)
  BY <1>2, <1>4, SomeEquities, FoldExists, Zenon
<1>6. IsTotal(g, runs)
  <2>1. ASSUME NEW s \in SUBSET Equities
        PROVE  g[s] = IF s = {} THEN 0 ELSE R[Pick1(s)] + g[s \ {Pick1(s)}]
    <3>1. CASE s = {}
      BY <1>5, <3>1 DEF Unfolds
    <3>2. CASE s # {}
      <4>1. Pick1(s) \in Equities /\ g[s \ {Pick1(s)}] \in V
        BY <3>2 DEF Pick1
      <4>2. g[s] = F[<<Pick1(s), g[s \ {Pick1(s)}]>>]
        BY <1>5, <3>2 DEF Unfolds
      <4>. QED
        BY <1>3, <3>2, <4>1, <4>2
    <3>. QED
      BY <3>1, <3>2
  <2>2. ASSUME NEW s \in SUBSET Equities
        PROVE  g[s] = IF s = {} THEN 0
                      ELSE NameReturn({r \in runs : r.name = CHOOSE x \in s : TRUE})
                             + g[s \ {CHOOSE x \in s : TRUE}]
    <3>1. CASE s = {}
      BY <2>1, <3>1
    <3>2. CASE s # {}
      <4>1. Pick1(s) \in Equities
        BY <3>2 DEF Pick1
      <4>2. R[Pick1(s)] = NameReturn({r \in runs : r.name = Pick1(s)})
        BY <1>0, <4>1
      <4>. QED
        BY <2>1, <3>2, <4>2, Zenon DEF Pick1
    <3>. QED
      BY <3>1, <3>2
  <2>3. g = [s \in SUBSET Equities |-> g[s]]
    OBVIOUS
  <2>. QED
    BY <2>2, <2>3, Zenon DEF IsTotal
<1>7. IsTotal(v, runs)
  BY <1>6, Zenon
<1>8. MeanReturn(runs) = v[Equities] \div Cardinality(Equities)
  BY Zenon DEF MeanReturn, FoldSet, MapThenFoldSet, IsTotal
<1>. HIDE DEF v
<1>9. \A s \in SUBSET Equities :
         v[s] = IF s = {} THEN 0
                ELSE NameReturn({r \in runs : r.name = Pick1(s)}) + v[s \ {Pick1(s)}]
  BY <1>7, Zenon DEF IsTotal, Pick1
<1>. DEFINE good == {s \in SUBSET Equities : v[s] \in V}
<1>10. {} \in good
  BY <1>4, <1>9
<1>11. ASSUME NEW s \in SUBSET Equities, s # {}, s \ {Pick1(s)} \in good PROVE s \in good
  <2>1. Pick1(s) \in Equities
    BY <1>11 DEF Pick1
  <2>2. v[s \ {Pick1(s)}] \in V
    BY <1>11
  <2>3. v[s] = R[Pick1(s)] + v[s \ {Pick1(s)}]
    BY <1>0, <1>9, <1>11, <2>1
  <2>. QED
    BY <1>1, <2>1, <2>2, <2>3
<1>12. Equities \in good
  <2>. HIDE DEF good
  <2>1. \A s \in SUBSET Equities : s \in good
    BY <1>10, <1>11, SomeEquities, PartByPart
  <2>. QED
    BY <2>1
<1>13. v[Equities] \in V
  BY <1>12
<1>. HIDE DEF good
<1>. QED
  <2>. DEFINE a == v[Equities]
              b == Cardinality(Equities)
  <2>1. a \in Int /\ a <= 0 /\ b \in Nat \ {0}
    BY <1>13, SomeEquities DEF V
  <2>. HIDE DEF a, b
  <2>2. a \div b \in Int /\ a \div b <= 0
    BY <2>1
  <2>. QED
    BY <1>8, <2>2 DEF a, b

\* Every fold over every name, and what a method earned on them.
FoldRuns(v, closes, wins) ==
    {[name |-> y, book |-> SimulateFold(Params[v], closes[y], w[1], w[2]), win |-> w] :
        y \in Equities, w \in wins}

LEMMA RetOf ==
    ASSUME NEW v, NEW closes, NEW wins
    PROVE  WalkForward(v, closes, wins).ret = MeanReturn(FoldRuns(v, closes, wins))
<1>1. \A ret, nifty, runs : Aggregate(v, ret, nifty, runs).ret = ret
  BY Zenon DEF Aggregate
<1>2. WalkForward(v, closes, wins) = Scored(v, IndexReturn(closes[Index], wins), FoldRuns(v, closes, wins))
  BY DEF WalkForward, FoldRuns
<1>3. \A nifty, runs : Scored(v, nifty, runs) = Aggregate(v, MeanReturn(runs), nifty, runs)
  BY Zenon DEF Scored
<1>4. WalkForward(v, closes, wins) = Aggregate(v, MeanReturn(FoldRuns(v, closes, wins)),
                                                IndexReturn(closes[Index], wins), FoldRuns(v, closes, wins))
  BY <1>2, <1>3
<1>. QED
  BY <1>1, <1>4

LEMMA FoldRunsFinite ==
    ASSUME NEW v, NEW closes, NEW wins, IsFiniteSet(wins)
    PROVE  IsFiniteSet(FoldRuns(v, closes, wins))
<1>. DEFINE Of(y, w) == [name |-> y, book |-> SimulateFold(Params[v], closes[y], w[1], w[2]), win |-> w]
            f == [yw \in Equities \X wins |-> Of(yw[1], yw[2])]
            T == FoldRuns(v, closes, wins)
<1>1. IsFiniteSet(Equities \X wins)
  BY SomeEquities, FS_Product
<1>2. T = {Of(y, w) : y \in Equities, w \in wins}
  BY DEF FoldRuns
<1>. HIDE DEF Of, T
<1>3. f \in Surjection(Equities \X wins, T)
  <2>1. \A yw \in Equities \X wins : f[yw] = Of(yw[1], yw[2]) /\ Of(yw[1], yw[2]) \in T
    BY <1>2
  <2>2. \A t \in T : \E yw \in Equities \X wins : f[yw] = t
    <3>. SUFFICES ASSUME NEW t \in T PROVE \E yw \in Equities \X wins : f[yw] = t
      OBVIOUS
    <3>1. PICK y \in Equities, w \in wins : t = Of(y, w)
      BY <1>2
    <3>2. <<y, w>> \in Equities \X wins /\ f[<<y, w>>] = Of(y, w)
      OBVIOUS
    <3>. QED
      BY <3>1, <3>2
  <2>3. f \in [Equities \X wins -> T]
    BY <2>1
  <2>. HIDE DEF f
  <2>. QED
    BY <2>2, <2>3 DEF Surjection
<1>. HIDE DEF f
<1>4. IsFiniteSet(T)
  BY <1>1, <1>3, FS_Surjection
<1>. QED
  BY <1>4 DEF T

\* The test folds lie within the days, and there are two at most.
LEMMA TwoAtMost ==
    ASSUME NEW a, NEW b, NEW s \in {<<>>, <<a>>}, NEW t \in {<<>>, <<b>>}
    PROVE  ToSet(s \o t) \subseteq {a, b}
<1>. DEFINE U == {a, b}
<1>0. a \in U /\ b \in U
  OBVIOUS
<1>. HIDE DEF U
<1>1. s \in Seq(U) /\ t \in Seq(U)
  <2>1. <<>> \in Seq(U) /\ <<a>> \in Seq(U) /\ <<b>> \in Seq(U)
    BY <1>0
  <2>. QED
    BY <2>1
<1>2. s \o t \in Seq(U)
  BY <1>1, ConcatProperties
<1>3. \A k \in DOMAIN (s \o t) : (s \o t)[k] \in U
  <2>. DEFINE q == s \o t
  <2>1. q \in Seq(U)
    BY <1>2
  <2>. HIDE DEF q
  <2>2. \A k \in DOMAIN q : q[k] \in U
    BY <2>1, LenProperties
  <2>. QED
    BY <2>2 DEF q
<1>4. ToSet(s \o t) \subseteq U
  BY <1>3 DEF ToSet
<1>. QED
  BY <1>4 DEF U

LEMMA WindowsAre ==
    ASSUME NEW days, NEW n \in Nat \ {0}, n = Len(days), days \in [1..n -> Nat]
    PROVE  /\ IsFiniteSet(ToSet(OOSWindows(days)))
           /\ \A w \in ToSet(OOSWindows(days)) : w[1] \in 1..n /\ w[2] \in Int /\ w[2] <= n
<1>. DEFINE S(k) == {i \in 1..n : days[i] >= days[n] - k * Year}
            from(k) == Min(S(k))
            a == <<from(2), from(1) - 1>>
            b == <<from(1), n>>
            s == IF from(2) - 1 >= MinTrain THEN <<a>> ELSE <<>>
            t == IF from(1) - 1 >= MinTrain THEN <<b>> ELSE <<>>
<1>1. ASSUME NEW k \in {1, 2} PROVE from(k) \in 1..n
  <2>1. Year \in Nat /\ n \in 1..n /\ days[n] \in Nat
    BY LabAssumption
  <2>2. days[n] >= days[n] - k * Year
    BY <2>1
  <2>. DEFINE Z == S(k)
  <2>3. Z \in SUBSET Nat /\ Z # {} /\ \A i \in Z : i \in 1..n
    BY <2>1, <2>2
  <2>. HIDE DEF Z
  <2>4. Min(Z) \in Z
    BY <2>3, MinOf
  <2>. QED
    BY <2>3, <2>4 DEF Z
<1>2. from(1) \in 1..n /\ from(2) \in 1..n
  BY <1>1
<1>3. OOSWindows(days) = IF n < MinDays THEN <<>> ELSE s \o t
  BY DEF OOSWindows
<1>. HIDE DEF from
<1>4. s \in {<<>>, <<a>>} /\ t \in {<<>>, <<b>>}
  OBVIOUS
<1>5. /\ a[1] \in 1..n /\ a[2] \in Int /\ a[2] <= n
      /\ b[1] \in 1..n /\ b[2] \in Int /\ b[2] <= n
  BY <1>2
<1>. HIDE DEF a, b, s, t
<1>6. ToSet(OOSWindows(days)) \subseteq {a, b}
  <2>1. CASE n < MinDays
    BY <1>3, <2>1 DEF ToSet
  <2>2. CASE ~(n < MinDays)
    BY <1>3, <1>4, <2>2, TwoAtMost
  <2>. QED
    BY <2>1, <2>2
<1>7. IsFiniteSet({a, b})
  <2>1. IsFiniteSet({a}) /\ IsFiniteSet({b})
    BY FS_Singleton
  <2>2. IsFiniteSet({a} \cup {b})
    BY <2>1, FS_Union
  <2>3. {a} \cup {b} = {a, b}
    OBVIOUS
  <2>. QED
    BY <2>2, <2>3
<1>8. IsFiniteSet(ToSet(OOSWindows(days)))
  BY <1>6, <1>7, FS_Subset
<1>. QED
  BY <1>5, <1>6, <1>8

\* A method earns nothing on closes that only fall, so none passes the gate.
LEMMA NothingEarned ==
    ASSUME NEW v \in Variants, NEW closes, NEW n, NEW wins, IsFiniteSet(wins),
           \A y \in Equities : CloseDays(closes[y], n) /\ Falls(closes[y], n),
           \A w \in wins : w[1] \in 1..n /\ w[2] \in Int /\ w[2] <= n
    PROVE  ~PassesGate(WalkForward(v, closes, wins))
<1>. DEFINE runs == FoldRuns(v, closes, wins)
<1>1. ASSUME NEW r \in runs PROVE r.book.cash \div 100 \in Bps
  <2>1. PICK y \in Equities, w \in wins : r.book = SimulateFold(Params[v], closes[y], w[1], w[2])
    BY DEF FoldRuns
  <2>2. BareCash(r.book.cash)
    BY <2>1, LeanFold
  <2>. DEFINE x == r.book.cash
  <2>. HIDE DEF x
  <2>3. x \in Int /\ -12 <= x /\ x <= 1000000
    BY <2>2 DEF BareCash, StartCash, x
  <2>4. x \div 100 \in Int /\ -10000 <= x \div 100 /\ x \div 100 <= 10000
    BY <2>3
  <2>. QED
    BY <2>4 DEF Bps, x
<1>2. IsFiniteSet(runs)
  BY FoldRunsFinite
<1>. HIDE DEF runs
<1>3. ASSUME NEW y \in Equities
      PROVE  /\ NameReturn({r \in runs : r.name = y}) \in Int
             /\ NameReturn({r \in runs : r.name = y}) <= 0
  <2>. DEFINE mine == {r \in runs : r.name = y}
              f == [r \in mine |-> r.book.cash \div 100]
  <2>1. mine \in SUBSET runs
    OBVIOUS
  <2>2. IsFiniteSet(mine)
    BY <1>2, <2>1, FS_Subset
  <2>3. \A r \in mine : f[r] \in Bps
    BY <1>1
  <2>4. NameReturn(mine) = Compounded(f, mine)
    BY DEF NameReturn
  <2>. HIDE DEF f, mine
  <2>5. NameReturn(mine) \in Int /\ NameReturn(mine) <= 0
    BY <2>2, <2>3, <2>4, CompoundedIs
  <2>. QED
    BY <2>5 DEF mine
<1>4. MeanReturn(runs) \in Int /\ MeanReturn(runs) <= 0
  BY <1>3, MeanReturnIs
<1>5. WalkForward(v, closes, wins).ret = MeanReturn(runs)
  BY RetOf DEF runs
<1>. DEFINE rep == WalkForward(v, closes, wins)
<1>. HIDE DEF rep
<1>6. ~(rep.ret > 0)
  BY <1>4, <1>5 DEF rep
<1>7. ~PassesGate(rep)
  BY <1>6 DEF PassesGate
<1>. QED
  BY <1>7 DEF rep

\* On an exchange where no name ever rises, in a candle neither, whatever the
\* index does.
NothingRises ==
    \A x \in Equities : \A d, e \in Printed(tape[x]) :
        d < e => tape[x][e] <= tape[x][d] /\ \A m \in Mornings : m[x][e] <= tape[x][d]

LEMMA NothingPasses ==
    ASSUME MarketTyped, CacheInv, NothingRises, NEW years \in Years,
           \A x \in Names : Readable(x, years)
    PROVE  Passing(years) = {}
<1>. DEFINE days == RunDays(years)
            n == Len(days)
            closes == Aligned(years)
            wins == ToSet(OOSWindows(days))
<1>1. \A y \in Equities : y \in Names
  BY DEF Names
<1>2. days # <<>>
  BY DEF Readable, Names
<1>3. n \in Nat \ {0} /\ days \in [1..n -> Nat]
  <2>1. n \in Nat \ {0} /\ days \in [1..n -> Sessions(years)] /\ Sessions(years) \in SUBSET (1..LastDay)
    BY <1>2, RunDaysIs
  <2>2. Sessions(years) \in SUBSET Nat
    BY <2>1, SomeDays
  <2>. QED
    BY <2>1, <2>2
<1>4. ASSUME NEW y \in Equities PROVE CloseDays(closes[y], n) /\ Falls(closes[y], n)
  <2>. DEFINE source(k) == SourceAt(y, years, k)
              last(k) == closes[y][k]
  <2>1. /\ closes[y] \in [1..n -> Nat \ {0}]
        /\ \A k \in 1..n : /\ source(k) \in Printed(tape[y])
                           /\ last(k) = RunBars(y, years)[source(k)]
                           /\ \/ last(k) = tape[y][source(k)]
                              \/ \E m \in Mornings : last(k) = m[y][source(k)]
        /\ \A k, l \in 1..n :
              k <= l => /\ source(k) <= source(l)
                        /\ source(k) < source(l) => last(k) = tape[y][source(k)]
    BY <1>1, AlignedIs
  <2>2. Printed(tape[y]) \subseteq Nat
    BY <1>1, TapeTyped DEF Printed
  <2>3. ASSUME NEW k \in 1..n, NEW l \in 1..n, k <= l PROVE closes[y][l] <= closes[y][k]
    <3>. HIDE DEF n, closes, source
    <3>1. source(k) \in Nat /\ source(l) \in Nat /\ source(k) <= source(l)
      BY <2>1, <2>2, <2>3
    <3>2. CASE source(k) = source(l)
      <4>1. last(k) = last(l) /\ last(k) \in Nat
        BY <2>1, <3>2
      <4>. HIDE DEF last
      <4>. QED
        BY <4>1 DEF last
    <3>3. CASE source(k) < source(l)
      <4>1. last(k) = tape[y][source(k)]
        BY <2>1, <2>3, <3>3
      <4>2. /\ tape[y][source(l)] <= tape[y][source(k)]
            /\ \A m \in Mornings : m[y][source(l)] <= tape[y][source(k)]
        BY <2>1, <3>3 DEF NothingRises
      <4>. QED
        BY <2>1, <4>1, <4>2
    <3>. QED
      BY <3>1, <3>2, <3>3
  <2>. HIDE DEF n, closes
  <2>4. Falls(closes[y], n)
    BY <2>3 DEF Falls
  <2>5. CloseDays(closes[y], n)
    BY <1>3, <2>1 DEF CloseDays
  <2>. QED
    BY <2>4, <2>5
<1>5. IsFiniteSet(wins) /\ \A w \in wins : w[1] \in 1..n /\ w[2] \in Int /\ w[2] <= n
  <2>. HIDE DEF days
  <2>. QED
    BY <1>3, WindowsAre
<1>6. Passing(years) = {v \in {WalkForward(x, closes, wins) : x \in Variants} : PassesGate(v)}
  BY DEF Passing
<1>. HIDE DEF days, n, closes, wins
<1>7. \A x \in Variants : ~PassesGate(WalkForward(x, closes, wins))
  BY <1>4, <1>5, NothingEarned
<1>. QED
  BY <1>6, <1>7

LEMMA JudgedBarren ==
    ASSUME MarketTyped, CacheInv, NothingRises, NEW years \in Years, Promotable(Judged(years))
    PROVE  Judged(years).roster = {}
<1>1. Judged(years) = Verdict(Real, day, Passing(years)) /\ Passing(years) = {}
  BY JudgedIs, NothingPasses
<1>2. ~IsMockTape(Real)
  BY DEF IsMockTape, Mock, Real
<1>. DEFINE passing == Passing(years)
            kept == Defaults \cap {v.id : v \in passing}
            fresh == {v \in passing : v.id \notin Defaults}
            added == Admit(fresh)
<1>3. Verdict(Real, day, passing) = Roster(Real, day, kept, added)
  BY <1>2 DEF Verdict
<1>4. kept = {} /\ fresh = {}
  BY <1>1
<1>. HIDE DEF kept, fresh, passing
<1>5. added = {}
  BY <1>4, AdmitPasses
<1>. HIDE DEF added
<1>6. Roster(Real, day, kept, added).roster = kept \cup added
  BY DEF Roster
<1>. QED
  BY <1>1, <1>3, <1>4, <1>5, <1>6 DEF passing

\* Then no snapshot holds a method, nor does any that is still to be saved.
BarrenInv ==
    NothingRises =>
        /\ \A s \in saved : s.roster = {}
        /\ \A r \in Runs \cup {Tool} : run[r].pc \in {"judged", "saved"} => run[r].rep.roster = {}

LEMMA BarrenStep ==
    ASSUME LabInv, CacheInv, BarrenInv, [Next]_vars
    PROVE  BarrenInv'
<1>. SUFFICES ASSUME NothingRises'
             PROVE  /\ \A s \in saved' : s.roster = {}
                    /\ \A r \in Runs \cup {Tool} :
                          run'[r].pc \in {"judged", "saved"} => run'[r].rep.roster = {}
  BY DEF BarrenInv
<1>1. tape' = tape
  BY DEF Next, vars, Boot, SeedCurrent, Crash, Quote, CloseMarket, NextDay, TokenLapses,
         RunBacktest, SaveRoster, ApplyBacktest, market, service
<1>2. NothingRises
  <2>1. NothingRises' <=> NothingRises
    BY <1>1 DEF NothingRises, Printed
  <2>. QED
    BY <2>1
<1>3. /\ \A s \in saved : s.roster = {}
      /\ \A r \in Runs \cup {Tool} : run[r].pc \in {"judged", "saved"} => run[r].rep.roster = {}
  BY <1>2 DEF BarrenInv
<1>4. run \in [Runs \cup {Tool} -> Attempts] /\ MarketTyped
  BY DEF LabInv, SavedInv
<1>5. CASE UNCHANGED <<run, saved>>
  BY <1>3, <1>5
<1>6. CASE Boot \/ SeedCurrent
  <2>1. saved' = saved /\ \E a : run' = [run EXCEPT ![Seed] = a] /\ a.pc \in {"idle", "seed"}
    BY <1>6 DEF Boot, SeedCurrent, Idle
  <2>. QED
    BY <1>3, <1>4, <2>1
<1>7. CASE Crash
  <2>1. saved' = saved /\ run' = [r \in DOMAIN run |-> IF r = Tool THEN run[r] ELSE Idle]
    BY <1>7 DEF Crash
  <2>. QED
    BY <1>3, <1>4, <2>1 DEF Idle
<1>8. ASSUME NEW r \in Runs \cup {Tool}, NEW years \in Years, RunBacktest(r, years)
      PROVE  /\ \A s \in saved' : s.roster = {}
             /\ \A q \in Runs \cup {Tool} :
                   run'[q].pc \in {"judged", "saved"} => run'[q].rep.roster = {}
  <2>. DEFINE a == IF Promotable(Judged(years)) THEN [pc |-> "judged", rep |-> Judged(years)] ELSE Idle
  <2>1. saved' = saved /\ run' = [run EXCEPT ![r] = a]
    BY <1>8 DEF RunBacktest
  <2>2. a.pc \in {"judged", "saved"} => a.rep.roster = {}
    BY <1>2, <1>4, JudgedBarren DEF Idle
  <2>. HIDE DEF a
  <2>. QED
    BY <1>3, <1>4, <2>1, <2>2
<1>9. ASSUME NEW r \in Runs \cup {Tool}, SaveRoster(r)
      PROVE  /\ \A s \in saved' : s.roster = {}
             /\ \A q \in Runs \cup {Tool} :
                   run'[q].pc \in {"judged", "saved"} => run'[q].rep.roster = {}
  <2>. DEFINE snap == run[r].rep
  <2>1. run[r].pc = "judged" /\ saved' \subseteq saved \cup {snap}
        /\ (run' = [run EXCEPT ![r] = Idle] \/ run' = [run EXCEPT ![r] = [pc |-> "saved", rep |-> snap]])
    BY <1>9 DEF SaveRoster, AfterFailure
  <2>2. snap.roster = {}
    BY <1>3, <2>1
  <2>. HIDE DEF snap
  <2>. QED
    BY <1>3, <1>4, <2>1, <2>2 DEF Idle
<1>10. ASSUME NEW r \in Runs \cup {Tool}, ApplyBacktest(r)
       PROVE  /\ \A s \in saved' : s.roster = {}
              /\ \A q \in Runs \cup {Tool} :
                    run'[q].pc \in {"judged", "saved"} => run'[q].rep.roster = {}
  <2>1. saved' = saved /\ run' = [run EXCEPT ![r] = Idle]
    BY <1>10 DEF ApplyBacktest
  <2>. QED
    BY <1>3, <1>4, <2>1 DEF Idle
<1>. QED
  <2>1. CASE Quote \/ CloseMarket \/ NextDay \/ TokenLapses \/ UNCHANGED vars
    BY <1>5, <2>1 DEF Quote, CloseMarket, NextDay, TokenLapses, vars
  <2>. QED
    BY <1>6, <1>7, <1>8, <1>9, <1>10, <2>1 DEF Next

\* For every universe, search grid, gate and set of runs: where no name ever rises,
\* in a candle of before the close neither, no method is put on a roster, however
\* far the index falls and whenever the bars were fetched.
THEOREM NothingTradesUnearned == LabSpec => []NothingEarnedNothingTrades
<1>1. Init => BarrenInv
  BY DEF Init, BarrenInv, Idle
<1>2. LabInv /\ CacheInv /\ BarrenInv /\ [Next]_vars => BarrenInv'
  BY BarrenStep
<1>3. BarrenInv => NothingEarnedNothingTrades
  BY DEF BarrenInv, NothingRises, NothingEarnedNothingTrades
<1>. QED
  BY <1>1, <1>2, <1>3, LabInvariant, CacheInvariant, PTL DEF LabSpec

-----------------------------------------------------------------------------
(* What a day of a fold reads: the closes up to it.                        *)

\* Closes that agree on the first days.
Agree(c, e, n) == \A k \in 1..n : e[k] = c[k]

LEMMA PartSame ==
    ASSUME NEW c, NEW e, NEW n, CloseDays(c, n), Agree(c, e, n),
           NEW first \in Int, NEW last \in Int, 1 <= first, first - 1 <= last, last <= n
    PROVE  SumOver(c, first, last) = SumOver(e, first, last)
<1>1. ASSUME NEW k \in first..last PROVE c[k] \in Int /\ c[k] = e[k]
  <2>1. k \in 1..n
    BY DEF CloseDays
  <2>. QED
    BY <2>1 DEF CloseDays, Agree
<1>. QED
  BY <1>1, SumSame

LEMMA EvaluateSame ==
    ASSUME NEW c, NEW e, NEW n, CloseDays(c, n), Agree(c, e, n),
           NEW v \in Variants, NEW i \in 1..n, i > Need(Params[v])
    PROVE  Evaluate(Params[v], c, i) = Evaluate(Params[v], e, i)
<1>. DEFINE p == Params[v]
<1>1. /\ p.fast \in Nat /\ p.slow \in Nat /\ p.lookback \in Nat
      /\ p.fast < i /\ p.slow < i /\ p.lookback < i
  <2>1. p.fast \in Nat /\ p.slow \in Nat /\ p.lookback \in Nat
    BY LabAssumption
  <2>2. Need(p) \in Nat /\ Need(p) >= p.fast /\ Need(p) >= p.slow /\ Need(p) >= p.lookback
    BY NeedIs
  <2>. QED
    BY <2>1, <2>2 DEF CloseDays
<1>. HIDE DEF p
<1>2. n \in Nat /\ i \in Int /\ i <= n /\ e[i] = c[i]
  BY DEF CloseDays, Agree
<1>3. SumOver(c, i - p.slow + 1, i) = SumOver(e, i - p.slow + 1, i)
  <2>. DEFINE first == i - p.slow + 1
  <2>1. first \in Int /\ 1 <= first /\ first - 1 <= i
    BY <1>1, <1>2
  <2>. HIDE DEF first
  <2>2. SumOver(c, first, i) = SumOver(e, first, i)
    BY <1>2, <2>1, PartSame
  <2>. QED
    BY <2>2 DEF first
<1>4. SumOver(c, i - p.fast + 1, i) = SumOver(e, i - p.fast + 1, i)
  <2>. DEFINE first == i - p.fast + 1
  <2>1. first \in Int /\ 1 <= first /\ first - 1 <= i
    BY <1>1, <1>2
  <2>. HIDE DEF first
  <2>2. SumOver(c, first, i) = SumOver(e, first, i)
    BY <1>2, <2>1, PartSame
  <2>. QED
    BY <2>2 DEF first
<1>5. c[i - p.lookback] = e[i - p.lookback]
  <2>. DEFINE k == i - p.lookback
  <2>1. k \in 1..n
    BY <1>1, <1>2
  <2>. HIDE DEF k
  <2>2. e[k] = c[k]
    BY <2>1 DEF Agree
  <2>. QED
    BY <2>2 DEF k
<1>6. {c[k] : k \in (i - p.lookback)..(i - 1)} = {e[k] : k \in (i - p.lookback)..(i - 1)}
  <2>1. ASSUME NEW k \in (i - p.lookback)..(i - 1) PROVE c[k] = e[k]
    <3>1. k \in 1..n
      BY <1>1, <1>2
    <3>. QED
      BY <3>1 DEF Agree
  <2>. QED
    BY <2>1
<1>7. Means(p, c, i) = Means(p, e, i)
  BY <1>3, <1>4, Zenon DEF Means
<1>8. SMA(p, c, i) = SMA(p, e, i)
  BY <1>7, Zenon DEF SMA
<1>9. Swing(p, c, i) = Swing(p, e, i)
  BY <1>7, Zenon DEF Swing
<1>10. Momentum(p, c, i) = Momentum(p, e, i)
  BY <1>2, <1>5, Zenon DEF Momentum
<1>11. MeanRevert(p, c, i) = MeanRevert(p, e, i)
  BY <1>2, <1>3, Zenon DEF MeanRevert
<1>12. Breakout(p, c, i) = Breakout(p, e, i)
  <2>1. Max({c[k] : k \in (i - p.lookback)..(i - 1)}) = Max({e[k] : k \in (i - p.lookback)..(i - 1)})
    BY <1>6, Zenon
  <2>. DEFINE a == Max({c[k] : k \in (i - p.lookback)..(i - 1)})
              b == Max({e[k] : k \in (i - p.lookback)..(i - 1)})
  <2>2. Breakout(p, c, i) = [dir |-> IF 1000 * c[i] > 1003 * a THEN 1 ELSE 0,
                             strong |-> 100000 * c[i] >= 100927 * a]
    BY DEF Breakout
  <2>3. Breakout(p, e, i) = [dir |-> IF 1000 * e[i] > 1003 * b THEN 1 ELSE 0,
                             strong |-> 100000 * e[i] >= 100927 * b]
    BY DEF Breakout
  <2>4. a = b
    BY <2>1
  <2>. HIDE DEF a, b
  <2>. QED
    BY <1>2, <2>2, <2>3, <2>4
<1>13. LastSeen(c, i) = i /\ LastSeen(e, i) = i
  BY DEF LastSeen
<1>14. Evaluate(p, c, i) = Evaluate(p, e, i)
  BY <1>8, <1>9, <1>10, <1>11, <1>12, <1>13 DEF Evaluate
<1>. QED
  BY <1>14 DEF p

LEMMA DaySame ==
    ASSUME NEW c, NEW e, NEW n, CloseDays(c, n), Agree(c, e, n),
           NEW v \in Variants, NEW i \in 1..n, i > Need(Params[v]), NEW s
    PROVE  FoldDay(Params[v], c, s, i) = FoldDay(Params[v], e, s, i)
<1>. DEFINE p == Params[v]
<1>1. Evaluate(p, c, i) = Evaluate(p, e, i)
  BY EvaluateSame
<1>. HIDE DEF p
<1>2. e[i] = c[i] /\ n \in Nat /\ i \in Int /\ 1 <= i /\ i <= n
  BY DEF Agree, CloseDays
<1>3. FoldADV(c, i) = FoldADV(e, i)
  <2>. DEFINE first == IF i > 20 THEN i - 19 ELSE 1
  <2>1. first \in Int /\ 1 <= first /\ first - 1 <= i
    BY <1>2
  <2>. HIDE DEF first
  <2>2. SumOver(c, first, i) = SumOver(e, first, i)
    BY <1>2, <2>1, PartSame
  <2>. DEFINE a == SumOver(c, first, i) \div (i - first + 1)
              b == SumOver(e, first, i) \div (i - first + 1)
  <2>3. a = b
    BY <2>2
  <2>4. FoldADV(c, i) = (IF a < 100000 THEN 1 ELSE a \div 100000)
        /\ FoldADV(e, i) = (IF b < 100000 THEN 1 ELSE b \div 100000)
    BY DEF FoldADV, first
  <2>. HIDE DEF a, b
  <2>. QED
    BY <2>3, <2>4
<1>4. \A t : ClosePos(t, c, i) = ClosePos(t, e, i)
  BY <1>2, <1>3, Zenon DEF ClosePos
<1>5. \A t : OpenPos(t, c, i) = OpenPos(t, e, i)
  BY <1>2, <1>3, Zenon DEF OpenPos
<1>6. \A t : MarkDD(t, c, i) = MarkDD(t, e, i)
  BY <1>2 DEF MarkDD
<1>7. \A sig, t : ExitOn(sig, p, c, t, i) = ExitOn(sig, p, e, t, i)
  BY <1>4, Zenon DEF ExitOn
<1>8. \A sig, t : EnterOn(sig, c, t, i) = EnterOn(sig, e, t, i)
  BY <1>5, Zenon DEF EnterOn
<1>9. \A sig, t : DayOn(sig, p, c, t, i) = DayOn(sig, p, e, t, i)
  BY <1>6, <1>7, <1>8, Zenon DEF DayOn
<1>10. FoldDay(p, c, s, i) = FoldDay(p, e, s, i)
  BY <1>1, <1>9, Zenon DEF FoldDay
<1>. QED
  BY <1>10 DEF p

LEMMA WalkSame ==
    ASSUME NEW c, NEW e, NEW n \in Nat, CloseDays(c, n), CloseDays(e, n), Agree(c, e, n),
           NEW v \in Variants
    PROVE  Walked(Params[v], c, Warm + 1, n, n) = Walked(Params[v], e, Warm + 1, n, n)
<1>. DEFINE p == Params[v]
            first == FirstTraded(p, Warm + 1)
<1>1. Need(p) \in Nat /\ Need(p) >= Warm /\ Warm \in Nat
  BY NeedIs, LabAssumption
<1>2. first \in Nat \ {0} /\ first > Need(p)
  BY <1>1 DEF FirstTraded
<1>. HIDE DEF p
<1>3. ASSUME first >= n PROVE Walked(p, c, Warm + 1, n, n) = Walked(p, e, Warm + 1, n, n)
  <2>1. Walked(p, c, Warm + 1, n, n) = Fresh /\ Walked(p, e, Warm + 1, n, n) = Fresh
    BY <1>3, Zenon DEF Walked
  <2>. QED
    BY <2>1
<1>4. ASSUME ~(first >= n) PROVE Walked(p, c, Warm + 1, n, n) = Walked(p, e, Warm + 1, n, n)
  <2>. HIDE DEF first
  <2>1. first < n /\ first - 1 <= n /\ n \in Int /\ n <= n /\ first \in Int
    BY <1>2, <1>4
  <2>2. PICK b : IsBook(b, p, c, first, n) /\ Walked(p, c, Warm + 1, n, n) = b[n]
    BY <1>2, <2>1, WalkedIs DEF first
  <2>3. PICK d : IsBook(d, p, e, first, n) /\ Walked(p, e, Warm + 1, n, n) = d[n]
    BY <1>2, <2>1, WalkedIs DEF first
  <2>4. b[first - 1] = Fresh /\ \A k \in first..n : b[k] = FoldDay(p, c, b[k - 1], k)
    BY <2>1, <2>2, BookRules
  <2>5. d[first - 1] = Fresh /\ \A k \in first..n : d[k] = FoldDay(p, e, d[k - 1], k)
    BY <2>1, <2>3, BookRules
  <2>. DEFINE good == {k \in Int : b[k] = d[k]}
  <2>6. first - 1 \in good
    BY <2>1, <2>4, <2>5
  <2>7. ASSUME NEW k \in first..n, k - 1 \in good PROVE k \in good
    <3>1. b[k - 1] = d[k - 1]
      BY <2>7
    <3>2. k \in 1..n /\ k > Need(Params[v])
      BY <1>1, <1>2, <2>1 DEF p
    <3>3. FoldDay(p, c, b[k - 1], k) = FoldDay(p, e, b[k - 1], k)
      BY <3>2, DaySame DEF p
    <3>4. b[k] = FoldDay(p, c, b[k - 1], k) /\ d[k] = FoldDay(p, e, d[k - 1], k)
      BY <2>4, <2>5
    <3>5. b[k] = d[k] /\ k \in Int
      BY <3>1, <3>3, <3>4
    <3>. QED
      BY <3>5
  <2>8. n \in good
    <3>. HIDE DEF good
    <3>1. \A k \in first - 1..n : k \in good
      BY <2>1, <2>6, <2>7, DayByDay
    <3>2. n \in first - 1..n
      BY <2>1
    <3>. QED
      BY <3>1, <3>2
  <2>9. b[n] = d[n]
    BY <2>8
  <2>. QED
    BY <2>2, <2>3, <2>9
<1>5. Walked(p, c, Warm + 1, n, n) = Walked(p, e, Warm + 1, n, n)
  BY <1>3, <1>4
<1>. QED
  BY <1>5 DEF p

\* The closes of the first days of a series, filled forward, and backward over a
\* listing.
Upto(t, d) == Closes(SubSeq(t, 1, d), [k \in 1..d |-> k])
PrintsOf(t, d) == {k \in 1..d : t[k] > 0}
SourceOf(t, d, k) ==
    LET past == {e \in PrintsOf(t, d) : e <= k}
    IN  IF past # {} THEN Max(past) ELSE Min(PrintsOf(t, d))

LEMMA UptoIs ==
    ASSUME NEW t, NEW d \in Nat, \A k \in 1..d : t[k] \in Nat, PrintsOf(t, d) # {}
    PROVE  \A k \in 1..d : /\ SourceOf(t, d, k) \in PrintsOf(t, d)
                           /\ Upto(t, d)[k] = t[SourceOf(t, d, k)]
                           /\ Upto(t, d)[k] \in Nat \ {0}
<1>. DEFINE bars == SubSeq(t, 1, d)
            days == [k \in 1..d |-> k]
            P == PrintsOf(t, d)
<1>1. bars \in Seq(Nat) /\ Len(bars) = d /\ \A k \in 1..d : bars[k] = t[k]
  <2>. DEFINE one == 1
  <2>1. one \in Int /\ d \in Int /\ \A k \in one..d : t[k] \in Nat
    OBVIOUS
  <2>2. one = 1
    OBVIOUS
  <2>. HIDE DEF one
  <2>3. /\ SubSeq(t, one, d) \in Seq(Nat) /\ Len(SubSeq(t, one, d)) = IF one <= d THEN d - one + 1 ELSE 0
        /\ \A k \in 1..d - one + 1 : SubSeq(t, one, d)[k] = t[one + k - 1]
    BY <2>1, SubSeqProperties
  <2>4. \A k \in 1..d : one + k - 1 = k /\ k \in 1..d - one + 1
    BY <2>2
  <2>. QED
    BY <2>2, <2>3, <2>4
<1>2. DOMAIN bars = 1..d
  BY <1>1, LenProperties
<1>3. ToSet(days) = 1..d /\ DOMAIN days = 1..d /\ \A k \in 1..d : days[k] = k
  BY DEF ToSet
<1>. HIDE DEF bars, days
<1>4. Printed(bars) \cap ToSet(days) = P
  BY <1>1, <1>2, <1>3 DEF Printed, PrintsOf
<1>5. \A k \in 1..d : SourceDay(bars, days, k) = SourceOf(t, d, k)
  BY <1>4 DEF SourceDay, SourceOf
<1>6. ASSUME NEW k \in 1..d PROVE SourceOf(t, d, k) \in P
  <2>. DEFINE past == {e \in P : e <= k}
  <2>1. P \in SUBSET Nat /\ P # {} /\ \A e \in P : e <= d
    BY DEF PrintsOf
  <2>. HIDE DEF P
  <2>2. past \in SUBSET Nat /\ past \subseteq P /\ \A e \in past : e <= d
    BY <2>1
  <2>3. SourceOf(t, d, k) = IF past # {} THEN Max(past) ELSE Min(P)
    BY DEF SourceOf, P
  <2>. HIDE DEF past
  <2>4. past # {} => Max(past) \in past
    BY <2>2, MaxOf
  <2>5. Min(P) \in P
    BY <2>1, MinOf
  <2>. QED
    BY <2>2, <2>3, <2>4, <2>5
<1>7. ASSUME NEW k \in 1..d
      PROVE  Upto(t, d)[k] = t[SourceOf(t, d, k)] /\ Upto(t, d)[k] \in Nat \ {0}
  <2>1. Upto(t, d) = [l \in 1..d |-> bars[SourceDay(bars, days, days[l])]]
    BY <1>3 DEF Upto, Closes, bars, days
  <2>2. Upto(t, d)[k] = bars[SourceOf(t, d, k)]
    BY <1>3, <1>5, <2>1
  <2>3. SourceOf(t, d, k) \in 1..d /\ t[SourceOf(t, d, k)] > 0
    BY <1>6 DEF PrintsOf
  <2>. QED
    BY <1>1, <2>2, <2>3
<1>. QED
  BY <1>6, <1>7

\* A close of today stands when tomorrow's is known.
LEMMA UptoSame ==
    ASSUME NEW t, NEW d \in Nat, \A k \in 1..d + 1 : t[k] \in Nat, PrintsOf(t, d) # {}
    PROVE  /\ CloseDays(Upto(t, d), d) /\ CloseDays(Upto(t, d + 1), d)
           /\ Agree(Upto(t, d), Upto(t, d + 1), d)
<1>. DEFINE P == PrintsOf(t, d)
            Q == PrintsOf(t, d + 1)
            dd == d + 1
<1>1. /\ P \subseteq Q /\ Q # {} /\ P \in SUBSET Nat /\ Q \in SUBSET Int
      /\ \A e \in Q : e \in P \/ e = d + 1
      /\ \A e \in P : e <= d
  BY DEF PrintsOf
<1>2. dd \in Nat /\ (\A k \in 1..dd : t[k] \in Nat) /\ (\A k \in 1..d : k \in 1..dd /\ t[k] \in Nat)
  OBVIOUS
<1>3. \A k \in 1..d : /\ Upto(t, d)[k] = t[SourceOf(t, d, k)] /\ Upto(t, d)[k] \in Nat \ {0}
  BY <1>2, UptoIs
<1>4. \A k \in 1..dd : Upto(t, dd)[k] = t[SourceOf(t, dd, k)] /\ Upto(t, dd)[k] \in Nat \ {0}
  <2>1. PrintsOf(t, dd) # {}
    BY <1>1
  <2>. HIDE DEF dd
  <2>. QED
    BY <1>2, <2>1, UptoIs
<1>5. ASSUME NEW k \in 1..d PROVE SourceOf(t, dd, k) = SourceOf(t, d, k)
  <2>. DEFINE past == {e \in P : e <= k}
              past2 == {e \in Q : e <= k}
  <2>1. past = past2
    BY <1>1
  <2>2. Min(P) \in P /\ \A e \in P : Min(P) <= e
    BY <1>1, MinOf
  <2>3. Min(Q) = Min(P)
    <3>. HIDE DEF P, Q
    <3>1. Min(P) \in Q /\ Min(P) <= d /\ Min(P) \in Nat
      BY <1>1, <2>2
    <3>2. \A e \in Q : Min(P) <= e
      BY <1>1, <2>2, <3>1
    <3>. QED
      BY <1>1, <3>1, <3>2, MinIs
  <2>4. SourceOf(t, d, k) = IF past # {} THEN Max(past) ELSE Min(P)
    BY DEF SourceOf
  <2>5. SourceOf(t, dd, k) = IF past2 # {} THEN Max(past2) ELSE Min(Q)
    BY DEF SourceOf
  <2>. HIDE DEF P, Q, past, past2
  <2>. QED
    BY <2>1, <2>3, <2>4, <2>5
<1>. HIDE DEF P, Q
<1>6. CloseDays(Upto(t, d), d)
  BY <1>3 DEF CloseDays
<1>7. CloseDays(Upto(t, dd), d)
  BY <1>2, <1>4 DEF CloseDays
<1>8. Agree(Upto(t, d), Upto(t, dd), d)
  BY <1>2, <1>3, <1>4, <1>5 DEF Agree
<1>. QED
  BY <1>6, <1>7, <1>8

\* For every universe, exchange and grid: what a fold did up to a day does not
\* depend on the day after.
THEOREM NeverPeeks == LabSpec => NoPeeking
<1>1. ASSUME LabInv, [Next]_vars, day' # day, NEW x \in Equities, NEW v \in Variants,
             \E d \in 1..day : tape[x][d] > 0
      PROVE  Walked(Params[v], Upto(tape[x], day'), Warm + 1, day, day)
               = Walked(Params[v], Upto(tape[x], day), Warm + 1, day, day)
  <2>1. day' = day + 1 /\ day < LastDay
    BY <1>1 DEF Next, vars, Boot, SeedCurrent, Crash, Quote, CloseMarket, NextDay, TokenLapses,
         RunBacktest, SaveRoster, ApplyBacktest, market, service
  <2>2. day \in Nat /\ LastDay \in Nat /\ tape[x] \in [1..LastDay -> Nat]
    BY <1>1, TapeTyped DEF LabInv, Names
  <2>. DEFINE t == tape[x]
  <2>3. \A k \in 1..day + 1 : t[k] \in Nat
    BY <2>1, <2>2
  <2>4. PrintsOf(t, day) # {}
    BY <1>1 DEF PrintsOf
  <2>. HIDE DEF t
  <2>5. /\ CloseDays(Upto(t, day), day) /\ CloseDays(Upto(t, day + 1), day)
        /\ Agree(Upto(t, day), Upto(t, day + 1), day)
    BY <2>2, <2>3, <2>4, UptoSame
  <2>6. Walked(Params[v], Upto(t, day), Warm + 1, day, day)
          = Walked(Params[v], Upto(t, day + 1), Warm + 1, day, day)
    BY <2>2, <2>5, WalkSame
  <2>. QED
    BY <2>1, <2>6 DEF t
<1>2. LabInv /\ [Next]_vars =>
        [day' # day =>
           \A x \in Equities, v \in Variants :
              LET c(d) == Closes(SubSeq(tape[x], 1, d), [k \in 1..d |-> k])
              IN  (\E d \in 1..day : tape[x][d] > 0) =>
                  Walked(Params[v], c(day'), Warm + 1, day, day)
                    = Walked(Params[v], c(day), Warm + 1, day, day)]_vars
  BY <1>1, Zenon DEF Upto
<1>. QED
  BY <1>2, LabInvariant, PTL DEF LabSpec, NoPeeking

-----------------------------------------------------------------------------
(* What a run reads through the cache.                                     *)

\* A judged close, of an index's session before the days a file may lack, is the
\* last one printed.
LEMMA CloseStands ==
    ASSUME MarketTyped, CacheInv, NEW years \in Years, Judgeable(years), NEW x \in Equities,
           NEW k \in DOMAIN RunDays(years),
           LastPrint(tape[x], RunDays(years), RunDays(years)[1] + Slack, RunDays(years)[k]) > 0,
           RunDays(years)[k] + Lag < Last(RunDays(years))
    PROVE  Closes(RunBars(x, years), RunDays(years))[k]
             = LastPrint(tape[x], RunDays(years), RunDays(years)[1] + Slack, RunDays(years)[k])
<1>. DEFINE days == RunDays(years)
            n == Len(days)
            h == Has(x, years)
            bars == RunBars(x, years)
            P == Printed(bars) \cap ToSet(days)
            L == {e \in Printed(tape[x]) \cap ToSet(days) : days[1] + Slack <= e /\ e <= days[k]}
            past == {e \in P : e <= days[k]}
            m == Max(L)
<1>1. x \in Names /\ x # Index /\ Readable(x, years) /\ h # None /\ days # <<>>
  BY LabAssumption DEF Judgeable, Readable, Names
<1>2. /\ n \in Nat \ {0} /\ days \in [1..n -> Sessions(years)] /\ ToSet(days) = Sessions(years)
      /\ \A i, j \in 1..n : i < j => days[i] < days[j]
      /\ Sessions(years) \in SUBSET Nat /\ Sessions(years) \in SUBSET (1..LastDay)
      /\ \A d \in Sessions(years) : d <= day
  BY <1>1, RunDaysIs, SomeDays DEF Sessions
<1>3. bars = Bars(x, h)
  BY DEF RunBars
<1>4. /\ tape[x] \in [1..LastDay -> Nat] /\ LastDay \in Nat /\ Slack \in Nat /\ Lag \in Nat
      /\ day \in Nat
  BY <1>1, TapeTyped, SpanAssumption
<1>5. /\ IsFile(x, h) /\ h.from <= days[1] - 1 + Slack /\ h.to >= Last(days) - Lag
      /\ h.from \in Int /\ h.to \in Nat
  BY <1>1, EquityIs, SomeDays DEF IsFile
<1>6. LastPrint(tape[x], days, days[1] + Slack, days[k]) = IF L = {} THEN 0 ELSE tape[x][Max(L)]
  BY DEF LastPrint
<1>7. L # {}
  BY <1>6
<1>8. Closes(bars, days)[k] = bars[SourceDay(bars, days, days[k])]
  BY DEF Closes
<1>9. SourceDay(bars, days, days[k]) = IF past # {} THEN Max(past) ELSE Min(P)
  BY DEF SourceDay
<1>10. k \in 1..n /\ days[k] + Lag < Last(days) /\ Last(days) = days[n]
  BY <1>2 DEF Last
<1>. HIDE DEF days, n, h, bars, Sessions
<1>11. days[1] \in Nat /\ days[k] \in Nat /\ Last(days) \in Nat
  <2>1. 1 \in 1..n /\ n \in 1..n
    BY <1>2
  <2>. QED
    BY <1>2, <1>10, <2>1
<1>12. L \in SUBSET Nat /\ (\A e \in L : e <= days[k])
  BY <1>2, <1>11
<1>13. m \in L /\ \A e \in L : m >= e
  BY <1>7, <1>11, <1>12, MaxOf
<1>14. /\ m \in Printed(tape[x]) /\ m \in ToSet(days) /\ days[1] + Slack <= m /\ m <= days[k]
       /\ m \in Nat
  BY <1>12, <1>13
<1>. HIDE DEF L, m
<1>15. m <= day
  BY <1>2, <1>14
<1>15a. h.from <= m /\ m < h.to
  BY SMTT(60), <1>4, <1>5, <1>10, <1>11, <1>14
<1>16. m \in Printed(bars) /\ bars[m] = tape[x][m]
  <2>1. m \in 1..LastDay
    BY <1>4, <1>14 DEF Printed
  <2>2. m \in Printed(bars)
    BY <1>1, <1>3, <1>5, <1>14, <1>15a, <2>1, BarsAre
  <2>. QED
    BY <1>1, <1>3, <1>5, <1>15a, <2>2, BarsAre
<1>17. m \in past
  BY <1>14, <1>16
<1>18. ASSUME NEW e \in past PROVE m >= e /\ e \in Int
  <2>1. e \in Printed(bars) /\ e \in ToSet(days) /\ e <= days[k]
    OBVIOUS
  <2>2. e \in Nat /\ e \in Printed(tape[x])
    BY <1>1, <1>3, <1>5, <2>1, BarsAre
  <2>3. CASE days[1] + Slack <= e
    BY <1>13, <2>1, <2>2, <2>3 DEF L
  <2>4. CASE ~(days[1] + Slack <= e)
    BY <1>4, <1>11, <1>14, <2>2, <2>4
  <2>. QED
    BY <2>2, <2>3, <2>4
<1>. HIDE DEF past
<1>19. Max(past) = m
  <2>1. past \in SUBSET Int
    BY <1>18
  <2>. QED
    BY <1>17, <1>18, <2>1, MaxIs
<1>20. SourceDay(bars, days, days[k]) = m
  BY <1>9, <1>17, <1>19
<1>21. Closes(bars, days)[k] = tape[x][m]
  BY <1>8, <1>16, <1>20
<1>22. LastPrint(tape[x], days, days[1] + Slack, days[k]) = tape[x][m]
  BY <1>6, <1>7 DEF m
<1>. QED
  BY <1>21, <1>22 DEF days, bars

LEMMA SessionsKept ==
    ASSUME MarketTyped, CacheInv, NEW years \in Years, Judgeable(years)
    PROVE  {d \in Printed(tape[Index]) : From(years) + Slack <= d /\ d <= day - Lag /\ d < day}
             \subseteq ToSet(RunDays(years))
<1>. DEFINE h == IndexHas(years)
            from == From(years)
<1>1. Index \in Names /\ RunDays(years) # <<>>
  BY DEF Judgeable, Readable, Names
<1>2. h # None /\ ToSet(RunDays(years)) = Sessions(years)
  BY <1>1, RunDaysIs
<1>3. /\ IsFile(Index, h) /\ h.from <= from + Slack /\ h.to >= day - Lag
      /\ h.to = day \/ \E d \in Printed(Bars(Index, h)) : d >= day - Lag
      /\ h.from \in Int /\ h.to \in Nat /\ from \in Int /\ day \in Nat
  BY <1>2, IndexIs, FromType, TapeTyped, SomeDays DEF IsFile
<1>4. Sessions(years) = {d \in Printed(Bars(Index, h)) : from <= d /\ d <= day}
  BY DEF Sessions
<1>5. Slack \in Nat /\ Lag \in Nat /\ tape[Index] \in [1..LastDay -> Nat] /\ LastDay \in Nat
  BY <1>1, TapeTyped, SpanAssumption
<1>. HIDE DEF h, from
<1>6. ASSUME NEW d \in Printed(tape[Index]), from + Slack <= d, d <= day - Lag, d < day
      PROVE  d \in Sessions(years)
  <2>1. /\ d \in 1..LastDay /\ d \in Nat /\ from <= d /\ d <= day
        /\ h.from <= d /\ d <= h.to
    BY SMTT(60), <1>3, <1>5, <1>6 DEF Printed
  <2>2. d \in Printed(Bars(Index, h))
    <3>1. CASE d < h.to
      BY <1>1, <1>3, <2>1, <3>1, BarsAre
    <3>2. CASE d = h.to
      <4>1. PICK e \in Printed(Bars(Index, h)) : e >= day - Lag
        BY <1>3, <1>6, <3>2
      <4>2. e \in 1..LastDay /\ e <= h.to
        BY <1>1, <1>3, BarsAre
      <4>3. e = d
        BY <1>3, <1>5, <1>6, <2>1, <3>2, <4>1, <4>2
      <4>. QED
        BY <4>1, <4>3
    <3>. QED
      BY <1>3, <2>1, <3>1, <3>2
  <2>. QED
    BY <1>4, <2>1, <2>2
<1>. QED
  BY <1>2, <1>6 DEF from

\* For every universe, exchange, slack, lag and set of runs, and however often and at
\* whatever hour bars were fetched: no session of the index is left out and a judged
\* close is the exchange's last one, but for the first Slack days and the last Lag.
\* In those a file may lack bars, or hold an unfinished day's candle.
THEOREM ClosesAlwaysTheExchanges == LabSpec => []ClosesAreTheExchanges
<1>1. LabInv /\ CacheInv => ClosesAreTheExchanges
  BY CloseStands, SessionsKept, Zenon DEF ClosesAreTheExchanges, LabInv
<1>. QED
  BY <1>1, LabInvariant, CacheInvariant, PTL

-----------------------------------------------------------------------------
(* The folds.                                                              *)

\* One element at most, followed by one at most.
LEMMA JoinedIs ==
    ASSUME NEW a, NEW b, NEW s \in {<<>>, <<a>>}, NEW t \in {<<>>, <<b>>}
    PROVE  s \o t \in {<<>>, <<a>>, <<b>>, <<a, b>>}
<1>. DEFINE U == {a, b}
            nil == <<>>
            sa == <<a>>
            sb == <<b>>
            sab == <<a, b>>
<1>1. nil \in Seq(U) /\ sa \in Seq(U) /\ sb \in Seq(U)
  OBVIOUS
<1>2. \A q \in Seq(U) : q \o nil = q /\ nil \o q = q
  BY ConcatEmptySeq
<1>5. sa \o sb = sab
  <2>. DEFINE q == sa \o sb
  <2>1. sab \in Seq(U) /\ Len(sab) = 2 /\ sab[1] = a /\ sab[2] = b
    OBVIOUS
  <2>2. Len(sa) = 1 /\ Len(sb) = 1 /\ sa[1] = a /\ sb[1] = b
    OBVIOUS
  <2>. HIDE DEF U, sa, sb, sab
  <2>3. /\ q \in Seq(U) /\ Len(q) = Len(sa) + Len(sb)
        /\ \A i \in 1 .. Len(sa) + Len(sb) :
              q[i] = IF i <= Len(sa) THEN sa[i] ELSE sb[i - Len(sa)]
    BY <1>1, ConcatProperties
  <2>. HIDE DEF q
  <2>4. Len(q) = 2 /\ q[1] = a /\ q[2] = b
    BY <2>2, <2>3
  <2>5. \A i \in 1 .. Len(q) : q[i] = sab[i]
    BY <2>1, <2>4
  <2>6. q = sab
    BY <2>1, <2>3, <2>4, <2>5, SeqEqual
  <2>. QED
    BY <2>6 DEF q
<1>6. s \in {nil, sa} /\ t \in {nil, sb}
  OBVIOUS
<1>7. s \o t \in {nil, sa, sb, sab}
  <2>. HIDE DEF U, nil, sa, sb, sab
  <2>1. CASE s = nil /\ t = nil
    BY <1>1, <1>2, <2>1
  <2>2. CASE s = nil /\ t = sb
    BY <1>1, <1>2, <2>2
  <2>3. CASE s = sa /\ t = nil
    BY <1>1, <1>2, <2>3
  <2>4. CASE s = sa /\ t = sb
    BY <1>5, <2>4
  <2>. QED
    BY <1>6, <2>1, <2>2, <2>3, <2>4
<1>. QED
  BY <1>7

\* No day is in two folds, and each begins within the tape.
LEMMA FoldsApart ==
    ASSUME NEW days, NEW n \in Nat \ {0}, n = Len(days), days \in [1..n -> Nat],
           NEW k \in DOMAIN OOSWindows(days)
    PROVE  /\ OOSWindows(days)[k][1] \in 1..n
           /\ k > 1 => OOSWindows(days)[k][1] > OOSWindows(days)[k - 1][2]
<1>. DEFINE S(j) == {i \in 1..n : days[i] >= days[n] - j * Year}
            from(j) == Min(S(j))
            a == <<from(2), from(1) - 1>>
            b == <<from(1), n>>
            s == IF from(2) - 1 >= MinTrain THEN <<a>> ELSE <<>>
            t == IF from(1) - 1 >= MinTrain THEN <<b>> ELSE <<>>
            wins == OOSWindows(days)
<1>1. ASSUME NEW j \in {1, 2} PROVE from(j) \in 1..n
  <2>1. Year \in Nat /\ n \in 1..n /\ days[n] \in Nat
    BY LabAssumption
  <2>2. days[n] >= days[n] - j * Year
    BY <2>1
  <2>. DEFINE Z == S(j)
  <2>3. Z \in SUBSET Nat /\ Z # {} /\ \A i \in Z : i \in 1..n
    BY <2>1, <2>2
  <2>. HIDE DEF Z
  <2>4. Min(Z) \in Z
    BY <2>3, MinOf
  <2>. QED
    BY <2>3, <2>4 DEF Z
<1>2. from(1) \in 1..n /\ from(2) \in 1..n
  BY <1>1
<1>3. wins = IF n < MinDays THEN <<>> ELSE s \o t
  BY DEF OOSWindows
<1>. HIDE DEF from, wins
<1>4. s \in {<<>>, <<a>>} /\ t \in {<<>>, <<b>>}
  OBVIOUS
<1>5. a[1] \in 1..n /\ b[1] \in 1..n /\ b[1] > a[2]
  BY <1>2
<1>. HIDE DEF a, b, s, t
<1>11. wins \in {<<>>, <<a>>, <<b>>, <<a, b>>}
  <2>1. s \o t \in {<<>>, <<a>>, <<b>>, <<a, b>>}
    BY <1>4, JoinedIs
  <2>. QED
    BY <1>3, <2>1
<1>. SUFFICES wins[k][1] \in 1..n /\ (k > 1 => wins[k][1] > wins[k - 1][2])
  BY DEF wins
<1>6. k \in DOMAIN wins
  BY DEF wins
<1>7. CASE wins = <<>>
  BY <1>6, <1>7
<1>8. CASE wins = <<a>>
  <2>1. k = 1
    BY <1>6, <1>8
  <2>. QED
    BY <1>5, <1>8, <2>1
<1>9. CASE wins = <<b>>
  <2>1. k = 1
    BY <1>6, <1>9
  <2>. QED
    BY <1>5, <1>9, <2>1
<1>10. CASE wins = <<a, b>>
  <2>1. k = 1 \/ k = 2
    BY <1>6, <1>10
  <2>2. wins[1] = a /\ wins[2] = b
    BY <1>10
  <2>. QED
    BY <1>5, <2>1, <2>2
<1>. QED
  BY <1>11, <1>7, <1>8, <1>9, <1>10

\* A name that has printed on three days of four has printed by the end of the
\* first quarter.
LEMMA PrintedEarly ==
    ASSUME MarketTyped, CacheInv, NEW years \in Years, Judgeable(years), NEW x \in Names,
           NEW f \in 1..Len(RunDays(years)), 4 * f > Len(RunDays(years))
    PROVE  LastPrint(tape[x], RunDays(years), RunDays(years)[1], RunDays(years)[f]) > 0
<1>. DEFINE days == RunDays(years)
            n == Len(days)
            h == Has(x, years)
            bars == RunBars(x, years)
            past == {e \in Printed(tape[x]) \cap ToSet(days) : days[1] <= e /\ e <= days[f]}
            missed == {k \in DOMAIN days : days[k] \notin Printed(bars)}
<1>1. days # <<>> /\ ~TooThin(bars, days) /\ h # None
  BY DEF Judgeable, Readable, RunBars
<1>2. /\ n \in Nat \ {0} /\ days \in [1..n -> Sessions(years)] /\ ToSet(days) = Sessions(years)
      /\ \A i, j \in 1..n : i < j => days[i] < days[j]
      /\ Sessions(years) \in SUBSET Nat
  BY <1>1, RunDaysIs, SomeDays
<1>3. /\ tape[x] \in [1..LastDay -> Nat] /\ LastDay \in Nat
  BY TapeTyped
<1>4. bars = Bars(x, h) /\ IsFile(x, h)
  BY <1>1, HasIs DEF RunBars
<1>5. Printed(bars) \subseteq Printed(tape[x])
  BY <1>4, BarsAre
<1>6. Cardinality(missed) <= n \div 4
  <2>1. Cardinality(missed) = Missing(bars, days)
    BY DEF Missing
  <2>2. missed \subseteq 1..n
    BY <1>2
  <2>. DEFINE M == missed
  <2>3. Cardinality(M) \in Nat
    <3>1. M \subseteq 1..n /\ n \in Int
      BY <1>2, <2>2
    <3>. HIDE DEF M, n
    <3>2. IsFiniteSet(1..n)
      BY <3>1, FS_Interval
    <3>3. IsFiniteSet(M)
      BY <3>1, <3>2, FS_Subset
    <3>. QED
      BY <3>3, FS_CardinalityType
  <2>. QED
    BY <1>1, <1>2, <2>1, <2>3 DEF TooThin
<1>7. f \in Nat /\ 1 <= f /\ f <= n /\ 4 * f > n
  BY <1>2
<1>8. LastPrint(tape[x], days, days[1], days[f]) = IF past = {} THEN 0 ELSE tape[x][Max(past)]
  BY DEF LastPrint
<1>. HIDE DEF days, n, h, bars, Sessions
<1>9. ASSUME past = {} PROVE FALSE
  <2>1. ASSUME NEW k \in 1..f PROVE k \in missed
    <3>1. k \in 1..n /\ 1 \in 1..n /\ f \in 1..n /\ (1 = k \/ 1 < k) /\ (k = f \/ k < f)
      BY <1>2, <1>7
    <3>2. days[k] \in ToSet(days) /\ days[k] \in Nat /\ days[1] \in Nat /\ days[f] \in Nat
      BY <1>2, <3>1
    <3>3. days[1] <= days[k] /\ days[k] <= days[f]
      BY <1>2, <3>1, <3>2
    <3>4. days[k] \notin Printed(tape[x])
      BY <1>9, <3>2, <3>3
    <3>. QED
      BY <1>2, <1>5, <3>1, <3>4
  <2>2. missed \subseteq 1..n
    BY <1>2
  <2>. HIDE DEF missed
  <2>3. IsFiniteSet(missed) /\ Cardinality(missed) \in Nat
    <3>1. n \in Int
      BY <1>2
    <3>2. IsFiniteSet(1..n)
      BY <3>1, FS_Interval
    <3>3. IsFiniteSet(missed)
      BY <2>2, <3>2, FS_Subset
    <3>. QED
      BY <3>3, FS_CardinalityType
  <2>4. Cardinality(1..f) = f /\ 1..f \subseteq missed
    BY <1>7, <2>1, FS_Interval
  <2>5. f <= Cardinality(missed)
    BY <2>3, <2>4, FS_Subset
  <2>. QED
    BY <1>2, <1>6, <1>7, <2>3, <2>5
<1>10. tape[x][Max(past)] > 0
  <2>1. past \in SUBSET Nat /\ \A e \in past : e <= LastDay /\ tape[x][e] > 0
    BY <1>2, <1>3 DEF Printed
  <2>2. past # {}
    BY <1>9
  <2>. HIDE DEF past
  <2>. QED
    BY <1>3, <2>1, <2>2, MaxOf
<1>. QED
  BY <1>8, <1>9, <1>10 DEF days

\* Every fold begins in the last three quarters of the days, as the last two years
\* of three or more do.
FoldsAreLate ==
    \A years \in Years :
        LET days == RunDays(years)
        IN  \A k \in DOMAIN OOSWindows(days) : 4 * OOSWindows(days)[k][1] > Len(days)

\* For every exchange, history asked for and state of the cache: no day is in two
\* test folds, and when the folds lie late in the tape no name is tested on closes
\* filled backward over the days before it printed (oosWindows, alignCloses).
THEOREM FoldsAlwaysSeenOnce == LabSpec => [](FoldsAreLate => FoldsAreSeenOnce)
<1>1. LabInv /\ CacheInv => (FoldsAreLate => FoldsAreSeenOnce)
  <2>. SUFFICES ASSUME MarketTyped, CacheInv, FoldsAreLate, NEW years \in Years, Judgeable(years),
                       NEW k \in DOMAIN OOSWindows(RunDays(years))
                PROVE  LET days == RunDays(years)
                           wins == OOSWindows(days)
                       IN  /\ k > 1 => wins[k][1] > wins[k - 1][2]
                           /\ \A x \in Names :
                                 LastPrint(tape[x], days, days[1], days[wins[k][1]]) > 0
    BY DEF FoldsAreSeenOnce, LabInv
  <2>. DEFINE days == RunDays(years)
              n    == Len(days)
              wins == OOSWindows(days)
  <2>1. days # <<>>
    BY DEF Judgeable, Readable, Names
  <2>2. n \in Nat \ {0} /\ days \in [1..n -> Sessions(years)] /\ Sessions(years) \in SUBSET Nat
    BY <2>1, RunDaysIs, SomeDays
  <2>3. days \in [1..n -> Nat]
    BY <2>2
  <2>4. wins[k][1] \in 1..n /\ (k > 1 => wins[k][1] > wins[k - 1][2])
    BY <2>2, <2>3, FoldsApart, Zenon
  <2>5. 4 * wins[k][1] > n
    BY DEF FoldsAreLate
  <2>6. \A x \in Names : LastPrint(tape[x], days, days[1], days[wins[k][1]]) > 0
    BY <2>4, <2>5, PrintedEarly, Zenon
  <2>. QED
    BY <2>4, <2>6
<1>. QED
  BY <1>1, LabInvariant, CacheInvariant, PTL
=============================================================================
