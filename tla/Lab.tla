-------------------------------- MODULE Lab --------------------------------
(***************************************************************************)
(* Who trades: the lab judges the shipped methods and the search grid on   *)
(* daily bars cached on disk (pkg/tape), writes a dated roster (pkg/       *)
(* backtest), and the learning service adopts it at boot, on Seed and      *)
(* after a RunBacktest (internal/learning).  Two calls of RunBacktest and  *)
(* cmd/lab run at once, over one directory of bars and one of rosters.     *)
(***************************************************************************)
EXTENDS WalkForward

CONSTANTS
    Tapes,       \* what the exchange may print: [Names -> [days -> close or 0]]
    Mornings,    \* a day's candle before its close, where one is printed; 0: none yet
    MockTape,    \* the closes of the mock tape
    Years,       \* history a run may ask for
    Runs,        \* calls of RunBacktest; Seed is the first
    Seed, Tool,  \* the call at the boot, and cmd/lab
    Slack, Lag,  \* days a cache may begin late and end early
    Stale,       \* days after which Seed judges anew
    Scalp,       \* ids held for less than a session
    None, Cut,   \* no file, a file cut short
    FirstDay, LastDay, MaxCrashes  \* bounds

ASSUME RunAssumption == /\ Seed \in Runs /\ Tool \notin Runs
                        /\ Years \subseteq Nat \ {0}
ASSUME SpanAssumption == /\ {Slack, Lag, Stale, FirstDay, LastDay, MaxCrashes} \subseteq Nat
                         /\ 1 <= FirstDay /\ FirstDay <= LastDay
ASSUME TapeAssumption == Tapes \cup Mornings \subseteq [Names -> [1..LastDay -> Nat]]

VARIABLES
    day,
    tape, token,             \* what the exchange prints, is there a token
    candle, closed,          \* today's candle of each name, has the market closed
    cache,                   \* data/bars/1d: of each name, first and last day and
                             \* what the last one showed when it was fetched
    dir,                     \* data/roster: by date
    up, roster, failing, gated,  \* the learning service
    run,                     \* the calls in progress and cmd/lab
    crashes,
    saved                    \* history: every snapshot that was written whole

service == <<up, roster, failing, gated>>
market  == <<day, tape, token, candle, closed>>
vars == <<market, cache, dir, service, run, crashes, saved>>

Idle == [pc |-> "idle", rep |-> NoVerdict]

Init ==
    /\ day = FirstDay /\ tape \in Tapes /\ token = TRUE
    /\ candle = [x \in Names |-> 0] /\ closed = FALSE
    /\ cache = [x \in Names |-> None]
    /\ dir = [d \in {} |-> None]
    /\ up = FALSE /\ roster = {} /\ failing = {} /\ gated = FALSE
    /\ run = [r \in Runs \cup {Tool} |-> Idle]
    /\ crashes = 0 /\ saved = {}

-----------------------------------------------------------------------------
(* The tape. *)

\* What a name printed from one day to another, the last of which showed `last`.
Prints(x, from, to, last) ==
    [d \in 1..LastDay |-> IF ~(from <= d /\ d <= to /\ d <= day) THEN 0
                          ELSE IF d = to THEN last ELSE tape[x][d]]

Bars(x, has) == Prints(x, has.from, has.to, has.last)
CachedBars(x) == Bars(x, cache[x])

\* DailyHistory: the history asks up to the end of its last day and keeps any
\* candle with a close, the unfinished one of today too.
Shown(x, d) == IF d = day THEN candle[x] ELSE tape[x][d]
DailyHistory(x, from, to) == [from |-> from, to |-> to, last |-> Shown(x, to)]

\* The cache answers if its bars begin and end near enough to what is asked.
\* The mutant asks nothing of their end.
CoversAnyEnd(x, from, to) ==
    cache[x] # None /\ \E first \in Printed(CachedBars(x)) : first <= from + Slack
Covers(x, from, to) ==
    /\ cache[x] # None
    /\ \E first \in Printed(CachedBars(x)) : first <= from + Slack
    /\ \E last \in Printed(CachedBars(x)) : last >= to - Lag

\* What a name has on disk once it was asked for, or None.
Fetched(x, from, to) ==
    IF Covers(x, from, to) THEN cache[x]
    ELSE IF token /\ Printed(Bars(x, DailyHistory(x, from, to))) # {}
    THEN DailyHistory(x, from, to)
    ELSE None

\* An INDstocks tape with a token, or without one over bars on disk; the mock
\* tape otherwise.
Pick == IF token \/ \E x \in Names : cache[x] # None THEN Real ELSE Mock

\* What a run of today asks for: the history of the index; its candle dates;
\* and of an equity the bars between the first and the last of those.
From(years) == day - years * Year
IndexHas(years) == Fetched(Index, From(years), day)
RunDays(years) ==
    LET has == IndexHas(years)
    IN  IF has = None THEN <<>>
        ELSE DaysOf(Bars(Index, has), From(years), day)
Has(x, years) ==
    LET days == RunDays(years)
    IN  IF x = Index \/ days = <<>> THEN IndexHas(years)
        ELSE Fetched(x, days[1] - 1, Last(days))
RunBars(x, years) == Bars(x, Has(x, years))
Readable(x, years) ==
    LET days == RunDays(years)
        has  == Has(x, years)
    IN  days # <<>> /\ has # None /\ ~TooThin(Bars(x, has), days)

\* A run over the picked tape: its report.
Judged(years) ==
    LET days == RunDays(years)
        past == [k \in 1..(day - From(years) + 1) |-> From(years) + k - 1]
    IN  IF Pick = Mock
        THEN RunOn(Mock, day, past, [x \in Names |-> [k \in DOMAIN past |-> MockTape[x][past[k]]]])
        ELSE IF \A x \in Names : Readable(x, years)
        THEN RunOn(Real, day, days, [x \in Names |-> Closes(RunBars(x, years), days)])
        ELSE NoVerdict

\* A run stops at the first name it cannot use; the bars it fetched until then
\* stay on disk.
CacheAfter(years) ==
    LET kept(s) == [x \in Names |-> IF x \in s /\ Has(x, years) # None THEN Has(x, years)
                                    ELSE cache[x]]
    IN  IF Pick = Mock \/ RunDays(years) = <<>> THEN {cache}
        ELSE IF \A x \in Names : Readable(x, years) THEN {kept(Names)}
        ELSE {kept(s \cup {Index}) : s \in SUBSET Equities}

-----------------------------------------------------------------------------
(* The roster directory. *)

Dates == DOMAIN dir
Judging(snap) == snap.roster # {} \/ snap.failing # {}

\* The newest file and no other: a file that cannot be read, judges nothing
\* or is of the mock tape is an error.
Loadable == Dates # {} /\ LET s == dir[Max(Dates)]
                          IN  s # Cut /\ Judging(s) /\ ~IsMockTape(s.tape)
Latest == dir[Max(Dates)]

WithFile(date, file) == [d \in Dates \cup {date} |-> IF d = date THEN file ELSE dir[d]]

SaveRefused(snap) == snap.date = 0 \/ ~Judging(snap) \/ IsMockTape(snap.tape)

-----------------------------------------------------------------------------
(* The learning service. *)

Adopt(snap) ==
    /\ roster' = snap.roster \ Scalp
    /\ failing' = snap.failing
    /\ gated' = TRUE

\* The trading set: the defaults until a verdict was adopted.
Ids == IF gated \/ roster # {} THEN roster ELSE Defaults

Boot ==
    /\ ~up /\ up' = TRUE
    /\ IF Loadable THEN Adopt(Latest)
       ELSE roster' = Defaults /\ failing' = {} /\ gated' = FALSE
    /\ run' = [run EXCEPT ![Seed] = [Idle EXCEPT !.pc = "seed"]]
    /\ UNCHANGED <<market, cache, dir, crashes, saved>>

\* Seed adopts a roster that is not stale, or judges anew.
SeedCurrent ==
    /\ up /\ run[Seed].pc = "seed"
    /\ Loadable /\ day - Latest.date <= Stale
    /\ Adopt(Latest)
    /\ run' = [run EXCEPT ![Seed] = Idle]
    /\ UNCHANGED <<market, cache, dir, up, crashes, saved>>

MayRun(r) ==
    \/ r = Seed /\ up /\ run[r].pc = "seed" /\ ~(Loadable /\ day - Latest.date <= Stale)
    \/ r \in Runs \ {Seed} /\ up /\ run[r].pc = "idle"
    \/ r = Tool /\ run[r].pc = "idle"

RunBacktest(r, years) ==
    /\ MayRun(r)
    /\ \E rep \in {Judged(years)} :
          run' = [run EXCEPT ![r] = IF Promotable(rep) THEN [pc |-> "judged", rep |-> rep]
                                  ELSE Idle]
    /\ cache' \in CacheAfter(years)
    /\ UNCHANGED <<market, dir, service, crashes, saved>>

\* The snapshot is written over the day's file.  The mutant adopts a report
\* whose snapshot could not be saved.
AfterFailureAdopts(rep) == [pc |-> "saved", rep |-> rep]
AfterFailure(rep) == Idle

SaveRoster(r) ==
    /\ run[r].pc = "judged"
    /\ LET snap == run[r].rep
       IN  \/ /\ ~SaveRefused(snap)
              /\ dir' = WithFile(snap.date, snap)
              /\ saved' = saved \cup {snap}
              /\ run' = [run EXCEPT ![r] = IF r = Tool THEN Idle
                                           ELSE [pc |-> "saved", rep |-> snap]]
              /\ UNCHANGED crashes
           \/ /\ crashes < MaxCrashes /\ crashes' = crashes + 1
              /\ run' = [run EXCEPT ![r] = AfterFailure(snap)]
              /\ \/ dir' = WithFile(snap.date, Cut)
                 \/ UNCHANGED dir
              /\ UNCHANGED saved
    /\ UNCHANGED <<market, cache, service>>

\* Under the lock, whatever was adopted meanwhile.
ApplyBacktest(r) ==
    /\ r # Tool /\ up /\ run[r].pc = "saved"
    /\ Adopt(run[r].rep)
    /\ run' = [run EXCEPT ![r] = Idle]
    /\ UNCHANGED <<market, cache, dir, up, crashes, saved>>

\* The service dies, maybe inside a write of one of its calls.
Crash ==
    /\ up /\ crashes < MaxCrashes /\ crashes' = crashes + 1
    /\ up' = FALSE /\ roster' = {} /\ failing' = {} /\ gated' = FALSE
    /\ run' = [r \in DOMAIN run |-> IF r = Tool THEN run[r] ELSE Idle]
    /\ \/ UNCHANGED dir
       \/ \E r \in Runs : run[r].pc = "judged" /\ dir' = WithFile(run[r].rep.date, Cut)
    /\ UNCHANGED <<market, cache, saved>>

\* Today's candle moves until the market closes.
Quote ==
    /\ ~closed
    /\ \E m \in Mornings :
          candle' = [x \in Names |-> IF tape[x][day] > 0 THEN m[x][day] ELSE 0]
    /\ UNCHANGED <<day, tape, token, closed, cache, dir, service, run, crashes, saved>>

CloseMarket ==
    /\ ~closed /\ closed' = TRUE
    /\ candle' = [x \in Names |-> tape[x][day]]
    /\ UNCHANGED <<day, tape, token, cache, dir, service, run, crashes, saved>>

NextDay ==
    /\ closed /\ day < LastDay /\ day' = day + 1
    /\ candle' = [x \in Names |-> 0] /\ closed' = FALSE
    /\ UNCHANGED <<tape, token, cache, dir, service, run, crashes, saved>>

\* INDstocks tokens last a day.
TokenLapses ==
    /\ token /\ token' = FALSE
    /\ UNCHANGED <<day, tape, candle, closed, cache, dir, service, run, crashes, saved>>

Next ==
    \/ Boot \/ SeedCurrent \/ Crash \/ TokenLapses
    \/ Quote \/ CloseMarket \/ NextDay
    \/ \E r \in Runs \cup {Tool} :
          \/ \E years \in Years : RunBacktest(r, years)
          \/ SaveRoster(r) \/ ApplyBacktest(r)

LabSpec == Init /\ [][Next]_vars
-----------------------------------------------------------------------------
(* Properties. *)

\* What was printed last from one day to another, on one of the days.
LastPrint(bars, days, from, to) ==
    LET past == {e \in Printed(bars) \cap ToSet(days) : from <= e /\ e <= to}
    IN  IF past = {} THEN 0 ELSE bars[Max(past)]

Judgeable(years) == Pick = Real /\ \A x \in Names : Readable(x, years)

\* However often and at whatever hour bars were fetched, no session of the index
\* is left out and each judged close is the exchange's last one of that session or
\* of one before it, but at the two ends: a file may begin Slack days late, and
\* for Lag days it is taken as it is, with days missing or with the candle of an
\* unfinished day for that day's close (bars asks where a file begins and ends, not
\* when it was fetched; Closes fills forward).  No such candle is older than Lag.
ClosesAreTheExchanges ==
    \A years \in Years : Judgeable(years) =>
        LET days == RunDays(years)
        IN  /\ {d \in Printed(tape[Index]) :
                   From(years) + Slack <= d /\ d <= day - Lag /\ d < day} \subseteq ToSet(days)
            /\ \A x \in Equities :
                 LET closes == Closes(RunBars(x, years), days)
                 IN  \A k \in DOMAIN days :
                        LET printed == LastPrint(tape[x], days, days[1] + Slack, days[k])
                        IN  printed > 0 /\ days[k] + Lag < Last(days) => closes[k] = printed

\* A day that is over is judged on its close (src/pkg/tape/indstocks.go:1: "gives
\* the method lab real daily closes").  Not so of a day whose candle was fetched
\* before the close.
DaysOverAreCloses ==
    \A years \in Years : Judgeable(years) =>
        \A x \in Equities : \A d \in Printed(RunBars(x, years)) :
            d < day => RunBars(x, years)[d] = tape[x][d]

\* No day is in two test folds, and a name is tested only from its first close
\* on: closes filled backward over a listing are warmed up on at most (a
\* quarter of the days may be missing, the folds are the last two years).
FoldsAreSeenOnce ==
    \A years \in Years : Judgeable(years) =>
        LET days == RunDays(years)
            wins == OOSWindows(days)
        IN  \A k \in DOMAIN wins :
               /\ k > 1 => wins[k][1] > wins[k - 1][2]
               /\ \A x \in Names : LastPrint(tape[x], days, days[1], days[wins[k][1]]) > 0

\* What a fold did on a day with a close behind it stands when the day after is
\* known (evaluate sees the closes up to its day, simulateFold walks forward).
NoPeeking ==
    [][day' # day =>
       \A x \in Equities, v \in Variants :
          LET c(d) == Closes(SubSeq(tape[x], 1, d), [k \in 1..d |-> k])
          IN  (\E d \in 1..day : tape[x][d] > 0) =>
              Walked(Params[v], c(day'), Warm + 1, day, day)
                = Walked(Params[v], c(day), Warm + 1, day, day)]_vars

\* On an exchange where no name ever rises, in a candle neither, nothing beyond a
\* method that never buys is put on a roster, however far the index falls:
\* nothing is promoted for losing less.
NothingEarnedNothingTrades ==
    (\A x \in Equities : \A d, e \in Printed(tape[x]) :
        d < e => tape[x][e] <= tape[x][d] /\ \A m \in Mornings : m[x][e] <= tape[x][d])
        => \A s \in saved : s.roster = {}

\* What the book trades on evidence was judged on the exchange's tape, saved
\* whole and adopted as it was saved, through restarts, cut files and calls that
\* overtake each other; and a shipped method that missed the gate does not
\* trade, not even when all of them did (README.md:19, SaveRoster,
\* LoadLatestRoster, adoptLocked).
AdoptedWasSaved ==
    gated =>
        /\ \E s \in saved : s.tape = Real /\ roster = s.roster \ Scalp /\ failing = s.failing
        /\ Ids \cap failing = {}
=============================================================================
