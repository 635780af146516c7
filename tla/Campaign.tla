------------------------------ MODULE Campaign ------------------------------
(***************************************************************************)
(* The public campaign: the as-of tape and the replay of internal/campaign *)
(* over pkg/campaign's checked-in files, and what the maintainer does with *)
(* cmd/campaign and git: fetch, roster, run, verify, commit.  In the       *)
(* "live" mode the same days pass for the desk's own book, which no tape   *)
(* tells of a holiday.                                                     *)
(*                                                                         *)
(* A price stands for the session it was printed at and a day's equity for *)
(* all it was computed from, so two equities agree when their causes do.   *)
(***************************************************************************)
EXTENDS Calendar, Sequences

CONSTANTS
    Index, Equity,     \* NIFTY50 and the traded names
    Start, Days,       \* the window: first day, number of days
    Tapes,             \* what may be fetched: the sessions of each series
    Picks,             \* rosters the gate may find as of the window's eve
    Specs,             \* campaign.json: statement and shock
    Codes,             \* versions of the program
    Halts(_, _, _),    \* is the book of these rules, at these marks, halted
    Finishes(_, _, _), \* and does a session's work leave every name in its band
    None, Cut,
    MaxEdits           \* bound: changes of files and commits

ASSUME CampaignAssumption ==
    /\ Start \in Nat /\ Days \in Nat \ {0} /\ MaxEdits \in Nat
    /\ \A tape \in Tapes : /\ DOMAIN tape = {Index} \cup Equity
                           /\ \A s \in DOMAIN tape : tape[s] \subseteq Nat
    /\ \A p \in Specs : p = [ips |-> p.ips, shock |-> p.shock]

VARIABLES
    files,     \* the working tree without the ledger
    ledger,    \* ledger.json of the working tree
    commits,   \* the branch: files and ledger of each commit
    job,       \* the command that runs
    in, git,   \* what it loaded: inputs, HEAD and whether the tree was dirty
    today, book, line,  \* the replay: its day, its book, its days so far
    edits

vars == <<files, ledger, commits, job, in, git, today, book, line, edits>>
tree   == <<files, ledger, commits>>
replay == <<in, git, today, book, line>>

Window == Start .. Start + Days - 1

-----------------------------------------------------------------------------
(* The as-of tape.  The clock stands at a day's 09:15 or at its 15:30.     *)

\* The latest day whose close is known.  The mutant shows the day's close in
\* the morning.
VisibleThroughToday(d, closed) == d
VisibleThrough(d, closed) == IF closed THEN d ELSE d - 1

Visible(tape, s, d, closed) == {e \in tape[s] : e <= VisibleThrough(d, closed)}

\* The statement's shock multiplies the prices from a day on.
Price(i, s, e) == [series |-> s, of |-> e,
                   shocked |-> i.spec.shock # None /\ e >= i.spec.shock]

\* The last close of a series, and none for the others; a series without a
\* close yet is an error.
QuoteFails(i, d, closed) == \E s \in DOMAIN i.bars : Visible(i.bars, s, d, closed) = {}
Quotes(i, d, closed) ==
    [s \in DOMAIN i.bars |-> Price(i, s, Max(Visible(i.bars, s, d, closed)))]

\* The trading service's calendar: the index's bars of the moment.
CalendarAt(i, d, closed) == Visible(i.bars, Index, d, closed)

\* The last weekday before the window.
RosterAsOf == Max({d \in 0 .. Start - 1 : ~Weekend(d)})

-----------------------------------------------------------------------------
(* One day of the book. *)

\* Nothing held: the benchmarks' start is what 09:15 of the first day quotes.
\* halted is history.
NewBook(i) ==
    [work |-> <<>>, halted |-> {}, satellite |-> <<>>, bench |-> Quotes(i, Start, FALSE)]

\* What the core's drawdown and its tickets come of beside the book and the
\* marks.
Rules(i) == [code |-> i.code, ips |-> i.spec.ips, ids |-> i.roster.ids]
Halted(i, b, d) == i.spec.ips # None /\ Halts(Rules(i), b, Quotes(i, d, TRUE))

\* A session's work is pending until one leaves every name in its band.
Pending(b) == b.work # <<>> /\ ~b.work[Len(b.work)].complete

\* Unless it is halted, the core works on its first session, on those of its
\* calendar and while work is pending.  The mutant forgets what is pending.
CoreWorksOnCalendar(i, b, d) ==
    /\ i.spec.ips # None /\ ~Halted(i, b, d)
    /\ b.work = <<>> \/ IsRebalanceSession(CalendarAt(i, d, TRUE), d, i.spec.ips.cycle)
CoreWorks(i, b, d) ==
    /\ i.spec.ips # None /\ ~Halted(i, b, d)
    /\ \/ b.work = <<>>
       \/ IsRebalanceSession(CalendarAt(i, d, TRUE), d, i.spec.ips.cycle)
       \/ Pending(b)

\* The roster's methods may trade on every tick.
Work(i, b, d) == [on |-> d, at |-> Quotes(i, d, TRUE),
                  complete |-> Finishes(Rules(i), b, Quotes(i, d, TRUE))]
Tick(i, b, d) ==
    [b EXCEPT !.work = IF CoreWorks(i, b, d) THEN Append(@, Work(i, b, d)) ELSE @,
              !.halted = IF Halted(i, b, d) THEN @ \cup {d} ELSE @,
              !.satellite = IF i.roster.ids = {} THEN @ ELSE Append(@, Quotes(i, d, TRUE))]

\* A weekday whose date the index printed; the live desk asks for the weekday
\* only.
HasSession(i, d) == d \in i.bars[Index]
Session(i, d, how) ==
    IF Weekend(d) THEN "weekend"
    ELSE IF how = "live" \/ HasSession(i, d) THEN "open" ELSE "holiday"

DayBook(i, b, d, how) == IF Session(i, d, how) = "open" THEN Tick(i, b, d) ELSE b

\* The statement's own share of the equity: two statements that come to the
\* same core publish the same line.
DayLine(i, b, d, how) ==
    [date |-> d, session |-> Session(i, d, how),
     equity |-> [code |-> i.code, work |-> b.work, satellite |-> b.satellite,
                 bench |-> b.bench, marks |-> Quotes(i, d, TRUE)]]

\* The book after day d and the published line, from the inputs alone.
BookOn(i, how, d) ==
    LET b[e \in Start - 1 .. d] ==
            IF e < Start THEN NewBook(i) ELSE DayBook(i, b[e - 1], e, how)
    IN  b[d]
Line(i) == [k \in 1 .. Days |-> LET d == Start + k - 1
                                IN  DayLine(i, BookOn(i, "run", d), d, "run")]

-----------------------------------------------------------------------------
(* The ledger and its manifest. *)

\* The bars are pinned by their sum before the shock, everything else by the
\* settings' hash.  The mutant leaves the statement out of it.
SettingsWithoutIPS(i) == [roster |-> i.roster, ips |-> None, shock |-> i.spec.shock]
Settings(i) == [roster |-> i.roster, ips |-> i.spec.ips, shock |-> i.spec.shock]

\* from is history: what the ledger was computed from.
Manifest(i, g) == [sha |-> g.sha, dirty |-> g.dirty, bars |-> i.bars,
                   settings |-> Settings(i), ips |-> i.spec.ips, from |-> i]

\* A ledger that cannot be read is none.
Loads(led) == led \notin {None, Cut}

SaveRefused(led) == Loads(ledger) /\ ledger.manifest.ips # led.manifest.ips

MatchEquity(want, got) ==
    /\ Len(want) = Len(got)
    /\ \A k \in DOMAIN want : want[k].date = got[k].date /\ want[k].equity = got[k].equity

\* Every day's date and equity, under the tape and the settings published.
Matches(led, i, days) ==
    /\ led.manifest.bars = i.bars
    /\ led.manifest.settings = Settings(i)
    /\ MatchEquity(led.days, days)

-----------------------------------------------------------------------------
(* Git. *)

HEAD == Len(commits)
GitSHA == [sha |-> HEAD, dirty |-> commits[HEAD].files # files]

\* The commit that last touched the ledger, 0 when none did.
LastWriter ==
    Max({0} \cup {k \in DOMAIN commits :
                    commits[k].ledger # IF k = 1 THEN None ELSE commits[k - 1].ledger})
LedgerModified == commits[HEAD].ledger # ledger

\* Nothing but the ledger differs.  The mutant excludes the directory.
SameProgram(a, b) == commits[a].files.code = commits[b].files.code
SameCode(a, b) == commits[a].files = commits[b].files

\* The test of every frozen ledger.
Provenance ==
    /\ Loads(ledger) /\ ~ledger.manifest.dirty
    /\ LastWriter > 0 /\ ~LedgerModified
    /\ SameCode(ledger.manifest.sha, LastWriter)

-----------------------------------------------------------------------------
Roster(ids) == [ids |-> ids, asOf |-> RosterAsOf]

Init ==
    /\ files \in [code : {Min(Codes)}, bars : Tapes, roster : {Roster(x) : x \in Picks}, spec : Specs]
    /\ ledger = None
    /\ commits = <<[files |-> files, ledger |-> None]>>
    /\ job = "idle" /\ edits = 0
    /\ in = None /\ git = None /\ today = Start - 1 /\ book = None /\ line = <<>>

\* A file is edited while no command runs: -fetch, -roster, campaign.json, the
\* program.
Edit(changed) ==
    /\ job = "idle" /\ edits < MaxEdits
    /\ edits' = edits + 1
    /\ files' = changed /\ files' # files
    /\ UNCHANGED <<ledger, commits, job, replay>>

Fetch(tape)  == Edit([files EXCEPT !.bars = tape])
RunLab(ids)  == Edit([files EXCEPT !.roster = Roster(ids)])
EditSpec(p)  == Edit([files EXCEPT !.spec = p])
EditCode(c)  == Edit([files EXCEPT !.code = c])

\* Everything, or the ledger alone.
Commit(alone) ==
    /\ job = "idle" /\ edits < MaxEdits
    /\ edits' = edits + 1
    /\ commits' = Append(commits, [files |-> IF alone THEN commits[HEAD].files ELSE files,
                                   ledger |-> ledger])
    /\ UNCHANGED <<files, ledger, job, replay>>

\* LoadInputs, StartCampaign at 09:15 of the first day, GitSHA.
Begin(how) ==
    /\ job = "idle"
    /\ ~QuoteFails(files, Start, FALSE)
    /\ job' = how
    /\ in' = files /\ git' = GitSHA
    /\ today' = Start - 1 /\ book' = NewBook(files) /\ line' = <<>>
    /\ UNCHANGED <<tree, edits>>

ReplayDay ==
    /\ job # "idle" /\ Len(line) < Days
    /\ today' = today + 1
    /\ book' = DayBook(in, book, today', job)
    /\ line' = Append(line, DayLine(in, book', today', job))
    /\ UNCHANGED <<tree, job, in, git, edits>>

Done ==
    /\ Len(line) = Days
    /\ job' = "idle" /\ in' = None /\ git' = None
    /\ today' = Start - 1 /\ book' = None /\ line' = <<>>
Result == [manifest |-> Manifest(in, git), days |-> line]

\* -run: a frozen ledger needs -force, another statement's is never written
\* over.
Save(force) ==
    /\ job = "run" /\ Done
    /\ ledger' = IF (Loads(ledger) /\ ~force) \/ SaveRefused(Result) THEN ledger ELSE Result
    /\ UNCHANGED <<files, commits, edits>>

\* The command dies while it writes.
CrashInSave ==
    /\ job = "run" /\ Done /\ ~SaveRefused(Result)
    /\ ledger' = Cut
    /\ UNCHANGED <<files, commits, edits>>

\* -verify says ok or what does not match, and leaves all as it is.
SaysOK == job = "verify" /\ Len(line) = Days /\ Loads(ledger) /\ Matches(ledger, in, line)
Verify == job = "verify" /\ Done /\ UNCHANGED <<tree, edits>>

\* The desk's campaign is over.
Ends == job = "live" /\ Done /\ UNCHANGED <<tree, edits>>

Next ==
    \/ \E tape \in Tapes : Fetch(tape)
    \/ \E ids \in Picks : RunLab(ids)
    \/ \E p \in Specs : EditSpec(p)
    \/ \E c \in Codes : EditCode(c)
    \/ \E alone \in BOOLEAN : Commit(alone)
    \/ \E how \in {"run", "verify", "live"} : Begin(how)
    \/ ReplayDay
    \/ \E force \in BOOLEAN : Save(force)
    \/ CrashInSave \/ Verify \/ Ends

Spec == Init /\ [][Next]_vars

-----------------------------------------------------------------------------
(* Properties. *)

\* The book of any moment, with all it bought and the benchmarks' start, is
\* the one that a tape cut at that moment gives: no close, no session and no
\* shock of a later day is seen (BarTape, ReplayDir).
CutAt(i, d) == [i EXCEPT !.bars = [s \in DOMAIN i.bars |-> {e \in i.bars[s] : e <= d}]]
NoLookAhead == job # "idle" => book = BookOn(CutAt(in, today), job, today)

\* The core works on its first session, on the last weekday of every period and
\* on each session after one that left work pending, and on no other day; it
\* misses such a day only when it is halted or no session is held, and then the
\* period is not made up for (Preview, coreLocked, civilLast; docs/spec.md).
LastWeekday(d, cycle) ==
    ~Weekend(d) /\ \A e \in d + 1 .. d + Ahead : PeriodOf(e, cycle) = PeriodOf(d, cycle) => Weekend(e)
Unfinished(work, d) ==
    \A k \in DOMAIN work :
        work[k].on < d /\ (\A l \in DOMAIN work : work[l].on < d => l <= k) => ~work[k].complete
RebalancesOnTime ==
    job # "idle" /\ in.spec.ips # None =>
        \A d \in Start .. today :
            (\E k \in DOMAIN book.work : book.work[k].on = d)
              <=> /\ Session(in, d, job) = "open" /\ d \notin book.halted
                  /\ Unfinished(book.work, d) \/ LastWeekday(d, in.spec.ips.cycle)

\* docs/spec.md: "Rebalance session = last NSE session of the civil month ...
\* Dates come from NIFTY50 candle dates, not a weekend calendar": in every period
\* that is over, the core worked on the last session the index printed, or was
\* halted.
DaysOf(q, cycle) == {d \in Window : PeriodOf(d, cycle) = q}
RebalancesOnLastSession ==
    job # "idle" /\ in.spec.ips # None =>
        \A q \in 0 .. Start + Days :
            LET days == DaysOf(q, in.spec.ips.cycle)  open == days \cap in.bars[Index]
            IN  open # {} /\ Max(days) < today =>
                    \/ Max(open) \in book.halted
                    \/ \E k \in DOMAIN book.work : book.work[k].on = Max(open)

\* The next rebalance session that the book names stays the one it names, day
\* after day, until it comes (NextRebalance).
Forecast(d) == NextRebalance(CalendarAt(in, d, TRUE), d, in.spec.ips.cycle)
ForecastKept ==
    [][ReplayDay /\ in.spec.ips # None /\ today >= Start /\ Forecast(today) > today
        => Forecast(today + 1) = Forecast(today)]_vars

\* A ledger that verifies was computed from the tape, the roster, the statement,
\* the shock and the program that are in the tree (-verify).
VerifiedMeansSame == SaysOK => ledger.manifest.from = in

\* A ledger that passes the provenance test is the line that the commit which
\* wrote it gives to whoever clones it (GitSHA, SameCode, LastWriter).
CheckedMeansReproducible == Provenance => Line(commits[LastWriter].files) = ledger.days
=============================================================================
