------------------------------ MODULE Learning ------------------------------
(***************************************************************************)
(* The learning service of internal/learning over its directory: the       *)
(* ledgers of closed trades and sleeve periods that the trading service    *)
(* sends it, the weights file that the weekly review rewrites, and the     *)
(* process, which may die between any two writes or inside one.            *)
(* cmd/review is a second process on the same directory.  The trading set  *)
(* that a roster brings is a member of Rosters; the Lab module says        *)
(* where it comes from.                                                    *)
(***************************************************************************)
EXTENDS Review, SequencesExt

CONSTANTS
    Shipped,     \* the default specs
    Rosters,     \* the trading sets a roster may bring
    None,
    Cut, Bad,    \* a line without its end, a line that does not parse
    JournalCap,  \* the lines a boot lists again: 200
    MaxDay, MaxTrades, MaxPeriods,  \* bounds
    MaxFaults, MaxReviews  \* bounds: crashes and failed writes, reviews by hand

ASSUME ShippedAssumption == /\ Shipped \subseteq Strategies /\ Shipped # {}
                            /\ Rosters \subseteq SUBSET Strategies
ASSUME CapAssumption == JournalCap \in Nat
ASSUME LineAssumption == Cut # Bad /\ {Cut, Bad} \cap (Close \cup Period) = {}

VARIABLES
    day,
    \* the directory
    closes, backup, periods, weights,
    \* the service: up, its weights, its journal, its trading set, its review
    up, snap, journal, roster, ticker,
    \* cmd/review
    tool,
    \* bounds and history: crashes and failed writes, reviews by hand, the files
    \* that a failed write or cmd/review left other than the service's copy, the
    \* lines that the last boot read
    faults, reviews, drift, booted

disk    == <<closes, backup, periods, weights>>
memory  == <<up, snap, journal, roster>>
history == <<faults, reviews, drift, booted>>
vars == <<day, disk, memory, ticker, tool, history>>

NoSnapshot == [weights |-> <<>>, due |-> 0, moved |-> FALSE]
Idle       == [pc |-> "idle", closes |-> <<>>, periods |-> <<>>]

\* A line is written behind what the file ends with: behind a line that was
\* cut, both are lost.
AddLine(file, row) ==
    IF file # <<>> /\ Last(file) = Cut THEN [file EXCEPT ![Len(file)] = Bad]
    ELSE Append(file, row)
AddCut(file) ==
    IF file # <<>> /\ Last(file) = Cut THEN file ELSE Append(file, Cut)

\* LoadCloses gives up at the first bad line, LoadPeriods passes over it and
\* keeps the rows, here by their line.
Readable(file)    == \A k \in DOMAIN file : file[k] \notin {Cut, Bad}
LoadPeriods(file) == Restrict(file, {k \in DOMAIN file : file[k] \notin {Cut, Bad}})

Init ==
    /\ day = 0
    /\ closes = <<>> /\ backup = <<>> /\ periods = <<>>
    /\ weights = None
    /\ up = FALSE /\ snap = NoSnapshot /\ journal = <<>> /\ roster = Shipped
    /\ ticker = Idle /\ tool = Idle
    /\ faults = 0 /\ reviews = 0 /\ drift = {} /\ booted = 0

-----------------------------------------------------------------------------
(* The process. *)

\* The weights of the file, or equal ones, which are saved.
Loadable == weights \notin {None, Cut} /\ DOMAIN weights.weights # {}

\* The backup is taken when the closes can be read.  The mutant boots without.
BackupAtBootNever == UNCHANGED backup
BackupAtBoot == backup' = IF Readable(closes) THEN closes ELSE backup

\* The newest JournalCap lines, newest first.  The mutant keeps the oldest.
Listed == IF Len(closes) < JournalCap THEN Len(closes) ELSE JournalCap
BootJournalOldest ==
    IF Readable(closes) THEN [i \in 1 .. Listed |-> closes[Listed + 1 - i]] ELSE <<>>
BootJournal ==
    IF Readable(closes) THEN [i \in 1 .. Listed |-> closes[Len(closes) + 1 - i]] ELSE <<>>

Boot ==
    /\ ~up
    /\ up' = TRUE
    /\ roster' \in Rosters
    /\ snap' = IF Loadable THEN weights ELSE EqualSnapshot(roster', day)
    /\ \/ weights' = snap' /\ drift' = {}
       \/ ~Loadable /\ UNCHANGED weights /\ drift' = {"weights"}
    /\ journal' = BootJournal /\ booted' = Len(closes)
    /\ BackupAtBoot
    /\ UNCHANGED <<day, closes, periods, ticker, tool, faults, reviews>>

\* A roster is adopted while the service runs.
Adopt(ids) ==
    /\ up /\ ids # roster
    /\ roster' = ids
    /\ UNCHANGED <<day, disk, up, snap, journal, ticker, tool, history>>

Down ==
    /\ up /\ faults < MaxFaults
    /\ faults' = faults + 1
    /\ up' = FALSE /\ snap' = NoSnapshot /\ journal' = <<>>
    /\ roster' = Shipped /\ ticker' = Idle /\ booted' = 0
    /\ UNCHANGED <<day, tool, reviews, drift>>

\* Between two writes.
Crash == Down /\ UNCHANGED disk

\* While weights.json is rewritten in place.
CrashInReview ==
    /\ ticker.pc = "loaded"
    /\ Down /\ weights' = Cut
    /\ UNCHANGED <<closes, backup, periods>>

\* While a line is appended, after it and before its backup, or inside that.
CrashInRecordTrade(m) ==
    /\ Len(closes) < MaxTrades
    /\ Down
    /\ \/ closes' = AddCut(closes) /\ UNCHANGED backup
       \/ closes' = AddLine(closes, m) /\ backup' \in {backup, <<Cut>>}
    /\ UNCHANGED <<periods, weights>>

CrashInRecordPeriod ==
    /\ Len(periods) < MaxPeriods
    /\ Down
    /\ periods' = AddCut(periods)
    /\ UNCHANGED <<closes, backup, weights>>

-----------------------------------------------------------------------------
(* What the trading service sends: one goroutine per message, three        *)
(* seconds, no retry.  A message that is lost is one never sent, one that  *)
(* is late is one sent later.                                              *)

\* A close that won or lost; a core row or a satellite method's, ahead of its
\* benchmark or behind it.
Closed == [strategy : Strategies, regime : Regimes, pnl : {-1, 1}]
Booked == {[ips |-> i, sleeve |-> IF m = "core" THEN "core" ELSE "satellite",
            method |-> m, excess |-> x] :
              i \in Policies, m \in Methods \cup {"core"}, x \in {-1, 1}}

\* RecordTrade: the line, its backup and the entry, one lock.  An append or a
\* backup that fails is logged; the journal has the entry all the same.
RecordTrade(m) ==
    /\ up /\ Len(closes) < MaxTrades /\ Len(journal) < MaxTrades
    /\ journal' = <<m>> \o journal
    /\ \/ /\ closes' = AddLine(closes, m) /\ backup' = closes'
          /\ drift' = drift \ {"backup"} /\ UNCHANGED faults
       \/ /\ faults < MaxFaults /\ faults' = faults + 1
          /\ \/ closes' = AddLine(closes, m) /\ drift' = drift \cup {"backup"}
             \/ UNCHANGED <<closes, drift>>
          /\ UNCHANGED backup
    /\ UNCHANGED <<day, periods, weights, up, snap, roster, ticker, tool, reviews,
                   booted>>

RecordPeriod(m) ==
    /\ up /\ Len(periods) < MaxPeriods
    /\ periods' = AddLine(periods, m)
    /\ UNCHANGED <<day, closes, backup, weights, memory, ticker,
                   tool, history>>

-----------------------------------------------------------------------------
(* The weekly review: looked at every hour, loaded without the lock,       *)
(* applied and saved under it.                                             *)

MaybeWeekly ==
    /\ up /\ ticker.pc = "idle"
    /\ Due(snap, day) /\ Readable(closes)
    /\ ticker' = [pc |-> "loaded", closes |-> closes, periods |-> LoadPeriods(periods)]
    /\ UNCHANGED <<day, disk, memory, tool, history>>

\* The mutant keeps the day of the next review.
ReviewedKeepsDue(w) ==
    [ApplyReview(roster, snap, w.closes, w.periods, day, FALSE) EXCEPT !.due = snap.due]
Reviewed(w) == ApplyReview(roster, snap, w.closes, w.periods, day, FALSE)

\* A review that moved nothing is saved too.  The mutant saves the others.
SaveIfMoved(next) == IF next.moved THEN weights' = next ELSE UNCHANGED weights
Save(next) == weights' = next

RunWeekly ==
    /\ up /\ ticker.pc = "loaded"
    /\ ticker' = Idle
    /\ UNCHANGED faults
    /\ snap' = Reviewed(ticker)
    /\ Save(snap')
    /\ UNCHANGED <<day, closes, backup, periods, up, journal, roster, tool,
                   reviews, drift, booted>>

\* The write fails: the file is as it was, or cut; the service keeps its copy.
RunWeeklyFails ==
    /\ up /\ ticker.pc = "loaded" /\ faults < MaxFaults
    /\ faults' = faults + 1
    /\ weights' \in {weights, Cut}
    /\ drift' = drift \cup {"weights"}
    /\ ticker' = Idle
    /\ UNCHANGED <<day, closes, backup, periods, memory, tool, reviews, booted>>

\* cmd/review -reweight or -force: over the shipped specs, from the file.
ToolLoads ==
    /\ tool.pc = "idle" /\ reviews < MaxReviews /\ Readable(closes)
    /\ reviews' = reviews + 1
    /\ tool' = [pc |-> "loaded", closes |-> closes, periods |-> LoadPeriods(periods)]
    /\ UNCHANGED <<day, disk, memory, ticker, faults, drift, booted>>

ToolSaves(force) ==
    /\ tool.pc = "loaded"
    /\ LET prev == IF weights \in {None, Cut} THEN EqualSnapshot(Shipped, day) ELSE weights
       IN  weights' = ApplyReview(Shipped, prev, tool.closes, tool.periods, day, force)
    /\ tool' = Idle
    /\ drift' = drift \cup {"weights"}
    /\ UNCHANGED <<day, closes, backup, periods, memory, ticker,
                   faults, reviews, booted>>

NextDay ==
    /\ day < MaxDay
    /\ day' = day + 1
    /\ UNCHANGED <<disk, memory, ticker, tool, history>>

Next ==
    \/ Boot \/ Crash \/ CrashInReview \/ NextDay
    \/ \E m \in Closed : RecordTrade(m) \/ CrashInRecordTrade(m)
    \/ \E p \in Booked : RecordPeriod(p)
    \/ CrashInRecordPeriod
    \/ MaybeWeekly \/ RunWeekly \/ RunWeeklyFails
    \/ ToolLoads \/ \E force \in BOOLEAN : ToolSaves(force)
    \/ \E ids \in Rosters : Adopt(ids)

Spec == Init /\ [][Next]_vars

\* The service looks every hour, and a review that began comes to an end.
ReviewEnds == ticker.pc = "loaded" /\ ticker' = Idle
FairSpec == Spec /\ WF_vars(MaybeWeekly) /\ WF_ticker(ReviewEnds)

-----------------------------------------------------------------------------
(* Properties. *)

\* The weights the service serves are those of weights.json, through faults
\* inside a review and inside a boot, unless cmd/review wrote the file since
\* the boot or a write of it failed (RunWeekly, bootWeights).
MemoryIsFile == up /\ "weights" \notin drift => weights = snap

\* While the service runs and closes.jsonl can be read, its newest backup
\* holds every line of it: a crash between the line and its backup is made
\* good by the next boot, a backup that failed by the next close (AppendClose,
\* bootJournal).
BackupHoldsLedger ==
    up /\ Readable(closes) /\ "backup" \notin drift => backup = closes

\* The journal the service lists holds every line written to the ledger since
\* the boot and the JournalCap lines before it, newest first; closes it failed
\* to append may stand between them (RecordTrade, bootJournal).
Recent == {k \in DOMAIN closes : k > booted - JournalCap}
JournalHoldsLedger ==
    up /\ Readable(closes) =>
        \E at \in [Recent -> DOMAIN journal] :
            /\ \A k \in Recent : closes[k] = journal[at[k]]
            /\ \A k, l \in Recent : k < l => at[k] > at[l]

\* A method of which weights.json has less, against another, than before has
\* MinN fills or periods behind it, or the other has: no one fill and no one
\* period moves a weight, whoever reviews and however old what he loaded, as
\* long as the service does not write over another's file, which it never
\* reads again (Reweight, ReweightPeriods, cmd/review).
Evidence(s) ==
    \/ Fills(LoadPeriods(closes), Method[s]) >= MinN
    \/ \E i \in Policies : Cardinality(PeriodRows(LoadPeriods(periods), i, Method[s])) >= MinN
Whole(w) == w \notin {None, Cut}
LossNeedsEvidence ==
    [][Whole(weights) /\ Whole(weights') /\ "weights" \notin drift =>
        LET w == weights.weights  v == weights'.weights
        IN  \A s, t \in DOMAIN w \cap DOMAIN v :
                v[s] * w[t] < w[s] * v[t] => Evidence(s) \/ Evidence(t)]_weights

\* A method that a review shrinks, and that held MinWeight or more, does not
\* gain on a method that the review does not shrink.
LosersNeverGain ==
    [][RunWeekly /\ Due(snap, day) =>
        LET w == CopyWeights(snap.weights, roster)  v == weights'.weights
            lost == Shrunk(roster, ticker.closes, ticker.periods)
        IN  \A s \in lost, t \in roster \ lost :
                w[s] * Parts >= Total(w) => v[s] * w[t] <= w[s] * v[t]]_vars

\* A due review is done in the end, while the service is up and its ledger
\* can be read.
DueIsReviewed == <>[](up /\ Readable(closes) => ~Due(snap, day))
=============================================================================
