---------------------------- MODULE LearningProofs ----------------------------
(***************************************************************************)
(* What the learning service holds in memory is what its directory holds,  *)
(* and no weight moves without evidence or towards a loser.                *)
(***************************************************************************)
EXTENDS Learning, FiniteSetTheorems, WellFoundedInduction, TLAPS

\* The properties are inductive as they stand: each action that leaves memory
\* and file apart says so in drift.
LEMMA StepKeepsMemory ==
    ASSUME MemoryIsFile, [Next]_vars
    PROVE  MemoryIsFile'
<1>1. ASSUME UNCHANGED <<up, weights, snap, drift>> PROVE MemoryIsFile'
    BY <1>1 DEF MemoryIsFile
<1>2. ASSUME ~up' PROVE MemoryIsFile' BY <1>2 DEF MemoryIsFile
<1>3. CASE Boot BY <1>3 DEF Boot, MemoryIsFile
<1>4. CASE Crash BY <1>2, <1>4 DEF Crash, Down
<1>5. CASE CrashInReview BY <1>2, <1>5 DEF CrashInReview, Down
<1>6. CASE NextDay BY <1>1, <1>6 DEF NextDay, disk, memory, history
<1>7. ASSUME NEW m, RecordTrade(m) PROVE MemoryIsFile'
    <2>1. UNCHANGED <<up, weights, snap>> BY <1>7 DEF RecordTrade
    <2>2. "weights" \in drift <=> "weights" \in drift' BY <1>7 DEF RecordTrade
    <2> QED BY <2>1, <2>2 DEF MemoryIsFile
<1>8. ASSUME NEW m, CrashInRecordTrade(m) PROVE MemoryIsFile'
    BY <1>2, <1>8 DEF CrashInRecordTrade, Down
<1>9. ASSUME NEW m, RecordPeriod(m) PROVE MemoryIsFile'
    BY <1>1, <1>9 DEF RecordPeriod, memory, history
<1>10. CASE CrashInRecordPeriod BY <1>2, <1>10 DEF CrashInRecordPeriod, Down
<1>11. CASE MaybeWeekly BY <1>1, <1>11 DEF MaybeWeekly, disk, memory, history
<1>12. CASE RunWeekly
    <2>1. weights' = snap' BY <1>12 DEF RunWeekly, Save
    <2> QED BY <2>1 DEF MemoryIsFile
<1>13. CASE RunWeeklyFails BY <1>13 DEF RunWeeklyFails, MemoryIsFile
<1>14. CASE ToolLoads BY <1>1, <1>14 DEF ToolLoads, disk, memory
<1>15. ASSUME NEW force \in BOOLEAN, ToolSaves(force) PROVE MemoryIsFile'
    <2>1. drift' = drift \cup {"weights"} BY <1>15 DEF ToolSaves
    <2> QED BY <2>1 DEF MemoryIsFile
<1>16. ASSUME NEW ids, Adopt(ids) PROVE MemoryIsFile'
    BY <1>1, <1>16 DEF Adopt, disk, history
<1>17. CASE UNCHANGED vars BY <1>1, <1>17 DEF vars, disk, memory, history
<1> QED BY <1>3, <1>4, <1>5, <1>6, <1>7, <1>8, <1>9, <1>10, <1>11, <1>12, <1>13,
           <1>14, <1>15, <1>16, <1>17 DEF Next

\* The weights the service serves are those of weights.json through every
\* review, boot, death and failed write, unless cmd/review wrote the file or a
\* write failed since (service.go RunWeekly, bootWeights).
THEOREM MemoryAlwaysFile == Spec => []MemoryIsFile
<1>1. Init => MemoryIsFile BY DEF Init, MemoryIsFile
<1>2. MemoryIsFile /\ [Next]_vars => MemoryIsFile' BY StepKeepsMemory
<1> QED BY <1>1, <1>2, PTL DEF Spec

-----------------------------------------------------------------------------

LEMMA StepKeepsBackup ==
    ASSUME BackupHoldsLedger, [Next]_vars
    PROVE  BackupHoldsLedger'
<1>1. ASSUME UNCHANGED <<up, closes, backup>>, "backup" \in drift => "backup" \in drift'
      PROVE  BackupHoldsLedger'
    BY <1>1 DEF BackupHoldsLedger, Readable
<1>2. ASSUME ~up' PROVE BackupHoldsLedger' BY <1>2 DEF BackupHoldsLedger
<1>3. CASE Boot
    <2>1. closes' = closes /\ (Readable(closes) => backup' = closes)
        BY <1>3 DEF Boot, BackupAtBoot
    <2> QED BY <2>1 DEF BackupHoldsLedger, Readable
<1>4. CASE Crash BY <1>2, <1>4 DEF Crash, Down
<1>5. CASE CrashInReview BY <1>2, <1>5 DEF CrashInReview, Down
<1>6. CASE NextDay BY <1>1, <1>6 DEF NextDay, disk, memory, history
<1>7. ASSUME NEW m, RecordTrade(m) PROVE BackupHoldsLedger'
    <2>1. CASE backup' = closes' BY <2>1 DEF BackupHoldsLedger
    <2>2. CASE "backup" \in drift' BY <2>2 DEF BackupHoldsLedger
    <2>3. CASE UNCHANGED <<closes, drift, backup>>
        <3>1. up' = up BY <1>7 DEF RecordTrade
        <3> QED BY <1>1, <2>3, <3>1
    <2> QED BY <1>7, <2>1, <2>2, <2>3 DEF RecordTrade
<1>8. ASSUME NEW m, CrashInRecordTrade(m) PROVE BackupHoldsLedger'
    BY <1>2, <1>8 DEF CrashInRecordTrade, Down
<1>9. ASSUME NEW m, RecordPeriod(m) PROVE BackupHoldsLedger'
    BY <1>1, <1>9 DEF RecordPeriod, memory, history
<1>10. CASE CrashInRecordPeriod BY <1>2, <1>10 DEF CrashInRecordPeriod, Down
<1>11. CASE MaybeWeekly BY <1>1, <1>11 DEF MaybeWeekly, disk, memory, history
<1>12. CASE RunWeekly BY <1>1, <1>12 DEF RunWeekly
<1>13. CASE RunWeeklyFails BY <1>1, <1>13 DEF RunWeeklyFails, memory
<1>14. CASE ToolLoads BY <1>1, <1>14 DEF ToolLoads, disk, memory
<1>15. ASSUME NEW force \in BOOLEAN, ToolSaves(force) PROVE BackupHoldsLedger'
    BY <1>1, <1>15 DEF ToolSaves, memory
<1>16. ASSUME NEW ids, Adopt(ids) PROVE BackupHoldsLedger'
    BY <1>1, <1>16 DEF Adopt, disk, history
<1>17. CASE UNCHANGED vars BY <1>1, <1>17 DEF vars, disk, memory, history
<1> QED BY <1>3, <1>4, <1>5, <1>6, <1>7, <1>8, <1>9, <1>10, <1>11, <1>12, <1>13,
           <1>14, <1>15, <1>16, <1>17 DEF Next

\* Of a ledger that can be read the backup of a running service holds every
\* line, wherever it died before, unless the last backup failed (AppendClose,
\* bootJournal).
THEOREM BackupAlwaysHoldsLedger == Spec => []BackupHoldsLedger
<1>1. Init => BackupHoldsLedger BY DEF Init, BackupHoldsLedger
<1>2. BackupHoldsLedger /\ [Next]_vars => BackupHoldsLedger' BY StepKeepsBackup
<1> QED BY <1>1, <1>2, PTL DEF Spec

-----------------------------------------------------------------------------
(* The journal. *)

Lines == Closed \cup {Cut, Bad}

\* What JournalHoldsLedger needs beside itself: ledger and journal are sequences.
Typed == closes \in Seq(Lines) /\ journal \in Seq(Lines) /\ booted \in Nat

\* The journal j lists the lines of the ledger c behind b, newest first.
After(c, b) == {k \in DOMAIN c : k > b}
Lists(j, c, b, at) ==
    /\ at \in [After(c, b) -> DOMAIN j]
    /\ \A k \in After(c, b) : c[k] = j[at[k]]
    /\ \A k, l \in After(c, b) : k < l => at[k] > at[l]

\* A line behind a readable ledger is behind all of it; any other leaves the ledger
\* unreadable.
LEMMA LineAdded ==
    ASSUME NEW c \in Seq(Lines), NEW m \in Closed
    PROVE  /\ AddLine(c, m) \in Seq(Lines)
           /\ Readable(AddLine(c, m)) => Readable(c) /\ AddLine(c, m) = Append(c, m)
<1>1. CASE c # <<>> /\ Last(c) = Cut
  <2>1. Len(c) \in DOMAIN c BY <1>1
  <2>2. AddLine(c, m) = [c EXCEPT ![Len(c)] = Bad] BY <1>1 DEF AddLine
  <2>3. [c EXCEPT ![Len(c)] = Bad] \in Seq(Lines) BY <2>1 DEF Lines
  <2>4. DOMAIN [c EXCEPT ![Len(c)] = Bad] = DOMAIN c
        /\ [c EXCEPT ![Len(c)] = Bad][Len(c)] = Bad
    BY <2>1
  <2> QED BY <2>1, <2>2, <2>3, <2>4 DEF Readable
<1>2. CASE ~(c # <<>> /\ Last(c) = Cut)
  <2>1. AddLine(c, m) = Append(c, m) BY <1>2 DEF AddLine
  <2>2. Append(c, m) \in Seq(Lines) BY DEF Lines
  <2>3. \A k \in DOMAIN c : k \in DOMAIN Append(c, m) /\ Append(c, m)[k] = c[k] OBVIOUS
  <2> QED BY <2>1, <2>2, <2>3 DEF Readable
<1> QED BY <1>1, <1>2

LEMMA CutAdded ==
    ASSUME NEW c \in Seq(Lines)
    PROVE  AddCut(c) \in Seq(Lines)
<1>1. Append(c, Cut) \in Seq(Lines) BY DEF Lines
<1> QED BY <1>1 DEF AddCut

LEMMA StepKeepsTyped == Typed /\ [Next]_vars => Typed'
<1> SUFFICES ASSUME Typed, [Next]_vars PROVE Typed'
    OBVIOUS
<1> USE DEF Typed
<1>1. ASSUME UNCHANGED closes, journal' \in {journal, <<>>}, booted' \in {booted, 0} PROVE Typed'
  <2>1. <<>> \in Seq(Lines) /\ 0 \in Nat OBVIOUS
  <2>2. journal' \in Seq(Lines) BY <1>1, <2>1
  <2>3. booted' \in Nat BY <1>1
  <2> QED BY <1>1, <2>2, <2>3
<1>2. CASE Boot
  <2>0. Listed \in Nat /\ Listed <= Len(closes) BY CapAssumption DEF Listed
  <2>1. \A i \in 1 .. Listed : closes[Len(closes) + 1 - i] \in Lines BY <2>0
  <2>2. [i \in 1 .. Listed |-> closes[Len(closes) + 1 - i]] \in Seq(Lines) BY <2>0, <2>1
  <2>3. <<>> \in Seq(Lines) /\ Len(closes) \in Nat OBVIOUS
  <2> QED BY <1>2, <2>2, <2>3 DEF Boot, BootJournal
<1>3. ASSUME NEW m \in Closed, RecordTrade(m) PROVE Typed'
  <2>1. <<m>> \o journal \in Seq(Lines) BY DEF Lines
  <2>2. AddLine(closes, m) \in Seq(Lines) BY LineAdded
  <2> QED BY <1>3, <2>1, <2>2 DEF RecordTrade
<1>4. ASSUME NEW m \in Closed, CrashInRecordTrade(m) PROVE Typed'
  <2>1. AddLine(closes, m) \in Seq(Lines) /\ AddCut(closes) \in Seq(Lines)
    BY LineAdded, CutAdded
  <2> QED BY <1>4, <2>1 DEF CrashInRecordTrade, Down
<1>5. CASE Crash BY <1>1, <1>5 DEF Crash, Down, disk
<1>6. CASE CrashInReview BY <1>1, <1>6 DEF CrashInReview, Down
<1>7. CASE CrashInRecordPeriod BY <1>1, <1>7 DEF CrashInRecordPeriod, Down
<1>8. ASSUME NEW m, RecordPeriod(m) PROVE Typed' BY <1>1, <1>8 DEF RecordPeriod, memory, history
<1>9. CASE NextDay \/ MaybeWeekly \/ RunWeekly \/ RunWeeklyFails \/ ToolLoads
  BY <1>1, <1>9 DEF NextDay, MaybeWeekly, RunWeekly, RunWeeklyFails, ToolLoads, disk, memory, history
<1>10. ASSUME NEW force, ToolSaves(force) PROVE Typed' BY <1>1, <1>10 DEF ToolSaves, memory
<1>11. ASSUME NEW ids, Adopt(ids) PROVE Typed' BY <1>1, <1>11 DEF Adopt, disk, history
<1>12. CASE UNCHANGED vars BY <1>1, <1>12 DEF vars, disk, memory, history
<1> QED BY <1>2, <1>3, <1>4, <1>5, <1>6, <1>7, <1>8, <1>9, <1>10, <1>11, <1>12 DEF Next

\* What a boot reads back is the end of the ledger, backwards.
LEMMA BootLists ==
    ASSUME NEW c \in Seq(Lines), NEW n \in Nat, n <= Len(c)
    PROVE  \E at : Lists([i \in 1 .. n |-> c[Len(c) + 1 - i]], c, Len(c) - n, at)
<1> DEFINE rows == After(c, Len(c) - n)
           j  == [i \in 1 .. n |-> c[Len(c) + 1 - i]]
           at == [k \in rows |-> Len(c) + 1 - k]
<1>1. \A k \in rows : k \in Nat /\ k > Len(c) - n /\ k <= Len(c) BY DEF After
<1>2. \A k \in rows : at[k] \in DOMAIN j BY <1>1
<1>3. \A k \in rows : c[k] = j[at[k]]
  <2> SUFFICES ASSUME NEW k \in rows PROVE c[k] = j[at[k]] OBVIOUS
  <2>1. Len(c) + 1 - k \in 1 .. n /\ Len(c) + 1 - (Len(c) + 1 - k) = k BY <1>1
  <2> QED BY <2>1
<1>4. \A k, l \in rows : k < l => at[k] > at[l] BY <1>1
<1>5. at \in [rows -> DOMAIN j] BY <1>2
<1> HIDE DEF at, j
<1>6. Lists(j, c, Len(c) - n, at) BY <1>3, <1>4, <1>5 DEF Lists
<1> QED BY <1>6 DEF j

\* An entry before the journal moves every place by one.
LEMMA EntryLists ==
    ASSUME NEW c \in Seq(Lines), NEW j \in Seq(Lines), NEW b \in Int, NEW at,
           Lists(j, c, b, at), NEW m \in Lines
    PROVE  Lists(<<m>> \o j, c, b, [k \in After(c, b) |-> at[k] + 1])
<1> DEFINE jm == <<m>> \o j
<1>1. Len(jm) = Len(j) + 1 /\ jm \in Seq(Lines) OBVIOUS
<1>2. \A i \in DOMAIN j : i + 1 \in DOMAIN jm /\ jm[i + 1] = j[i] OBVIOUS
<1>3. \A k \in After(c, b) : at[k] \in DOMAIN j /\ at[k] \in Nat BY DEF Lists
<1>4. \A k \in After(c, b) : at[k] + 1 \in DOMAIN jm /\ jm[at[k] + 1] = c[k]
  BY <1>2, <1>3 DEF Lists
<1> HIDE DEF jm
<1>5. \A k, l \in After(c, b) : k < l => at[k] + 1 > at[l] + 1 BY <1>3 DEF Lists
<1> QED BY <1>4, <1>5 DEF Lists, jm

\* A close that is both in the ledger and in the journal.
LEMMA CloseLists ==
    ASSUME NEW c \in Seq(Lines), NEW j \in Seq(Lines), NEW b \in Int, NEW at,
           Lists(j, c, b, at), NEW m \in Lines
    PROVE  \E to : Lists(<<m>> \o j, Append(c, m), b, to)
<1> DEFINE jm == <<m>> \o j  cm == Append(c, m)  n == Len(c) + 1
           old == After(c, b)  rows == After(cm, b)
           to == [k \in rows |-> IF k = n THEN 1 ELSE at[k] + 1]
<1>1. DOMAIN cm = 1 .. n /\ DOMAIN c = 1 .. Len(c) /\ n \in Nat OBVIOUS
<1>2. jm[1] = m /\ 1 \in DOMAIN jm OBVIOUS
<1>3. \A i \in DOMAIN j : i + 1 \in DOMAIN jm /\ jm[i + 1] = j[i] OBVIOUS
<1>4. cm[n] = m /\ \A k \in DOMAIN c : cm[k] = c[k] OBVIOUS
<1>5. \A k \in old : at[k] \in DOMAIN j /\ at[k] \in Nat /\ at[k] >= 1 BY DEF Lists
<1>6. \A k \in rows : k \in 1 .. n /\ (k # n => k \in old) BY <1>1 DEF After
<1>7. \A k \in old : k \in DOMAIN c BY DEF After
<1> HIDE DEF jm, cm, n, old, rows
<1>8. \A k \in rows : to[k] \in DOMAIN jm /\ jm[to[k]] = cm[k]
  <2> SUFFICES ASSUME NEW k \in rows PROVE to[k] \in DOMAIN jm /\ jm[to[k]] = cm[k]
    OBVIOUS
  <2>1. CASE k = n BY <1>2, <1>4, <2>1
  <2>2. CASE k # n
    <3>1. k \in old BY <1>6, <2>2
    <3>2. to[k] = at[k] + 1 BY <2>2
    <3>3. c[k] = j[at[k]] BY <3>1 DEF Lists, old
    <3> QED BY <1>3, <1>4, <1>5, <1>7, <3>1, <3>2, <3>3
  <2> QED BY <2>1, <2>2
<1>9. \A k, l \in rows : k < l => to[k] > to[l]
  <2> SUFFICES ASSUME NEW k \in rows, NEW l \in rows, k < l PROVE to[k] > to[l]
    OBVIOUS
  <2>1. k # n BY <1>1, <1>6
  <2>2. to[k] = at[k] + 1 /\ at[k] \in Nat /\ at[k] >= 1 BY <1>5, <1>6, <2>1
  <2>3. CASE l = n BY <2>2, <2>3
  <2>4. CASE l # n
    <3>1. to[l] = at[l] + 1 /\ at[l] \in Nat BY <1>5, <1>6, <2>4
    <3>2. at[k] > at[l] BY <1>6, <2>1, <2>4 DEF Lists, old
    <3> QED BY <2>2, <3>1, <3>2
  <2> QED BY <2>3, <2>4
<1>10. to \in [rows -> DOMAIN jm] BY <1>8
<1> HIDE DEF to
<1> QED BY <1>8, <1>9, <1>10 DEF Lists, cm, jm, rows

LEMMA JournalLists ==
    JournalHoldsLedger <=>
        (up /\ Readable(closes) => \E at : Lists(journal, closes, booted - JournalCap, at))
BY DEF JournalHoldsLedger, Recent, Lists, After

LEMMA StepKeepsJournal ==
    ASSUME Typed, JournalHoldsLedger, [Next]_vars
    PROVE  JournalHoldsLedger'
<1> DEFINE from == booted - JournalCap
           Kept == up /\ Readable(closes) => \E at : Lists(journal, closes, from, at)
<1>a. Kept BY JournalLists
<1>b. Kept' => JournalHoldsLedger' BY DEF JournalHoldsLedger, Recent, Lists, After
<1> SUFFICES Kept' BY <1>b
<1>1. ASSUME UNCHANGED <<up, closes, journal, booted>> PROVE Kept'
  BY <1>a, <1>1 DEF Readable, Lists, After
<1>2. ASSUME ~up' PROVE Kept' BY <1>2
<1>3. CASE Boot
  <2>0. Listed \in Nat /\ Listed <= Len(closes) /\ Len(closes) \in Nat
    BY CapAssumption DEF Listed, Typed
  <2>1. /\ closes' = closes /\ booted' = Len(closes)
        /\ Readable(closes) => journal' = [i \in 1 .. Listed |-> closes[Len(closes) + 1 - i]]
    BY <1>3 DEF Boot, BootJournal
  <2> SUFFICES ASSUME Readable(closes) PROVE Kept'
    BY <2>1 DEF Readable
  <2>2. PICK at : Lists(journal', closes, Len(closes) - Listed, at)
    BY <2>0, <2>1, BootLists DEF Typed
  <2>3. After(closes, from') = After(closes, Len(closes) - Listed)
    <3>1. \A k \in DOMAIN closes : k \in Nat /\ k >= 1 BY DEF Typed
    <3>2. CASE Listed = JournalCap BY <2>1, <3>2
    <3>3. CASE Listed # JournalCap
      <4>1. Listed = Len(closes) /\ Len(closes) < JournalCap BY <3>3 DEF Listed
      <4> QED BY <2>0, <2>1, <3>1, <4>1, CapAssumption DEF After
    <3> QED BY <3>2, <3>3
  <2>4. Lists(journal', closes, from', at) BY <2>2, <2>3 DEF Lists
  <2> QED BY <2>1, <2>4
<1>4. CASE Crash BY <1>2, <1>4 DEF Crash, Down
<1>5. CASE CrashInReview BY <1>2, <1>5 DEF CrashInReview, Down
<1>6. CASE NextDay BY <1>1, <1>6 DEF NextDay, disk, memory, history
<1>7. ASSUME NEW m \in Closed, RecordTrade(m) PROVE Kept'
  <2>1. up /\ journal' = <<m>> \o journal /\ closes' \in {closes, AddLine(closes, m)}
        /\ from' = from
    BY <1>7 DEF RecordTrade
  <2>2. m \in Lines BY DEF Lines
  <2> SUFFICES ASSUME Readable(closes)' PROVE \E at : Lists(journal', closes', from, at)
    BY <2>1
  <2>20. from \in Int BY CapAssumption DEF Typed
  <2>3. Readable(closes) /\ closes' \in {closes, Append(closes, m)}
    BY <2>1, LineAdded DEF Typed, Readable
  <2>4. PICK at : Lists(journal, closes, from, at) BY <1>a, <2>1, <2>3
  <2>5. \E to : Lists(<<m>> \o journal, closes, from, to) BY <2>2, <2>20, <2>4, EntryLists DEF Typed
  <2>6. \E to : Lists(<<m>> \o journal, Append(closes, m), from, to)
    BY <2>2, <2>20, <2>4, CloseLists DEF Typed
  <2> QED BY <2>1, <2>3, <2>5, <2>6
<1>8. ASSUME NEW m, CrashInRecordTrade(m) PROVE Kept'
  BY <1>2, <1>8 DEF CrashInRecordTrade, Down
<1>9. ASSUME NEW m, RecordPeriod(m) PROVE Kept'
  BY <1>1, <1>9 DEF RecordPeriod, memory, history
<1>10. CASE CrashInRecordPeriod BY <1>2, <1>10 DEF CrashInRecordPeriod, Down
<1>11. CASE MaybeWeekly BY <1>1, <1>11 DEF MaybeWeekly, disk, memory, history
<1>12. CASE RunWeekly BY <1>1, <1>12 DEF RunWeekly
<1>13. CASE RunWeeklyFails BY <1>1, <1>13 DEF RunWeeklyFails, memory
<1>14. CASE ToolLoads BY <1>1, <1>14 DEF ToolLoads, disk, memory
<1>15. ASSUME NEW force \in BOOLEAN, ToolSaves(force) PROVE Kept'
  BY <1>1, <1>15 DEF ToolSaves, memory
<1>16. ASSUME NEW ids, Adopt(ids) PROVE Kept' BY <1>1, <1>16 DEF Adopt, disk, history
<1>17. CASE UNCHANGED vars BY <1>1, <1>17 DEF vars, disk, memory, history
<1> HIDE DEF Kept
<1> QED BY <1>3, <1>4, <1>5, <1>6, <1>7, <1>8, <1>9, <1>10, <1>11, <1>12, <1>13,
           <1>14, <1>15, <1>16, <1>17 DEF Next

\* The journal of a running service lists, newest first, every line written to a
\* readable ledger since the boot and the JournalCap lines before it, for any cap,
\* closes, failed appends, deaths and boots (RecordTrade, bootJournal).
THEOREM JournalAlwaysHoldsLedger == Spec => []JournalHoldsLedger
<1>1. Init => Typed /\ JournalHoldsLedger BY DEF Init, Typed, JournalHoldsLedger
<1>2. Typed /\ JournalHoldsLedger /\ [Next]_vars => Typed' /\ JournalHoldsLedger'
  BY StepKeepsTyped, StepKeepsJournal
<1> QED BY <1>1, <1>2, PTL DEF Spec

-----------------------------------------------------------------------------
(* Sums of shares, as the library computes them: an element of a part, and *)
(* the rest of it.                                                         *)

\* Every set of numbers has a least one.
LEMMA LeastNumber ==
    ASSUME NEW S \in SUBSET Nat, S # {}
    PROVE  \E n \in S : \A m \in S : n <= m
<1>. DEFINE R == {ss \in Nat \X Nat : ss[1] < ss[2]}
<1>1. \A x, y \in Nat : <<y, x>> \notin R => x <= y
  OBVIOUS
<1>2. IsWellFoundedOn(R, Nat)
  BY NatLessThanWellFounded DEF OpToRel
<1>. HIDE DEF R
<1>3. \E x \in S : \A y \in S : <<y, x>> \notin R
  BY <1>2, WFMin
<1>. QED
  BY <1>1, <1>3

\* Of the parts of a finite set that are bad one has only good parts with an
\* element less.
LEMMA LeastPart ==
    ASSUME NEW S, IsFiniteSet(S), NEW bad \in SUBSET SUBSET S, bad # {}
    PROVE  \E s \in bad : \A x \in s : s \ {x} \notin bad
<1>. DEFINE sizes == {Cardinality(s) : s \in bad}
<1>1. \A s \in bad : IsFiniteSet(s) /\ Cardinality(s) \in Nat
  BY FS_Subset, FS_CardinalityType
<1>2. sizes \in SUBSET Nat /\ sizes # {}
  BY <1>1
<1>3. PICK n \in sizes : \A m \in sizes : n <= m
  BY <1>2, LeastNumber
<1>4. PICK s \in bad : Cardinality(s) = n
  BY <1>3
<1>5. ASSUME NEW x \in s, s \ {x} \in bad PROVE FALSE
  <2>1. Cardinality(s \ {x}) = Cardinality(s) - 1
    BY <1>1, FS_RemoveElement
  <2>2. Cardinality(s) <= Cardinality(s \ {x})
    BY <1>3, <1>4, <1>5
  <2>. QED
    BY <1>1, <1>5, <2>1, <2>2
<1>. QED
  BY <1>5

Pick(s) == CHOOSE x \in s : TRUE
Unfolds(g, f, S) ==
    \A s \in SUBSET S : g[s] = IF s = {} THEN 0 ELSE f[Pick(s)] + g[s \ {Pick(s)}]
Sums(g, f, S) == g \in [SUBSET S -> Nat] /\ Unfolds(g, f, S)

LEMMA SumsExist ==
    ASSUME NEW S, IsFiniteSet(S), NEW f \in [S -> Nat]
    PROVE  \E g : Sums(g, f, S)
<1>. DEFINE Small(n) == {s \in SUBSET S : Cardinality(s) <= n}
           Upto(g, n) == /\ g \in [Small(n) -> Nat]
                         /\ \A s \in Small(n) :
                               g[s] = IF s = {} THEN 0 ELSE f[Pick(s)] + g[s \ {Pick(s)}]
           bad == {n \in Nat : \A g : ~Upto(g, n)}
<1>1. \A s \in SUBSET S : IsFiniteSet(s) /\ Cardinality(s) \in Nat
  BY FS_Subset, FS_CardinalityType
<1>2. \A s \in SUBSET S : s # {} => Pick(s) \in s
  BY DEF Pick
<1>3. bad = {}
  <2>. SUFFICES ASSUME bad # {} PROVE FALSE
    OBVIOUS
  <2>1. PICK n \in bad : \A m \in bad : n <= m
    BY LeastNumber
  <2>2. CASE n = 0
    <3>1. \A s \in Small(0) : s = {}
      BY <1>1, FS_EmptySet
    <3>2. Upto([s \in Small(0) |-> 0], 0)
      BY <3>1
    <3>. QED
      BY <2>1, <2>2, <3>2
  <2>3. CASE n # 0
    <3>1. n - 1 \in Nat /\ n - 1 \notin bad
      <4>1. bad \subseteq Nat
        OBVIOUS
      <4>. HIDE DEF bad
      <4>. QED
        BY <2>1, <2>3, <4>1
    <3>2. PICK g : Upto(g, n - 1)
      BY <3>1
    <3>. DEFINE h == [s \in Small(n) |-> IF s \in Small(n - 1) THEN g[s]
                                        ELSE f[Pick(s)] + g[s \ {Pick(s)}]]
    <3>3. \A s \in Small(n) : s # {} =>
             /\ Pick(s) \in s /\ f[Pick(s)] \in Nat
             /\ s \ {Pick(s)} \in Small(n - 1) /\ g[s \ {Pick(s)}] \in Nat
      <4>. SUFFICES ASSUME NEW s \in Small(n), s # {}
                   PROVE  /\ Pick(s) \in s /\ f[Pick(s)] \in Nat
                          /\ s \ {Pick(s)} \in Small(n - 1) /\ g[s \ {Pick(s)}] \in Nat
        OBVIOUS
      <4>1. Pick(s) \in s /\ f[Pick(s)] \in Nat
        BY <1>2
      <4>2. Cardinality(s \ {Pick(s)}) = Cardinality(s) - 1
        BY <1>1, <4>1, FS_RemoveElement
      <4>3. s \ {Pick(s)} \in Small(n - 1)
        BY <1>1, <4>2
      <4>. QED
        BY <3>2, <4>1, <4>3
    <3>4. \A s \in Small(n - 1) : s \in Small(n) /\ g[s] \in Nat
      BY <1>1, <3>2
    <3>5. {} \in Small(n - 1)
      BY <3>1, FS_EmptySet
    <3>6. ASSUME NEW s \in Small(n) PROVE h[s] \in Nat
      <4>1. CASE s \in Small(n - 1)
        <5>1. h[s] = g[s]
          BY <4>1
        <5>. QED
          BY <3>4, <4>1, <5>1
      <4>2. CASE s \notin Small(n - 1)
        <5>1. s # {}
          BY <3>5, <4>2
        <5>2. h[s] = f[Pick(s)] + g[s \ {Pick(s)}]
          BY <4>2
        <5>3. f[Pick(s)] \in Nat /\ g[s \ {Pick(s)}] \in Nat
          BY <3>3, <5>1
        <5>. QED
          BY <5>2, <5>3
      <4>. QED
        BY <4>1, <4>2
    <3>7. \A s \in Small(n) : h[s] = IF s = {} THEN 0 ELSE f[Pick(s)] + h[s \ {Pick(s)}]
      <4>. SUFFICES ASSUME NEW s \in Small(n)
                   PROVE  h[s] = IF s = {} THEN 0 ELSE f[Pick(s)] + h[s \ {Pick(s)}]
        OBVIOUS
      <4>1. CASE s = {}
        BY <3>2, <3>5, <4>1
      <4>2. CASE s # {}
        <5>1. h[s \ {Pick(s)}] = g[s \ {Pick(s)}]
          BY <3>3, <3>4, <4>2
        <5>. QED
          BY <3>2, <4>2, <5>1
      <4>. QED
        BY <4>1, <4>2
    <3>8. h \in [Small(n) -> Nat]
      BY <3>6
    <3>. HIDE DEF h
    <3>9. Upto(h, n)
      BY <3>7, <3>8
    <3>. QED
      BY <2>1, <3>9
  <2>. QED
    BY <2>2, <2>3
<1>4. Cardinality(S) \in Nat
  BY FS_CardinalityType
<1>5. PICK g : Upto(g, Cardinality(S))
  BY ZenonT(60), <1>3, <1>4
<1>6. Small(Cardinality(S)) = SUBSET S
  BY <1>1, FS_Subset
<1>. QED
  BY <1>5, <1>6 DEF Sums, Unfolds

\* What Total is: a number no share is above.
LEMMA TotalIs ==
    ASSUME NEW S, IsFiniteSet(S), NEW w \in [S -> Nat]
    PROVE  Total(w) \in Nat /\ \A x \in S : w[x] <= Total(w)
<1>. DEFINE Rec(g) == g = [s \in SUBSET S |-> IF s = {} THEN 0 ELSE w[Pick(s)] + g[s \ {Pick(s)}]]
           iter == CHOOSE g : Rec(g)
<1>1. PICK g : Sums(g, w, S)
  BY SumsExist
<1>2. Rec(g)
  BY <1>1 DEF Sums, Unfolds
<1>3. Rec(iter)
  BY <1>2
<1>4. Total(w) = iter[S]
  <2>1. DOMAIN w = S
    OBVIOUS
  <2>. QED
    BY <2>1, Zenon DEF Total, MapThenSumSet, MapThenFoldSet, Pick
<1>. HIDE DEF iter
<1>5. Unfolds(iter, w, S)
  BY <1>3 DEF Unfolds
<1>. DEFINE Good(s) == iter[s] \in Nat /\ \A x \in s : w[x] <= iter[s]
           bad == {s \in SUBSET S : ~Good(s)}
<1>6. bad = {}
  <2>. SUFFICES ASSUME bad # {} PROVE FALSE
    OBVIOUS
  <2>1. PICK s \in bad : \A x \in s : s \ {x} \notin bad
    BY LeastPart
  <2>2. CASE s = {}
    <3>1. iter[s] = 0
      BY <1>5, <2>2 DEF Unfolds
    <3>. QED
      BY <2>1, <2>2, <3>1
  <2>3. CASE s # {}
    <3>1. Pick(s) \in s /\ s \in SUBSET S
      BY <2>3 DEF Pick
    <3>2. s \ {Pick(s)} \in SUBSET S /\ Good(s \ {Pick(s)})
      BY <2>1, <3>1
    <3>3. iter[s] = w[Pick(s)] + iter[s \ {Pick(s)}] /\ w[Pick(s)] \in Nat
      BY <1>5, <2>3, <3>1 DEF Unfolds
    <3>4. ASSUME NEW x \in s PROVE w[x] <= iter[s]
      <4>1. w[x] \in Nat
        BY <3>1
      <4>2. CASE x = Pick(s)
        BY <3>2, <3>3, <4>2
      <4>3. CASE x # Pick(s)
        BY SMTT(60), <3>2, <3>3, <4>1, <4>3
      <4>. QED
        BY <4>2, <4>3
    <3>5. iter[s] \in Nat
      BY <3>2, <3>3
    <3>. QED
      BY <2>1, <3>4, <3>5
  <2>. QED
    BY <2>2, <2>3
<1>. QED
  BY <1>4, <1>6

\* Reduced divides every share by one number.
LEMMA ReducedIs ==
    ASSUME NEW S, IsFiniteSet(S), NEW w \in [S -> Nat]
    PROVE  /\ Reduced(w) \in [S -> Nat]
           /\ \E d \in Nat \ {0} : \A x \in S : w[x] = d * Reduced(w)[x]
<1>. DEFINE divisors == {d \in 1 .. Total(w) : Divides(d, w)}
           v == [x \in S |-> w[x] \div Max(divisors)]
<1>1. DOMAIN w = S /\ Total(w) \in Nat
  BY TotalIs
<1>2. CASE divisors = {}
  <2>1. Reduced(w) = w
    BY <1>2 DEF Reduced
  <2>2. \A x \in S : w[x] = 1 * w[x]
    OBVIOUS
  <2>. QED
    BY <2>1, <2>2
<1>3. CASE divisors # {}
  <2>1. Reduced(w) = v
    BY <1>1, <1>3, Zenon DEF Reduced
  <2>2. Max(divisors) \in divisors
    <3>. DEFINE gaps == {Total(w) - d : d \in divisors}
    <3>1. gaps \in SUBSET Nat /\ gaps # {}
      BY <1>1, <1>3
    <3>2. PICK n \in gaps : \A m \in gaps : n <= m
      BY <3>1, LeastNumber
    <3>3. PICK d \in divisors : n = Total(w) - d
      BY <3>2
    <3>4. ASSUME NEW e \in divisors PROVE d >= e
      <4>1. Total(w) - e \in gaps /\ d \in Nat /\ e \in Nat
        BY <1>1
      <4>2. Total(w) - d <= Total(w) - e
        BY <3>2, <3>3, <4>1
      <4>. QED
        BY <1>1, <4>1, <4>2
    <3>. HIDE DEF divisors
    <3>. QED
      BY <3>4 DEF Max
  <2>. DEFINE d == Max(divisors)
  <2>3. d \in Nat \ {0} /\ Divides(d, w)
    <3>1. \A e \in divisors : e \in Nat \ {0} /\ Divides(e, w)
      BY <1>1
    <3>. HIDE DEF divisors
    <3>. QED
      BY <2>2, <3>1
  <2>. HIDE DEF d
  <2>4. \A x \in S : w[x] \div d \in Nat /\ w[x] = d * (w[x] \div d)
    BY <1>1, <2>3 DEF Divides
  <2>5. \A x \in S : v[x] = w[x] \div d
    BY DEF d
  <2>6. v \in [S -> Nat]
    BY <2>4, <2>5
  <2>. HIDE DEF v
  <2>. QED
    BY <2>1, <2>3, <2>4, <2>5, <2>6
<1>. QED
  BY <1>2, <1>3

\* Powers of two, by the parts of 1 .. k.
LEMMA PowersOfTwo ==
    ASSUME NEW k \in Nat, NEW n \in Nat, k <= n
    PROVE  Pow2(k) \in Nat \ {0} /\ Pow2(n) \in Nat \ {0} /\ Pow2(k) <= Pow2(n)
<1>1. ASSUME NEW m \in Nat
      PROVE  /\ IsFiniteSet(SUBSET (1 .. m))
             /\ Cardinality(SUBSET (1 .. m)) = Pow2(m) /\ Pow2(m) \in Nat \ {0}
  <2>1. IsFiniteSet(1 .. m) /\ Cardinality(1 .. m) = m
    BY FS_Interval
  <2>2. IsFiniteSet(SUBSET (1 .. m)) /\ Cardinality(SUBSET (1 .. m)) = 2 ^ m
    BY <2>1, FS_SUBSET
  <2>3. Cardinality(SUBSET (1 .. m)) \in Nat
    BY <2>2, FS_CardinalityType
  <2>4. Cardinality(SUBSET (1 .. m)) # 0
    BY <2>2, FS_EmptySet
  <2>. QED
    BY <2>2, <2>3, <2>4 DEF Pow2
<1>2. SUBSET (1 .. k) \subseteq SUBSET (1 .. n)
  OBVIOUS
<1>3. Cardinality(SUBSET (1 .. k)) <= Cardinality(SUBSET (1 .. n))
  BY <1>1, <1>2, FS_Subset
<1>. QED
  BY <1>1, <1>3

-----------------------------------------------------------------------------
(* What a review does to shares. *)

Shares == UNION {[ids -> Nat] : ids \in SUBSET Strategies}
Positive == Nat \ {0}

\* From w to v, s gains nothing on t.
NoGain(v, w, s, t) == \E a, b \in Positive : b * v[t] = a * w[t] /\ b * v[s] <= a * w[s]

\* Products keep an order, and a common factor can be taken out.
LEMMA Products ==
    ASSUME NEW x \in Nat, NEW y \in Nat, NEW c \in Nat
    PROVE  /\ x <= y => c * x <= c * y
           /\ c # 0 /\ c * x <= c * y => x <= y
OBVIOUS

LEMMA Regroup ==
    ASSUME NEW x \in Nat, NEW y \in Nat, NEW z \in Nat
    PROVE  x * y \in Nat /\ (x * y) * z = x * (y * z) /\ x * y = y * x
OBVIOUS

LEMMA NoGainTrans ==
    ASSUME NEW s, NEW t, NEW u, NEW v, NEW w,
           {u[s], u[t], v[s], v[t], w[s], w[t]} \subseteq Nat,
           NoGain(u, v, s, t), NoGain(v, w, s, t)
    PROVE  NoGain(u, w, s, t)
<1>1. PICK a \in Positive, b \in Positive : b * u[t] = a * v[t] /\ b * u[s] <= a * v[s]
  BY DEF NoGain
<1>2. PICK c \in Positive, d \in Positive : d * v[t] = c * w[t] /\ d * v[s] <= c * w[s]
  BY DEF NoGain
<1> USE DEF Positive
<1>3. d * b \in Positive /\ a * c \in Positive OBVIOUS
<1>4. (d * b) * u[t] = (a * c) * w[t]
  <2>1. (d * b) * u[t] = d * (b * u[t]) BY Regroup
  <2>2. d * (a * v[t]) = a * (d * v[t]) OBVIOUS
  <2>3. a * (c * w[t]) = (a * c) * w[t] BY Regroup
  <2> QED BY <1>1, <1>2, <2>1, <2>2, <2>3
<1>5. (d * b) * u[s] <= (a * c) * w[s]
  <2>1. (d * b) * u[s] = d * (b * u[s]) BY Regroup
  <2>2. d * (b * u[s]) <= d * (a * v[s]) BY <1>1, Products, Regroup
  <2>3. d * (a * v[s]) = a * (d * v[s]) OBVIOUS
  <2>4. a * (d * v[s]) <= a * (c * w[s]) BY <1>2, Products, Regroup
  <2>5. a * (c * w[s]) = (a * c) * w[s] BY Regroup
  <2>6. {d * (b * u[s]), d * (a * v[s]), a * (c * w[s])} \subseteq Nat BY Regroup
  <2> QED BY <2>1, <2>2, <2>3, <2>4, <2>5, <2>6
<1> QED BY <1>3, <1>4, <1>5 DEF NoGain

LEMMA NoGainCross ==
    ASSUME NEW s, NEW t, NEW v, NEW w, {v[s], v[t], w[s], w[t]} \subseteq Nat, NoGain(v, w, s, t)
    PROVE  v[s] * w[t] <= w[s] * v[t]
<1>1. PICK a \in Positive, b \in Positive : b * v[t] = a * w[t] /\ b * v[s] <= a * w[s]
  BY DEF NoGain
<1> USE DEF Positive
<1>2. b * (v[s] * w[t]) = w[t] * (b * v[s]) OBVIOUS
<1>3. w[t] * (b * v[s]) <= w[t] * (a * w[s]) BY <1>1, Products, Regroup
<1>4. w[t] * (a * w[s]) = w[s] * (a * w[t]) OBVIOUS
<1>5. w[s] * (b * v[t]) = b * (w[s] * v[t]) OBVIOUS
<1>6. b * (v[s] * w[t]) <= b * (w[s] * v[t]) BY <1>1, <1>2, <1>3, <1>4, <1>5
<1> QED BY <1>6, Products, Regroup

\* A shorter trading set keeps the proportions of those that stay.
LEMMA CopyIs ==
    ASSUME NEW ids \in SUBSET Strategies, NEW prev \in Shares
    PROVE  /\ CopyWeights(prev, ids) \in [ids -> Nat]
           /\ \E n \in Positive : \A s \in ids \cap DOMAIN prev :
                CopyWeights(prev, ids)[s] = n * prev[s]
<1>1. PICK D \in SUBSET Strategies : prev \in [D -> Nat] BY DEF Shares
<1>2. IsFiniteSet(ids) /\ IsFiniteSet(D) BY <1>1, FS_Subset, ReviewAssumption
<1>3. Total(prev) \in Nat BY <1>1, <1>2, TotalIs
<1>4. DOMAIN prev = D BY <1>1
<1>5. CASE D = {}
  <2>1. CopyWeights(prev, ids) = [s \in ids |-> 1]
    BY <1>4, <1>5 DEF CopyWeights, EqualWeights
  <2> QED BY <1>4, <1>5, <2>1 DEF Positive
<1>6. CASE D # {}
  <2> DEFINE n == Cardinality(ids)
             tot == Total(prev)
             one == IF tot = 0 THEN 1 ELSE tot
  <2>1. CopyWeights(prev, ids) = [s \in ids |-> IF s \in D THEN prev[s] * n ELSE one]
    BY <1>4, <1>6, Zenon DEF CopyWeights
  <2>2. n \in Nat /\ one \in Nat BY <1>2, <1>3, FS_CardinalityType
  <2> HIDE DEF n, one
  <2>3. \A s \in D : prev[s] * n \in Nat /\ prev[s] * n = n * prev[s] BY <1>1, <2>2
  <2>4. CopyWeights(prev, ids) \in [ids -> Nat] BY <2>1, <2>2, <2>3
  <2>5. CASE ids = {}
    <3>1. 1 \in Positive BY DEF Positive
    <3> QED BY <2>4, <2>5, <3>1
  <2>6. CASE ids # {}
    <3>1. n \in Positive BY <1>2, <2>2, <2>6, FS_EmptySet DEF n, Positive
    <3> QED BY <1>4, <2>1, <2>3, <2>4, <3>1
  <2> QED BY <2>5, <2>6
<1> QED BY <1>5, <1>6

\* The fill tags: a strategy without a losing tag keeps its share, one that has
\* MinWeight or more gains nothing on it.
Holds(w, s) == Total(w) > 0 /\ w[s] * Parts >= Total(w)
LEMMA ReweightIs ==
    ASSUME NEW ids \in SUBSET Strategies, NEW prev \in Shares, NEW c
    PROVE  /\ Reweight(ids, prev, c) \in [ids -> Nat]
           /\ \A s, t \in ids :
                 /\ LosingTags(c, t) = {}
                 /\ LosingTags(c, s) = {} \/ Holds(CopyWeights(prev, ids), s)
                 => NoGain(Reweight(ids, prev, c), CopyWeights(prev, ids), s, t)
<1> DEFINE w == CopyWeights(prev, ids)
           tot == IF Total(w) = 0 THEN 1 ELSE Total(w)
           top == Cardinality(Regimes)
           k(s) == Cardinality(LosingTags(c, s))
           halved(s) == w[s] * Pow2(top - k(s)) * Parts
           floor == tot * Pow2(top)
           raw == [s \in ids |-> IF k(s) = 0 THEN halved(s)
                                 ELSE IF halved(s) < floor THEN floor ELSE halved(s)]
           v == Reduced(raw)
           one == Pow2(top) * Parts
<1>0. Reweight(ids, prev, c) = v BY Zenon DEF Reweight
<1>1. IsFiniteSet(ids) /\ w \in [ids -> Nat] BY CopyIs, FS_Subset, ReviewAssumption
<1>2. Total(w) \in Nat /\ tot \in Nat BY <1>1, TotalIs
<1>3. top \in Nat BY ReviewAssumption, FS_CardinalityType
<1>4. \A s : /\ k(s) \in Nat /\ k(s) <= top /\ top - k(s) \in Nat
             /\ (k(s) = 0 <=> LosingTags(c, s) = {})
  <2> SUFFICES ASSUME NEW s PROVE /\ k(s) \in Nat /\ k(s) <= top /\ top - k(s) \in Nat
                                  /\ (k(s) = 0 <=> LosingTags(c, s) = {})
    OBVIOUS
  <2>1. LosingTags(c, s) \subseteq Regimes BY DEF LosingTags
  <2>2. IsFiniteSet(LosingTags(c, s)) /\ k(s) <= top BY <2>1, FS_Subset, ReviewAssumption
  <2>3. k(s) \in Nat /\ (k(s) = 0 <=> LosingTags(c, s) = {})
    BY <2>2, FS_CardinalityType, FS_EmptySet
  <2> HIDE DEF k, top
  <2> QED BY <1>3, <2>2, <2>3
<1>5. \A s : /\ Pow2(top - k(s)) \in Nat /\ Pow2(top) \in Nat \ {0}
             /\ Pow2(top - k(s)) <= Pow2(top)
  <2> HIDE DEF top, k
  <2> QED BY <1>3, <1>4, PowersOfTwo
<1>6. Parts \in Nat \ {0} BY ReviewAssumption
<1>7. one \in Positive /\ floor \in Nat
  <2> HIDE DEF top, k, tot
  <2> QED BY <1>2, <1>5, <1>6 DEF Positive
<1>8. \A s \in ids : halved(s) \in Nat /\ halved(s) <= one * w[s]
  <2> SUFFICES ASSUME NEW s \in ids PROVE halved(s) \in Nat /\ halved(s) <= one * w[s]
    OBVIOUS
  <2> DEFINE p == Pow2(top - k(s))  q == Pow2(top)
  <2>1. w[s] \in Nat /\ p \in Nat /\ q \in Nat /\ p <= q BY <1>1, <1>5
  <2> HIDE DEF p, q, w, top, k
  <2>2. (w[s] * p) * Parts = (Parts * w[s]) * p BY <1>6, <2>1
  <2>3. (Parts * w[s]) * p <= (Parts * w[s]) * q BY <1>6, <2>1, Products, Regroup
  <2>4. (Parts * w[s]) * q = (q * Parts) * w[s] BY <1>6, <2>1
  <2>5. (w[s] * p) * Parts \in Nat /\ (q * Parts) * w[s] \in Nat BY <1>6, <2>1
  <2> QED BY <2>2, <2>3, <2>4, <2>5 DEF p, q
<1>9. \A s \in ids : k(s) = 0 => halved(s) = one * w[s]
  <2> SUFFICES ASSUME NEW s \in ids, k(s) = 0 PROVE halved(s) = one * w[s]
    OBVIOUS
  <2>1. Pow2(top - k(s)) = Pow2(top) /\ w[s] \in Nat /\ Pow2(top) \in Nat
    <3> HIDE DEF top, k
    <3>1. top - k(s) = top BY <1>3
    <3> QED BY <1>1, <1>5, <3>1
  <2> DEFINE q == Pow2(top)
  <2> HIDE DEF q, w, k, top
  <2>2. (w[s] * q) * Parts = (q * Parts) * w[s] BY <1>6, <2>1 DEF q
  <2> QED BY <2>1, <2>2 DEF q
<1>10. \A s \in ids : raw[s] = IF k(s) = 0 THEN halved(s)
                               ELSE IF halved(s) < floor THEN floor ELSE halved(s)
  OBVIOUS
<1>11. raw \in [ids -> Nat]
  <2> HIDE DEF halved, floor, k
  <2> QED BY <1>7, <1>8
<1>12. PICK d \in Positive : \A s \in ids : raw[s] = d * v[s]
  BY <1>1, <1>11, ReducedIs DEF Positive
<1>13. v \in [ids -> Nat] BY <1>1, <1>11, ReducedIs
<1>14. ASSUME NEW s \in ids, NEW t \in ids, LosingTags(c, t) = {},
              LosingTags(c, s) = {} \/ Holds(w, s)
       PROVE  NoGain(v, w, s, t)
  <2>1. d * v[t] = one * w[t] BY <1>4, <1>9, <1>10, <1>12, <1>14
  <2>2. CASE LosingTags(c, s) = {}
    <3>1. d * v[s] = one * w[s] BY <1>4, <1>9, <1>10, <1>12, <2>2
    <3>2. one * w[s] \in Nat
      <4> HIDE DEF one, w
      <4> QED BY <1>1, <1>7 DEF Positive
    <3> HIDE DEF one, w, v
    <3>3. d * v[s] <= one * w[s] BY <3>1, <3>2
    <3> QED BY SMTT(60), <1>7, <1>12, <2>1, <3>3 DEF NoGain
  <2>3. CASE Holds(w, s)
    <3>1. tot <= w[s] * Parts /\ w[s] \in Nat BY <1>1, <1>2, <2>3 DEF Holds
    <3>2. floor <= one * w[s]
      <4> DEFINE q == Pow2(top)
      <4>1. q \in Nat BY <1>5
      <4> HIDE DEF q, tot, w, top
      <4>2. q * tot <= q * (w[s] * Parts) BY <1>2, <1>6, <3>1, <4>1, Products, Regroup
      <4>3. q * (w[s] * Parts) = (q * Parts) * w[s] BY <1>6, <3>1, <4>1
      <4>4. q * tot = tot * q BY <1>2, <4>1
      <4> QED BY <4>2, <4>3, <4>4 DEF q
    <3>3. raw[s] <= one * w[s]
      <4> HIDE DEF halved, floor, k, one, w
      <4> QED BY <1>8, <1>10, <3>2
    <3>4. d * v[s] <= one * w[s] BY <1>12, <3>3
    <3> HIDE DEF one, w, v
    <3> QED BY <1>7, <1>12, <2>1, <3>4 DEF NoGain
  <2> QED BY <1>14, <2>2, <2>3
<1> HIDE DEF v, w
<1> QED BY <1>0, <1>13, <1>14 DEF w

\* The periods: no method gains, and one that lost under no statement keeps its
\* share.
LEMMA PeriodsIs ==
    ASSUME NEW ids \in SUBSET Strategies, NEW prev \in Shares, NEW p, NEW c
    PROVE  /\ ReweightPeriods(ids, prev, p, c) \in [ids -> Nat]
           /\ \A s, t \in ids :
                 LosingPeriods(p, c, Method[t]) = {}
                 => NoGain(ReweightPeriods(ids, prev, p, c), CopyWeights(prev, ids), s, t)
<1> DEFINE w == CopyWeights(prev, ids)
           tot == Total(w)
           top == Cardinality(Policies)
           k(s) == Cardinality(LosingPeriods(p, c, Method[s]))
           halved(s) == w[s] * Pow2(top - k(s))
           raw == [s \in ids |->
                     IF k(s) > 0 /\ halved(s) * Parts < tot * Pow2(top) THEN 0 ELSE halved(s)]
           v == Reduced(raw)
           one == Pow2(top)
<1>0. ReweightPeriods(ids, prev, p, c) = v BY Zenon DEF ReweightPeriods
<1>1. IsFiniteSet(ids) /\ w \in [ids -> Nat] BY CopyIs, FS_Subset, ReviewAssumption
<1>3. top \in Nat BY ReviewAssumption, FS_CardinalityType
<1>4. \A s : /\ k(s) \in Nat /\ k(s) <= top /\ top - k(s) \in Nat
             /\ (k(s) = 0 <=> LosingPeriods(p, c, Method[s]) = {})
  <2> SUFFICES ASSUME NEW s PROVE /\ k(s) \in Nat /\ k(s) <= top /\ top - k(s) \in Nat
                                  /\ (k(s) = 0 <=> LosingPeriods(p, c, Method[s]) = {})
    OBVIOUS
  <2>1. LosingPeriods(p, c, Method[s]) \subseteq Policies BY DEF LosingPeriods
  <2>2. IsFiniteSet(LosingPeriods(p, c, Method[s])) /\ k(s) <= top
    BY <2>1, FS_Subset, ReviewAssumption
  <2>3. k(s) \in Nat /\ (k(s) = 0 <=> LosingPeriods(p, c, Method[s]) = {})
    BY <2>2, FS_CardinalityType, FS_EmptySet
  <2> HIDE DEF k, top
  <2> QED BY <1>3, <2>2, <2>3
<1>5. \A s : /\ Pow2(top - k(s)) \in Nat /\ one \in Nat \ {0} /\ Pow2(top - k(s)) <= one
  <2> HIDE DEF top, k
  <2> QED BY <1>3, <1>4, PowersOfTwo
<1>6. one \in Positive BY <1>5 DEF Positive
<1>7. \A s \in ids : halved(s) \in Nat /\ halved(s) <= one * w[s] /\ one * w[s] \in Nat
  <2> SUFFICES ASSUME NEW s \in ids
               PROVE  halved(s) \in Nat /\ halved(s) <= one * w[s] /\ one * w[s] \in Nat
    OBVIOUS
  <2> DEFINE q == Pow2(top - k(s))
  <2>1. w[s] \in Nat /\ q \in Nat /\ one \in Nat /\ q <= one BY <1>1, <1>5
  <2> HIDE DEF q, one, w, top, k
  <2>2. w[s] * q <= w[s] * one BY <2>1, Products
  <2>3. w[s] * one = one * w[s] /\ one * w[s] \in Nat /\ w[s] * q \in Nat BY <2>1, Regroup
  <2> QED BY <2>2, <2>3 DEF q
<1>8. \A s \in ids : k(s) = 0 => halved(s) = one * w[s]
  <2> SUFFICES ASSUME NEW s \in ids, k(s) = 0 PROVE halved(s) = one * w[s]
    OBVIOUS
  <2>1. Pow2(top - k(s)) = one
    <3> HIDE DEF top, k
    <3>1. top - k(s) = top BY <1>3
    <3> QED BY <3>1
  <2>2. w[s] \in Nat /\ one \in Nat BY <1>1, <1>5
  <2> HIDE DEF one, w, k, top
  <2>3. w[s] * one = one * w[s] BY <2>2
  <2> QED BY <2>1, <2>3
<1>9. \A s \in ids : /\ raw[s] \in {0, halved(s)}
                     /\ k(s) = 0 => raw[s] = halved(s)
  <2> SUFFICES ASSUME NEW s \in ids PROVE raw[s] \in {0, halved(s)} /\ (k(s) = 0 => raw[s] = halved(s))
    OBVIOUS
  <2>1. raw[s] = IF k(s) > 0 /\ halved(s) * Parts < tot * Pow2(top) THEN 0 ELSE halved(s)
    OBVIOUS
  <2> HIDE DEF raw, k, halved, tot
  <2> QED BY <2>1
<1>10. \A s \in ids : raw[s] \in Nat /\ raw[s] <= one * w[s]
  <2> HIDE DEF raw, halved, one, w, k
  <2> QED BY <1>7, <1>9
<1>11. raw \in [ids -> Nat]
  <2>1. raw = [s \in ids |-> raw[s]] OBVIOUS
  <2> HIDE DEF raw
  <2> QED BY <1>10, <2>1
<1>12. PICK d \in Positive : \A s \in ids : raw[s] = d * v[s]
  BY SMTT(60), <1>1, <1>11, ReducedIs DEF Positive
<1>13. v \in [ids -> Nat] BY <1>1, <1>11, ReducedIs
<1>14. ASSUME NEW s \in ids, NEW t \in ids, LosingPeriods(p, c, Method[t]) = {}
       PROVE  NoGain(v, w, s, t)
  <2>1. d * v[t] = one * w[t] BY <1>4, <1>8, <1>9, <1>12, <1>14
  <2>2. d * v[s] <= one * w[s] BY <1>10, <1>12
  <2> HIDE DEF one, w, v
  <2> QED BY <1>6, <1>12, <2>1, <2>2 DEF NoGain
<1> HIDE DEF v, w
<1> QED BY <1>0, <1>13, <1>14 DEF w

\* The whole review: one that is not shrunk keeps its share against another, and
\* one that is, and held MinWeight, gains nothing on it.
LEMMA ReviewIs ==
    ASSUME NEW ids \in SUBSET Strategies, NEW prev \in Shares, NEW c, NEW p,
           NEW s \in ids, NEW t \in ids, t \notin Shrunk(ids, c, p),
           s \notin Shrunk(ids, c, p) \/ Holds(CopyWeights(prev, ids), s)
    PROVE  NoGain(ReweightPeriods(ids, Reweight(ids, prev, c), p, c), CopyWeights(prev, ids), s, t)
<1> DEFINE w == CopyWeights(prev, ids)
           v == Reweight(ids, prev, c)
           x == CopyWeights(v, ids)
           y == ReweightPeriods(ids, v, p, c)
<1>1. w \in [ids -> Nat] BY CopyIs
<1>2. v \in [ids -> Nat] BY ReweightIs
<1>3. v \in Shares /\ DOMAIN v = ids BY <1>2 DEF Shares
<1> HIDE DEF v
<1>4. x \in [ids -> Nat] BY <1>3, CopyIs
<1>5. y \in [ids -> Nat] BY <1>3, PeriodsIs
<1>6. NoGain(v, w, s, t) BY ReweightIs DEF Shrunk, v
<1>7. NoGain(x, v, s, t)
  <2>0. PICK n \in Positive : \A z \in ids \cap DOMAIN v : CopyWeights(v, ids)[z] = n * v[z]
    BY <1>3, CopyIs
  <2>1. x[s] = n * v[s] /\ x[t] = n * v[t] BY <1>3, <2>0
  <2>2. 1 \in Positive /\ 1 * x[t] = n * v[t] /\ 1 * x[s] <= n * v[s]
    BY <1>4, <2>1 DEF Positive
  <2> HIDE DEF x
  <2> QED BY <2>1, <2>2 DEF NoGain
<1>8. NoGain(y, x, s, t) BY <1>3, PeriodsIs DEF Shrunk
<1>9. {w[s], w[t], v[s], v[t], x[s], x[t], y[s], y[t]} \subseteq Nat BY <1>1, <1>2, <1>4, <1>5
<1> HIDE DEF w, x, y
<1>10. NoGain(y, v, s, t) BY <1>7, <1>8, <1>9, NoGainTrans
<1>11. NoGain(y, w, s, t) BY <1>6, <1>9, <1>10, NoGainTrans
<1> QED BY <1>11 DEF w, v, y

\* What a review leaves are shares of the trading set.
LEMMA ReviewTyped ==
    ASSUME NEW ids \in SUBSET Strategies, NEW prev \in Shares, NEW c, NEW p
    PROVE  /\ ReweightPeriods(ids, Reweight(ids, prev, c), p, c) \in [ids -> Nat]
           /\ CopyWeights(prev, ids) \in [ids -> Nat]
<1>1. Reweight(ids, prev, c) \in [ids -> Nat] BY ReweightIs
<1>2. Reweight(ids, prev, c) \in Shares BY <1>1 DEF Shares
<1> QED BY <1>2, PeriodsIs, CopyIs

-----------------------------------------------------------------------------
(* Snapshots, and what a review has read. *)

Snapshots == [weights : Shares, due : Nat, moved : BOOLEAN]
Rows == Booked \cup {Cut, Bad}

\* What JournalHoldsLedger does not need: days, weights, periods.
ReviewTypes ==
    /\ day \in Nat /\ roster \in SUBSET Strategies
    /\ weights \in {None, Cut} \cup Snapshots /\ snap \in Snapshots
    /\ periods \in Seq(Rows)

\* The rows that a review loaded stand in the ledgers still.
Stand(old, file) == \A k \in DOMAIN old : k \in DOMAIN file /\ old[k] = file[k]
Loaded(job) == Stand(job.closes, LoadPeriods(closes)) /\ Stand(job.periods, LoadPeriods(periods))

EvidenceInv == ReviewTypes /\ Loaded(ticker) /\ Loaded(tool)

LEMMA StandTrans ==
    ASSUME NEW a, NEW b, NEW c, Stand(a, b), Stand(b, c)
    PROVE  Stand(a, c)
BY DEF Stand

\* A line that is written, whole or in part, leaves the rows before it.
LEMMA RowsStand ==
    ASSUME NEW L, {Cut, Bad} \subseteq L, NEW c \in Seq(L), NEW m \in L
    PROVE  /\ AddLine(c, m) \in Seq(L) /\ Stand(LoadPeriods(c), LoadPeriods(AddLine(c, m)))
           /\ AddCut(c) \in Seq(L) /\ Stand(LoadPeriods(c), LoadPeriods(AddCut(c)))
<1> DEFINE Longer(d) == /\ d \in Seq(L)
                        /\ \A k \in DOMAIN c : c[k] \notin {Cut, Bad} => k \in DOMAIN d /\ d[k] = c[k]
<1>1. \A d : Longer(d) => Stand(LoadPeriods(c), LoadPeriods(d)) BY DEF Stand, LoadPeriods, Restrict
<1>2. \A l \in L : Longer(Append(c, l)) OBVIOUS
<1>3. Longer(c) OBVIOUS
<1>4. CASE c # <<>> /\ Last(c) = Cut
  <2>1. Len(c) \in DOMAIN c /\ c[Len(c)] = Cut BY <1>4 DEF Last
  <2>2. AddLine(c, m) = [c EXCEPT ![Len(c)] = Bad] /\ AddCut(c) = c BY <1>4 DEF AddLine, AddCut
  <2>3. [c EXCEPT ![Len(c)] = Bad] \in Seq(L) BY <2>1
  <2>4. Longer([c EXCEPT ![Len(c)] = Bad]) BY <2>1, <2>3
  <2> HIDE DEF Longer
  <2>5. Longer(AddLine(c, m)) /\ Longer(AddCut(c)) BY <1>3, <2>2, <2>4
  <2> QED BY <1>1, <2>5 DEF Longer
<1>5. CASE ~(c # <<>> /\ Last(c) = Cut)
  <2>1. AddLine(c, m) = Append(c, m) /\ AddCut(c) = Append(c, Cut) BY <1>5 DEF AddLine, AddCut
  <2> HIDE DEF Longer
  <2>2. Longer(AddLine(c, m)) /\ Longer(AddCut(c)) BY <1>2, <2>1
  <2> QED BY <1>1, <2>2 DEF Longer
<1> QED BY <1>4, <1>5

\* A readable ledger has no line to pass over.
LEMMA ReadableRows ==
    ASSUME NEW c, Readable(c)
    PROVE  Stand(c, LoadPeriods(c))
BY DEF Readable, Stand, LoadPeriods, Restrict

LEMMA EqualTyped ==
    ASSUME NEW ids \in SUBSET Strategies, NEW d \in Nat
    PROVE  EqualSnapshot(ids, d) \in Snapshots
<1>1. EqualWeights(ids) \in Shares BY DEF EqualWeights, Shares
<1>2. d + ReviewEvery \in Nat BY ReviewAssumption
<1> QED BY <1>1, <1>2 DEF EqualSnapshot, Snapshots

LEMMA AppliedTyped ==
    ASSUME NEW ids \in SUBSET Strategies, NEW prev \in Snapshots, NEW c, NEW p,
           NEW d \in Nat, NEW force
    PROVE  /\ ApplyReview(ids, prev, c, p, d, force) \in Snapshots
           /\ \/ ApplyReview(ids, prev, c, p, d, force).weights = prev.weights
              \/ ApplyReview(ids, prev, c, p, d, force).weights
                    = ReweightPeriods(ids, Reweight(ids, prev.weights, c), p, c)
           /\ Due(prev, d) => ApplyReview(ids, prev, c, p, d, force).weights
                    = ReweightPeriods(ids, Reweight(ids, prev.weights, c), p, c)
<1>1. prev.weights \in Shares BY DEF Snapshots
<1> DEFINE v == ReweightPeriods(ids, Reweight(ids, prev.weights, c), p, c)
<1>2. v \in Shares BY SMTT(60), <1>1, ReviewTyped DEF Shares
<1> HIDE DEF v
<1>3. d + ReviewEvery \in Nat BY ReviewAssumption
<1>4. CASE ~force /\ ~Due(prev, d)
  BY <1>4 DEF ApplyReview, Snapshots
<1>5. CASE ~(~force /\ ~Due(prev, d))
  <2>1. ApplyReview(ids, prev, c, p, d, force)
          = [weights |-> v, due |-> d + ReviewEvery, moved |-> Shrunk(ids, c, p) # {}]
    BY <1>5 DEF ApplyReview, v
  <2>2. (Shrunk(ids, c, p) # {}) \in BOOLEAN OBVIOUS
  <2> QED BY <1>2, <1>3, <2>1, <2>2 DEF Snapshots, v
<1> QED BY <1>4, <1>5

LEMMA NothingTyped == NoSnapshot \in Snapshots /\ Loaded(Idle)
<1>1. <<>> \in [{} -> Nat] OBVIOUS
<1>2. <<>> \in Shares BY <1>1 DEF Shares
<1>3. \A file : Stand(<<>>, file) BY DEF Stand
<1> QED BY <1>2, <1>3 DEF NoSnapshot, Snapshots, Loaded, Idle

LEMMA StepKeepsEvidence ==
    ASSUME Typed, EvidenceInv, [Next]_vars
    PROVE  EvidenceInv'
<1>0. ReviewTypes /\ Loaded(ticker) /\ Loaded(tool) BY DEF EvidenceInv
<1>a. \A r \in Rosters : r \in SUBSET Strategies BY ShippedAssumption
<1>b. Shipped \in SUBSET Strategies BY ShippedAssumption
<1>c. {Cut, Bad} \subseteq Lines /\ Closed \subseteq Lines BY DEF Lines
<1>d. {Cut, Bad} \subseteq Rows /\ Booked \subseteq Rows BY DEF Rows
<1>e. /\ NoSnapshot \in Snapshots
      /\ \A file : Stand(<<>>, file)
  BY NothingTyped DEF Stand
\* An action that writes no ledger, or only adds to one, keeps what is loaded.
<1>1. ASSUME Stand(LoadPeriods(closes), LoadPeriods(closes')),
             Stand(LoadPeriods(periods), LoadPeriods(periods')),
             ticker' \in {ticker, Idle}, tool' \in {tool, Idle}
      PROVE  Loaded(ticker)' /\ Loaded(tool)'
  <2>1. ASSUME NEW job \in {ticker, tool}
        PROVE  /\ Stand(job.closes, LoadPeriods(closes'))
               /\ Stand(job.periods, LoadPeriods(periods'))
    BY <1>0, <1>1, <2>1, StandTrans DEF Loaded
  <2>2. Idle.closes = <<>> /\ Idle.periods = <<>> BY DEF Idle
  <2> QED BY <1>1, <1>e, <2>1, <2>2 DEF Loaded
<1>2. \A c : Stand(c, c) BY DEF Stand
<1>3. ASSUME UNCHANGED <<closes, periods>>, ticker' \in {ticker, Idle}, tool' \in {tool, Idle}
      PROVE  Loaded(ticker)' /\ Loaded(tool)'
  BY <1>1, <1>2, <1>3
<1>4. ASSUME UNCHANGED <<day, roster, weights, snap, periods>> PROVE ReviewTypes'
  BY <1>0, <1>4 DEF ReviewTypes
<1>5. CASE Boot
  <2>1. roster' \in SUBSET Strategies /\ day' = day /\ periods' = periods BY <1>5, <1>a DEF Boot
  <2>2. snap' \in Snapshots
    <3>1. Loadable => weights \in Snapshots BY <1>0 DEF Loadable, ReviewTypes
    <3>2. EqualSnapshot(roster', day) \in Snapshots BY <1>0, <2>1, EqualTyped DEF ReviewTypes
    <3> QED BY <1>5, <3>1, <3>2 DEF Boot
  <2>3. weights' \in {snap', weights} BY <1>5 DEF Boot
  <2>4. ReviewTypes' BY <1>0, <2>1, <2>2, <2>3 DEF ReviewTypes
  <2>5. UNCHANGED <<closes, periods, ticker, tool>> BY <1>5 DEF Boot
  <2> QED BY <1>3, <2>4, <2>5 DEF EvidenceInv
<1>6. ASSUME Down, weights' \in {weights, Cut}, UNCHANGED periods PROVE ReviewTypes'
  BY <1>0, <1>6, <1>b, <1>e DEF Down, ReviewTypes
<1>7. CASE Crash
  <2>1. ReviewTypes' BY <1>6, <1>7 DEF Crash, disk
  <2>2. UNCHANGED <<closes, periods, tool>> /\ ticker' = Idle BY <1>7 DEF Crash, Down, disk
  <2> QED BY <1>3, <2>1, <2>2 DEF EvidenceInv
<1>8. CASE CrashInReview
  <2>1. ReviewTypes' BY <1>6, <1>8 DEF CrashInReview
  <2>2. UNCHANGED <<closes, periods, tool>> /\ ticker' = Idle BY <1>8 DEF CrashInReview, Down
  <2> QED BY <1>3, <2>1, <2>2 DEF EvidenceInv
<1>9. CASE NextDay
  <2>1. ReviewTypes'
    <3>1. day' \in Nat BY <1>0, <1>9 DEF NextDay, ReviewTypes
    <3> QED BY <1>0, <1>9, <3>1 DEF NextDay, ReviewTypes, disk, memory
  <2> QED BY <1>3, <1>9, <2>1 DEF EvidenceInv, NextDay, disk
<1>10. ASSUME NEW m \in Closed
       PROVE  /\ Stand(LoadPeriods(closes), LoadPeriods(AddLine(closes, m)))
              /\ Stand(LoadPeriods(closes), LoadPeriods(AddCut(closes)))
  BY <1>c, RowsStand DEF Typed
<1>11. ASSUME NEW m \in Closed, RecordTrade(m) PROVE EvidenceInv'
  <2>1. closes' \in {closes, AddLine(closes, m)} BY <1>11 DEF RecordTrade
  <2>2. Stand(LoadPeriods(closes), LoadPeriods(closes')) BY <1>2, <1>10, <2>1
  <2>3. UNCHANGED <<day, roster, weights, snap, periods, ticker, tool>> BY <1>11 DEF RecordTrade
  <2> QED BY <1>1, <1>2, <1>4, <2>2, <2>3 DEF EvidenceInv
<1>12. ASSUME NEW m \in Closed, CrashInRecordTrade(m) PROVE EvidenceInv'
  <2>1. closes' \in {AddCut(closes), AddLine(closes, m)} BY <1>12 DEF CrashInRecordTrade
  <2>2. Stand(LoadPeriods(closes), LoadPeriods(closes')) BY <1>10, <2>1
  <2>3. ReviewTypes' BY <1>6, <1>12 DEF CrashInRecordTrade
  <2>4. UNCHANGED <<periods, tool>> /\ ticker' = Idle BY <1>12 DEF CrashInRecordTrade, Down
  <2> QED BY <1>1, <1>2, <2>2, <2>3, <2>4 DEF EvidenceInv
<1>13. ASSUME NEW m \in Booked, RecordPeriod(m) PROVE EvidenceInv'
  <2>1. periods' = AddLine(periods, m) BY <1>13 DEF RecordPeriod
  <2>2. periods' \in Seq(Rows) /\ Stand(LoadPeriods(periods), LoadPeriods(periods'))
    BY <1>0, <1>d, <2>1, RowsStand DEF ReviewTypes
  <2>3. UNCHANGED <<day, closes, weights, roster, snap, ticker, tool>>
    BY <1>13 DEF RecordPeriod, memory
  <2>4. ReviewTypes' BY <1>0, <2>2, <2>3 DEF ReviewTypes
  <2> QED BY <1>1, <1>2, <2>2, <2>3, <2>4 DEF EvidenceInv
<1>14. CASE CrashInRecordPeriod
  <2>1. periods' = AddCut(periods) BY <1>14 DEF CrashInRecordPeriod
  <2>2. periods' \in Seq(Rows) /\ Stand(LoadPeriods(periods), LoadPeriods(periods'))
    BY <1>0, <1>d, <2>1, RowsStand DEF ReviewTypes
  <2>3. UNCHANGED <<day, closes, weights, tool>> /\ snap' = NoSnapshot
        /\ roster' = Shipped /\ ticker' = Idle
    BY <1>14 DEF CrashInRecordPeriod, Down
  <2>4. ReviewTypes' BY <1>0, <1>b, <1>e, <2>2, <2>3 DEF ReviewTypes
  <2> QED BY <1>1, <1>2, <2>2, <2>3, <2>4 DEF EvidenceInv
\* A review loads the rows as they stand.
<1>15. ASSUME NEW job, Readable(closes),
              job = [pc |-> "loaded", closes |-> closes, periods |-> LoadPeriods(periods)]
       PROVE  Loaded(job)
  <2>1. Stand(job.closes, LoadPeriods(closes)) BY <1>15, ReadableRows
  <2>2. Stand(job.periods, LoadPeriods(periods)) BY <1>2, <1>15
  <2> QED BY <2>1, <2>2 DEF Loaded
<1>16. CASE MaybeWeekly
  <2>1. UNCHANGED <<closes, periods, tool, day, roster, weights, snap>>
    BY <1>16 DEF MaybeWeekly, disk, memory
  <2>2. Loaded(ticker)'
    BY <1>15, <1>16, <2>1 DEF MaybeWeekly, Loaded
  <2> QED BY <1>0, <1>4, <2>1, <2>2 DEF EvidenceInv, Loaded
<1>17. CASE ToolLoads
  <2>1. UNCHANGED <<closes, periods, ticker, day, roster, weights, snap>>
    BY <1>17 DEF ToolLoads, disk, memory
  <2>2. Loaded(tool)'
    BY <1>15, <1>17, <2>1 DEF ToolLoads, Loaded
  <2> QED BY <1>0, <1>4, <2>1, <2>2 DEF EvidenceInv, Loaded
<1>18. CASE RunWeekly
  <2>1. snap' \in Snapshots /\ weights' = snap'
    <3>1. Reviewed(ticker) \in Snapshots BY <1>0, AppliedTyped DEF Reviewed, ReviewTypes
    <3> QED BY <1>18, <3>1 DEF RunWeekly, Save
  <2>2. UNCHANGED <<day, closes, periods, roster, tool>> /\ ticker' = Idle BY <1>18 DEF RunWeekly
  <2>3. ReviewTypes' BY <1>0, <2>1, <2>2 DEF ReviewTypes
  <2> QED BY <1>3, <2>2, <2>3 DEF EvidenceInv
<1>19. CASE RunWeeklyFails
  <2>1. weights' \in {weights, Cut} /\ ticker' = Idle
        /\ UNCHANGED <<day, closes, periods, roster, snap, tool>>
    BY <1>19 DEF RunWeeklyFails, memory
  <2>2. ReviewTypes' BY <1>0, <2>1 DEF ReviewTypes
  <2> QED BY <1>3, <2>1, <2>2 DEF EvidenceInv
<1>20. ASSUME NEW force \in BOOLEAN, ToolSaves(force) PROVE EvidenceInv'
  <2> DEFINE prev == IF weights \in {None, Cut} THEN EqualSnapshot(Shipped, day) ELSE weights
  <2>1. prev \in Snapshots BY <1>0, <1>b, EqualTyped DEF ReviewTypes
  <2>2. weights' = ApplyReview(Shipped, prev, tool.closes, tool.periods, day, force)
    BY <1>20 DEF ToolSaves
  <2>3. weights' \in Snapshots BY <1>0, <1>b, <2>1, <2>2, AppliedTyped DEF ReviewTypes
  <2>4. UNCHANGED <<day, closes, periods, roster, snap, ticker>> /\ tool' = Idle
    BY <1>20 DEF ToolSaves, memory
  <2>5. ReviewTypes' BY <1>0, <2>3, <2>4 DEF ReviewTypes
  <2> QED BY <1>3, <2>4, <2>5 DEF EvidenceInv
<1>21. ASSUME NEW ids \in Rosters, Adopt(ids) PROVE EvidenceInv'
  <2>1. UNCHANGED <<day, closes, periods, weights, snap, ticker, tool>> /\ roster' = ids
    BY <1>21 DEF Adopt, disk
  <2>2. ReviewTypes' BY <1>0, <1>a, <2>1 DEF ReviewTypes
  <2> QED BY <1>3, <2>1, <2>2 DEF EvidenceInv
<1>22. CASE UNCHANGED vars
  <2>1. UNCHANGED <<day, closes, periods, weights, snap, roster, ticker, tool>>
    BY <1>22 DEF vars, disk, memory
  <2> QED BY <1>3, <1>4, <2>1 DEF EvidenceInv
<1> QED BY <1>5, <1>7, <1>8, <1>9, <1>11, <1>12, <1>13, <1>14, <1>16, <1>17, <1>18, <1>19,
           <1>20, <1>21, <1>22 DEF Next

\* More rows in the ledgers than in what a review loaded: what shrinks a strategy
\* is evidence there.
LEMMA ShrunkHasEvidence ==
    ASSUME Typed, EvidenceInv, NEW job, Loaded(job), NEW ids,
           NEW s \in Shrunk(ids, job.closes, job.periods)
    PROVE  Evidence(s)
<1> DEFINE c == LoadPeriods(closes)  p == LoadPeriods(periods)
           oc == job.closes  op == job.periods
<1>1. IsFiniteSet(DOMAIN c) /\ IsFiniteSet(DOMAIN p)
  <2>1. IsFiniteSet(1 .. Len(closes)) /\ IsFiniteSet(1 .. Len(periods))
    BY FS_Interval DEF Typed, EvidenceInv, ReviewTypes
  <2>2. DOMAIN c \subseteq 1 .. Len(closes) /\ DOMAIN p \subseteq 1 .. Len(periods)
    BY DEF LoadPeriods, Restrict, Typed, EvidenceInv, ReviewTypes
  <2> QED BY <2>1, <2>2, FS_Subset
<1>2. Stand(oc, c) /\ Stand(op, p) BY DEF Loaded
<1> HIDE DEF c, p, oc, op
<1>3. ASSUME NEW S, NEW old \in SUBSET S, NEW D, IsFiniteSet(D), S \subseteq D,
             Cardinality(old) >= MinN
      PROVE  Cardinality(S) >= MinN
  <2>1. IsFiniteSet(S) BY <1>3, FS_Subset
  <2>2. Cardinality(old) <= Cardinality(S) /\ IsFiniteSet(old) BY <2>1, FS_Subset
  <2>3. {Cardinality(old), Cardinality(S), MinN} \subseteq Nat
    BY <2>1, <2>2, FS_CardinalityType, ReviewAssumption
  <2> QED BY <1>3, <2>2, <2>3
<1>4. ASSUME Fills(oc, Method[s]) >= MinN PROVE Fills(c, Method[s]) >= MinN
  <2> DEFINE now == {k \in DOMAIN c : Method[c[k].strategy] = Method[s]}
             then == {k \in DOMAIN oc : Method[oc[k].strategy] = Method[s]}
  <2>1. then \subseteq now /\ now \subseteq DOMAIN c BY <1>2 DEF Stand
  <2>2. Cardinality(then) >= MinN BY <1>4 DEF Fills
  <2> HIDE DEF now, then
  <2>3. Cardinality(now) >= MinN BY <1>1, <1>3, <2>1, <2>2
  <2> QED BY <2>3 DEF Fills, now
<1>5. CASE LosingTags(oc, s) # {}
  <2>1. PICK r \in Regimes : Cardinality(RowsOf(oc, s, r)) >= MinN BY <1>5 DEF LosingTags
  <2> DEFINE now == {k \in DOMAIN c : Method[c[k].strategy] = Method[s]}
  <2>2. RowsOf(oc, s, r) \subseteq now /\ now \subseteq DOMAIN c BY <1>2 DEF RowsOf, Stand
  <2> HIDE DEF now
  <2>3. Cardinality(now) >= MinN BY <1>1, <1>3, <2>1, <2>2
  <2>4. Fills(c, Method[s]) >= MinN BY <2>3 DEF Fills, now
  <2> QED BY <2>4 DEF Evidence, c
<1>6. CASE LosingPeriods(op, oc, Method[s]) # {}
  <2>1. PICK i \in Policies : \/ Cardinality(PeriodRows(op, i, Method[s])) >= MinN
                              \/ Fills(oc, Method[s]) >= MinN
    BY <1>6 DEF LosingPeriods
  <2>2. CASE Fills(oc, Method[s]) >= MinN BY <1>4, <2>2 DEF Evidence, c
  <2>3. CASE Cardinality(PeriodRows(op, i, Method[s])) >= MinN
    <3>1. PeriodRows(op, i, Method[s]) \subseteq PeriodRows(p, i, Method[s])
          /\ PeriodRows(p, i, Method[s]) \subseteq DOMAIN p
      BY <1>2 DEF PeriodRows, Stand
    <3>2. Cardinality(PeriodRows(p, i, Method[s])) >= MinN BY <1>1, <1>3, <2>3, <3>1
    <3> QED BY <3>2 DEF Evidence, p
  <2> QED BY <2>1, <2>2, <2>3
<1> QED BY <1>5, <1>6 DEF Shrunk, oc, op

\* Between two strategies that a review does not shrink nothing moves.
LEMMA NothingMoves ==
    ASSUME NEW ids \in SUBSET Strategies, NEW prev \in Shares, NEW c, NEW p,
           NEW s \in ids \cap DOMAIN prev, NEW t \in ids \cap DOMAIN prev,
           s \notin Shrunk(ids, c, p), t \notin Shrunk(ids, c, p)
    PROVE  LET v == ReweightPeriods(ids, Reweight(ids, prev, c), p, c)
           IN  ~(v[s] * prev[t] < prev[s] * v[t])
<1> DEFINE w == CopyWeights(prev, ids)
           v == ReweightPeriods(ids, Reweight(ids, prev, c), p, c)
<1>1. w \in [ids -> Nat] /\ v \in [ids -> Nat] BY ReviewTyped
<1>2. NoGain(v, w, t, s) BY ReviewIs
<1>3. {v[s], v[t], w[s], w[t], prev[s], prev[t]} \subseteq Nat BY <1>1 DEF Shares
<1>4. PICK n \in Positive : \A z \in ids \cap DOMAIN prev : CopyWeights(prev, ids)[z] = n * prev[z]
  BY CopyIs
<1>5. w[s] = n * prev[s] /\ w[t] = n * prev[t] BY <1>4
<1> HIDE DEF v, w
<1>6. v[t] * w[s] <= w[t] * v[s] BY <1>2, <1>3, NoGainCross
<1>7. n * (v[t] * prev[s]) <= n * (prev[t] * v[s])
  <2>1. v[t] * (n * prev[s]) = n * (v[t] * prev[s]) BY <1>3 DEF Positive
  <2>2. (n * prev[t]) * v[s] = n * (prev[t] * v[s]) BY <1>3 DEF Positive
  <2> QED BY <1>5, <1>6, <2>1, <2>2
<1>8. v[t] * prev[s] <= prev[t] * v[s] BY <1>3, <1>7, Products, Regroup DEF Positive
<1>9. ~(v[s] * prev[t] < prev[s] * v[t])
  <2>1. v[s] * prev[t] = prev[t] * v[s] /\ prev[s] * v[t] = v[t] * prev[s] BY <1>3
  <2>2. {v[t] * prev[s], prev[t] * v[s]} \subseteq Nat BY <1>3, Regroup
  <2> QED BY <1>8, <2>1, <2>2
<1> QED BY <1>9 DEF v

\* The steps that LossNeedsEvidence allows.
LossStep ==
    Whole(weights) /\ Whole(weights') /\ "weights" \notin drift =>
        LET w == weights.weights  v == weights'.weights
        IN  \A s, t \in DOMAIN w \cap DOMAIN v :
                v[s] * w[t] < w[s] * v[t] => Evidence(s) \/ Evidence(t)

\* A file as it was: no share moved.
LEMMA SameShares ==
    ASSUME NEW w \in Shares, NEW s \in DOMAIN w, NEW t \in DOMAIN w
    PROVE  ~(w[s] * w[t] < w[s] * w[t])
<1>1. w[s] \in Nat /\ w[t] \in Nat BY DEF Shares
<1>2. w[s] * w[t] \in Nat BY <1>1, Regroup
<1> QED BY <1>2

\* A review of a snapshot from what a job loaded.
LEMMA ReviewNeedsEvidence ==
    ASSUME Typed, EvidenceInv, NEW job, Loaded(job), NEW ids \in SUBSET Strategies,
           NEW prev \in Snapshots, NEW force, NEW next,
           next = ApplyReview(ids, prev, job.closes, job.periods, day, force),
           NEW s \in DOMAIN prev.weights \cap DOMAIN next.weights,
           NEW t \in DOMAIN prev.weights \cap DOMAIN next.weights,
           next.weights[s] * prev.weights[t] < prev.weights[s] * next.weights[t]
    PROVE  Evidence(s) \/ Evidence(t)
<1>1. prev.weights \in Shares /\ day \in Nat BY DEF Snapshots, EvidenceInv, ReviewTypes
<1>2. \/ next.weights = prev.weights
      \/ next.weights = ReweightPeriods(ids, Reweight(ids, prev.weights, job.closes),
                                        job.periods, job.closes)
  BY <1>1, AppliedTyped
<1>3. next.weights # prev.weights
  <2> SUFFICES ASSUME next.weights = prev.weights PROVE FALSE
    OBVIOUS
  <2> QED BY <1>1, SameShares
<1>4. next.weights = ReweightPeriods(ids, Reweight(ids, prev.weights, job.closes),
                                     job.periods, job.closes)
  BY <1>2, <1>3
<1>5. s \in ids /\ t \in ids
  <2>1. ReweightPeriods(ids, Reweight(ids, prev.weights, job.closes), job.periods, job.closes)
          \in [ids -> Nat]
    BY <1>1, ReviewTyped
  <2>2. DOMAIN next.weights = ids BY <1>4, <2>1
  <2> QED BY <2>2
<1>6. \/ s \in Shrunk(ids, job.closes, job.periods)
      \/ t \in Shrunk(ids, job.closes, job.periods)
  BY <1>1, <1>4, <1>5, NothingMoves
<1> QED BY <1>6, ShrunkHasEvidence

LEMMA StepLosesOnEvidence ==
    ASSUME Typed, EvidenceInv, MemoryIsFile, [Next]_vars
    PROVE  LossStep \/ UNCHANGED weights
<1>0. Loaded(ticker) /\ Loaded(tool) /\ day \in Nat /\ snap \in Snapshots
      /\ roster \in SUBSET Strategies /\ Shipped \in SUBSET Strategies
      /\ (Whole(weights) => weights \in Snapshots)
  BY ShippedAssumption DEF EvidenceInv, ReviewTypes, Whole
<1> SUFFICES ASSUME weights' # weights, Whole(weights), Whole(weights'), "weights" \notin drift,
                    NEW s \in DOMAIN weights.weights \cap DOMAIN weights'.weights,
                    NEW t \in DOMAIN weights.weights \cap DOMAIN weights'.weights,
                    weights'.weights[s] * weights.weights[t]
                       < weights.weights[s] * weights'.weights[t]
             PROVE  Evidence(s) \/ Evidence(t)
  BY DEF LossStep
<1>1. weights' # Cut BY DEF Whole
<1>2. CASE Boot BY <1>2 DEF Boot, Loadable, Whole
<1>3. CASE RunWeekly
  <2>1. weights = snap BY <1>3 DEF RunWeekly, MemoryIsFile
  <2>2. weights' = ApplyReview(roster, weights, ticker.closes, ticker.periods, day, FALSE)
    BY <1>3, <2>1 DEF RunWeekly, Save, Reviewed
  <2> QED BY <1>0, <2>2, ReviewNeedsEvidence
<1>4. ASSUME NEW force \in BOOLEAN, ToolSaves(force) PROVE Evidence(s) \/ Evidence(t)
  <2>2. weights' = ApplyReview(Shipped, weights, tool.closes, tool.periods, day, force)
    BY <1>4 DEF ToolSaves, Whole
  <2> QED BY <1>0, <2>2, ReviewNeedsEvidence
<1>5. CASE RunWeeklyFails BY <1>1, <1>5 DEF RunWeeklyFails
<1>6. CASE CrashInReview BY <1>1, <1>6 DEF CrashInReview
<1>7. CASE Crash \/ NextDay \/ CrashInRecordPeriod \/ MaybeWeekly \/ ToolLoads
  BY <1>7 DEF Crash, NextDay, CrashInRecordPeriod, MaybeWeekly, ToolLoads, disk
<1>8. ASSUME NEW m, RecordTrade(m) \/ CrashInRecordTrade(m) \/ RecordPeriod(m) PROVE FALSE
  BY <1>8 DEF RecordTrade, CrashInRecordTrade, RecordPeriod
<1>9. ASSUME NEW ids, Adopt(ids) PROVE FALSE BY <1>9 DEF Adopt, disk
<1>10. CASE UNCHANGED vars BY <1>10 DEF vars, disk
<1> QED BY <1>2, <1>3, <1>4, <1>5, <1>6, <1>7, <1>8, <1>9, <1>10 DEF Next

LEMMA EvidenceStart == Init => Typed /\ EvidenceInv
<1> SUFFICES ASSUME Init PROVE Typed /\ EvidenceInv
  OBVIOUS
<1>1. Typed BY DEF Init, Typed
<1>2. ReviewTypes BY NothingTyped, ShippedAssumption DEF Init, ReviewTypes
<1>3. Loaded(ticker) /\ Loaded(tool) BY NothingTyped DEF Init
<1> QED BY <1>1, <1>2, <1>3 DEF EvidenceInv

\* No weight in weights.json falls against another, by the service's review or by
\* cmd/review, however old what they loaded, unless one of the two has MinN fills
\* or periods on the ledgers (Reweight, ReweightPeriods).
THEOREM LossAlwaysNeedsEvidence == Spec => LossNeedsEvidence
<1>1. Init => Typed /\ EvidenceInv BY EvidenceStart
<1>2. Typed /\ EvidenceInv /\ [Next]_vars => Typed' /\ EvidenceInv'
  BY StepKeepsTyped, StepKeepsEvidence
<1>3. Typed /\ EvidenceInv /\ MemoryIsFile /\ [Next]_vars => [LossStep]_weights
  BY StepLosesOnEvidence
<1>4. Spec => [][LossStep]_weights
  BY <1>1, <1>2, <1>3, MemoryAlwaysFile, PTL DEF Spec
<1> QED BY <1>4 DEF LossNeedsEvidence, LossStep

\* The steps that LosersNeverGain allows.
NoGainStep ==
    RunWeekly /\ Due(snap, day) =>
        LET w == CopyWeights(snap.weights, roster)  v == weights'.weights
            lost == Shrunk(roster, ticker.closes, ticker.periods)
        IN  \A s \in lost, t \in roster \ lost :
                w[s] * Parts >= Total(w) => v[s] * w[t] <= w[s] * v[t]

LEMMA StepLosersNeverGain ==
    ASSUME EvidenceInv
    PROVE  NoGainStep
<1> DEFINE w == CopyWeights(snap.weights, roster)
           v == weights'.weights
           lost == Shrunk(roster, ticker.closes, ticker.periods)
<1>1. snap \in Snapshots /\ snap.weights \in Shares /\ roster \in SUBSET Strategies /\ day \in Nat
  BY DEF EvidenceInv, ReviewTypes, Snapshots
<1> SUFFICES ASSUME RunWeekly, Due(snap, day), NEW s \in lost, NEW t \in roster \ lost,
                    w[s] * Parts >= Total(w)
             PROVE  v[s] * w[t] <= w[s] * v[t]
  BY DEF NoGainStep
<1>2. v = ReweightPeriods(roster, Reweight(roster, snap.weights, ticker.closes),
                          ticker.periods, ticker.closes)
  <2>1. weights' = ApplyReview(roster, snap, ticker.closes, ticker.periods, day, FALSE)
    BY DEF RunWeekly, Save, Reviewed
  <2>2. ApplyReview(roster, snap, ticker.closes, ticker.periods, day, FALSE).weights
          = ReweightPeriods(roster, Reweight(roster, snap.weights, ticker.closes),
                            ticker.periods, ticker.closes)
    BY DEF ApplyReview
  <2> QED BY <2>1, <2>2
<1>3. w \in [roster -> Nat] /\ v \in [roster -> Nat] BY <1>1, <1>2, ReviewTyped
<1>4. s \in roster BY DEF Shrunk
<1>5. IsFiniteSet(roster) BY <1>1, FS_Subset, ReviewAssumption
<1>6. Total(w) \in Nat /\ w[s] <= Total(w) /\ w[t] <= Total(w) BY <1>3, <1>4, <1>5, TotalIs
<1>7. CASE Total(w) = 0
  <2>1. w[s] = 0 /\ w[t] = 0 BY <1>3, <1>4, <1>6, <1>7
  <2>2. v[s] \in Nat /\ v[t] \in Nat BY <1>3, <1>4
  <2> HIDE DEF v, w
  <2> QED BY <2>1, <2>2
<1>8. CASE Total(w) # 0
  <2>1. Holds(w, s) BY <1>6, <1>8 DEF Holds
  <2>2. NoGain(v, w, s, t) BY <1>1, <1>2, <1>4, <2>1, ReviewIs
  <2>3. {v[s], v[t], w[s], w[t]} \subseteq Nat BY <1>3, <1>4
  <2> HIDE DEF v, w
  <2> QED BY <2>2, <2>3, NoGainCross
<1> QED BY <1>7, <1>8

\* No review leaves a strategy that it shrinks, and that held MinWeight, with more
\* against one that it does not shrink (Reweight, ReweightPeriods, RunWeekly).
THEOREM LosersNeverGainAtAll == Spec => LosersNeverGain
<1>1. Init => Typed /\ EvidenceInv BY EvidenceStart
<1>2. Typed /\ EvidenceInv /\ [Next]_vars => Typed' /\ EvidenceInv'
  BY StepKeepsTyped, StepKeepsEvidence
<1>3. EvidenceInv => [NoGainStep]_vars BY StepLosersNeverGain
<1>4. Spec => [][NoGainStep]_vars BY <1>1, <1>2, <1>3, PTL DEF Spec
<1> QED BY <1>4 DEF LosersNeverGain, NoGainStep
=============================================================================
