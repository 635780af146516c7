--------------------------- MODULE IndStocksProofs ---------------------------
(***************************************************************************)
(* The spacing of requests and the age of what the caches answer, for      *)
(* every number of callers, every list of names and every limit.           *)
(***************************************************************************)
EXTENDS IndStocks, TLAPS

Paths  == {"equity", "index", "quotes", "bars", "profile", None}
Phases == {"idle", "mint", "wait", "flight", "pause", "again"}

Call == [path : Paths, phase : Phases, t : Nat, list : SUBSET Names,
         name : Names \cup {None}, count : Counts \cup {0}, missing : SUBSET Names]

\* A caller between its steps.  It sent at some time, and the client it uses at
\* that time or later; what it still waits makes up for what is missing of the
\* gap; a request in the air is no older than Timeout.
CallOK(o, sent, last) ==
    /\ o \in Call
    /\ sent \in 0..Gap /\ last \in 0..Gap /\ last <= sent
    /\ o.phase = "wait" => sent + o.t >= Gap
    /\ o.phase \in {"mint", "flight", "again"} => o.t <= Timeout

\* What a caller that did not just send has become.
Unsent(o, sent, last) == CallOK(o, sent, last) /\ o.phase # "flight"

ListsTyped == scrips \in [Processes -> SUBSET Names] /\ csv \in SUBSET Names
ClientsTyped == /\ at \in [Callers -> Call] /\ world \in [Callers -> Ops]
                /\ lastReq \in [Processes -> 0..Gap]
                /\ sentAge \in [Callers -> 0..Gap]

\* What makes CallersSpaced inductive.
SpacedInv ==
    /\ ClientsTyped /\ ListsTyped
    /\ \A c \in Callers : CallOK(at[c], sentAge[c], lastReq[Process(c)])

\* A step in which whoever sends has waited.
SpacedStep ==
    \A c \in Callers :
        at[c].phase = "wait" /\ at'[c].phase = "flight" => sentAge[c] = Gap

\* What an answer rests on was true at most Timeout before it was cached: the
\* limit that matters is not a matter of how often the entry is asked for.
QuotesOK(q) == q \in [names : SUBSET Names, age : Nat, data : Nat] /\ q.data <= q.age + Timeout
StatusOK(s) == /\ s \in [mode : {"live", "mock", "degraded", None}, age : Nat, proof : Nat]
               /\ s.mode = "live" => s.proof <= s.age + Timeout
AgesInv == QuotesOK(quotes) /\ StatusOK(status)

IndStocksInv == SpacedInv /\ AgesInv

-----------------------------------------------------------------------------
(* A request in the making. *)

LEMMA ProcessType == SpacedInv => \A c \in Callers : Process(c) \in Processes
BY DEF Process, Processes

LEMMA IdleOK ==
    ASSUME SpacedInv, NEW c \in Callers
    PROVE  Idle \in Call /\ Unsent(Idle, sentAge[c], lastReq[Process(c)])
BY DEF SpacedInv, Unsent, CallOK, Idle, Call, Phases, Paths

LEMMA ThrottleOK ==
    ASSUME SpacedInv, NEW c \in Callers, NEW o \in Call
    PROVE  Unsent(Throttle(Process(c), o), sentAge[c], lastReq[Process(c)])
<1> DEFINE p == Process(c)  wait == Gap - lastReq[p]
<1>1. /\ sentAge[c] \in 0..Gap /\ lastReq[p] \in 0..Gap /\ lastReq[p] <= sentAge[c]
      /\ Gap \in Nat
  BY TimesAssumption DEF SpacedInv, CallOK
<1>2. wait \in Nat /\ sentAge[c] + wait >= Gap
  BY <1>1
<1> HIDE DEF wait
<1>3. [o EXCEPT !.phase = "wait", !.t = wait] \in Call
  BY <1>2 DEF Call, Phases
<1>4. Throttle(p, o) = [o EXCEPT !.phase = "wait", !.t = wait]
  BY DEF Throttle, wait
<1>5. Throttle(p, o).phase = "wait" /\ Throttle(p, o).t = wait
  BY <1>4 DEF Call
<1> QED BY <1>1, <1>2, <1>3, <1>4, <1>5 DEF CallOK, Unsent

LEMMA GetOK ==
    ASSUME SpacedInv, NEW c \in Callers, NEW o \in Call, NEW path \in Paths
    PROVE  Unsent(Get(Process(c), o, path), sentAge[c], lastReq[Process(c)])
<1> DEFINE q == [o EXCEPT !.path = path]
<1>1. q \in Call BY DEF Call
<1>2. CASE NeedToken(Process(c))
  <2> DEFINE r == [o EXCEPT !.path = path, !.phase = "mint", !.t = 0]
  <2>1. r \in Call /\ r.phase = "mint" /\ r.t = 0 BY DEF Call, Phases
  <2>2. sentAge[c] \in 0..Gap /\ lastReq[Process(c)] \in 0..Gap
        /\ lastReq[Process(c)] <= sentAge[c]
    BY DEF SpacedInv, CallOK
  <2>3. Timeout \in Nat BY TimesAssumption
  <2>4. Get(Process(c), o, path) = r BY <1>2 DEF Get
  <2> HIDE DEF r
  <2> QED BY <2>1, <2>2, <2>3, <2>4 DEF CallOK, Unsent
<1>3. CASE ~NeedToken(Process(c))
  BY <1>1, <1>3, ThrottleOK DEF Get
<1> QED BY <1>2, <1>3

\* One caller goes on to a call that is in order, and nobody sends.
LEMMA GoesOK ==
    ASSUME SpacedInv, NEW c \in Callers, NEW o,
           Unsent(o, sentAge[c], lastReq[Process(c)]), Goes(c, o),
           UNCHANGED <<world, lastReq, sentAge>>, ListsTyped'
    PROVE  SpacedInv' /\ SpacedStep
<1>1. at' \in [Callers -> Call]
  BY DEF SpacedInv, ClientsTyped, CallOK, Unsent, Goes
<1>2. ASSUME NEW d \in Callers
      PROVE  CallOK(at'[d], sentAge[d], lastReq[Process(d)])
  BY DEF SpacedInv, ClientsTyped, Goes, Unsent
<1>3. \A d \in Callers : Process(d)' = Process(d)
  BY DEF Process
<1>4. SpacedStep
  BY DEF SpacedStep, Goes, Unsent, SpacedInv, ClientsTyped
<1> QED BY <1>1, <1>2, <1>3, <1>4 DEF SpacedInv, ClientsTyped

\* What keeps the callers, their clocks and their lists keeps the invariant.
LEMMA KeepsSpaced ==
    ASSUME SpacedInv, UNCHANGED <<world, lastReq, sentAge, at, scrips, csv>>
    PROVE  SpacedInv' /\ SpacedStep
BY DEF SpacedInv, ClientsTyped, ListsTyped, Process, SpacedStep

-----------------------------------------------------------------------------
(* The operations. *)

\* Whatever an operation does that has its instruments, it moves one caller to
\* a call that is in order, and changes no entry of a cache.
LEMMA ReadyMoves ==
    ASSUME SpacedInv, NEW c \in Callers, NEW o \in Call, NEW have \in SUBSET Names,
           Ready(c, o, have)
    PROVE  /\ \E r : Unsent(r, sentAge[c], lastReq[Process(c)]) /\ Goes(c, r)
           /\ UNCHANGED <<quotes, status>>
<1>1. world[c] \in Ops BY DEF SpacedInv, ClientsTyped
<1>2. CASE world[c] = "quotes"
  <2>1. QuotesReady(c, o, have) BY <1>2 DEF Ready
  <2>2. CASE Ends(c)
    BY <2>1, <2>2, IdleOK DEF QuotesReady, Ends, Hit
  <2>3. CASE Goes(c, Get(Process(c), o, "quotes"))
    <3>1. Unsent(Get(Process(c), o, "quotes"), sentAge[c], lastReq[Process(c)])
      BY GetOK DEF Paths
    <3> QED BY <2>1, <2>3, <3>1 DEF QuotesReady, Hit
  <2> QED BY <2>1, <2>2, <2>3 DEF QuotesReady
<1>3. CASE world[c] = "bars"
  <2>1. BarsReady(c, o, have) BY <1>3 DEF Ready
  <2>2. UNCHANGED <<quotes, status>> BY <2>1 DEF BarsReady, caches
  <2>3. CASE Ends(c)
    BY <2>2, <2>3, IdleOK DEF Ends
  <2>4. CASE Goes(c, Get(Process(c), [o EXCEPT !.missing = Missing(have)], "bars"))
    <3>1. [o EXCEPT !.missing = Missing(have)] \in Call BY DEF Call, Missing
    <3>2. Unsent(Get(Process(c), [o EXCEPT !.missing = Missing(have)], "bars"),
                 sentAge[c], lastReq[Process(c)])
      BY <3>1, GetOK DEF Paths
    <3> QED BY <2>2, <2>4, <3>2
  <2> QED BY <2>1, <2>3, <2>4 DEF BarsReady
<1>4. CASE world[c] \notin {"quotes", "bars"}
  <2>1. Goes(c, Get(Process(c), o, "profile")) /\ UNCHANGED caches BY <1>4 DEF Ready
  <2>2. Unsent(Get(Process(c), o, "profile"), sentAge[c], lastReq[Process(c)])
    BY GetOK DEF Paths
  <2> QED BY <2>1, <2>2 DEF caches
<1> QED BY <1>2, <1>3, <1>4

LEMMA EnsureMoves ==
    ASSUME SpacedInv, NEW c \in Callers, NEW o \in Call, EnsureScrips(c, o)
    PROVE  /\ \E r : Unsent(r, sentAge[c], lastReq[Process(c)]) /\ Goes(c, r)
           /\ UNCHANGED <<quotes, status>>
<1>1. CASE Loaded(Process(c))
  <2>1. scrips[Process(c)] \in SUBSET Names BY ProcessType DEF SpacedInv, ListsTyped
  <2> QED BY <1>1, <2>1, ReadyMoves DEF EnsureScrips
<1>2. CASE ~Loaded(Process(c))
  <2>1. Goes(c, Get(Process(c), o, "equity")) /\ UNCHANGED caches
    BY <1>2 DEF EnsureScrips
  <2>2. Unsent(Get(Process(c), o, "equity"), sentAge[c], lastReq[Process(c)])
    BY GetOK DEF Paths
  <2> QED BY <2>1, <2>2 DEF caches
<1> QED BY <1>1, <1>2

LEMMA OperationKeeps ==
    ASSUME IndStocksInv, NEW c \in Callers, GetQuotes(c) \/ GetBars(c) \/ Snapshot(c)
    PROVE  IndStocksInv' /\ SpacedStep
<1> USE DEF IndStocksInv
<1>1. UNCHANGED <<world, lastReq, sentAge, scrips, csv>>
  BY DEF GetQuotes, GetBars, Snapshot, setting, session, lists
<1>2. ListsTyped' BY <1>1 DEF SpacedInv, ListsTyped
<1>3. ASSUME UNCHANGED <<quotes, status>> PROVE AgesInv'
  BY <1>3 DEF AgesInv
<1>4. ASSUME NEW o \in Call, EnsureScrips(c, o) PROVE IndStocksInv' /\ SpacedStep
  <2>1. PICK r : Unsent(r, sentAge[c], lastReq[Process(c)]) /\ Goes(c, r)
    BY <1>4, EnsureMoves
  <2>2. SpacedInv' /\ SpacedStep BY <1>1, <1>2, <2>1, GoesOK
  <2>3. UNCHANGED <<quotes, status>> BY <1>4, EnsureMoves
  <2> QED BY <1>3, <2>2, <2>3
<1>5. ASSUME UNCHANGED at PROVE SpacedInv' /\ SpacedStep
  BY <1>1, <1>5, KeepsSpaced
<1>6. CASE GetQuotes(c)
  <2>1. CASE Enabled BY <1>4, <1>6, <2>1, IdleOK DEF GetQuotes
  <2>2. CASE ~Enabled BY <1>3, <1>5, <1>6, <2>2 DEF GetQuotes, caches
  <2> QED BY <2>1, <2>2
<1>7. CASE GetBars(c)
  <2>1. PICK s \in Names, n \in Counts : EnsureScrips(c, [Idle EXCEPT !.name = s, !.count = n])
    BY <1>7 DEF GetBars
  <2>2. [Idle EXCEPT !.name = s, !.count = n] \in Call BY IdleOK DEF Call
  <2> QED BY SMTT(60), <1>4, <2>1, <2>2
<1>8. CASE Snapshot(c)
  <2>1. CASE StatusHit /\ Shown /\ UNCHANGED <<at, quotes, bars, marks>>
    BY <1>3, <1>5, <2>1 DEF Shown
  <2>2. CASE Finds("mock", Stale) /\ UNCHANGED <<at, quotes, bars, marks>>
    <3>1. Stale \in Nat BY TimesAssumption DEF Stale
    <3>2. StatusOK(status') BY <2>2, <3>1 DEF Finds, StatusOK
    <3> QED BY <1>5, <2>2, <3>2 DEF AgesInv
  <2>3. CASE EnsureScrips(c, Idle) BY <1>4, <2>3, IdleOK
  <2> QED BY <1>8, <2>1, <2>2, <2>3 DEF Snapshot
<1> QED BY SMTT(60), <1>6, <1>7, <1>8

-----------------------------------------------------------------------------
(* The request itself. *)

LEMMA MintedKeeps ==
    ASSUME IndStocksInv, NEW c \in Callers, Minted(c)
    PROVE  IndStocksInv' /\ SpacedStep
<1>1. at[c] \in Call BY DEF IndStocksInv, SpacedInv, ClientsTyped
<1>2. Unsent(Throttle(Process(c), at[c]), sentAge[c], lastReq[Process(c)])
  BY <1>1, ThrottleOK DEF IndStocksInv
<1>3. SpacedInv' /\ SpacedStep
  BY <1>2, GoesOK DEF Minted, Goes, setting, lists, IndStocksInv, SpacedInv, ListsTyped
<1> QED BY <1>3 DEF Minted, caches, IndStocksInv, AgesInv

\* The caller's own time since it sent, and its client's, both start again; the
\* other callers of the client sent no later than they did.
LEMMA SendKeeps ==
    ASSUME IndStocksInv, NEW c \in Callers, Send(c)
    PROVE  IndStocksInv' /\ SpacedStep
<1> USE DEF IndStocksInv
<1>1. Gap \in Nat /\ Timeout \in Nat BY TimesAssumption
<1>2. \A d \in Callers : Process(d)' = Process(d)
  BY DEF Send, setting, Process
<1>3. at' = [at EXCEPT ![c].phase = "flight"] /\ at[c].t = 0
      /\ sentAge' = [sentAge EXCEPT ![c] = 0]
      /\ lastReq' = [lastReq EXCEPT ![Process(c)] = 0]
  BY DEF Send, Sent
<1>4. at[c] \in Call BY DEF SpacedInv, ClientsTyped
<1>5. [at[c] EXCEPT !.phase = "flight"] \in Call BY <1>4 DEF Call, Phases
<1>6. at'[c] = [at[c] EXCEPT !.phase = "flight"] BY <1>3 DEF SpacedInv, ClientsTyped
<1>7. at' \in [Callers -> Call] BY <1>3, <1>5 DEF SpacedInv, ClientsTyped
<1>8. sentAge' \in [Callers -> 0..Gap] /\ lastReq' \in [Processes -> 0..Gap]
  <2>1. 0 \in 0..Gap BY <1>1
  <2>2. sentAge \in [Callers -> 0..Gap] /\ lastReq \in [Processes -> 0..Gap]
    BY DEF SpacedInv, ClientsTyped
  <2> QED BY <1>3, <2>1, <2>2
<1>9. CallOK(at'[c], sentAge'[c], lastReq'[Process(c)])
  <2>1. at'[c] \in Call /\ at'[c].phase = "flight" /\ at'[c].t = 0
    BY <1>3, <1>4, <1>5, <1>6 DEF Call
  <2>2. sentAge'[c] = 0 /\ lastReq'[Process(c)] = 0
    BY <1>3, ProcessType DEF SpacedInv, ClientsTyped
  <2> QED BY <1>1, <2>1, <2>2 DEF CallOK
<1>10. ASSUME NEW d \in Callers, d # c
       PROVE  CallOK(at'[d], sentAge'[d], lastReq'[Process(d)])
  <2>1. at'[d] = at[d] /\ sentAge'[d] = sentAge[d]
    BY <1>3, <1>10 DEF SpacedInv, ClientsTyped
  <2>2. lastReq'[Process(d)] \in {0, lastReq[Process(d)]}
    BY <1>3, ProcessType DEF SpacedInv, ClientsTyped
  <2>3. CallOK(at[d], sentAge[d], lastReq[Process(d)]) BY DEF SpacedInv
  <2> QED BY <1>1, <2>1, <2>2, <2>3 DEF CallOK
<1>11. \A d \in Callers : CallOK(at[d], sentAge[d], lastReq[Process(d)])'
  BY <1>2, <1>9, <1>10
<1>12. ListsTyped' /\ world' \in [Callers -> Ops]
  BY DEF Send, setting, lists, SpacedInv, ListsTyped, ClientsTyped
<1>13. AgesInv' BY DEF Send, caches, AgesInv
<1>14. sentAge[c] = Gap
  <2>1. CallOK(at[c], sentAge[c], lastReq[Process(c)]) /\ at[c].phase = "wait"
    BY DEF SpacedInv, Send
  <2> QED BY <1>1, <1>3, <2>1 DEF CallOK
<1>15. SpacedStep
  BY <1>3, <1>14 DEF SpacedStep, SpacedInv, ClientsTyped
<1> QED BY <1>7, <1>8, <1>11, <1>12, <1>13, <1>15 DEF SpacedInv, ClientsTyped

LEMMA PauseKeeps ==
    ASSUME IndStocksInv, NEW c \in Callers, Busy(c) \/ Retry(c)
    PROVE  IndStocksInv' /\ SpacedStep
<1>1. PICK phase \in {"pause", "again"} :
         at' = [at EXCEPT ![c].phase = phase, ![c].t = 0]
  BY DEF Busy, Retry
<1>2. at[c] \in Call BY DEF IndStocksInv, SpacedInv, ClientsTyped
<1>3. Goes(c, [at[c] EXCEPT !.phase = phase, !.t = 0])
  BY <1>1, <1>2 DEF Goes, IndStocksInv, SpacedInv, ClientsTyped
<1>4. [at[c] EXCEPT !.phase = phase, !.t = 0] \in Call BY <1>2 DEF Call, Phases
<1>5. [at[c] EXCEPT !.phase = phase, !.t = 0].phase = phase
      /\ [at[c] EXCEPT !.phase = phase, !.t = 0].t = 0
  BY <1>2 DEF Call
<1>6. Timeout \in Nat BY TimesAssumption
<1>7. Unsent([at[c] EXCEPT !.phase = phase, !.t = 0], sentAge[c], lastReq[Process(c)])
  BY <1>4, <1>5, <1>6 DEF IndStocksInv, SpacedInv, CallOK, Unsent
<1>8. UNCHANGED <<setting, session, lists, caches>> BY DEF Busy, Retry
<1>9. SpacedInv' /\ SpacedStep
  BY <1>3, <1>7, <1>8, GoesOK DEF setting, session, lists, IndStocksInv, SpacedInv, ListsTyped
<1> QED BY <1>8, <1>9 DEF caches, IndStocksInv, AgesInv

-----------------------------------------------------------------------------
(* The venue answers, or does not. *)

LEMMA TakeScripsKeeps ==
    ASSUME IndStocksInv, NEW c \in Callers, TakeScrips(c), UNCHANGED setting
    PROVE  IndStocksInv' /\ SpacedStep
<1> USE DEF IndStocksInv
<1>1. at[c] \in Call BY DEF SpacedInv, ClientsTyped
<1>2. at[c].list \in SUBSET Names BY <1>1 DEF Call
<1>3. Ready(c, at[c], at[c].list) BY DEF TakeScrips
<1>4. UNCHANGED <<quotes, status>> BY <1>1, <1>2, <1>3, ReadyMoves
<1>5. PICK r : Unsent(r, sentAge[c], lastReq[Process(c)]) /\ Goes(c, r)
  BY <1>1, <1>2, <1>3, ReadyMoves
<1>6. ListsTyped' BY <1>2 DEF TakeScrips, SpacedInv, ListsTyped
<1>7. SpacedInv' /\ SpacedStep BY <1>5, <1>6, GoesOK DEF TakeScrips, setting, session
<1> QED BY <1>4, <1>7 DEF AgesInv

\* The instruments are there, from the venue or from the older file.
LEMMA ListedKeeps ==
    ASSUME IndStocksInv, NEW c \in Callers, NEW l \in SUBSET Names, csv' \in {csv, l},
           Goes(c, Get(Process(c), [at[c] EXCEPT !.list = l], "index")),
           UNCHANGED <<setting, session, scrips, caches>>
    PROVE  IndStocksInv' /\ SpacedStep
<1> USE DEF IndStocksInv
<1>1. [at[c] EXCEPT !.list = l] \in Call BY SMTT(60) DEF SpacedInv, ClientsTyped, Call
<1>2. Unsent(Get(Process(c), [at[c] EXCEPT !.list = l], "index"),
             sentAge[c], lastReq[Process(c)])
  BY <1>1, GetOK DEF Paths
<1>3. ListsTyped' BY DEF SpacedInv, ListsTyped
<1>4. SpacedInv' /\ SpacedStep BY <1>2, <1>3, GoesOK DEF setting, session
<1> QED BY <1>4 DEF AgesInv, caches

LEMMA EndsKeep ==
    ASSUME IndStocksInv, NEW c \in Callers, Ends(c), UNCHANGED <<setting, session, lists>>
    PROVE  SpacedInv' /\ SpacedStep
BY IdleOK, GoesOK DEF Ends, setting, session, lists, IndStocksInv, SpacedInv, ListsTyped

\* What the venue made while the request was out is at most as old as it.
LEMMA MadeInTime ==
    ASSUME IndStocksInv, NEW c \in Callers, at[c].phase \in {"flight", "again"},
           NEW d \in Made(c)
    PROVE  d \in Nat /\ d <= Timeout
<1>1. CallOK(at[c], sentAge[c], lastReq[Process(c)]) BY DEF IndStocksInv, SpacedInv
<1>2. at[c].t \in Nat /\ at[c].t <= Timeout BY <1>1 DEF CallOK, Call
<1> QED BY <1>2, TimesAssumption DEF Made

LEMMA ServedKeeps ==
    ASSUME IndStocksInv, NEW c \in Callers, Served(c)
    PROVE  IndStocksInv' /\ SpacedStep
<1>1. UNCHANGED setting /\ at[c].phase \in {"flight", "again"} BY DEF Served
<1>2. Timeout \in Nat BY TimesAssumption
<1>3. CASE EquityServed(c)
  <2>1. PICK l \in Lists : csv' = l /\ Goes(c, Get(Process(c), [at[c] EXCEPT !.list = l], "index"))
    BY <1>3 DEF EquityServed
  <2>2. l \in SUBSET Names BY NamesAssumption
  <2> QED BY <1>1, <1>3, <2>1, <2>2, ListedKeeps DEF EquityServed
<1>4. CASE TakeScrips(c) BY <1>1, <1>4, TakeScripsKeeps
<1>5. CASE QuotesServed(c)
  <2>1. SpacedInv' /\ SpacedStep BY <1>1, <1>5, EndsKeep DEF QuotesServed
  <2>2. PICK got \in Partial, d \in Made(c) : quotes' = [names |-> got, age |-> 0, data |-> d]
    BY <1>5 DEF QuotesServed
  <2>3. d \in Nat /\ d <= Timeout BY <1>1, MadeInTime
  <2>4. got \in SUBSET Names
    BY DEF Partial, Processes, IndStocksInv, SpacedInv, ListsTyped
  <2>5. QuotesOK(quotes') BY <1>2, <2>2, <2>3, <2>4 DEF QuotesOK
  <2>6. UNCHANGED status BY <1>5 DEF QuotesServed
  <2> QED BY <2>1, <2>5, <2>6 DEF IndStocksInv, AgesInv
<1>6. CASE BarsServed(c)
  <2>1. PICK rest : Ends(c) \/ Goes(c, Get(Process(c), [at[c] EXCEPT !.missing = at[c].missing \ rest], "bars"))
    BY <1>6 DEF BarsServed
  <2>2. UNCHANGED <<session, lists, quotes, status, answers>> BY <1>6 DEF BarsServed
  <2>3. SpacedInv' /\ SpacedStep
    <3>1. CASE Ends(c) BY <1>1, <2>2, <3>1, EndsKeep
    <3>2. CASE Goes(c, Get(Process(c), [at[c] EXCEPT !.missing = at[c].missing \ rest], "bars"))
      <4>1. [at[c] EXCEPT !.missing = at[c].missing \ rest] \in Call
        BY SMTT(60) DEF IndStocksInv, SpacedInv, ClientsTyped, Call
      <4>2. Unsent(Get(Process(c), [at[c] EXCEPT !.missing = at[c].missing \ rest], "bars"),
                   sentAge[c], lastReq[Process(c)])
        BY <4>1, GetOK DEF Paths, IndStocksInv
      <4>3. UNCHANGED <<world, lastReq, sentAge>> /\ ListsTyped'
        BY <1>1, <2>2 DEF setting, session, lists, IndStocksInv, SpacedInv, ListsTyped
      <4> QED BY <3>2, <4>2, <4>3, GoesOK DEF IndStocksInv
    <3> QED BY <2>1, <3>1, <3>2
  <2> QED BY <2>2, <2>3 DEF IndStocksInv, AgesInv
<1>7. CASE ProfileServed(c)
  <2>1. SpacedInv' /\ SpacedStep BY <1>1, <1>7, EndsKeep DEF ProfileServed
  <2>2. PICK d \in Made(c) : Finds("live", d) BY <1>7 DEF ProfileServed
  <2>3. d \in Nat /\ d <= Timeout BY <1>1, MadeInTime
  <2>4. StatusOK(status') BY <1>2, <2>2, <2>3 DEF Finds, StatusOK
  <2>5. UNCHANGED quotes BY <1>7 DEF ProfileServed
  <2> QED BY <2>1, <2>4, <2>5 DEF IndStocksInv, AgesInv
<1> QED BY <1>3, <1>4, <1>5, <1>6, <1>7 DEF Served

LEMMA FailsKeeps ==
    ASSUME IndStocksInv, NEW c \in Callers, Fails(c)
    PROVE  IndStocksInv' /\ SpacedStep
<1>1. UNCHANGED setting BY DEF Fails
<1>2. CASE FileServed(c)
  <2>1. csv \in SUBSET Names BY DEF IndStocksInv, SpacedInv, ListsTyped
  <2> QED BY <1>1, <1>2, <2>1, ListedKeeps DEF FileServed, lists
<1>3. CASE TakeScrips(c) BY <1>1, <1>3, TakeScripsKeeps
<1>4. CASE Drop(c)
  <2>1. UNCHANGED <<session, lists, quotes>> /\ Ends(c) BY <1>4 DEF Drop
  <2>2. SpacedInv' /\ SpacedStep BY <1>1, <2>1, EndsKeep
  <2>3. Stale \in Nat BY TimesAssumption DEF Stale
  <2>4. UNCHANGED status \/ \E mode \in {"degraded", "mock"} : Finds(mode, Stale)
    BY <1>4 DEF Drop
  <2>5. StatusOK(status')
    BY <2>3, <2>4 DEF Finds, StatusOK, IndStocksInv, AgesInv
  <2> QED BY <2>1, <2>2, <2>5 DEF IndStocksInv, AgesInv
<1> QED BY <1>2, <1>3, <1>4 DEF Fails

-----------------------------------------------------------------------------
(* The world. *)

\* An hour of nothing but time: what waits waits less and has sent longer ago,
\* and no request in the air passes Timeout, as it ends first.
LEMMA TickKeeps ==
    ASSUME IndStocksInv, Tick
    PROVE  IndStocksInv' /\ SpacedStep
<1> USE DEF IndStocksInv
<1>1. /\ Gap \in Nat /\ Timeout \in Nat /\ QuoteTTL \in Nat /\ StatusTTL \in Nat
      /\ Stale \in Nat
  BY TimesAssumption DEF Stale
<1>2. \A d \in Callers : Process(d)' = Process(d)
  BY DEF Tick, setting, Process
<1>3. /\ at' = [d \in Callers |-> Later(at[d])]
      /\ lastReq' = [p \in Processes |-> Older(lastReq[p], Gap)]
      /\ sentAge' = [d \in Callers |-> Older(sentAge[d], Gap)]
  BY DEF Tick
<1>4. \A n \in 0..Gap : Older(n, Gap) \in 0..Gap BY <1>1 DEF Older
<1>5. sentAge' \in [Callers -> 0..Gap] /\ lastReq' \in [Processes -> 0..Gap]
  BY <1>3, <1>4 DEF SpacedInv, ClientsTyped
<1>6. ASSUME NEW d \in Callers
      PROVE  /\ CallOK(at'[d], sentAge'[d], lastReq'[Process(d)])
             /\ at'[d].phase = at[d].phase
  <2> DEFINE o == at[d]  since == sentAge[d]  last == lastReq[Process(d)]
  <2>1. CallOK(o, since, last) BY DEF SpacedInv
  <2>2. o \in Call /\ o.t \in Nat BY <2>1 DEF CallOK, Call
  <2>3. /\ at'[d] = Later(o) /\ sentAge'[d] = Older(since, Gap)
        /\ lastReq'[Process(d)] = Older(last, Gap)
    BY <1>3, ProcessType
  <2>4. ~Waits(d) /\ ~Late(d) BY DEF Tick
  <2>5. since \in 0..Gap /\ last \in 0..Gap /\ last <= since BY <2>1 DEF CallOK
  <2>6. /\ Older(since, Gap) \in 0..Gap /\ Older(last, Gap) \in 0..Gap
        /\ Older(last, Gap) <= Older(since, Gap)
    BY <1>1, <2>5 DEF Older
  <2>7. CASE o.phase = "idle"
    <3>1. Later(o) = o BY <2>7 DEF Later
    <3> HIDE DEF o, since, last
    <3> QED BY <2>2, <2>3, <2>6, <2>7, <3>1 DEF CallOK, o
  <2>8. CASE o.phase = "wait"
    <3>1. Later(o) = [o EXCEPT !.t = o.t - 1] BY <2>8 DEF Later
    <3>2. o.t - 1 \in Nat BY <2>2, <2>4, <2>8 DEF Waits
    <3>3. since + o.t >= Gap BY <2>1, <2>8 DEF CallOK
    <3> HIDE DEF o, since, last
    <3>4. Later(o) \in Call /\ Later(o).phase = "wait" /\ Later(o).t = o.t - 1
      BY <2>2, <2>8, <3>1, <3>2 DEF Call
    <3>5. Older(since, Gap) + (o.t - 1) >= Gap
      BY <1>1, <2>2, <2>5, <3>2, <3>3 DEF Older
    <3> QED BY <2>3, <2>6, <2>8, <3>4, <3>5 DEF CallOK, o
  <2>9. CASE o.phase \notin {"idle", "wait"}
    <3>1. Later(o) = [o EXCEPT !.t = o.t + 1] BY <2>9 DEF Later
    <3>2. o.phase \in {"mint", "flight", "again"} => o.t # Timeout /\ o.t <= Timeout
      BY <2>1, <2>4 DEF Late, CallOK
    <3> HIDE DEF o, since, last
    <3>3. Later(o) \in Call /\ Later(o).phase = o.phase /\ Later(o).t = o.t + 1
      BY <2>2, <3>1 DEF Call
    <3>4. o.phase \in {"mint", "flight", "again"} => o.t + 1 <= Timeout
      BY <1>1, <2>2, <3>2
    <3> QED BY <2>3, <2>6, <2>9, <3>3, <3>4 DEF CallOK, o
  <2> QED BY <2>7, <2>8, <2>9
<1>7. at' \in [Callers -> Call] BY <1>3, <1>6 DEF CallOK
<1>8. \A d \in Callers : CallOK(at[d], sentAge[d], lastReq[Process(d)])'
  BY <1>2, <1>6
<1>9. ListsTyped' /\ world' \in [Callers -> Ops]
  BY DEF Tick, setting, lists, SpacedInv, ListsTyped, ClientsTyped
<1>10. SpacedInv' BY <1>5, <1>7, <1>8, <1>9 DEF SpacedInv, ClientsTyped
<1>11. SpacedStep BY <1>6 DEF SpacedStep
<1>12. QuotesOK(quotes')
  <2>1. QuotesOK(quotes) BY DEF AgesInv
  <2>2. CASE quotes.age < QuoteTTL
    <3>1. quotes' = [quotes EXCEPT !.age = quotes.age + 1, !.data = Older(quotes.data, Stale)]
      BY <2>2 DEF Tick
    <3>2. Older(quotes.data, Stale) \in Nat /\ Older(quotes.data, Stale) <= quotes.age + 1 + Timeout
      BY <1>1, <2>1 DEF QuotesOK, Older
    <3>3. quotes' \in [names : SUBSET Names, age : Nat, data : Nat]
      <4>1. quotes \in [names : SUBSET Names, age : Nat, data : Nat] BY <2>1 DEF QuotesOK
      <4>2. quotes.age + 1 \in Nat BY <4>1
      <4> DEFINE d == Older(quotes.data, Stale)
      <4>3. d \in Nat BY <3>2
      <4> HIDE DEF d
      <4>4. quotes' = [quotes EXCEPT !.age = quotes.age + 1, !.data = d] BY <3>1 DEF d
      <4> QED BY <4>1, <4>2, <4>3, <4>4
    <3>4. quotes'.data = Older(quotes.data, Stale) /\ quotes'.age = quotes.age + 1
      BY <2>1, <3>1 DEF QuotesOK
    <3> QED BY <3>2, <3>3, <3>4 DEF QuotesOK
  <2>3. CASE ~(quotes.age < QuoteTTL) BY <2>1, <2>3 DEF Tick
  <2> QED BY <2>2, <2>3
<1>13. StatusOK(status')
  <2>1. StatusOK(status) BY DEF AgesInv
  <2>2. CASE status.age < StatusTTL
    <3>1. status' = [status EXCEPT !.age = status.age + 1, !.proof = Older(status.proof, Stale)]
      BY <2>2 DEF Tick
    <3>2. Older(status.proof, Stale) \in Nat
          /\ (status.mode = "live" => Older(status.proof, Stale) <= status.age + 1 + Timeout)
      BY <1>1, <2>1 DEF StatusOK, Older
    <3>3. status' \in [mode : {"live", "mock", "degraded", None}, age : Nat, proof : Nat]
      <4>1. status \in [mode : {"live", "mock", "degraded", None}, age : Nat, proof : Nat]
        BY <2>1 DEF StatusOK
      <4>2. status.age + 1 \in Nat BY <4>1
      <4> DEFINE d == Older(status.proof, Stale)
      <4>3. d \in Nat BY <3>2
      <4> HIDE DEF d
      <4>4. status' = [status EXCEPT !.age = status.age + 1, !.proof = d] BY <3>1 DEF d
      <4> QED BY <4>1, <4>2, <4>3, <4>4
    <3>4. /\ status'.proof = Older(status.proof, Stale) /\ status'.age = status.age + 1
          /\ status'.mode = status.mode
      BY <2>1, <3>1 DEF StatusOK
    <3> QED BY <3>2, <3>3, <3>4 DEF StatusOK
  <2>3. CASE ~(status.age < StatusTTL) BY <2>1, <2>3 DEF Tick
  <2> QED BY <2>2, <2>3
<1> QED BY <1>10, <1>11, <1>12, <1>13 DEF AgesInv

LEMMA WorldKeeps ==
    ASSUME IndStocksInv,
           \/ \E p \in Processes : ListRunsOut(p) \/ TokenAges(p)
           \/ \E s \in Listed : BarsRunOut(s)
           \/ Breaks \/ Repairs \/ RunsOut
           \/ UNCHANGED vars
    PROVE  IndStocksInv' /\ SpacedStep
<1>1. UNCHANGED <<world, lastReq, sentAge, at, scrips, csv, quotes, status>>
  BY DEF ListRunsOut, TokenAges, BarsRunOut, Breaks, Repairs, RunsOut, vars,
         setting, session, lists, caches
<1> QED BY <1>1, KeepsSpaced DEF IndStocksInv, AgesInv

LEMMA StepKeeps ==
    ASSUME IndStocksInv, [Next]_vars
    PROVE  IndStocksInv' /\ SpacedStep
BY OperationKeeps, MintedKeeps, SendKeeps, PauseKeeps, ServedKeeps, FailsKeeps,
   TickKeeps, WorldKeeps DEF Next

LEMMA InitKeeps == Init => IndStocksInv
<1> SUFFICES ASSUME Init PROVE IndStocksInv OBVIOUS
<1>1. Gap \in Nat /\ Timeout \in Nat /\ QuoteTTL \in Nat /\ StatusTTL \in Nat
  BY TimesAssumption
<1>2. Idle \in Call BY DEF Idle, Call, Phases, Paths
<1>3. ClientsTyped
  BY <1>1, <1>2, WorldsAssumption DEF Init, ClientsTyped
<1>4. ListsTyped BY NamesAssumption DEF Init, ListsTyped
<1>5. ASSUME NEW c \in Callers PROVE CallOK(at[c], sentAge[c], lastReq[Process(c)])
  <2>1. at[c] = Idle /\ sentAge[c] = Gap /\ lastReq[Process(c)] = Gap
    BY DEF Init, Process, Processes
  <2> QED BY <1>1, <1>2, <2>1 DEF CallOK, Idle
<1>6. QuotesOK(quotes) BY <1>1 DEF Init, NoQuotes, QuotesOK
<1>7. StatusOK(status) BY <1>1 DEF Init, NoStatus, StatusOK
<1> QED BY <1>3, <1>4, <1>5, <1>6, <1>7 DEF IndStocksInv, SpacedInv, AgesInv

LEMMA IndStocksInvariant == Spec => []IndStocksInv
<1>1. IndStocksInv /\ [Next]_vars => IndStocksInv' BY StepKeeps
<1> QED BY <1>1, InitKeeps, PTL DEF Spec

\* A mark that is the venue's was the venue's not longer ago than an entry of
\* the cache lives and the request for it may take (client.go Quotes).
THEOREM QuotesAlwaysRecent == Spec => []QuotesAreRecent
<1>1. IndStocksInv => QuotesAreRecent
  <2>1. QuoteTTL \in Nat /\ Timeout \in Nat BY TimesAssumption
  <2> QED BY <2>1 DEF IndStocksInv, AgesInv, QuotesOK, QuotesAreRecent, QuotesHit
<1> QED BY <1>1, IndStocksInvariant, PTL

\* "live" on the health page rests on a call that the venue answered not longer
\* ago than a finding lives and the call may take (client.go Snapshot).
THEOREM LiveAlwaysRecent == Spec => []LiveIsRecent
<1>1. IndStocksInv => LiveIsRecent
  <2>1. StatusTTL \in Nat /\ Timeout \in Nat BY TimesAssumption
  <2> QED BY <2>1 DEF IndStocksInv, AgesInv, StatusOK, LiveIsRecent, StatusHit
<1> QED BY <1>1, IndStocksInvariant, PTL

\* Two requests of one caller, a retry aside, are Gap apart, whatever other
\* callers of the client do in between (client.go throttle).
THEOREM CallersAlwaysSpaced == Spec => CallersSpaced
<1>1. IndStocksInv /\ [Next]_vars => [SpacedStep]_vars BY StepKeeps
<1>2. Spec => [][SpacedStep]_vars BY <1>1, IndStocksInvariant, PTL DEF Spec
<1>3. CallersSpaced <=> [][SpacedStep]_vars BY PTL DEF CallersSpaced, SpacedStep
<1> QED BY <1>2, <1>3, PTL
=============================================================================
