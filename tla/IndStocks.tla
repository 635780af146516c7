------------------------------ MODULE IndStocks ------------------------------
(***************************************************************************)
(* pkg/indstocks, the broker client of a process: its token, its request   *)
(* spacing, and its caches of instruments, quotes and bars, used by        *)
(* several callers at once; internal/marketdata, which turns its answers   *)
(* into marks; and the health page of the gateway, with a client of its    *)
(* own.  Times are ages that stop at the limit the code compares them      *)
(* with.  What runs without waiting for the venue takes no time.           *)
(***************************************************************************)
EXTENDS Integers, FiniteSets

CONSTANTS
    Callers,
    Worlds,         \* what each of them goes on asking for, in one of Ops
    Environments,   \* what the environment may hold of {"token", "totp"}
    Names,
    Listed,         \* the names that are not benchmarks
    Lists,          \* the names an instruments file may hold
    Counts,         \* numbers of bars that are asked for
    Chunk,          \* names in one request for bars
    None,
    Gap, Pause, Timeout, QuoteTTL, StatusTTL

Ops       == {"quotes", "bars", "status", "nothing"}
Processes == {"marketdata", "gateway"}

ASSUME NamesAssumption == Listed \subseteq Names /\ Lists \subseteq SUBSET Listed
ASSUME WorldsAssumption ==
    /\ Worlds \subseteq [Callers -> Ops]
    /\ Environments \subseteq SUBSET {"token", "totp"}
ASSUME TimesAssumption ==
    {Gap, Pause, Timeout, QuoteTTL, StatusTTL, Chunk} \subseteq Nat \ {0}

VARIABLES
    venue,     \* "ok", or "patchy": slow to answer, wrong or silent
    world,     \* what the callers ask for
    creds,     \* what the environment holds of {"token", "totp"}
    dead,      \* the token of the environment is no longer accepted
    \* a client of each process: its token, how long ago it sent, its instruments
    token, lastReq, scrips, loaded,
    \* the caches of the market data client
    quotes, bars,
    csv,       \* the instruments file in the cache directory
    \* the callers; the answers of GetQuotes and Snapshot; Snapshot's cache
    at, marks, status, page,
    sentAge    \* history: since a caller last sent what is not a retry

setting == <<venue, world, creds, dead>>
session == <<token, lastReq, sentAge>>
lists   == <<scrips, loaded, csv>>
caches  == <<quotes, bars, status>>
answers == <<marks, page>>
vars == <<setting, session, lists, caches, answers, at>>

Enabled == creds # {}
Process(c) == IF world[c] = "status" THEN "gateway" ELSE "marketdata"
Older(age, limit) == IF age < limit THEN age + 1 ELSE age

\* How old what an answer holds can become: the request may have taken Timeout.
Stale == QuoteTTL + StatusTTL + Timeout

Idle     == [path |-> None, phase |-> "idle", t |-> 0,
             list |-> {}, name |-> None, count |-> 0, missing |-> {}]
NoQuotes == [names |-> {}, age |-> QuoteTTL, data |-> 0]
NoBars   == [n |-> 0, fresh |-> FALSE]
NoStatus == [mode |-> None, age |-> StatusTTL, proof |-> 0]

Init ==
    /\ venue = "patchy" /\ world \in Worlds /\ dead = FALSE
    /\ creds \in Environments
    /\ token = [p \in Processes |-> IF "token" \in creds THEN "pasted" ELSE None]
    /\ lastReq = [p \in Processes |-> Gap]
    /\ scrips = [p \in Processes |-> {}] /\ loaded = [p \in Processes |-> FALSE]
    /\ quotes = NoQuotes /\ bars = [s \in Listed |-> NoBars]
    /\ csv \in Lists \cup {{}}
    /\ at = [c \in Callers |-> Idle]
    /\ marks = {} /\ status = NoStatus /\ page = None
    /\ sentAge = [c \in Callers |-> Gap]

-----------------------------------------------------------------------------
(* One request: the token, the wait, the flight and at most one retry.     *)

\* A minted token is renewed when it is old.  A pasted one has no time of its
\* own and is never renewed.  The mutant renews none.
NeedTokenOnce(p) == token[p] = None
NeedToken(p) == token[p] \in {None, "old", "expired"}

\* The wait is read off lastReq now, and lastReq is written when it is over.
Throttle(p, o) == [o EXCEPT !.phase = "wait", !.t = Gap - lastReq[p]]

Get(p, o, path) ==
    IF NeedToken(p) THEN [o EXCEPT !.path = path, !.phase = "mint", !.t = 0]
    ELSE Throttle(p, [o EXCEPT !.path = path])

Accepted(p) == token[p] \in {"minted", "old"} \cup (IF dead THEN {} ELSE {"pasted"})

Minted(c) ==
    /\ at[c].phase = "mint"
    /\ token' = [token EXCEPT ![Process(c)] = "minted"]
    /\ at' = [at EXCEPT ![c] = Throttle(Process(c), at[c])]
    /\ UNCHANGED <<setting, lastReq, sentAge, lists, caches, answers>>

\* The mutant leaves the time alone when there was nothing to wait for.
SentAtOnce(c) ==
    lastReq' = IF lastReq[Process(c)] = Gap THEN lastReq
               ELSE [lastReq EXCEPT ![Process(c)] = 0]
Sent(c) == lastReq' = [lastReq EXCEPT ![Process(c)] = 0]

Send(c) ==
    /\ at[c].phase = "wait" /\ at[c].t = 0
    /\ Sent(c)
    /\ sentAge' = [sentAge EXCEPT ![c] = 0]
    /\ at' = [at EXCEPT ![c].phase = "flight"]
    /\ UNCHANGED <<setting, token, lists, caches, answers>>

\* Status 429: one retry after a pause, which takes no part in the spacing.
Busy(c) ==
    /\ at[c].phase = "flight"
    /\ at' = [at EXCEPT ![c].phase = "pause", ![c].t = 0]
    /\ UNCHANGED <<setting, session, lists, caches, answers>>

Retry(c) ==
    /\ at[c].phase = "pause" /\ at[c].t = Pause
    /\ at' = [at EXCEPT ![c].phase = "again", ![c].t = 0]
    /\ UNCHANGED <<setting, session, lists, caches, answers>>

-----------------------------------------------------------------------------
(* The operations, from the instruments on.                                *)

Loaded(p) == scrips[p] # {} /\ loaded[p]

\* A cached set of quotes answers whatever was asked for when it was fetched.
QuotesHit == quotes.age < QuoteTTL /\ quotes.names # {}
BarsHit(s) == bars[s].n > 0 /\ bars[s].fresh

Goes(c, o) == at' = [at EXCEPT ![c] = o]
Ends(c)    == Goes(c, Idle)

\* GetQuotes marks a name at the venue's price if it has one, else at the mock.
\* The mutant keeps an entry for as long as it is asked for.
HitKeeps == marks' = quotes.names /\ quotes' = [quotes EXCEPT !.age = 0]
Hit == marks' = quotes.names /\ UNCHANGED quotes

\* An operation that has its instruments.
QuotesReady(c, o, have) ==
    /\ \/ QuotesHit /\ Ends(c) /\ Hit
       \/ ~QuotesHit /\ have = {} /\ Ends(c) /\ marks' = {} /\ UNCHANGED quotes
       \/ ~QuotesHit /\ have # {} /\ Goes(c, Get(Process(c), o, "quotes")) /\ UNCHANGED <<marks, quotes>>
    /\ UNCHANGED <<page, bars, status>>

\* The names whose bars are asked for together with those of one name.
Missing(have) == {s \in have : ~BarsHit(s)}
BarsReady(c, o, have) ==
    /\ IF o.name \in Listed /\ ~BarsHit(o.name) /\ Missing(have) # {}
       THEN Goes(c, Get(Process(c), [o EXCEPT !.missing = Missing(have)], "bars"))
       ELSE Ends(c)
    /\ UNCHANGED <<answers, caches>>

Ready(c, o, have) ==
    CASE world[c] = "quotes" -> QuotesReady(c, o, have)
      [] world[c] = "bars"   -> BarsReady(c, o, have)
      [] OTHER           -> /\ Goes(c, Get(Process(c), o, "profile"))
                            /\ UNCHANGED <<answers, caches>>

\* EnsureScrips, on the way into an operation.
EnsureScrips(c, o) ==
    IF Loaded(Process(c)) THEN Ready(c, o, scrips[Process(c)])
    ELSE Goes(c, Get(Process(c), o, "equity")) /\ UNCHANGED <<answers, caches>>

GetQuotes(c) ==
    /\ at[c] = Idle /\ world[c] = "quotes"
    /\ IF Enabled THEN EnsureScrips(c, Idle)
       ELSE marks' = {} /\ UNCHANGED <<at, caches, page>>
    /\ UNCHANGED <<setting, session, lists>>

GetBars(c) ==
    /\ at[c] = Idle /\ world[c] = "bars" /\ Enabled
    /\ \E s \in Names, n \in Counts :
          EnsureScrips(c, [Idle EXCEPT !.name = s, !.count = n])
    /\ UNCHANGED <<setting, session, lists>>

\* Snapshot shows what it found less than StatusTTL ago.  The mutant then takes
\* that for a new finding.
StatusHit == status.age < StatusTTL /\ status.mode # None
ShownAnew == page' = status.mode /\ status' = [status EXCEPT !.age = 0]
Shown == page' = status.mode /\ UNCHANGED status
Finds(mode, proof) ==
    /\ status' = [mode |-> mode, age |-> 0, proof |-> proof]
    /\ page' = mode

Snapshot(c) ==
    /\ at[c] = Idle /\ world[c] = "status"
    /\ \/ StatusHit /\ Shown /\ UNCHANGED <<at, quotes, bars, marks>>
       \/ ~StatusHit /\ ~Enabled /\ Finds("mock", Stale) /\ UNCHANGED <<at, quotes, bars, marks>>
       \/ ~StatusHit /\ Enabled /\ EnsureScrips(c, Idle)
    /\ UNCHANGED <<setting, session, lists>>

-----------------------------------------------------------------------------
(* The venue answers.                                                      *)

\* The instruments, the quotes: newest to arrive wins, whatever was sent first.
EquityServed(c) ==
    /\ at[c].path = "equity"
    /\ \E l \in Lists :
          /\ csv' = l
          /\ Goes(c, Get(Process(c), [at[c] EXCEPT !.list = l], "index"))
    /\ UNCHANGED <<session, scrips, loaded, caches, answers>>

TakeScrips(c) ==
    /\ scrips' = [scrips EXCEPT ![Process(c)] = at[c].list]
    /\ loaded' = [loaded EXCEPT ![Process(c)] = TRUE]
    /\ Ready(c, at[c], at[c].list)
    /\ UNCHANGED <<session, csv>>

\* How long ago the venue made the answer.
Made(c) == 0..at[c].t

Partial == IF venue = "ok" THEN {scrips["marketdata"]} ELSE SUBSET scrips["marketdata"]

QuotesServed(c) ==
    /\ at[c].path = "quotes"
    /\ \E got \in Partial, d \in Made(c) :
          /\ quotes' = [names |-> got, age |-> 0, data |-> d]
          /\ marks' = got
    /\ Ends(c)
    /\ UNCHANGED <<session, lists, bars, status, page>>

\* Chunk names at a time, the asked one first; what an earlier request brought
\* stays when a later one fails.
NextChunk(o) ==
    LET size == IF Cardinality(o.missing) < Chunk THEN Cardinality(o.missing) ELSE Chunk
    IN  {s \in SUBSET o.missing : /\ Cardinality(s) = size
                                  /\ o.name \in o.missing => o.name \in s}

BarsServed(c) ==
    /\ at[c].path = "bars"
    /\ \E chunk \in NextChunk(at[c]) : \E got \in IF venue = "ok" THEN {chunk} ELSE SUBSET chunk :
          /\ bars' = [s \in Listed |->
                         IF s \in got THEN [n |-> at[c].count, fresh |-> TRUE] ELSE bars[s]]
          /\ LET rest == at[c].missing \ chunk
             IN  IF rest = {} THEN Ends(c)
                 ELSE Goes(c, Get(Process(c), [at[c] EXCEPT !.missing = rest], "bars"))
    /\ UNCHANGED <<session, lists, quotes, status, answers>>

ProfileServed(c) ==
    /\ at[c].path = "profile"
    /\ \E d \in Made(c) : Finds("live", d)
    /\ Ends(c)
    /\ UNCHANGED <<session, lists, quotes, bars, marks>>

Served(c) ==
    /\ at[c].phase \in {"flight", "again"} /\ Accepted(Process(c))
    /\ \/ EquityServed(c)
       \/ at[c].path = "index" /\ TakeScrips(c)
       \/ QuotesServed(c) \/ BarsServed(c) \/ ProfileServed(c)
    /\ UNCHANGED setting

\* An older file stands in for the instruments.
FileServed(c) ==
    /\ at[c].path = "equity" /\ csv # {}
    /\ Goes(c, Get(Process(c), [at[c] EXCEPT !.list = csv], "index"))
    /\ UNCHANGED <<session, lists, caches, answers>>

\* An error, a timeout, a call given up: the indices are done without, the
\* operation fails.
Drop(c) ==
    /\ Ends(c)
    /\ CASE world[c] = "quotes" -> marks' = {} /\ UNCHANGED <<page, status>>
         [] world[c] = "bars"   -> UNCHANGED <<answers, status>>
         [] OTHER -> /\ Finds(IF at[c].path = "profile" THEN "degraded" ELSE "mock", Stale)
                     /\ UNCHANGED marks
    /\ UNCHANGED <<session, lists, quotes, bars>>

Fails(c) ==
    /\ at[c].phase # "idle"
    /\ \/ venue = "patchy"
       \/ at[c].phase \in {"flight", "again"} /\ ~Accepted(Process(c))
    /\ \/ FileServed(c)
       \/ at[c].path = "equity" /\ csv = {} /\ Drop(c)
       \/ at[c].path = "index" /\ TakeScrips(c)
       \/ at[c].path \notin {"equity", "index"} /\ Drop(c)
    /\ UNCHANGED setting

-----------------------------------------------------------------------------
(* The world. *)

Waits(c) == at[c].phase = "wait" /\ at[c].t = 0
Late(c)  == at[c].phase \in {"mint", "flight", "again"} /\ at[c].t = Timeout
Due(c)   == at[c].phase = "pause" /\ at[c].t = Pause
Later(o) ==
    CASE o.phase = "idle" -> o
      [] o.phase = "wait" -> [o EXCEPT !.t = o.t - 1]
      [] OTHER -> [o EXCEPT !.t = o.t + 1]

Tick ==
    /\ \A c \in Callers : ~Waits(c) /\ ~Late(c) /\ ~Due(c)
    /\ at' = [c \in Callers |-> Later(at[c])]
    /\ lastReq' = [p \in Processes |-> Older(lastReq[p], Gap)]
    /\ sentAge' = [c \in Callers |-> Older(sentAge[c], Gap)]
    /\ quotes' = IF quotes.age < QuoteTTL
                 THEN [quotes EXCEPT !.age = quotes.age + 1, !.data = Older(quotes.data, Stale)]
                 ELSE quotes
    /\ status' = IF status.age < StatusTTL
                 THEN [status EXCEPT !.age = status.age + 1, !.proof = Older(status.proof, Stale)]
                 ELSE status
    /\ UNCHANGED <<setting, token, lists, bars, answers>>

Breaks  == venue = "ok" /\ venue' = "patchy"
           /\ UNCHANGED <<world, creds, dead, session, lists, caches, answers, at>>
Repairs == venue = "patchy" /\ venue' = "ok"
           /\ UNCHANGED <<world, creds, dead, session, lists, caches, answers, at>>
\* What lives for minutes or hours runs out at some time: the instruments, the
\* bars of a name, and a minted token, which the client calls old hours before
\* the venue does, longer than a request takes.
ListRunsOut(p) ==
    /\ loaded[p] /\ loaded' = [loaded EXCEPT ![p] = FALSE]
    /\ UNCHANGED <<setting, session, scrips, csv, caches, answers, at>>
BarsRunOut(s) ==
    /\ bars[s].fresh /\ bars' = [bars EXCEPT ![s].fresh = FALSE]
    /\ UNCHANGED <<setting, session, lists, quotes, status, answers, at>>
TokenAges(p) ==
    /\ \/ token[p] = "minted" /\ token' = [token EXCEPT ![p] = "old"]
       \/ /\ token[p] = "old" /\ token' = [token EXCEPT ![p] = "expired"]
          /\ \A c \in Callers : Process(c) = p => at[c].phase \in {"idle", "mint"}
    /\ UNCHANGED <<setting, lastReq, sentAge, lists, caches, answers, at>>

\* A pasted token runs out at a time only the venue knows.
RunsOut == ~dead /\ "token" \in creds /\ dead' = TRUE
           /\ UNCHANGED <<venue, world, creds, session, lists, caches, answers, at>>

Next ==
    \/ \E c \in Callers :
          \/ GetQuotes(c) \/ GetBars(c) \/ Snapshot(c)
          \/ Minted(c) \/ Send(c) \/ Busy(c) \/ Retry(c) \/ Served(c) \/ Fails(c)
    \/ \E p \in Processes : ListRunsOut(p) \/ TokenAges(p)
    \/ \E s \in Listed : BarsRunOut(s)
    \/ Tick \/ Breaks \/ Repairs \/ RunsOut

Spec == Init /\ [][Next]_vars

\* The trading service and the health page go on asking, a call is taken up, and
\* a request ends when the client's time is over at the latest.
Acts(c) ==
    GetQuotes(c) \/ Snapshot(c) \/ Send(c) \/ Retry(c) \/ Minted(c) \/ Served(c) \/ Fails(c)
FairSpec == Spec /\ WF_vars(Tick) /\ \A c \in Callers : WF_vars(Acts(c))

-----------------------------------------------------------------------------
(* Properties. *)

\* A mark that is the venue's was the venue's not longer ago than an entry of
\* the cache lives and the request for it may take, however often the entry is
\* asked for and in whatever order answers arrive (client.go Quotes).
QuotesAreRecent == QuotesHit => quotes.data < QuoteTTL + Timeout

\* "live" on the health page rests on a call that the venue answered not longer
\* ago than a finding lives and the call may take (client.go Snapshot).
LiveIsRecent ==
    StatusHit /\ status.mode = "live" => status.proof < StatusTTL + Timeout

\* Two requests of one caller, a retry aside, are Gap apart, whatever other
\* callers of the client do in between (client.go throttle).
CallersSpaced ==
    [][\A c \in Callers :
          at[c].phase = "wait" /\ at'[c].phase = "flight" => sentAge[c] = Gap]_vars

\* If the venue answers from some time on, and goes on accepting a pasted token,
\* every listed name is marked at its price from some time on, and the health
\* page says "live" for good: a minted token is renewed in time, and no failure
\* is kept (client.go ensureToken, Quotes, Snapshot).
Asked(op) == \E c \in Callers : world[c] = op
Serving == venue = "ok" /\ ~dead
VenueIsSeen ==
    Enabled /\ <>[]Serving =>
        /\ Asked("quotes") => <>[](marks = Listed)
        /\ Asked("status") => <>[](page = "live")

\* README.md:16: prices of the mock are never shown as live.
NeverMockAsLive == page = "live" /\ QuotesHit => marks = Names

=============================================================================
