------------------------------ MODULE Research ------------------------------
(***************************************************************************)
(* The LLM desk: the sentiment service that gathers news and investigates  *)
(* it one story at a time over the receipts of pkg/research and the day's  *)
(* budget file of pkg/llm, the advisor whose chat shares that file from    *)
(* another process, and the trading tick that takes its tilt from the      *)
(* reports.                                                                *)
(*                                                                         *)
(* An article is its title; an item is an article with the time it is      *)
(* published.  Articles about one name, or one about none, are a cluster.  *)
(* Materiality is a matter of the text and the hour: any clusters may have *)
(* it.  A budget file is read, changed and written back under a lock of    *)
(* its process only.  INVESTIGATION_LLM is on and every provider enabled.  *)
(***************************************************************************)
EXTENDS Naturals, FiniteSets, Sequences

CONSTANTS
    Articles, Mocks,      \* titles of the feeds, and of mockNews
    Pub,                  \* when each article of the feeds is published
    About, Names,         \* what each title is about: a name, or another word
    Providers,            \* the chain's providers, in order
    None,
    MaxCalls, MaxTokens,  \* INVESTIGATION_LLM_MAX, INVESTIGATION_TOKENS_DAY
    Costs,                \* tokens a completion may cost
    MaxWorkers,           \* stories one refresh investigates
    DayLen,               \* hours of the model's day; a refresh is good for one
    MaxTime,              \* bound: the last hour
    Allowances            \* bounds: faults and chats a behaviour may have

Titles == Articles \cup Mocks
Times == 0 .. MaxTime
ISTDay(t) == t \div DayLen
Days == {ISTDay(t) : t \in Times}
Models == {Providers[i] : i \in DOMAIN Providers}

Items == [a : Titles, t : Times]
Receipts == [llm : BOOLEAN, read : SUBSET Items]

ASSUME NoneAssumption  == None \notin Models /\ None \notin Titles /\ None \notin Receipts
ASSUME ChainAssumption == Providers \in Seq(Models) /\ Providers # <<>>
ASSUME FeedAssumption  == /\ Pub \in [Articles -> Times] /\ Mocks # {}
                          /\ Mocks \cap Articles = {}
                          /\ DOMAIN About = Titles
ASSUME LimitAssumption == /\ {MaxCalls, MaxTokens, MaxTime} \subseteq Nat
                          /\ Allowances \subseteq [faults : Nat, chats : Nat]
                          /\ {MaxWorkers, DayLen} \cup Costs \subseteq Nat \ {0}

VARIABLES
    now,                  \* every process's clock
    tick,                 \* the tick's GetInvestigations
    refresh,              \* who runs a refresh
    queue, made,          \* of the refresh: clusters left, reports so far
    job,                  \* the story at the desk
    chain,                \* each process's completion under way
    reports, fresh,       \* the service's last reports; are they RefreshEvery old
    receipts, unsaved,    \* the desk's memo and files; those only in the memo
    budget,               \* the budget file of each day
    allow,                \* faults (writes that fail, deaths), chats still to come
    asked,                \* history: keys put to a model and not lost since
    own, all,             \* history: completions of each day's news, of each day
    answered,             \* history: models whose answers a day used
    missed, loose         \* history: days a charge, a pin was lost

vars == <<now, tick, refresh, queue, made, job, chain, reports, fresh, receipts,
          unsaved, budget, allow, asked, own, all, answered, missed, loose>>

Askers == {"sentiment", "advisor"}

NoFile == [calls |-> 0, tokens |-> 0, pin |-> None]
NoAsk == [at |-> "idle", pinned |-> FALSE, left |-> <<>>, by |-> None,
          day |-> 0, file |-> NoFile, on |-> 0]
NoJob == [items |-> {}, head |-> None, checked |-> 0]
Nothing == [calls |-> 0, tokens |-> 0]

Init ==
    /\ now = 0
    /\ tick = "idle" /\ refresh = None
    /\ queue = {} /\ made = {} /\ job = NoJob
    /\ chain = [q \in Askers |-> NoAsk]
    /\ reports = {} /\ fresh = FALSE
    /\ receipts = [k \in Days \X Titles |-> None] /\ unsaved = {}
    /\ budget = [d \in Days |-> NoFile]
    /\ allow \in Allowances
    /\ asked = {} /\ own = [d \in Days |-> Nothing] /\ all = own
    /\ answered = [d \in Days |-> {}] /\ missed = {} /\ loose = {}

History == <<asked, own, all, answered, missed, loose>>
Service == <<tick, refresh, queue, made, job, reports, fresh>>
Files == <<receipts, unsaved, budget>>

LoseOne == allow.faults > 0 /\ allow' = [allow EXCEPT !.faults = @ - 1]

Later ==
    /\ now < MaxTime
    /\ now' = now + 1 /\ fresh' = FALSE
    /\ UNCHANGED <<tick, refresh, queue, made, job, chain, reports, Files, allow, History>>

-----------------------------------------------------------------------------
(* Refresh of the sentiment service, one at a time under its mutex. *)

\* The tick's read refreshes news that is not fresh; the service's loop and a
\* campaign's start (ListNews of a negative limit) do whatever its age.
GetInvestigations ==
    /\ tick = "idle"
    /\ tick' = IF fresh THEN "reads" ELSE "queued"
    /\ UNCHANGED <<now, refresh, queue, made, job, chain, reports, fresh, Files, allow, History>>

\* With the mutex, it looks at the freshness again.
FoundFresh ==
    /\ tick = "queued" /\ refresh = None /\ fresh
    /\ tick' = "reads"
    /\ UNCHANGED <<now, refresh, queue, made, job, chain, reports, fresh, Files, allow, History>>

\* The feeds send some of their articles, a feed without a key or in error
\* none.  Of those, what is published later (a clock ahead of ours, an
\* unreadable date) is not known yet; with nothing known, it is mock news of
\* this hour.  The mutant trusts the feeds.
Fetch == SUBSET {[a |-> a, t |-> Pub[a]] : a \in Articles}
KnownAll(sent) == sent
Known(sent) == {i \in sent : i.t <= now}
MockNews == {[a |-> a, t |-> now] : a \in Mocks}
Gathered(sent) == IF Known(sent) = {} THEN MockNews ELSE Known(sent)

ClusterNews(items) == {{i \in items : About[i.a] = s} : s \in {About[i.a] : i \in items}}

\* At most MaxWorkers of the clusters.
Queues(clusters) == {q \in SUBSET clusters : Cardinality(q) <= MaxWorkers}

Refresh(by) ==
    /\ refresh = None /\ (by = "tick" => tick = "queued" /\ ~fresh)
    /\ refresh' = by
    /\ \E sent \in Fetch : queue' \in Queues(ClusterNews(Gathered(sent)))
    /\ UNCHANGED <<now, tick, made, job, chain, reports, fresh, Files, allow, History>>

RefreshEnds ==
    /\ refresh # None /\ queue = {} /\ job = NoJob
    /\ reports' = made /\ fresh' = (made # {}) /\ made' = {}
    /\ refresh' = None
    /\ tick' = IF refresh = "tick" THEN "reads" ELSE tick
    /\ UNCHANGED <<now, queue, job, chain, Files, allow, History>>

-----------------------------------------------------------------------------
(* One story at the desk: the receipt of its key, the cap, the completion. *)

\* A story is as old as its latest article; its key has the title that
\* arrived first.
AsOf(items) == CHOOSE t \in {i.t : i \in items} : \A i \in items : i.t <= t
Day(j) == ISTDay(AsOf(j.items))
CacheKey(j) == <<Day(j), j.head>>

Report(j, rec) == [items |-> j.items, read |-> rec.read, llm |-> rec.llm]

\* A receipt: the heuristic's note, and the note of a model that read a story.
Plain == [llm |-> FALSE, read |-> {}]
Thesis(j) == [llm |-> TRUE, read |-> j.items]
Lookup(j) == receipts[CacheKey(j)]

\* The cap of the clock's day, as the file has it now.  The mutant lets one more.
SpentLate(d) == budget[d].calls > MaxCalls \/ budget[d].tokens >= MaxTokens
Spent(d) == budget[d].calls >= MaxCalls \/ budget[d].tokens >= MaxTokens

NextJob == /\ job' = NoJob
           /\ chain' = [chain EXCEPT !["sentiment"] = NoAsk]

\* Store: the memo always, the file unless the write fails, which is ignored.
Store(j, rec) ==
    /\ receipts' = [receipts EXCEPT ![CacheKey(j)] = rec]
    /\ \/ unsaved' = unsaved /\ allow' = allow
       \/ /\ LoseOne
          /\ unsaved' = unsaved \cup {CacheKey(j)}
    /\ made' = made \cup {Report(j, rec)}
    /\ NextJob

\* Run on the next cluster: a receipt, the heuristic, or on to the chain.
Consider ==
    /\ refresh # None /\ job = NoJob
    /\ \E items \in queue : \E head \in {i.a : i \in items} :
          LET j == [items |-> items, head |-> head, checked |-> ISTDay(now)]
              rec == Lookup(j)
              ask == About[head] \in Names /\ ~Spent(ISTDay(now))
          IN  /\ queue' = queue \ {items}
              /\ \/ /\ rec # None
                    /\ made' = made \cup {Report(j, rec)}
                    /\ UNCHANGED <<job, chain, receipts, unsaved, allow>>
                 \/ rec = None /\ ~ask /\ Store(j, Plain)
                 \/ /\ rec = None /\ ask
                    /\ job' = j
                    /\ UNCHANGED <<made, chain, receipts, unsaved, allow>>
    /\ UNCHANGED <<now, tick, refresh, reports, fresh, budget, History>>

\* An error is kept like an answer.  The mutant returns without a Store.
FailedUnkept(j) ==
    /\ made' = made \cup {Report(j, Plain)} /\ NextJob
    /\ UNCHANGED <<receipts, unsaved, allow>>
Failed(j) == Store(j, Plain)

\* Charge: the file of the article's day, read and written back.
ReadForCharge ==
    /\ chain["sentiment"].at = "ok"
    /\ chain' = [chain EXCEPT !["sentiment"].at = "charging",
                              !["sentiment"].on = Day(job),
                              !["sentiment"].file = budget[Day(job)]]
    /\ UNCHANGED <<now, Service, Files, allow, History>>

Charged(file, cost) == [file EXCEPT !.calls = file.calls + 1, !.tokens = file.tokens + cost]
Add(spent, d, cost) == [spent EXCEPT ![d] = Charged(spent[d], cost)]

Charge ==
    /\ chain["sentiment"].at = "charging"
    /\ LET k == chain["sentiment"] IN
       \E cost \in Costs :
          /\ all' = Add(all, job.checked, cost)
          /\ own' = IF k.on = job.checked THEN Add(own, k.on, cost) ELSE own
          /\ \/ /\ budget' = [budget EXCEPT ![k.on] = Charged(k.file, cost)]
                /\ loose' = IF budget[k.on].pin # k.file.pin THEN loose \cup {k.on} ELSE loose
                /\ UNCHANGED <<missed, allow>>
             \/ /\ LoseOne
                /\ missed' = missed \cup {k.on}
                /\ UNCHANGED <<budget, loose>>
    /\ chain' = [chain EXCEPT !["sentiment"].at = "charged"]
    /\ UNCHANGED <<now, Service, receipts, unsaved, asked, answered>>

InvestigationEnds ==
    /\ chain["sentiment"].at = "charged"
    /\ Store(job, Thesis(job))
    /\ UNCHANGED <<now, tick, refresh, queue, reports, fresh, budget, History>>

-----------------------------------------------------------------------------
(* CompleteR: the pinned provider alone, or each in turn until one is. *)

\* The mutant falls through from a pinned provider that fails.
PinnedFirst(pin) == <<pin>> \o SelectSeq(Providers, LAMBDA p : p # pin)
Pinned(pin) == <<pin>>

Complete(q) ==
    /\ chain[q].at = "idle"
    /\ \/ /\ q = "sentiment" /\ job # NoJob
          /\ asked' = asked \cup {CacheKey(job)} /\ allow' = allow
       \/ /\ q = "advisor" /\ allow.chats > 0
          /\ asked' = asked /\ allow' = [allow EXCEPT !.chats = @ - 1]
    /\ LET d == ISTDay(now)  pin == budget[d].pin IN
       chain' = [chain EXCEPT ![q] = [NoAsk EXCEPT
           !.at = "asking", !.pinned = (pin # None), !.day = d,
           !.left = IF pin = None THEN Providers ELSE Pinned(pin)]]
    /\ UNCHANGED <<now, Service, Files, own, all, answered, missed, loose>>

\* The advisor is done with an answer or an error: its reply keeps nothing.
Done(q, k) == IF q = "advisor" THEN NoAsk ELSE k

Answer(q) ==
    /\ chain[q].at = "asking"
    /\ LET k == chain[q]  p == Head(k.left) IN
       IF k.pinned
       THEN /\ chain' = [chain EXCEPT ![q] = Done(q, [k EXCEPT !.at = "ok", !.by = p])]
            /\ answered' = [answered EXCEPT ![k.day] = @ \cup {p}]
       ELSE /\ chain' = [chain EXCEPT ![q] = [k EXCEPT !.at = "answered", !.by = p]]
            /\ UNCHANGED answered
    /\ UNCHANGED <<now, Service, Files, allow, asked, own, all, missed, loose>>

ProviderFails(q) ==
    /\ chain[q].at = "asking"
    /\ LET left == Tail(chain[q].left) IN
       \/ /\ left # <<>>
          /\ chain' = [chain EXCEPT ![q].left = left]
          /\ UNCHANGED <<made, job, receipts, unsaved, allow>>
       \/ /\ left = <<>> /\ q = "advisor"
          /\ chain' = [chain EXCEPT ![q] = NoAsk]
          /\ UNCHANGED <<made, job, receipts, unsaved, allow>>
       \/ left = <<>> /\ q = "sentiment" /\ Failed(job)
    /\ UNCHANGED <<now, tick, refresh, queue, reports, fresh, budget, History>>

\* Pin: the file of the clock's day, read and written back.
ReadForPin(q) ==
    /\ chain[q].at = "answered"
    /\ chain' = [chain EXCEPT ![q].at = "pinning", ![q].on = ISTDay(now),
                              ![q].file = budget[ISTDay(now)]]
    /\ UNCHANGED <<now, Service, Files, allow, History>>

Pin(q) ==
    /\ chain[q].at = "pinning"
    /\ LET k == chain[q]  was == budget[k.on] IN
       /\ \/ /\ budget' = [budget EXCEPT ![k.on] = [k.file EXCEPT !.pin = k.by]]
             /\ loose' = IF was.pin \in {None, k.by} THEN loose ELSE loose \cup {k.on}
             /\ missed' = IF was.calls = k.file.calls THEN missed ELSE missed \cup {k.on}
             /\ UNCHANGED allow
          \/ /\ LoseOne
             /\ loose' = loose \cup {k.on}
             /\ UNCHANGED <<budget, missed>>
       /\ answered' = [answered EXCEPT ![k.on] = @ \cup {k.by}]
       /\ chain' = [chain EXCEPT ![q] = Done(q, [k EXCEPT !.at = "ok"])]
    /\ UNCHANGED <<now, Service, receipts, unsaved, asked, own, all>>

-----------------------------------------------------------------------------
(* The tick, and the death of the service. *)

\* pkg/asof: every source is known.
ReportKnown(r) == \A i \in r.items : i.t <= now
Reports == {r \in reports : ReportKnown(r)}

\* Only what the LLM made has a score.
Scored(rs) == {r \in rs : r.llm}

\* satelliteScore: nothing without a method of weight (it has one here) or
\* with the day's cap spent; a cap of zero is not spent.
Tilt == IF MaxCalls > 0 /\ MaxTokens > 0 /\ Spent(ISTDay(now)) THEN {}
        ELSE Scored(Reports)

TickEnds ==
    /\ tick = "reads" /\ tick' = "idle"
    /\ UNCHANGED <<now, refresh, queue, made, job, chain, reports, fresh, Files, allow, History>>

OnDisk == [k \in DOMAIN receipts |-> IF k \in unsaved THEN None ELSE receipts[k]]

\* The memo and the reports are gone, the callers get an error, and a story
\* at the desk is forgotten with what was not yet written of it.
Dies ==
    /\ LoseOne
    /\ tick' = "idle" /\ refresh' = None
    /\ queue' = {} /\ made' = {} /\ job' = NoJob /\ reports' = {} /\ fresh' = FALSE
    /\ chain' = [chain EXCEPT !["sentiment"] = NoAsk]
    /\ receipts' = OnDisk /\ unsaved' = {}
    /\ asked' = asked \ (unsaved \cup (IF job = NoJob THEN {} ELSE {CacheKey(job)}))
    /\ missed' = IF chain["sentiment"].at \in {"answered", "pinning", "ok", "charging"}
                 THEN missed \cup {Day(job)} ELSE missed
    /\ UNCHANGED <<now, budget, own, all, answered, loose>>

Next ==
    \/ Later
    \/ GetInvestigations \/ FoundFresh \/ TickEnds
    \/ Refresh("tick") \/ Refresh("loop") \/ RefreshEnds \/ Consider
    \/ \E q \in Askers : Complete(q) \/ Answer(q) \/ ProviderFails(q)
                         \/ ReadForPin(q) \/ Pin(q)
    \/ ReadForCharge \/ Charge \/ InvestigationEnds
    \/ Dies

Spec == Init /\ [][Next]_vars

-----------------------------------------------------------------------------
(* Properties. *)

\* A headline is put to the models once a day, whoever asks for a refresh and
\* however often, whether they answered or failed, unless the service died
\* before the receipt was on disk (Desk.Run and Store).
AskedOnce ==
    [][chain["sentiment"].at = "idle" /\ chain'["sentiment"].at = "asking"
          => CacheKey(job) \notin asked]_vars

\* Every answer used on a day is of one model, in the investigations and in
\* the advisor's chat alike, unless a pin was lost or two answers before the
\* first pin overlapped (Chain.CompleteR and Pin).
OneModelPerDay == \A d \in Days \ loose : Cardinality(answered[d]) <= 1

\* Completions about the day's own news stay within both caps of the day, the
\* tokens but for the completion that passes them, unless a charge was lost
\* (AllowLLM, Charge).
CapHoldsOnTodaysNews ==
    \A d \in Days \ missed :
        /\ own[d].calls <= MaxCalls
        /\ \A cost \in Costs : (\A x \in Costs : x <= cost) => own[d].tokens < MaxTokens + cost

\* A tilt never comes of a thesis that read what was published after the bar,
\* not even through a receipt that a later report of older articles finds
\* (gather's and the tick's filters, the key of a receipt).
TiltSeesNoLaterNews ==
    tick = "reads" => \A r \in Tilt : \A i \in r.read : i.t <= now

\* What README.md promises of a day ("hard cap on LLM calls per IST day"): no
\* more completions than the cap, whatever day the articles are dated.
DayCap == \A d \in Days \ missed : all[d].calls <= MaxCalls
=============================================================================
