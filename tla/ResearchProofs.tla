--------------------------- MODULE ResearchProofs ----------------------------
(***************************************************************************)
(* What holds of the desk, its receipts and the day's budget for every set *)
(* of articles, chain of providers, cap and allowance of faults and chats. *)
(***************************************************************************)
EXTENDS Research, WellFoundedInduction, FiniteSetTheorems, TLAPS

-----------------------------------------------------------------------------
(* Types. *)

Keys   == Days \X Titles
Stages == {"idle", "asking", "answered", "pinning", "ok", "charging", "charged"}
File   == [calls : Nat, tokens : Nat, pin : Models \cup {None}]
Ask    == [at : Stages, pinned : BOOLEAN, left : Seq(Models), by : Models \cup {None},
           day : Days, file : File, on : Days]
Made   == [items : SUBSET Items, read : SUBSET Items, llm : BOOLEAN]
Story  == [items : (SUBSET Items) \ {{}}, head : Titles, checked : Days]

TypeOK ==
    /\ now \in Times
    /\ queue \subseteq (SUBSET Items) \ {{}}
    /\ made \subseteq Made /\ reports \subseteq Made
    /\ job \in Story \cup {NoJob}
    /\ chain \in [Askers -> Ask]
    /\ receipts \in [Keys -> Receipts \cup {None}] /\ unsaved \subseteq Keys
    /\ budget \in [Days -> File]
    /\ allow \in [faults : Nat, chats : Nat]
    /\ asked \subseteq Keys
    /\ own \in [Days -> [calls : Nat, tokens : Nat]]
    /\ answered \in [Days -> SUBSET Models]
    /\ missed \subseteq Days /\ loose \subseteq Days

desk == chain["sentiment"]

\* Where a completion stands: it has a provider to ask, one that answered; the
\* desk's is about a story, the advisor keeps nothing after its answer.
ChainInv ==
    /\ job = NoJob => desk = NoAsk
    /\ chain["advisor"].at \in {"idle", "asking", "answered", "pinning"}
    /\ \A q \in Askers :
          /\ chain[q].at = "asking" => chain[q].left # <<>>
          /\ chain[q].at \in {"answered", "pinning"} => chain[q].by \in Models
    /\ desk.at = "charging" => desk.on = Day(job)

\* What makes AskedOnce inductive: a key that was put to a model has a receipt, or
\* is at the desk; the story at the desk had no receipt when it was taken up.
AskedInv ==
    /\ \A k \in asked : \/ receipts[k] # None
                        \/ job # NoJob /\ desk.at # "idle" /\ k = CacheKey(job)
    /\ job # NoJob => receipts[CacheKey(job)] = None

\* What makes TiltSeesNoLaterNews inductive: nothing the service holds was
\* published later than now, on the way to a receipt or back from one.
Past(items) == \A i \in items : i.t <= now
NewsInv ==
    /\ \A c \in queue : Past(c)
    /\ Past(job.items)
    /\ \A r \in made \cup reports : Past(r.read)
    /\ \A k \in Keys : receipts[k] # None => Past(receipts[k].read)

\* What makes OneModelPerDay inductive: a day's answers are of the model its file
\* has pinned, and who asks a pinned provider asks that one.
Used(d) == \A m \in answered[d] : m = budget[d].pin
PinInv ==
    /\ \A d \in Days \ loose : Used(d)
    /\ \A q \in Askers :
          chain[q].at = "asking" /\ chain[q].pinned /\ chain[q].day \notin loose =>
              /\ chain[q].left = <<budget[chain[q].day].pin>>
              /\ budget[chain[q].day].pin # None

\* What makes CapHoldsOnTodaysNews inductive: the file counts at least the day's
\* own; a story that was let past the cap still has the place it was let in on; and
\* a copy of a file that is about to be written back is the file, or a charge was
\* written in between.
Room(d) == own[d].calls < MaxCalls /\ own[d].tokens < MaxTokens
CapInv ==
    /\ \A d \in Days \ missed :
          own[d].calls <= budget[d].calls /\ own[d].tokens <= budget[d].tokens
    /\ job # NoJob /\ desk.at # "charged" /\ job.checked \notin missed => Room(job.checked)
    /\ desk.at = "charging" /\ desk.on \notin missed =>
          /\ desk.file.calls = budget[desk.on].calls
          /\ desk.file.tokens = budget[desk.on].tokens
    /\ \A q \in Askers :
          chain[q].at = "pinning" /\ chain[q].on \notin missed =>
              LET file == budget[chain[q].on]
              IN  /\ chain[q].file.calls <= file.calls
                  /\ chain[q].file.calls = file.calls => chain[q].file.tokens = file.tokens
    /\ CapHoldsOnTodaysNews

-----------------------------------------------------------------------------
(* Lemmas about the operators. *)

\* Every set of numbers has a least one: induction in the form the provers take,
\* on a set instead of a predicate.
LEMMA LessThanWellFounded == IsWellFoundedOn({ss \in Nat \X Nat : ss[1] < ss[2]}, Nat)
BY NatLessThanWellFounded DEF OpToRel

LEMMA LeastNumber ==
    ASSUME NEW S \in SUBSET Nat, S # {}
    PROVE  \E n \in S : \A m \in S : n <= m
<1> DEFINE R == {ss \in Nat \X Nat : ss[1] < ss[2]}
<1>1. \A x, y \in Nat : <<y, x>> \notin R => x <= y OBVIOUS
<1>2. IsWellFoundedOn(R, Nat) BY LessThanWellFounded
<1> HIDE DEF R
<1>3. \E x \in S : \A y \in S : <<y, x>> \notin R BY <1>2, WFMin
<1> QED BY <1>1, <1>3

LEMMA TimeType == Times \subseteq Nat /\ 0 \in Times
BY LimitAssumption DEF Times

LEMMA DayType == ASSUME NEW t \in Times PROVE ISTDay(t) \in Days
BY DEF Days

\* A story has a latest article, so it has a day.
LEMMA AsOfType ==
    ASSUME NEW items \in SUBSET Items, items # {}
    PROVE  AsOf(items) \in Times
<1> DEFINE T == {i.t : i \in items}  left == {MaxTime - t : t \in T}
<1>1. T \subseteq Times BY DEF Items
<1>2. T # {} OBVIOUS
<1>3. MaxTime \in Nat BY LimitAssumption
<1> HIDE DEF T
<1>4. left \in SUBSET Nat /\ left # {}
  <2>1. \A t \in T : MaxTime - t \in Nat BY <1>1, <1>3 DEF Times
  <2> QED BY <1>2, <2>1
<1>5. PICK n \in left : \A m \in left : n <= m BY <1>4, LeastNumber
<1>6. PICK t \in T : n = MaxTime - t BY <1>5
<1>7. \A u \in T : u <= t
  <2> SUFFICES ASSUME NEW u \in T PROVE u <= t OBVIOUS
  <2>1. n <= MaxTime - u BY <1>5
  <2> QED BY <1>1, <1>3, <1>6, <2>1 DEF Times
<1>8. \A i \in items : i.t <= t BY <1>7 DEF T
<1>9. AsOf(items) \in T BY <1>8 DEF AsOf, T
<1> QED BY <1>1, <1>9

LEMMA KeyType ==
    ASSUME NEW j \in Story
    PROVE  Day(j) \in Days /\ CacheKey(j) \in Keys
<1>1. j.items \in SUBSET Items /\ j.items # {} /\ j.head \in Titles BY DEF Story
<1>2. AsOf(j.items) \in Times BY <1>1, AsOfType
<1>3. Day(j) \in Days BY <1>2, DayType DEF Day
<1> QED BY <1>1, <1>3 DEF CacheKey, Keys

LEMMA StoryIsJob == NoJob \notin Story
<1>1. ASSUME NEW j \in Story PROVE j.items # {} BY DEF Story
<1>2. NoJob.items = {} BY DEF NoJob
<1> QED BY <1>1, <1>2

LEMMA NoAskType == NoAsk \in Ask
<1>1. 0 \in Days
  <2>1. DayLen \in Nat \ {0} BY LimitAssumption
  <2>2. ISTDay(0) = 0 BY <2>1 DEF ISTDay
  <2>3. ISTDay(0) \in Days BY TimeType, DayType
  <2> QED BY <2>2, <2>3
<1>2. NoFile \in File BY DEF NoFile, File
<1>3. <<>> \in Seq(Models) OBVIOUS
<1> QED BY <1>1, <1>2, <1>3 DEF NoAsk, Ask, Stages

LEMMA ChargedType ==
    ASSUME NEW cost \in Costs
    PROVE  /\ \A file \in File : /\ Charged(file, cost) \in File
                                 /\ Charged(file, cost).calls = file.calls + 1
                                 /\ Charged(file, cost).tokens = file.tokens + cost
                                 /\ Charged(file, cost).pin = file.pin
           /\ \A spent \in [calls : Nat, tokens : Nat] :
                 /\ Charged(spent, cost) \in [calls : Nat, tokens : Nat]
                 /\ Charged(spent, cost).calls = spent.calls + 1
                 /\ Charged(spent, cost).tokens = spent.tokens + cost
<1>1. cost \in Nat BY LimitAssumption
<1>2. ASSUME NEW file \in File
      PROVE  /\ Charged(file, cost) \in File
             /\ Charged(file, cost).calls = file.calls + 1
             /\ Charged(file, cost).tokens = file.tokens + cost
             /\ Charged(file, cost).pin = file.pin
  <2>1. file.calls + 1 \in Nat /\ file.tokens + cost \in Nat BY <1>1 DEF File
  <2> QED BY <2>1 DEF Charged, File
<1>3. ASSUME NEW spent \in [calls : Nat, tokens : Nat]
      PROVE  /\ Charged(spent, cost) \in [calls : Nat, tokens : Nat]
             /\ Charged(spent, cost).calls = spent.calls + 1
             /\ Charged(spent, cost).tokens = spent.tokens + cost
  <2>1. spent.calls + 1 \in Nat /\ spent.tokens + cost \in Nat BY <1>1
  <2> QED BY <2>1 DEF Charged
<1> QED BY <1>2, <1>3

\* What a Store does.
LEMMA Stored ==
    ASSUME TypeOK, job \in Story \/ job = NoJob, NEW j \in Story, NEW rec \in Receipts, Store(j, rec)
    PROVE  /\ receipts' = [receipts EXCEPT ![CacheKey(j)] = rec]
           /\ receipts' \in [Keys -> Receipts \cup {None}]
           /\ unsaved' \subseteq Keys
           /\ made' = made \cup {Report(j, rec)} /\ Report(j, rec) \in Made
           /\ allow' \in [faults : Nat, chats : Nat]
           /\ job' = NoJob
           /\ chain' \in [Askers -> Ask]
           /\ chain'["sentiment"] = NoAsk /\ chain'["advisor"] = chain["advisor"]
<1>1. CacheKey(j) \in Keys BY KeyType
<1>2. allow' \in [faults : Nat, chats : Nat] BY DEF Store, LoseOne, TypeOK
<1>3. Report(j, rec) \in Made BY DEF Report, Made, Story, Receipts
<1>4. chain' = [chain EXCEPT !["sentiment"] = NoAsk] BY DEF Store, NextJob
<1>5. /\ chain' \in [Askers -> Ask] /\ chain'["sentiment"] = NoAsk
      /\ chain'["advisor"] = chain["advisor"]
  BY <1>4, NoAskType DEF TypeOK, Askers
<1>6. unsaved' \subseteq Keys BY <1>1 DEF Store, TypeOK
<1>7. /\ receipts' = [receipts EXCEPT ![CacheKey(j)] = rec]
      /\ made' = made \cup {Report(j, rec)} /\ job' = NoJob
  BY DEF Store, NextJob
<1>8. receipts' \in [Keys -> Receipts \cup {None}]
  BY <1>1, <1>7 DEF TypeOK
<1> QED BY <1>2, <1>3, <1>5, <1>6, <1>7, <1>8

LEMMA NoteType ==
    /\ Plain \in Receipts
    /\ \A j \in Story : Thesis(j) \in Receipts
BY DEF Plain, Thesis, Receipts, Story

-----------------------------------------------------------------------------
(* Types, and where a completion stands. *)

Base == TypeOK /\ ChainInv

LEMMA InitBase == Init => Base
<1> SUFFICES ASSUME Init PROVE Base OBVIOUS
<1>1. NoFile \in File BY DEF NoFile, File
<1>2. Nothing \in [calls : Nat, tokens : Nat] BY DEF Nothing
<1>3. allow \in [faults : Nat, chats : Nat] BY LimitAssumption DEF Init
<1>4. TypeOK
  BY <1>1, <1>2, <1>3, TimeType, NoAskType DEF Init, TypeOK, Keys
<1>5. \A q \in Askers : chain[q].at = "idle" BY DEF Init, NoAsk
<1> QED BY <1>4, <1>5 DEF Base, ChainInv, Init, desk, Askers

\* Steps that leave the desk, its chain and the files alone.
LEMMA QuietBase ==
    ASSUME Base, Later \/ GetInvestigations \/ FoundFresh \/ TickEnds \/ RefreshEnds
                 \/ Refresh("tick") \/ Refresh("loop") \/ UNCHANGED vars
    PROVE  Base'
<1>1. UNCHANGED <<job, chain, Files, allow, History>>
  BY DEF Later, GetInvestigations, FoundFresh, TickEnds, RefreshEnds, Refresh, vars, Files, History
<1>2. now' \in Times
  BY LimitAssumption DEF Base, TypeOK, Times, Later, GetInvestigations, FoundFresh, TickEnds,
     RefreshEnds, Refresh, vars
<1>3. queue' \subseteq (SUBSET Items) \ {{}}
  <2>1. ASSUME NEW by, Refresh(by) PROVE queue' \subseteq (SUBSET Items) \ {{}}
    <3>1. PICK sent \in Fetch : queue' \in Queues(ClusterNews(Gathered(sent)))
      BY <2>1 DEF Refresh
    <3>2. sent \subseteq Items
      BY FeedAssumption DEF Fetch, Items, Titles
    <3>3. MockNews \subseteq Items BY DEF MockNews, Items, Titles, Base, TypeOK
    <3>4. Gathered(sent) \subseteq Items BY <3>2, <3>3 DEF Gathered, Known
    <3>5. ClusterNews(Gathered(sent)) \subseteq (SUBSET Items) \ {{}}
      BY <3>4 DEF ClusterNews
    <3> QED BY <3>1, <3>5 DEF Queues
  <2> QED BY <2>1 DEF Base, TypeOK, Later, GetInvestigations, FoundFresh, TickEnds, RefreshEnds, vars
<1>4. made' \subseteq Made /\ reports' \subseteq Made
  BY DEF Base, TypeOK, Later, GetInvestigations, FoundFresh, TickEnds, RefreshEnds, Refresh, vars
<1>5. TypeOK' BY <1>1, <1>2, <1>3, <1>4 DEF Base, TypeOK, Files, History
<1> QED BY <1>1, <1>5 DEF Base, ChainInv, desk, Files

\* A story leaves the desk with a receipt.
LEMMA StoreBase ==
    ASSUME Base, NEW j \in Story, NEW rec \in Receipts, Store(j, rec),
           UNCHANGED <<now, reports, budget, asked, own, answered, missed, loose>>,
           queue' \subseteq queue
    PROVE  Base'
<1>1. /\ receipts' \in [Keys -> Receipts \cup {None}] /\ unsaved' \subseteq Keys
      /\ made' = made \cup {Report(j, rec)} /\ Report(j, rec) \in Made
      /\ allow' \in [faults : Nat, chats : Nat]
      /\ job' = NoJob /\ chain' \in [Askers -> Ask]
      /\ chain'["sentiment"] = NoAsk /\ chain'["advisor"] = chain["advisor"]
  BY Stored DEF Base, TypeOK
<1>2. TypeOK' BY <1>1 DEF Base, TypeOK
<1>3. ChainInv'
  <2>1. NoAsk.at = "idle" BY DEF NoAsk
  <2> QED BY <1>1, <2>1 DEF Base, ChainInv, desk, Askers
<1> QED BY <1>2, <1>3 DEF Base

\* What a story at the desk is taken up with.
LEMMA Considered ==
    ASSUME Base, Consider
    PROVE  \E items \in queue, j \in Story :
              /\ j.items = items /\ j.checked = ISTDay(now) /\ queue' = queue \ {items}
              /\ \/ /\ Lookup(j) # None
                    /\ made' = made \cup {Report(j, Lookup(j))}
                    /\ UNCHANGED <<job, chain, receipts, unsaved, allow>>
                 \/ Lookup(j) = None /\ Store(j, Plain)
                 \/ /\ Lookup(j) = None /\ ~Spent(ISTDay(now))
                    /\ job' = j
                    /\ UNCHANGED <<made, chain, receipts, unsaved, allow>>
<1>1. PICK items \in queue : \E head \in {i.a : i \in items} :
         LET j == [items |-> items, head |-> head, checked |-> ISTDay(now)]
             rec == Lookup(j)
             ask == About[head] \in Names /\ ~Spent(ISTDay(now))
         IN  /\ queue' = queue \ {items}
             /\ \/ /\ rec # None
                   /\ made' = made \cup {Report(j, rec)}
                   /\ UNCHANGED <<job, chain, receipts, unsaved, allow>>
                \/ rec = None /\ ~ask /\ Store(j, Plain)
                \/ /\ rec = None /\ ask
                   /\ job' = j
                   /\ UNCHANGED <<made, chain, receipts, unsaved, allow>>
  BY DEF Consider
<1>2. PICK head \in {i.a : i \in items} :
         LET j == [items |-> items, head |-> head, checked |-> ISTDay(now)]
             rec == Lookup(j)
             ask == About[head] \in Names /\ ~Spent(ISTDay(now))
         IN  /\ queue' = queue \ {items}
             /\ \/ /\ rec # None
                   /\ made' = made \cup {Report(j, rec)}
                   /\ UNCHANGED <<job, chain, receipts, unsaved, allow>>
                \/ rec = None /\ ~ask /\ Store(j, Plain)
                \/ /\ rec = None /\ ask
                   /\ job' = j
                   /\ UNCHANGED <<made, chain, receipts, unsaved, allow>>
  BY <1>1
<1> DEFINE j == [items |-> items, head |-> head, checked |-> ISTDay(now)]
<1>3. items \in (SUBSET Items) \ {{}} BY DEF Base, TypeOK
<1>4. head \in Titles BY <1>3 DEF Items
<1>5. ISTDay(now) \in Days BY DayType DEF Base, TypeOK
<1>6. j \in Story /\ j.items = items /\ j.checked = ISTDay(now)
  BY <1>3, <1>4, <1>5 DEF Story
<1>7. /\ queue' = queue \ {items}
      /\ \/ /\ Lookup(j) # None
            /\ made' = made \cup {Report(j, Lookup(j))}
            /\ UNCHANGED <<job, chain, receipts, unsaved, allow>>
         \/ Lookup(j) = None /\ Store(j, Plain)
         \/ /\ Lookup(j) = None /\ ~Spent(ISTDay(now))
            /\ job' = j
            /\ UNCHANGED <<made, chain, receipts, unsaved, allow>>
  BY <1>2
<1> HIDE DEF j
<1> QED BY <1>6, <1>7

LEMMA ConsiderBase == ASSUME Base, Consider PROVE Base'
<1>1. PICK items \in queue, j \in Story :
         /\ j.items = items /\ queue' = queue \ {items}
         /\ \/ /\ Lookup(j) # None
               /\ made' = made \cup {Report(j, Lookup(j))}
               /\ UNCHANGED <<job, chain, receipts, unsaved, allow>>
            \/ Lookup(j) = None /\ Store(j, Plain)
            \/ /\ Lookup(j) = None
               /\ job' = j
               /\ UNCHANGED <<made, chain, receipts, unsaved, allow>>
  BY Considered
<1>2. /\ UNCHANGED <<now, reports, budget, asked, own, answered, missed, loose>>
      /\ job = NoJob
  BY DEF Consider, History
<1>3. CASE Lookup(j) # None /\ made' = made \cup {Report(j, Lookup(j))}
           /\ UNCHANGED <<job, chain, receipts, unsaved, allow>>
  <2>1. Lookup(j) \in Receipts BY <1>3, KeyType DEF Base, TypeOK, Lookup
  <2>2. Report(j, Lookup(j)) \in Made BY <2>1 DEF Report, Made, Story, Receipts
  <2>3. TypeOK' BY <1>1, <1>2, <1>3, <2>2 DEF Base, TypeOK
  <2> QED BY <1>2, <1>3, <2>3 DEF Base, ChainInv, desk
<1>4. CASE Store(j, Plain)
  BY <1>1, <1>2, <1>4, StoreBase, NoteType
<1>5. CASE job' = j /\ UNCHANGED <<made, chain, receipts, unsaved, allow>>
  <2>1. TypeOK' BY <1>1, <1>2, <1>5 DEF Base, TypeOK
  <2>2. desk = NoAsk /\ job' # NoJob BY <1>2, <1>5, StoryIsJob DEF Base, ChainInv
  <2>3. NoAsk.at = "idle" BY DEF NoAsk
  <2> QED BY <1>5, <2>1, <2>2, <2>3 DEF Base, ChainInv, desk
<1> QED BY <1>1, <1>3, <1>4, <1>5

\* One completion goes on.
LEMMA ChainStep ==
    ASSUME Base, NEW q \in Askers, NEW k \in Ask, chain' = [chain EXCEPT ![q] = k],
           q = "sentiment" => job # NoJob,
           q = "advisor" => k.at \in {"idle", "asking", "answered", "pinning"},
           k.at = "asking" => k.left # <<>>,
           k.at \in {"answered", "pinning"} => k.by \in Models,
           q = "sentiment" /\ k.at = "charging" => k.on = Day(job),
           UNCHANGED job
    PROVE  /\ chain' \in [Askers -> Ask] /\ ChainInv'
           /\ chain'[q] = k /\ \A r \in Askers \ {q} : chain'[r] = chain[r]
<1>1. /\ chain' \in [Askers -> Ask] /\ chain'[q] = k
      /\ \A r \in Askers \ {q} : chain'[r] = chain[r]
  BY DEF Base, TypeOK
<1> QED BY <1>1 DEF Base, ChainInv, desk, Askers

\* A story is at the desk while its completion is under way.
LEMMA DeskBusy == Base /\ desk.at # "idle" => job \in Story
BY DEF Base, TypeOK, ChainInv, NoAsk, desk

LEMMA ReadTypes ==
    ASSUME Base
    PROVE  /\ ISTDay(now) \in Days
           /\ \A d \in Days : budget[d] \in File
           /\ \A q \in Askers : chain[q] \in Ask
BY DayType DEF Base, TypeOK

LEMMA CompleteBase == ASSUME Base, NEW q \in Askers, Complete(q) PROVE Base'
<1> DEFINE pin == budget[ISTDay(now)].pin
           k == [NoAsk EXCEPT !.at = "asking", !.pinned = (pin # None), !.day = ISTDay(now),
                              !.left = IF pin = None THEN Providers ELSE Pinned(pin)]
<1>1. chain' = [chain EXCEPT ![q] = k] BY DEF Complete
<1>2. pin \in Models \cup {None} BY ReadTypes DEF File
<1>3. (IF pin = None THEN Providers ELSE Pinned(pin)) \in Seq(Models)
      /\ (IF pin = None THEN Providers ELSE Pinned(pin)) # <<>>
  <2>1. CASE pin = None BY <2>1, ChainAssumption
  <2>2. CASE pin # None BY <1>2, <2>2 DEF Pinned
  <2> QED BY <2>1, <2>2
<1>4. k \in Ask /\ k.at = "asking" /\ k.left # <<>>
  BY ZenonT(60), <1>3, NoAskType, ReadTypes DEF Ask, Stages
<1> HIDE DEF k
<1>5. q = "sentiment" => job # NoJob BY DEF Complete
<1>6. UNCHANGED job BY DEF Complete, Service
<1>7. chain' \in [Askers -> Ask] /\ ChainInv' BY <1>1, <1>4, <1>5, <1>6, ChainStep
<1>8. asked' \subseteq Keys
  <2>1. q = "sentiment" => job \in Story BY <1>5 DEF Base, TypeOK
  <2> QED BY <2>1, KeyType DEF Complete, Base, TypeOK, Askers
<1>9. allow' \in [faults : Nat, chats : Nat]
  BY DEF Complete, Base, TypeOK
<1> QED BY <1>7, <1>8, <1>9 DEF Complete, Service, Files, Base, TypeOK

LEMMA AnswerBase == ASSUME Base, NEW q \in Askers, Answer(q) PROVE Base'
<1> DEFINE k == chain[q]  p == Head(chain[q].left)
<1>1. k \in Ask /\ k.at = "asking" /\ k.left # <<>> BY ReadTypes DEF Answer, Base, ChainInv
<1>2. p \in Models
  <2>1. k.left \in Seq(Models) BY <1>1 DEF Ask
  <2> QED BY <1>1, <2>1
<1>3. q = "sentiment" => job # NoJob
  BY <1>1 DEF Base, ChainInv, desk, NoAsk
<1>4. UNCHANGED <<job, now, Service, Files, allow, asked, own, missed, loose>>
  BY DEF Answer, Service
<1>5. \E r \in Ask : chain' = [chain EXCEPT ![q] = r]
          /\ (q = "advisor" => r.at \in {"idle", "asking", "answered", "pinning"})
          /\ (r.at = "asking" => r.left # <<>>)
          /\ (r.at \in {"answered", "pinning"} => r.by \in Models)
          /\ r.at # "charging"
  <2>1. [k EXCEPT !.at = "ok", !.by = p] \in Ask /\ [k EXCEPT !.at = "ok", !.by = p].at = "ok"
    BY <1>1, <1>2 DEF Ask, Stages
  <2>2. /\ [k EXCEPT !.at = "answered", !.by = p] \in Ask
        /\ [k EXCEPT !.at = "answered", !.by = p].at = "answered"
        /\ [k EXCEPT !.at = "answered", !.by = p].by = p
    BY <1>1, <1>2 DEF Ask, Stages
  <2>3. CASE k.pinned
    <3>1. chain' = [chain EXCEPT ![q] = Done(q, [k EXCEPT !.at = "ok", !.by = p])]
      BY <2>3 DEF Answer
    <3>2. CASE q = "advisor" BY <3>1, <3>2, NoAskType DEF Done, NoAsk
    <3>3. CASE q # "advisor" BY <2>1, <3>1, <3>3 DEF Done
    <3> QED BY <3>2, <3>3
  <2>4. CASE ~k.pinned
    <3>1. chain' = [chain EXCEPT ![q] = [k EXCEPT !.at = "answered", !.by = p]]
      BY <2>4 DEF Answer
    <3> QED BY <1>2, <2>2, <3>1
  <2> QED BY <2>3, <2>4
<1>6. chain' \in [Askers -> Ask] /\ ChainInv' BY <1>3, <1>4, <1>5, ChainStep
<1>7. answered' \in [Days -> SUBSET Models]
  <2>1. answered' \in {answered, [answered EXCEPT ![k.day] = @ \cup {p}]} BY DEF Answer
  <2> QED BY <1>2, <2>1 DEF Base, TypeOK
<1> QED BY <1>4, <1>6, <1>7 DEF Service, Files, Base, TypeOK

LEMMA ProviderFailsBase == ASSUME Base, NEW q \in Askers, ProviderFails(q) PROVE Base'
<1>1. /\ UNCHANGED <<now, reports, budget, asked, own, answered, missed, loose>>
      /\ queue' \subseteq queue
  BY DEF ProviderFails, History
<1>2. chain[q] \in Ask /\ chain[q].at = "asking" /\ chain[q].left # <<>>
  BY ReadTypes DEF ProviderFails, Base, ChainInv
<1>3. q = "sentiment" => job \in Story
  BY <1>2 DEF Base, TypeOK, ChainInv, desk, NoAsk
<1>4. CASE q = "sentiment" /\ Failed(job)
  BY <1>1, <1>3, <1>4, StoreBase, NoteType DEF Failed
<1>5. CASE /\ UNCHANGED <<made, job, receipts, unsaved, allow>>
           /\ \E r \in Ask : /\ chain' = [chain EXCEPT ![q] = r]
                             /\ r.at = "asking" => r.left # <<>>
                             /\ r.at \in {"asking", "idle"}
  <2>1. chain' \in [Askers -> Ask] /\ ChainInv' BY <1>3, <1>5, ChainStep, StoryIsJob
  <2> QED BY <1>1, <1>5, <2>1 DEF Base, TypeOK
<1>6. CASE Tail(chain[q].left) # <<>> /\ chain' = [chain EXCEPT ![q].left = Tail(chain[q].left)]
           /\ UNCHANGED <<made, job, receipts, unsaved, allow>>
  <2> DEFINE r == [chain[q] EXCEPT !.left = Tail(chain[q].left)]
  <2>1. Tail(chain[q].left) \in Seq(Models)
    <3>1. chain[q].left \in Seq(Models) BY <1>2 DEF Ask
    <3> QED BY <1>2, <3>1
  <2>2. r \in Ask /\ r.at = "asking" /\ r.left = Tail(chain[q].left) BY <1>2, <2>1 DEF Ask
  <2>3. chain' = [chain EXCEPT ![q] = r] BY <1>6 DEF Base, TypeOK
  <2> QED BY <1>5, <1>6, <2>2, <2>3
<1>7. CASE chain' = [chain EXCEPT ![q] = NoAsk] /\ UNCHANGED <<made, job, receipts, unsaved, allow>>
  <2>1. NoAsk.at = "idle" BY DEF NoAsk
  <2> QED BY <1>5, <1>7, <2>1, NoAskType
<1> QED BY <1>4, <1>6, <1>7 DEF ProviderFails

LEMMA ReadForPinBase == ASSUME Base, NEW q \in Askers, ReadForPin(q) PROVE Base'
<1> DEFINE d == ISTDay(now)
           r == [chain[q] EXCEPT !.at = "pinning", !.on = d, !.file = budget[d]]
<1>1. chain[q] \in Ask /\ chain[q].at = "answered" /\ chain[q].by \in Models
  BY ReadTypes DEF ReadForPin, Base, ChainInv
<1>2. d \in Days /\ budget[d] \in File BY ReadTypes
<1>3. chain' = [chain EXCEPT ![q] = r] BY DEF ReadForPin, Base, TypeOK
<1> HIDE DEF d
<1>4. r \in Ask /\ r.at = "pinning" /\ r.by = chain[q].by
  BY <1>1, <1>2 DEF Ask, Stages
<1> HIDE DEF r
<1>5. q = "sentiment" => job # NoJob BY <1>1 DEF Base, ChainInv, desk, NoAsk
<1>6. UNCHANGED job BY DEF ReadForPin, Service
<1>7. chain' \in [Askers -> Ask] /\ ChainInv' BY <1>1, <1>3, <1>4, <1>5, <1>6, ChainStep
<1> QED BY <1>7 DEF ReadForPin, Service, Files, History, Base, TypeOK

\* What is written of a pin: the file as it was read, with the provider that
\* answered; or nothing.
LEMMA PinBase == ASSUME Base, NEW q \in Askers, Pin(q) PROVE Base'
<1> DEFINE k == chain[q]  r == Done(q, [k EXCEPT !.at = "ok"])
<1>1. k \in Ask /\ k.at = "pinning" /\ k.by \in Models
  BY ReadTypes DEF Pin, Base, ChainInv
<1>2. chain' = [chain EXCEPT ![q] = r] BY DEF Pin
<1>3. [k EXCEPT !.at = "ok"] \in Ask /\ [k EXCEPT !.at = "ok"].at = "ok"
  BY <1>1 DEF Ask, Stages
<1>4. r \in Ask /\ r.at \in {"ok", "idle"} /\ (q = "advisor" => r.at = "idle")
  BY <1>3, NoAskType DEF Done, NoAsk
<1>5. q = "sentiment" => job # NoJob BY <1>1 DEF Base, ChainInv, desk, NoAsk
<1>6. UNCHANGED job BY DEF Pin, Service
<1> HIDE DEF r
<1>7. chain' \in [Askers -> Ask] /\ ChainInv' BY <1>2, <1>4, <1>5, <1>6, ChainStep
<1>8. [k.file EXCEPT !.pin = k.by] \in File /\ k.on \in Days BY <1>1 DEF Ask, File
<1>9. budget' \in [Days -> File]
  <2>1. budget' \in {budget, [budget EXCEPT ![k.on] = [k.file EXCEPT !.pin = k.by]]}
    BY DEF Pin
  <2> QED BY <1>8, <2>1 DEF Base, TypeOK
<1>10. answered' \in [Days -> SUBSET Models]
  <2>1. answered' = [answered EXCEPT ![k.on] = @ \cup {k.by}] BY DEF Pin
  <2> QED BY <1>1, <2>1 DEF Base, TypeOK
<1>11. missed' \subseteq Days /\ loose' \subseteq Days BY <1>8 DEF Pin, Base, TypeOK
<1>12. allow' \in [faults : Nat, chats : Nat] BY DEF Pin, LoseOne, Base, TypeOK
<1> QED BY <1>7, <1>9, <1>10, <1>11, <1>12 DEF Pin, Service, Base, TypeOK

LEMMA ReadForChargeBase == ASSUME Base, ReadForCharge PROVE Base'
<1> DEFINE d == Day(job)
           r == [desk EXCEPT !.at = "charging", !.on = d, !.file = budget[d]]
<1>1. desk \in Ask /\ desk.at = "ok" BY ReadTypes DEF ReadForCharge, desk, Askers
<1>2. job \in Story BY <1>1, DeskBusy
<1>3. d \in Days /\ budget[d] \in File BY <1>2, KeyType, ReadTypes
<1>4. chain' = [chain EXCEPT !["sentiment"] = r]
  BY DEF ReadForCharge, desk, Base, TypeOK, Askers
<1> HIDE DEF d
<1>5. r \in Ask /\ r.at = "charging" /\ r.on = d BY <1>1, <1>3 DEF Ask, Stages
<1> HIDE DEF r
<1>6. UNCHANGED job BY DEF ReadForCharge, Service
<1>7. chain' \in [Askers -> Ask] /\ ChainInv'
  BY <1>2, <1>4, <1>5, <1>6, ChainStep, StoryIsJob DEF Askers, d
<1> QED BY <1>7 DEF ReadForCharge, Service, Files, History, Base, TypeOK

LEMMA ChargeBase == ASSUME Base, Charge PROVE Base'
<1> DEFINE r == [desk EXCEPT !.at = "charged"]
<1>1. desk \in Ask /\ desk.at = "charging" BY ReadTypes DEF Charge, desk, Askers
<1>2. job \in Story BY <1>1, DeskBusy
<1>3. chain' = [chain EXCEPT !["sentiment"] = r]
  BY DEF Charge, desk, Base, TypeOK, Askers
<1>4. r \in Ask /\ r.at = "charged" BY <1>1 DEF Ask, Stages
<1> HIDE DEF r
<1>5. UNCHANGED job BY DEF Charge, Service
<1>6. chain' \in [Askers -> Ask] /\ ChainInv'
  BY <1>2, <1>3, <1>4, <1>5, ChainStep, StoryIsJob DEF Askers
<1>7. desk.on \in Days /\ desk.file \in File BY <1>1 DEF Ask
<1>8. PICK cost \in Costs :
         /\ own' = IF desk.on = job.checked THEN Add(own, desk.on, cost) ELSE own
         /\ \/ /\ budget' = [budget EXCEPT ![desk.on] = Charged(desk.file, cost)]
               /\ loose' \in {loose, loose \cup {desk.on}}
               /\ UNCHANGED <<missed, allow>>
            \/ /\ LoseOne
               /\ missed' = missed \cup {desk.on}
               /\ UNCHANGED <<budget, loose>>
  BY DEF Charge, desk
<1>9. own' \in [Days -> [calls : Nat, tokens : Nat]]
  BY <1>7, <1>8, ChargedType DEF Add, Base, TypeOK
<1>10. budget' \in [Days -> File]
  BY SMTT(60), <1>7, <1>8, ChargedType DEF Base, TypeOK
<1>11. /\ missed' \subseteq Days /\ loose' \subseteq Days
       /\ allow' \in [faults : Nat, chats : Nat]
  BY <1>7, <1>8 DEF LoseOne, Base, TypeOK
<1> QED BY <1>6, <1>9, <1>10, <1>11 DEF Charge, Service, Base, TypeOK

LEMMA InvestigationEndsBase == ASSUME Base, InvestigationEnds PROVE Base'
<1>1. job \in Story BY DeskBusy DEF InvestigationEnds, desk
<1>2. Store(job, Thesis(job)) BY DEF InvestigationEnds
<1>3. UNCHANGED <<now, queue, reports, budget, asked, own, answered, missed, loose>>
  BY DEF InvestigationEnds, History
<1> QED BY <1>1, <1>2, <1>3, StoreBase, NoteType

LEMMA DiesBase == ASSUME Base, Dies PROVE Base'
<1>1. /\ chain' \in [Askers -> Ask] /\ chain'["sentiment"] = NoAsk
      /\ chain'["advisor"] = chain["advisor"]
  BY NoAskType DEF Dies, Base, TypeOK, Askers
<1>2. ChainInv'
  <2>1. NoAsk.at = "idle" BY DEF NoAsk
  <2> QED BY <1>1, <2>1 DEF Base, ChainInv, desk, Askers
<1>3. receipts' \in [Keys -> Receipts \cup {None}]
  BY DEF Dies, OnDisk, Base, TypeOK
<1>4. missed' \subseteq Days
  <2>1. desk.at # "idle" => Day(job) \in Days BY DeskBusy, KeyType
  <2> QED BY <2>1 DEF Dies, desk, Base, TypeOK
<1>5. allow' \in [faults : Nat, chats : Nat] BY DEF Dies, LoseOne, Base, TypeOK
<1> QED BY <1>1, <1>2, <1>3, <1>4, <1>5 DEF Dies, Base, TypeOK

LEMMA StepBase == Base /\ [Next]_vars => Base'
<1> SUFFICES ASSUME Base, [Next]_vars PROVE Base' OBVIOUS
<1> QED BY QuietBase, ConsiderBase, CompleteBase, AnswerBase, ProviderFailsBase,
           ReadForPinBase, PinBase, ReadForChargeBase, ChargeBase,
           InvestigationEndsBase, DiesBase DEF Next

-----------------------------------------------------------------------------
(* A key is put to the models once. *)

AskedStep ==
    chain["sentiment"].at = "idle" /\ chain'["sentiment"].at = "asking"
        => CacheKey(job) \notin asked

LEMMA InitAsked == Init => AskedInv
BY DEF Init, AskedInv

LEMMA QuietAsked ==
    ASSUME Base, AskedInv, UNCHANGED <<job, chain, receipts, asked>>
    PROVE  AskedInv' /\ AskedStep
BY DEF AskedInv, AskedStep, desk, CacheKey, Day

\* The steps of a completion between the question and the receipt.
LEMMA UnderWay ==
    ASSUME Base, NEW q \in Askers,
           Answer(q) \/ ReadForPin(q) \/ Pin(q) \/ ReadForCharge \/ Charge
    PROVE  /\ UNCHANGED <<job, receipts, asked>>
           /\ desk.at = "idle" <=> desk'.at = "idle"
           /\ desk'.at = "asking" => desk.at = "asking"
<1>1. UNCHANGED <<job, receipts, asked>>
  BY DEF Answer, ReadForPin, Pin, ReadForCharge, Charge, Service, Files, History
<1>2. \A r \in Askers : chain[r] \in Ask BY ReadTypes
<1>3. CASE Answer(q)
  <2>1. \E r \in Ask : /\ chain' = [chain EXCEPT ![q] = r]
                       /\ q = "sentiment" => r.at \in {"ok", "answered"}
    <3> DEFINE p == Head(chain[q].left)
    <3>1. chain[q].left \in Seq(Models) /\ chain[q].left # <<>>
      BY <1>2, <1>3 DEF Answer, Ask, Base, ChainInv
    <3>2. p \in Models BY <3>1
    <3>3. /\ [chain[q] EXCEPT !.at = "ok", !.by = p] \in Ask
          /\ [chain[q] EXCEPT !.at = "ok", !.by = p].at = "ok"
          /\ [chain[q] EXCEPT !.at = "answered", !.by = p] \in Ask
          /\ [chain[q] EXCEPT !.at = "answered", !.by = p].at = "answered"
      BY ZenonT(60), <1>2, <3>2 DEF Ask, Stages
    <3>4. \/ chain' = [chain EXCEPT ![q] = Done(q, [chain[q] EXCEPT !.at = "ok", !.by = p])]
          \/ chain' = [chain EXCEPT ![q] = [chain[q] EXCEPT !.at = "answered", !.by = p]]
      BY <1>3 DEF Answer
    <3> QED BY <3>3, <3>4, NoAskType DEF Done, Askers
  <2>2. chain[q].at = "asking" BY <1>3 DEF Answer
  <2> QED BY <1>1, <2>1, <2>2 DEF desk, Base, TypeOK, Askers
<1>4. CASE ReadForPin(q)
  <2>1. chain[q].at = "answered" /\ chain'[q].at = "pinning"
        /\ \A r \in Askers \ {q} : chain'[r] = chain[r]
    BY <1>2, <1>4 DEF ReadForPin, Base, TypeOK, Ask
  <2> QED BY <1>1, <2>1 DEF desk, Askers
<1>5. CASE Pin(q)
  <2>1. chain' = [chain EXCEPT ![q] = Done(q, [chain[q] EXCEPT !.at = "ok"])]
        /\ chain[q].at = "pinning"
    BY <1>5 DEF Pin
  <2>2. q = "sentiment" => chain'[q].at = "ok"
    BY <1>2, <2>1 DEF Done, Ask, Base, TypeOK
  <2>3. \A r \in Askers \ {q} : chain'[r] = chain[r] BY <2>1 DEF Base, TypeOK
  <2> QED BY SMTT(60), <1>1, <2>1, <2>2, <2>3 DEF desk, Askers
<1>6. CASE ReadForCharge
  <2>1. desk.at = "ok" /\ desk'.at = "charging"
    BY <1>2, <1>6 DEF ReadForCharge, Base, TypeOK, Ask, desk, Askers
  <2> QED BY <1>1, <2>1
<1>7. CASE Charge
  <2>1. desk.at = "charging" /\ desk'.at = "charged"
    BY <1>2, <1>7 DEF Charge, Base, TypeOK, Ask, desk, Askers
  <2> QED BY <1>1, <2>1
<1> QED BY SMTT(60), <1>3, <1>4, <1>5, <1>6, <1>7

LEMMA UnderWayAsked ==
    ASSUME Base, AskedInv, NEW q \in Askers,
           Answer(q) \/ ReadForPin(q) \/ Pin(q) \/ ReadForCharge \/ Charge
    PROVE  AskedInv' /\ AskedStep
BY UnderWay DEF AskedInv, AskedStep, desk, CacheKey, Day

LEMMA StoreAsked ==
    ASSUME Base, AskedInv, NEW j \in Story, job \in {j, NoJob}, NEW rec \in Receipts,
           Store(j, rec), UNCHANGED asked
    PROVE  AskedInv' /\ AskedStep
<1>1. /\ receipts' = [receipts EXCEPT ![CacheKey(j)] = rec]
      /\ job' = NoJob /\ chain'["sentiment"] = NoAsk
  BY Stored DEF Base, TypeOK
<1>2. rec # None BY NoneAssumption
<1>3. CacheKey(j) \in Keys BY KeyType
<1>4. ASSUME NEW k \in asked PROVE receipts'[k] # None
  <2>1. k \in Keys BY DEF Base, TypeOK
  <2>2. CASE k = CacheKey(j) BY <1>1, <1>2, <1>3, <2>2 DEF Base, TypeOK
  <2>3. CASE k # CacheKey(j)
    <3>1. receipts[k] # None BY <2>3 DEF AskedInv
    <3> QED BY <1>1, <2>1, <2>3, <3>1 DEF Base, TypeOK
  <2> QED BY <2>2, <2>3
<1> QED BY <1>1, <1>4 DEF AskedInv, AskedStep, NoAsk

LEMMA ConsiderAsked == ASSUME Base, AskedInv, Consider PROVE AskedInv' /\ AskedStep
<1>1. PICK items \in queue, j \in Story :
         \/ UNCHANGED <<job, chain, receipts>>
         \/ Store(j, Plain)
         \/ /\ Lookup(j) = None
            /\ job' = j
            /\ UNCHANGED <<chain, receipts>>
  BY Considered
<1>2. UNCHANGED asked /\ job = NoJob BY DEF Consider, History
<1>3. CASE UNCHANGED <<job, chain, receipts>> BY <1>2, <1>3, QuietAsked
<1>4. CASE Store(j, Plain) BY <1>2, <1>4, StoreAsked, NoteType
<1>5. CASE Lookup(j) = None /\ job' = j /\ UNCHANGED <<chain, receipts>>
  <2>1. \A k \in asked : receipts[k] # None BY <1>2 DEF AskedInv
  <2>2. CacheKey(job)' = CacheKey(j) BY <1>5 DEF CacheKey, Day
  <2> QED BY <1>2, <1>5, <2>1, <2>2 DEF AskedInv, AskedStep, Lookup
<1> QED BY <1>1, <1>3, <1>4, <1>5

LEMMA CompleteAsked ==
    ASSUME Base, AskedInv, NEW q \in Askers, Complete(q)
    PROVE  AskedInv' /\ AskedStep
<1>1. UNCHANGED <<job, receipts>> BY DEF Complete, Service, Files
<1>2. CASE q = "advisor"
  <2>1. UNCHANGED asked /\ desk' = desk
    BY <1>2 DEF Complete, desk, Base, TypeOK, Askers
  <2> QED BY <1>1, <2>1 DEF AskedInv, AskedStep, desk, CacheKey, Day
<1>3. CASE q = "sentiment"
  <2>1. job # NoJob /\ asked' = asked \cup {CacheKey(job)} /\ desk.at = "idle"
    BY <1>3 DEF Complete, desk
  <2>2. desk'.at = "asking" BY <1>3 DEF Complete, desk, NoAsk, Base, TypeOK, Askers
  <2>3. \A k \in asked : receipts[k] # None BY <2>1 DEF AskedInv
  <2>4. receipts[CacheKey(job)] = None BY <2>1 DEF AskedInv
  <2> QED BY <1>1, <2>1, <2>2, <2>3, <2>4 DEF AskedInv, AskedStep, CacheKey, Day
<1> QED BY <1>2, <1>3 DEF Askers

LEMMA ProviderFailsAsked ==
    ASSUME Base, AskedInv, NEW q \in Askers, ProviderFails(q)
    PROVE  AskedInv' /\ AskedStep
<1>1. UNCHANGED asked /\ chain[q].at = "asking" BY DEF ProviderFails, History
<1>2. CASE q = "sentiment" /\ Failed(job)
  <2>1. job \in Story BY <1>1, <1>2, DeskBusy DEF desk
  <2> QED BY <1>1, <1>2, <2>1, StoreAsked, NoteType DEF Failed
<1>3. CASE UNCHANGED <<job, receipts>> /\ chain' = [chain EXCEPT ![q].left = Tail(chain[q].left)]
  <2>1. desk'.at = desk.at
    BY <1>3, ReadTypes DEF desk, Base, TypeOK, Ask, Askers
  <2> QED BY <1>1, <1>3, <2>1 DEF AskedInv, AskedStep, desk, CacheKey, Day
<1>4. CASE q = "advisor" /\ UNCHANGED <<job, receipts>> /\ chain' = [chain EXCEPT ![q] = NoAsk]
  <2>1. desk' = desk BY <1>4 DEF desk, Base, TypeOK, Askers
  <2> QED BY <1>1, <1>4, <2>1 DEF AskedInv, AskedStep, desk, CacheKey, Day
<1> QED BY <1>2, <1>3, <1>4 DEF ProviderFails

\* What was not on disk, and the story at the desk, may be asked again.
LEMMA DiesAsked == ASSUME Base, AskedInv, Dies PROVE AskedInv' /\ AskedStep
<1>1. /\ job' = NoJob /\ receipts' = OnDisk
      /\ asked' = asked \ (unsaved \cup (IF job = NoJob THEN {} ELSE {CacheKey(job)}))
      /\ chain'["sentiment"] = NoAsk
  BY DEF Dies, Base, TypeOK, Askers
<1>2. ASSUME NEW k \in asked' PROVE receipts'[k] # None
  <2>1. k \in asked /\ k \notin unsaved /\ k \in Keys BY <1>1 DEF Base, TypeOK
  <2>2. receipts[k] # None BY <1>1, <2>1 DEF AskedInv
  <2>3. OnDisk[k] = receipts[k] BY <2>1 DEF OnDisk, Base, TypeOK
  <2> QED BY <1>1, <2>2, <2>3
<1> QED BY <1>1, <1>2 DEF AskedInv, AskedStep, NoAsk

LEMMA StepAsked ==
    ASSUME Base, AskedInv, [Next]_vars
    PROVE  AskedInv' /\ AskedStep
<1>1. CASE \/ Later \/ GetInvestigations \/ FoundFresh \/ TickEnds \/ RefreshEnds
           \/ Refresh("tick") \/ Refresh("loop") \/ UNCHANGED vars
  <2>1. UNCHANGED <<job, chain, receipts, asked>>
    BY <1>1 DEF Later, GetInvestigations, FoundFresh, TickEnds, RefreshEnds, Refresh, vars,
       Files, History
  <2> QED BY <2>1, QuietAsked
<1>2. CASE InvestigationEnds
  <2>1. job \in Story BY <1>2, DeskBusy DEF InvestigationEnds, desk
  <2> QED BY <1>2, <2>1, StoreAsked, NoteType DEF InvestigationEnds, History
<1>3. "sentiment" \in Askers BY DEF Askers
<1> QED BY <1>1, <1>2, <1>3, ConsiderAsked, CompleteAsked, UnderWayAsked, ProviderFailsAsked,
           DiesAsked DEF Next

-----------------------------------------------------------------------------
(* Nothing the service holds is of later. *)

LEMMA InitNews == Init => NewsInv
<1> SUFFICES ASSUME Init PROVE NewsInv OBVIOUS
<1>1. queue = {} /\ made = {} /\ reports = {} /\ job.items = {}
      /\ \A k \in Keys : receipts[k] = None
  BY DEF Init, NoJob, Keys
<1> QED BY <1>1 DEF NewsInv, Past

LEMMA QuietNews ==
    ASSUME NewsInv, UNCHANGED <<now, queue, made, reports, job, receipts>>
    PROVE  NewsInv'
BY DEF NewsInv, Past

LEMMA LaterNews == ASSUME Base, NewsInv, Later PROVE NewsInv'
<1>1. UNCHANGED <<queue, made, reports, job, receipts>> BY DEF Later, Files
<1>2. now \in Nat /\ now' = now + 1 BY TimeType DEF Later, Base, TypeOK
<1>3. ASSUME NEW items \in SUBSET Items, Past(items) PROVE \A i \in items : i.t <= now'
  <2>1. \A i \in items : i.t \in Nat BY TimeType DEF Items
  <2> QED BY <1>2, <1>3, <2>1 DEF Past
<1>4. /\ queue \subseteq SUBSET Items /\ job.items \in SUBSET Items
      /\ \A r \in made \cup reports : r.read \in SUBSET Items
      /\ \A k \in Keys : receipts[k] # None => receipts[k].read \in SUBSET Items
  BY DEF Base, TypeOK, Made, Receipts, Story, NoJob
<1> QED BY <1>1, <1>3, <1>4 DEF NewsInv, Past

\* The feeds are filtered, the mock is of this hour.
LEMMA RefreshNews == ASSUME Base, NewsInv, NEW by, Refresh(by) PROVE NewsInv'
<1>1. PICK sent \in Fetch : queue' \in Queues(ClusterNews(Gathered(sent)))
  BY DEF Refresh
<1>2. now \in Nat BY TimeType DEF Base, TypeOK
<1>3. \A i \in Gathered(sent) : i.t <= now BY <1>2 DEF Gathered, Known, MockNews
<1>4. \A c \in queue' : \A i \in c : i.t <= now BY <1>1, <1>3 DEF Queues, ClusterNews
<1>5. UNCHANGED <<now, made, reports, job, receipts>> BY DEF Refresh, Files
<1> QED BY <1>4, <1>5 DEF NewsInv, Past

LEMMA StoreNews ==
    ASSUME Base, NewsInv, NEW j \in Story, NEW rec \in Receipts, Past(rec.read), Store(j, rec),
           queue' \subseteq queue, UNCHANGED <<now, reports>>
    PROVE  NewsInv'
<1>1. /\ receipts' = [receipts EXCEPT ![CacheKey(j)] = rec]
      /\ made' = made \cup {Report(j, rec)} /\ job' = NoJob
  BY Stored DEF Base, TypeOK
<1>2. Report(j, rec).read = rec.read BY DEF Report
<1>3. ASSUME NEW k \in Keys, receipts'[k] # None PROVE Past(receipts'[k].read)
  <2>1. receipts'[k] \in {receipts[k], rec} BY <1>1 DEF Base, TypeOK
  <2> QED BY <1>3, <2>1 DEF NewsInv
<1>4. NoJob.items = {} BY DEF NoJob
<1> QED BY <1>1, <1>2, <1>3, <1>4 DEF NewsInv, Past

LEMMA ConsiderNews == ASSUME Base, NewsInv, Consider PROVE NewsInv'
<1>1. PICK items \in queue, j \in Story :
         /\ j.items = items /\ queue' = queue \ {items}
         /\ \/ /\ Lookup(j) # None
               /\ made' = made \cup {Report(j, Lookup(j))}
               /\ UNCHANGED <<job, receipts>>
            \/ Store(j, Plain)
            \/ /\ job' = j
               /\ UNCHANGED <<made, receipts>>
  BY Considered
<1>2. UNCHANGED <<now, reports>> BY DEF Consider
<1>3. CASE Lookup(j) # None /\ made' = made \cup {Report(j, Lookup(j))} /\ UNCHANGED <<job, receipts>>
  <2>1. Past(Lookup(j).read) BY <1>3, KeyType DEF Lookup, NewsInv
  <2>2. Report(j, Lookup(j)).read = Lookup(j).read BY DEF Report
  <2> QED BY <1>1, <1>2, <1>3, <2>1, <2>2 DEF NewsInv, Past
<1>4. CASE Store(j, Plain)
  <2>1. Past(Plain.read) BY DEF Past, Plain
  <2> QED BY <1>1, <1>2, <1>4, <2>1, StoreNews, NoteType
<1>5. CASE job' = j /\ UNCHANGED <<made, receipts>>
  BY <1>1, <1>2, <1>5 DEF NewsInv, Past
<1> QED BY <1>1, <1>3, <1>4, <1>5

LEMMA StepNews == ASSUME Base, NewsInv, [Next]_vars PROVE NewsInv'
<1>1. CASE RefreshEnds
  BY <1>1 DEF RefreshEnds, Files, NewsInv, Past
<1>2. CASE InvestigationEnds
  <2>1. job \in Story BY <1>2, DeskBusy DEF InvestigationEnds, desk
  <2>2. Past(Thesis(job).read) BY DEF Thesis, NewsInv
  <2> QED BY <1>2, <2>1, <2>2, StoreNews, NoteType DEF InvestigationEnds
<1>3. ASSUME NEW q \in Askers, ProviderFails(q) PROVE NewsInv'
  <2>1. UNCHANGED <<now, queue, reports>> BY <1>3 DEF ProviderFails
  <2>2. CASE q = "sentiment" /\ Failed(job)
    <3>1. job \in Story BY <1>3, <2>2, DeskBusy DEF ProviderFails, desk
    <3>2. Past(Plain.read) BY DEF Past, Plain
    <3> QED BY <2>1, <2>2, <3>1, <3>2, StoreNews, NoteType DEF Failed
  <2>3. CASE UNCHANGED <<made, job, receipts>> BY <2>1, <2>3, QuietNews
  <2> QED BY <1>3, <2>2, <2>3 DEF ProviderFails
<1>4. CASE Dies
  <2>1. /\ queue' = {} /\ made' = {} /\ reports' = {} /\ job' = NoJob /\ now' = now
        /\ receipts' = OnDisk
    BY <1>4 DEF Dies
  <2>2. \A k \in Keys : OnDisk[k] # None => OnDisk[k] = receipts[k]
    BY DEF OnDisk, Base, TypeOK
  <2>3. NoJob.items = {} BY SMTT(60) DEF NoJob
  <2> QED BY <2>1, <2>2, <2>3 DEF NewsInv, Past
<1>5. ASSUME NEW q \in Askers,
             Complete(q) \/ Answer(q) \/ ReadForPin(q) \/ Pin(q) \/ ReadForCharge \/ Charge
      PROVE  NewsInv'
  BY <1>5, QuietNews DEF Complete, Answer, ReadForPin, Pin, ReadForCharge, Charge, Service, Files
<1>6. CASE GetInvestigations \/ FoundFresh \/ TickEnds \/ UNCHANGED vars
  BY <1>6, QuietNews DEF GetInvestigations, FoundFresh, TickEnds, vars, Files
<1>7. "sentiment" \in Askers BY DEF Askers
<1> QED BY <1>1, <1>2, <1>3, <1>4, <1>5, <1>6, <1>7, LaterNews, RefreshNews, ConsiderNews DEF Next

-----------------------------------------------------------------------------
(* The answers a day used are of one model. *)

LEMMA InitPin == Init => PinInv
<1>1. NoAsk.at = "idle" BY DEF NoAsk
<1> QED BY <1>1 DEF Init, PinInv, Used

\* Steps that write no file, use no answer and ask nobody else.
LEMMA QuietPin ==
    ASSUME PinInv, UNCHANGED <<budget, answered, loose>>,
           \A q \in Askers : chain'[q] = chain[q] \/ chain'[q].at # "asking"
    PROVE  PinInv'
BY DEF PinInv, Used

LEMMA CompletePin == ASSUME Base, PinInv, NEW q \in Askers, Complete(q) PROVE PinInv'
<1> DEFINE d == ISTDay(now)  pin == budget[ISTDay(now)].pin
           k == [NoAsk EXCEPT !.at = "asking", !.pinned = (pin # None), !.day = d,
                              !.left = IF pin = None THEN Providers ELSE Pinned(pin)]
<1>1. chain' = [chain EXCEPT ![q] = k] BY DEF Complete
<1>2. k.pinned => pin # None /\ k.day = d /\ k.left = <<pin>> BY DEF Pinned, NoAsk
<1>3. UNCHANGED <<budget, answered, loose>> BY DEF Complete, Files
<1> HIDE DEF k
<1>4. chain'[q] = k /\ \A r \in Askers \ {q} : chain'[r] = chain[r]
  BY <1>1 DEF Base, TypeOK
<1> QED BY <1>2, <1>3, <1>4 DEF PinInv, Used

LEMMA AnswerPin == ASSUME Base, PinInv, NEW q \in Askers, Answer(q) PROVE PinInv'
<1> DEFINE k == chain[q]  p == Head(chain[q].left)
<1>1. k \in Ask /\ k.at = "asking" BY ReadTypes DEF Answer
<1>2. UNCHANGED <<budget, loose>> BY DEF Answer, Files
<1>3. \A r \in Askers : chain'[r] = chain[r] \/ chain'[r].at # "asking"
  <2>1. \A r \in Askers \ {q} : chain'[r] = chain[r] BY DEF Answer, Base, TypeOK
  <2>2. [k EXCEPT !.at = "ok", !.by = p].at = "ok"
        /\ [k EXCEPT !.at = "answered", !.by = p].at = "answered" /\ NoAsk.at = "idle"
    BY <1>1 DEF Ask, NoAsk
  <2>3. chain'[q] \in {NoAsk, [k EXCEPT !.at = "ok", !.by = p], [k EXCEPT !.at = "answered", !.by = p]}
    BY DEF Answer, Done, Base, TypeOK
  <2> QED BY <2>1, <2>2, <2>3
<1>4. ASSUME NEW d \in Days \ loose, NEW m \in answered'[d] PROVE m = budget[d].pin
  <2>1. CASE m \in answered[d] BY <1>4, <2>1 DEF PinInv, Used
  <2>2. CASE m \notin answered[d]
    <3>1. k.pinned /\ m = p /\ d = k.day BY <1>4, <2>2 DEF Answer, Base, TypeOK
    <3>2. k.left = <<budget[d].pin>> BY <1>1, <3>1 DEF PinInv
    <3> QED BY <3>1, <3>2
  <2> QED BY <2>1, <2>2
<1> QED BY <1>2, <1>3, <1>4 DEF PinInv, Used

\* The file's pin is nobody's, or of the model that answered, or the day is loose.
LEMMA PinPin == ASSUME Base, PinInv, NEW q \in Askers, Pin(q) PROVE PinInv'
<1> DEFINE k == chain[q]
<1>1. k \in Ask /\ k.at = "pinning" /\ k.by \in Models /\ k.by # None
  BY ReadTypes, NoneAssumption DEF Pin, Base, ChainInv
<1>2. k.on \in Days /\ k.file \in File BY <1>1 DEF Ask
<1>3. \A r \in Askers : chain'[r] = chain[r] \/ chain'[r].at # "asking"
  <2>1. \A r \in Askers \ {q} : chain'[r] = chain[r] BY DEF Pin, Base, TypeOK
  <2>2. [k EXCEPT !.at = "ok"].at = "ok" /\ NoAsk.at = "idle" BY <1>1 DEF Ask, NoAsk
  <2>3. chain'[q] \in {NoAsk, [k EXCEPT !.at = "ok"]} BY DEF Pin, Done, Base, TypeOK
  <2> QED BY <2>1, <2>2, <2>3
<1>4. loose \subseteq loose' BY DEF Pin
<1>5. \A d \in Days \ {k.on} : budget'[d] = budget[d] /\ answered'[d] = answered[d]
  BY DEF Pin, Base, TypeOK
<1>6. CASE k.on \in loose'
  <2>1. \A d \in Days \ loose' :
           d \in Days \ loose /\ budget'[d] = budget[d] /\ answered'[d] = answered[d]
    BY <1>4, <1>5, <1>6
  <2>2. \A r \in Askers : chain[r].day \in Days BY ReadTypes DEF Ask
  <2>3. \A d \in Days \ loose' : \A m \in answered'[d] : m = budget'[d].pin
    BY <2>1 DEF PinInv, Used
  <2> QED BY <1>3, <2>1, <2>2, <2>3 DEF PinInv, Used
<1>7. CASE k.on \notin loose'
  <2>1. /\ budget' = [budget EXCEPT ![k.on] = [k.file EXCEPT !.pin = k.by]]
        /\ budget[k.on].pin \in {None, k.by}
        /\ answered' = [answered EXCEPT ![k.on] = @ \cup {k.by}]
    BY <1>7 DEF Pin
  <2>2. [k.file EXCEPT !.pin = k.by].pin = k.by BY <1>2 DEF File
  <2>3. budget'[k.on].pin = k.by BY <1>2, <2>1, <2>2 DEF Base, TypeOK
  <2>4. \A m \in answered[k.on] : m = budget[k.on].pin /\ m # None
    BY <1>2, <1>4, <1>7, NoneAssumption DEF PinInv, Used, Base, TypeOK
  <2>5. \A m \in answered'[k.on] : m = k.by BY <1>2, <2>1, <2>4 DEF Base, TypeOK
  <2>6. \A d \in Days \ loose' : \A m \in answered'[d] : m = budget'[d].pin
    BY <1>4, <1>5, <2>3, <2>5 DEF PinInv, Used
  <2>7. \A d \in Days \ loose' : budget[d].pin # None => budget'[d].pin = budget[d].pin
    BY <1>5, <2>1, <2>3
  <2>8. \A r \in Askers : chain[r].day \in Days BY ReadTypes DEF Ask
  <2> QED BY <1>3, <1>4, <2>6, <2>7, <2>8 DEF PinInv, Used
<1> QED BY SMTT(60), <1>6, <1>7
\* The pin of a file is still the one that was read, or the day is loose.
LEMMA ChargePin == ASSUME Base, PinInv, Charge PROVE PinInv'
<1>1. desk \in Ask /\ desk.at = "charging" BY ReadTypes DEF Charge, desk, Askers
<1>2. desk.on \in Days /\ desk.file \in File BY <1>1 DEF Ask
<1>3. UNCHANGED answered /\ loose \subseteq loose' BY DEF Charge
<1>4. \A q \in Askers : chain'[q] = chain[q] \/ chain'[q].at # "asking"
  <2>1. desk'.at = "charged" BY <1>1 DEF Charge, desk, Base, TypeOK, Ask, Askers
  <2>2. \A q \in Askers \ {"sentiment"} : chain'[q] = chain[q] BY DEF Charge, Base, TypeOK
  <2> QED BY <2>1, <2>2 DEF desk
<1>5. \A d \in Days \ loose' : budget'[d].pin = budget[d].pin
  <2>1. CASE UNCHANGED budget BY <2>1
  <2>2. ASSUME NEW cost \in Costs, budget' = [budget EXCEPT ![desk.on] = Charged(desk.file, cost)],
               loose' = IF budget[desk.on].pin # desk.file.pin THEN loose \cup {desk.on} ELSE loose
        PROVE  \A d \in Days \ loose' : budget'[d].pin = budget[d].pin
    <3>1. Charged(desk.file, cost).pin = desk.file.pin BY <1>2, ChargedType
    <3>2. budget'[desk.on].pin = desk.file.pin BY <1>2, <2>2, <3>1 DEF Base, TypeOK
    <3>3. desk.on \notin loose' => budget[desk.on].pin = desk.file.pin BY <2>2
    <3>4. \A d \in Days \ {desk.on} : budget'[d] = budget[d] BY <2>2 DEF Base, TypeOK
    <3> QED BY <3>2, <3>3, <3>4
  <2> QED BY <2>1, <2>2 DEF Charge, desk
<1>6. \A d \in Days \ loose' : d \in Days \ loose BY <1>3
<1>7. \A r \in Askers : chain[r].day \in Days BY ReadTypes DEF Ask
<1>8. \A d \in Days \ loose' : \A m \in answered'[d] : m = budget'[d].pin
  BY <1>3, <1>5, <1>6 DEF PinInv, Used
<1> QED BY <1>4, <1>5, <1>6, <1>7, <1>8 DEF PinInv, Used

\* Who asks the pinned provider has nobody after it.
LEMMA ProviderFailsPin == ASSUME Base, PinInv, NEW q \in Askers, ProviderFails(q) PROVE PinInv'
<1>1. UNCHANGED <<budget, answered, loose>> BY DEF ProviderFails, History
<1>2. CASE \A r \in Askers : chain'[r] = chain[r] \/ chain'[r].at # "asking"
  BY <1>1, <1>2, QuietPin
<1>3. CASE q = "sentiment" /\ Failed(job)
  <2>1. chain'["sentiment"] = NoAsk /\ chain'["advisor"] = chain["advisor"]
    BY <1>3, NoAskType DEF Failed, Store, NextJob, Base, TypeOK, Askers
  <2>2. NoAsk.at = "idle" BY DEF NoAsk
  <2> QED BY <1>2, <2>1, <2>2 DEF Askers
<1>4. CASE chain' = [chain EXCEPT ![q] = NoAsk]
  <2>1. chain'[q] = NoAsk /\ \A r \in Askers \ {q} : chain'[r] = chain[r]
    BY <1>4 DEF Base, TypeOK
  <2>2. NoAsk.at = "idle" BY DEF NoAsk
  <2> QED BY <1>2, <2>1, <2>2
<1>5. CASE Tail(chain[q].left) # <<>> /\ chain' = [chain EXCEPT ![q].left = Tail(chain[q].left)]
  <2>1. /\ chain[q] \in Ask /\ chain'[q] = [chain[q] EXCEPT !.left = Tail(chain[q].left)]
        /\ \A r \in Askers \ {q} : chain'[r] = chain[r]
    BY <1>5, ReadTypes DEF Base, TypeOK
  <2>2. /\ chain'[q].pinned = chain[q].pinned /\ chain'[q].day = chain[q].day
        /\ chain[q].at = "asking"
    BY <2>1 DEF Ask, ProviderFails
  <2>3. ~(chain[q].pinned /\ chain[q].day \notin loose)
    <3>1. \A m : Tail(<<m>>) = <<>> OBVIOUS
    <3> QED BY <1>5, <2>2, <3>1 DEF PinInv
  <2> QED BY ZenonT(60), <1>1, <2>1, <2>2, <2>3 DEF PinInv, Used
<1> QED BY <1>3, <1>4, <1>5 DEF ProviderFails

LEMMA StepPin == ASSUME Base, PinInv, [Next]_vars PROVE PinInv'
<1>1. CASE \/ Later \/ GetInvestigations \/ FoundFresh \/ TickEnds \/ RefreshEnds
           \/ Refresh("tick") \/ Refresh("loop") \/ UNCHANGED vars
  <2>1. UNCHANGED <<chain, budget, answered, loose>>
    BY <1>1 DEF Later, GetInvestigations, FoundFresh, TickEnds, RefreshEnds, Refresh, vars,
       Files, History
  <2> QED BY <2>1, QuietPin
<1>2. ASSUME chain' \in {chain, [chain EXCEPT !["sentiment"] = NoAsk]},
             UNCHANGED <<budget, answered, loose>>
      PROVE  PinInv'
  <2>1. NoAsk.at = "idle" BY DEF NoAsk
  <2>2. \A q \in Askers : chain'[q] \in {chain[q], NoAsk} BY <1>2 DEF Base, TypeOK
  <2> QED BY <1>2, <2>1, <2>2, QuietPin
<1>3. CASE InvestigationEnds
  BY <1>2, <1>3 DEF InvestigationEnds, Store, NextJob, History
<1>4. CASE Consider BY <1>2, <1>4 DEF Consider, Store, NextJob, History
<1>5. CASE Dies BY <1>2, <1>5 DEF Dies
<1>6. ASSUME NEW q \in Askers, ReadForPin(q) \/ ReadForCharge PROVE PinInv'
  <2>1. UNCHANGED <<budget, answered, loose>> BY <1>6 DEF ReadForPin, ReadForCharge, Files, History
  <2>2. \A r \in Askers : chain'[r] = chain[r] \/ chain'[r].at # "asking"
    BY SMTT(60), <1>6, ReadTypes DEF ReadForPin, ReadForCharge, Base, TypeOK, Ask, Askers
  <2> QED BY <2>1, <2>2, QuietPin
<1>7. "sentiment" \in Askers BY DEF Askers
<1> QED BY <1>1, <1>3, <1>4, <1>5, <1>6, <1>7, CompletePin, AnswerPin, PinPin, ChargePin,
           ProviderFailsPin DEF Next
-----------------------------------------------------------------------------
(* The caps hold on the news of the day. *)

LEMMA InitCap == Init => CapInv
<1> SUFFICES ASSUME Init PROVE CapInv OBVIOUS
<1>1. \A d \in Days : own[d] = Nothing /\ budget[d] = NoFile BY DEF Init
<1>2. \A q \in Askers : chain[q].at = "idle" BY DEF Init, NoAsk
<1>3. MaxCalls \in Nat /\ MaxTokens \in Nat /\ \A cost \in Costs : cost \in Nat /\ cost > 0
  BY LimitAssumption
<1>4. /\ Nothing.calls = 0 /\ Nothing.tokens = 0 /\ NoFile.calls = 0 /\ NoFile.tokens = 0
  BY DEF Nothing, NoFile
<1>5. CapHoldsOnTodaysNews BY <1>1, <1>3, <1>4 DEF CapHoldsOnTodaysNews
<1>6. job = NoJob BY DEF Init
<1> QED BY <1>1, <1>2, <1>4, <1>5, <1>6 DEF CapInv, desk, Askers

\* Steps that charge nothing, write no file and take up neither a story nor a file.
LEMMA QuietCap ==
    ASSUME Base, CapInv, UNCHANGED <<own, budget>>, missed \subseteq missed', job' \in {job, NoJob},
           \A q \in Askers : chain'[q] = chain[q] \/ chain'[q].at \notin {"charging", "pinning"},
           desk.at = "charged" /\ job' # NoJob => desk'.at = "charged"
    PROVE  CapInv'
<1>1. CapHoldsOnTodaysNews' BY DEF CapInv, CapHoldsOnTodaysNews
<1>2. \A d \in Days \ missed' : d \in Days \ missed OBVIOUS
<1>3. \A d \in Days \ missed' :
         own'[d].calls <= budget'[d].calls /\ own'[d].tokens <= budget'[d].tokens
  BY <1>2 DEF CapInv
<1>4. (job # NoJob /\ desk.at # "charged" /\ job.checked \notin missed => Room(job.checked))'
  BY DEF CapInv, Room
<1>5. "sentiment" \in Askers BY DEF Askers
<1>6. (desk.at = "charging" /\ desk.on \notin missed =>
          /\ desk.file.calls = budget[desk.on].calls
          /\ desk.file.tokens = budget[desk.on].tokens)'
  BY <1>5 DEF CapInv, desk
<1>7. (\A q \in Askers :
          chain[q].at = "pinning" /\ chain[q].on \notin missed =>
              LET file == budget[chain[q].on]
              IN  /\ chain[q].file.calls <= file.calls
                  /\ chain[q].file.calls = file.calls => chain[q].file.tokens = file.tokens)'
  BY DEF CapInv
<1> QED BY <1>1, <1>3, <1>4, <1>6, <1>7 DEF CapInv

\* A story is let past a cap that the file, and so the day's own, is below.
LEMMA ConsiderCap == ASSUME Base, CapInv, Consider PROVE CapInv'
<1>1. PICK items \in queue, j \in Story :
         /\ j.checked = ISTDay(now)
         /\ \/ UNCHANGED <<job, chain>>
            \/ Store(j, Plain)
            \/ /\ ~Spent(ISTDay(now))
               /\ job' = j
               /\ UNCHANGED chain
  BY Considered
<1>2. UNCHANGED <<own, budget, missed>> /\ job = NoJob BY DEF Consider, History
<1>3. desk = NoAsk /\ NoAsk.at = "idle" BY <1>2 DEF Base, ChainInv, NoAsk
<1>4. CASE UNCHANGED <<job, chain>> BY <1>2, <1>4, QuietCap DEF desk
<1>5. CASE Store(j, Plain)
  <2>1. job' = NoJob /\ chain'["sentiment"] = NoAsk /\ chain'["advisor"] = chain["advisor"]
    BY SMTT(60), <1>5, Stored, NoteType DEF Base, TypeOK
  <2> QED BY <1>2, <1>3, <2>1, QuietCap DEF Askers
<1>6. CASE ~Spent(ISTDay(now)) /\ job' = j /\ UNCHANGED chain
  <2> DEFINE d == ISTDay(now)
  <2>1. d \in Days /\ budget[d] \in File BY ReadTypes
  <2>2. own[d] \in [calls : Nat, tokens : Nat] BY <2>1 DEF Base, TypeOK
  <2>3. budget[d].calls < MaxCalls /\ budget[d].tokens < MaxTokens
    <3>1. MaxCalls \in Nat /\ MaxTokens \in Nat BY LimitAssumption
    <3>2. budget[d].calls \in Nat /\ budget[d].tokens \in Nat BY <2>1 DEF File
    <3> QED BY <1>6, <3>1, <3>2 DEF Spent
  <2>4. d \notin missed => own[d].calls <= budget[d].calls /\ own[d].tokens <= budget[d].tokens
    BY <2>1 DEF CapInv
  <2>5. d \notin missed => Room(d)
    <3>1. MaxCalls \in Nat /\ MaxTokens \in Nat BY LimitAssumption
    <3>2. /\ budget[d].calls \in Nat /\ budget[d].tokens \in Nat
          /\ own[d].calls \in Nat /\ own[d].tokens \in Nat
      BY <2>1, <2>2 DEF File
    <3> QED BY <2>3, <2>4, <3>1, <3>2 DEF Room
  <2>6. (job # NoJob /\ desk.at # "charged" /\ job.checked \notin missed => Room(job.checked))'
    BY <1>1, <1>2, <1>6, <2>5 DEF Room
  <2> QED BY <1>2, <1>6, <2>6 DEF CapInv, desk, CapHoldsOnTodaysNews
<1> QED BY <1>1, <1>4, <1>5, <1>6

\* The desk's own file, read: no charge can come between but the desk's.
LEMMA ReadForChargeCap == ASSUME Base, CapInv, ReadForCharge PROVE CapInv'
<1>1. UNCHANGED <<own, budget, missed, job>> BY DEF ReadForCharge, Service, Files, History
<1>2. desk \in Ask /\ desk.at = "ok" BY ReadTypes DEF ReadForCharge, desk, Askers
<1>3. /\ desk' = [desk EXCEPT !.at = "charging", !.on = Day(job), !.file = budget[Day(job)]]
      /\ \A q \in Askers \ {"sentiment"} : chain'[q] = chain[q]
  BY DEF ReadForCharge, desk, Base, TypeOK, Askers
<1>4. desk'.at = "charging" /\ desk'.file = budget[desk'.on]
  BY <1>2, <1>3 DEF Ask
<1>5. \A q \in Askers : chain'[q].at = "pinning" => chain'[q] = chain[q]
  BY <1>3, <1>4 DEF desk
<1>6. (job # NoJob /\ desk.at # "charged" /\ job.checked \notin missed => Room(job.checked))'
  BY <1>1, <1>2 DEF CapInv, Room
<1>7. (\A q \in Askers :
          chain[q].at = "pinning" /\ chain[q].on \notin missed =>
              LET file == budget[chain[q].on]
              IN  /\ chain[q].file.calls <= file.calls
                  /\ chain[q].file.calls = file.calls => chain[q].file.tokens = file.tokens)'
  BY <1>1, <1>5 DEF CapInv
<1> QED BY <1>1, <1>4, <1>6, <1>7 DEF CapInv, CapHoldsOnTodaysNews

LEMMA ReadForPinCap == ASSUME Base, CapInv, NEW q \in Askers, ReadForPin(q) PROVE CapInv'
<1>1. UNCHANGED <<own, budget, missed, job>> BY DEF ReadForPin, Service, Files, History
<1>2. chain[q] \in Ask /\ chain[q].at = "answered" BY ReadTypes DEF ReadForPin
<1>3. ISTDay(now) \in Days /\ budget[ISTDay(now)] \in File BY ReadTypes
<1>4. /\ chain'[q].at = "pinning" /\ chain'[q].on = ISTDay(now)
      /\ chain'[q].file = budget[ISTDay(now)]
      /\ \A r \in Askers \ {q} : chain'[r] = chain[r]
  BY <1>2 DEF ReadForPin, Base, TypeOK, Ask
<1>5. (\A r \in Askers :
          chain[r].at = "pinning" /\ chain[r].on \notin missed =>
              LET file == budget[chain[r].on]
              IN  /\ chain[r].file.calls <= file.calls
                  /\ chain[r].file.calls = file.calls => chain[r].file.tokens = file.tokens)'
  <2>1. chain'[q].file.calls <= chain'[q].file.calls BY <1>3, <1>4 DEF File
  <2> QED BY <1>1, <1>4, <2>1 DEF CapInv
<1>6. desk'.at \in {"charging", "charged"} => desk' = desk BY <1>4 DEF desk, Askers
<1>7. desk.at = "charged" => desk' = desk BY <1>2, <1>4 DEF desk, Askers
<1>8. (job # NoJob /\ desk.at # "charged" /\ job.checked \notin missed => Room(job.checked))'
  BY <1>1, <1>7 DEF CapInv, Room
<1>9. (desk.at = "charging" /\ desk.on \notin missed =>
          /\ desk.file.calls = budget[desk.on].calls
          /\ desk.file.tokens = budget[desk.on].tokens)'
  BY <1>1, <1>6 DEF CapInv
<1> QED BY <1>1, <1>5, <1>8, <1>9 DEF CapInv, CapHoldsOnTodaysNews

\* A file written back for its pin has the charges it had, or the day has missed one.
LEMMA PinCap == ASSUME Base, CapInv, NEW q \in Askers, Pin(q) PROVE CapInv'
<1> DEFINE k == chain[q]
<1>1. k \in Ask /\ k.at = "pinning" BY ReadTypes DEF Pin
<1>2. k.on \in Days /\ k.file \in File BY <1>1 DEF Ask
<1>3. UNCHANGED <<own, job>> /\ missed \subseteq missed' BY SMTT(60) DEF Pin, Service
<1>4. \A d \in Days \ missed' :
         d \notin missed /\ budget'[d].calls = budget[d].calls /\ budget'[d].tokens = budget[d].tokens
  <2>1. CASE UNCHANGED budget BY <1>3, <2>1
  <2>2. CASE /\ budget' = [budget EXCEPT ![k.on] = [k.file EXCEPT !.pin = k.by]]
             /\ missed' = IF budget[k.on].calls = k.file.calls THEN missed ELSE missed \cup {k.on}
    <3>1. /\ [k.file EXCEPT !.pin = k.by].calls = k.file.calls
          /\ [k.file EXCEPT !.pin = k.by].tokens = k.file.tokens
      BY <1>2 DEF File
    <3>2. /\ budget'[k.on].calls = k.file.calls /\ budget'[k.on].tokens = k.file.tokens
          /\ \A d \in Days \ {k.on} : budget'[d] = budget[d]
      BY <1>2, <2>2, <3>1 DEF Base, TypeOK
    <3>3. k.on \notin missed' => k.file.calls = budget[k.on].calls /\ k.on \notin missed BY <2>2
    <3>4. k.on \notin missed' => k.file.tokens = budget[k.on].tokens BY <1>1, <3>3 DEF CapInv
    <3> QED BY <1>3, <3>2, <3>3, <3>4
  <2> QED BY <2>1, <2>2 DEF Pin
<1>5. /\ chain'[q].at \notin {"charging", "pinning", "charged"}
      /\ \A r \in Askers \ {q} : chain'[r] = chain[r]
  <2>1. [k EXCEPT !.at = "ok"].at = "ok" /\ NoAsk.at = "idle" BY <1>1 DEF Ask, NoAsk
  <2>2. chain'[q] \in {NoAsk, [k EXCEPT !.at = "ok"]} BY DEF Pin, Done, Base, TypeOK
  <2>3. \A r \in Askers \ {q} : chain'[r] = chain[r] BY DEF Pin, Base, TypeOK
  <2> QED BY <2>1, <2>2, <2>3
<1>6. \A r \in Askers : chain[r].on \in Days BY ReadTypes DEF Ask
<1>7. \A d \in Days \ missed' :
         own'[d].calls <= budget'[d].calls /\ own'[d].tokens <= budget'[d].tokens
  BY <1>3, <1>4 DEF CapInv
<1>8. (job # NoJob /\ desk.at # "charged" /\ job.checked \notin missed => Room(job.checked))'
  <2>1. desk.at = "charged" => desk' = desk BY <1>1, <1>5 DEF desk, Askers
  <2> QED BY <1>3, <2>1 DEF CapInv, Room
<1>9. (desk.at = "charging" /\ desk.on \notin missed =>
          /\ desk.file.calls = budget[desk.on].calls
          /\ desk.file.tokens = budget[desk.on].tokens)'
  <2>1. desk'.at = "charging" => desk' = desk /\ desk.on \in Days
    BY <1>5, <1>6 DEF desk, Askers
  <2> QED BY <1>3, <1>4, <2>1 DEF CapInv
<1>10. (\A r \in Askers :
          chain[r].at = "pinning" /\ chain[r].on \notin missed =>
              LET file == budget[chain[r].on]
              IN  /\ chain[r].file.calls <= file.calls
                  /\ chain[r].file.calls = file.calls => chain[r].file.tokens = file.tokens)'
  <2>1. \A r \in Askers : chain'[r].at = "pinning" => chain'[r] = chain[r] BY <1>5
  <2> QED BY <1>3, <1>4, <1>6, <2>1 DEF CapInv
<1>11. CapHoldsOnTodaysNews' BY <1>3 DEF CapInv, CapHoldsOnTodaysNews
<1> QED BY <1>7, <1>8, <1>9, <1>10, <1>11 DEF CapInv
\* What a charge does to its day, and to no other: the file counts one more and its
\* cost, the day's own at most the same, and only if the day was below both caps.
LEMMA ChargeDay ==
    ASSUME Base, CapInv, Charge
    PROVE  \E cost \in Costs :
              /\ desk.on \notin missed' =>
                    /\ budget'[desk.on].calls = budget[desk.on].calls + 1
                    /\ budget'[desk.on].tokens = budget[desk.on].tokens + cost
              /\ \/ own'[desk.on] = own[desk.on]
                 \/ /\ desk.on \notin missed' => Room(desk.on)
                    /\ own'[desk.on].calls = own[desk.on].calls + 1
                    /\ own'[desk.on].tokens = own[desk.on].tokens + cost
<1> DEFINE d == desk.on
<1>1. desk \in Ask /\ desk.at = "charging" BY ReadTypes DEF Charge, desk, Askers
<1>2. d \in Days /\ desk.file \in File BY <1>1 DEF Ask
<1>3. job \in Story /\ job # NoJob BY <1>1, DeskBusy, StoryIsJob
<1>4. PICK cost \in Costs :
         /\ own' = IF d = job.checked THEN Add(own, d, cost) ELSE own
         /\ \/ /\ budget' = [budget EXCEPT ![d] = Charged(desk.file, cost)]
               /\ UNCHANGED missed
            \/ missed' = missed \cup {d}
  BY DEF Charge, desk
<1>5. d \notin missed' =>
         /\ budget'[d].calls = budget[d].calls + 1
         /\ budget'[d].tokens = budget[d].tokens + cost
  <2> SUFFICES ASSUME d \notin missed'
               PROVE  /\ budget'[d].calls = budget[d].calls + 1
                      /\ budget'[d].tokens = budget[d].tokens + cost
    OBVIOUS
  <2>1. budget' = [budget EXCEPT ![d] = Charged(desk.file, cost)] /\ d \notin missed BY <1>4
  <2>2. budget'[d] = Charged(desk.file, cost) BY <1>2, <2>1 DEF Base, TypeOK
  <2>3. desk.file.calls = budget[d].calls /\ desk.file.tokens = budget[d].tokens
    BY <1>1, <2>1 DEF CapInv
  <2> QED BY <1>2, <2>2, <2>3, ChargedType
<1>6. CASE d # job.checked BY <1>4, <1>5, <1>6
<1>7. CASE d = job.checked
  <2>1. d \notin missed' => d \notin missed BY <1>4
  <2>2. d \notin missed' => Room(d) BY <1>1, <1>3, <1>7, <2>1 DEF CapInv
  <2>3. own[d] \in [calls : Nat, tokens : Nat] BY <1>2 DEF Base, TypeOK
  <2>4. own'[d] = Charged(own[d], cost) BY <1>2, <1>4, <1>7 DEF Add, Base, TypeOK
  <2>5. own'[d].calls = own[d].calls + 1 /\ own'[d].tokens = own[d].tokens + cost
    BY <2>3, <2>4, ChargedType
  <2> QED BY <1>5, <2>2, <2>5
<1> QED BY <1>6, <1>7

LEMMA ChargeCap == ASSUME Base, CapInv, Charge PROVE CapInv'
<1> DEFINE e == desk.on
<1>1. desk \in Ask /\ desk.at = "charging" /\ e \in Days
  <2>1. desk \in Ask /\ desk.at = "charging" BY ReadTypes DEF Charge, desk, Askers
  <2> QED BY <2>1 DEF Ask
<1>2. PICK cost \in Costs :
         /\ e \notin missed' =>
               /\ budget'[e].calls = budget[e].calls + 1
               /\ budget'[e].tokens = budget[e].tokens + cost
         /\ \/ own'[e] = own[e]
            \/ /\ e \notin missed' => Room(e)
               /\ own'[e].calls = own[e].calls + 1
               /\ own'[e].tokens = own[e].tokens + cost
  BY ChargeDay
<1>3. \A d \in Days \ {e} : own'[d] = own[d] /\ budget'[d] = budget[d]
  BY DEF Charge, Add, desk, Base, TypeOK
<1>4. missed \subseteq missed' BY DEF Charge
<1>5. /\ desk'.at = "charged"
      /\ \A q \in Askers : chain'[q].at = "pinning" => chain'[q] = chain[q]
  <2>1. /\ desk' = [desk EXCEPT !.at = "charged"]
        /\ \A q \in Askers \ {"sentiment"} : chain'[q] = chain[q]
    BY DEF Charge, desk, Base, TypeOK, Askers
  <2>2. desk'.at = "charged" BY <1>1, <2>1 DEF Ask
  <2> QED BY <2>1, <2>2 DEF desk
<1>6. \A d \in Days : /\ own[d].calls \in Nat /\ own[d].tokens \in Nat
                      /\ budget[d].calls \in Nat /\ budget[d].tokens \in Nat
  BY DEF Base, TypeOK, File
<1>7. cost \in Nat /\ MaxCalls \in Nat /\ MaxTokens \in Nat BY LimitAssumption
<1>8. e \notin missed' =>
         own[e].calls <= budget[e].calls /\ own[e].tokens <= budget[e].tokens
  BY <1>1, <1>4 DEF CapInv
<1>9. e \notin missed' =>
         own'[e].calls <= budget'[e].calls /\ own'[e].tokens <= budget'[e].tokens
  BY <1>1, <1>2, <1>6, <1>7, <1>8
<1>10. \A d \in Days \ missed' :
          own'[d].calls <= budget'[d].calls /\ own'[d].tokens <= budget'[d].tokens
  <2>1. \A d \in Days \ missed' : d # e =>
           own'[d].calls <= budget'[d].calls /\ own'[d].tokens <= budget'[d].tokens
    BY <1>3, <1>4 DEF CapInv
  <2> QED BY <1>9, <2>1
<1>11. (\A q \in Askers :
          chain[q].at = "pinning" /\ chain[q].on \notin missed =>
              LET file == budget[chain[q].on]
              IN  /\ chain[q].file.calls <= file.calls
                  /\ chain[q].file.calls = file.calls => chain[q].file.tokens = file.tokens)'
  <2> SUFFICES ASSUME NEW q \in Askers, chain'[q].at = "pinning", chain'[q].on \notin missed'
               PROVE  /\ chain'[q].file.calls <= budget'[chain'[q].on].calls
                      /\ chain'[q].file.calls = budget'[chain'[q].on].calls
                            => chain'[q].file.tokens = budget'[chain'[q].on].tokens
    OBVIOUS
  <2> DEFINE k == chain[q]
  <2>1. chain'[q] = k /\ k \in Ask BY <1>5, ReadTypes
  <2>2. k.on \in Days /\ k.file.calls \in Nat BY <2>1 DEF Ask, File
  <2>3. /\ k.file.calls <= budget[k.on].calls
        /\ k.file.calls = budget[k.on].calls => k.file.tokens = budget[k.on].tokens
    BY <1>4, <2>1 DEF CapInv
  <2>4. CASE k.on # e BY <1>3, <2>1, <2>2, <2>3, <2>4
  <2>5. CASE k.on = e
    <3>1. budget'[e].calls = budget[e].calls + 1 BY <1>2, <2>1, <2>5
    <3>2. k.file.calls <= budget'[e].calls /\ k.file.calls # budget'[e].calls
      BY <1>1, <1>6, <2>2, <2>3, <2>5, <3>1
    <3> QED BY <2>1, <2>5, <3>2
  <2> QED BY <2>4, <2>5
<1>12. CapHoldsOnTodaysNews'
  <2>1. \A d \in Days \ missed' : d # e =>
           /\ own'[d].calls <= MaxCalls
           /\ \A c \in Costs : (\A x \in Costs : x <= c) => own'[d].tokens < MaxTokens + c
    BY <1>3, <1>4 DEF CapInv, CapHoldsOnTodaysNews
  <2>2. ASSUME e \notin missed'
        PROVE  /\ own'[e].calls <= MaxCalls
               /\ \A c \in Costs : (\A x \in Costs : x <= c) => own'[e].tokens < MaxTokens + c
    <3>1. CASE own'[e] = own[e]
      BY <1>1, <1>4, <2>2, <3>1 DEF CapInv, CapHoldsOnTodaysNews
    <3>2. CASE /\ Room(e) /\ own'[e].calls = own[e].calls + 1
               /\ own'[e].tokens = own[e].tokens + cost
      <4>1. own[e].calls < MaxCalls /\ own[e].tokens < MaxTokens BY <3>2 DEF Room
      <4>2. own'[e].calls <= MaxCalls BY <1>1, <1>6, <1>7, <3>2, <4>1
      <4>3. ASSUME NEW c \in Costs, \A x \in Costs : x <= c
            PROVE  own'[e].tokens < MaxTokens + c
        <5>1. cost <= c /\ c \in Nat BY <4>3, LimitAssumption
        <5> QED BY <1>1, <1>6, <1>7, <3>2, <4>1, <5>1
      <4> QED BY <4>2, <4>3
    <3> QED BY <1>2, <2>2, <3>1, <3>2
  <2> QED BY <2>1, <2>2 DEF CapHoldsOnTodaysNews
<1> QED BY <1>5, <1>10, <1>11, <1>12 DEF CapInv

LEMMA StepCap == ASSUME Base, CapInv, [Next]_vars PROVE CapInv'
<1>1. CASE \/ Later \/ GetInvestigations \/ FoundFresh \/ TickEnds \/ RefreshEnds
           \/ Refresh("tick") \/ Refresh("loop") \/ UNCHANGED vars
  <2>1. UNCHANGED <<job, chain, own, budget, missed>>
    BY <1>1 DEF Later, GetInvestigations, FoundFresh, TickEnds, RefreshEnds, Refresh, vars,
       Files, History
  <2> QED BY <2>1, QuietCap DEF desk
<1>2. ASSUME job' = NoJob, chain' = [chain EXCEPT !["sentiment"] = NoAsk],
             UNCHANGED <<own, budget>>, missed \subseteq missed'
      PROVE  CapInv'
  <2>1. NoAsk.at = "idle" BY DEF NoAsk
  <2>2. \A q \in Askers : chain'[q] \in {chain[q], NoAsk} BY <1>2 DEF Base, TypeOK
  <2> QED BY <1>2, <2>1, <2>2, QuietCap
<1>3. CASE InvestigationEnds
  BY <1>2, <1>3 DEF InvestigationEnds, Store, NextJob, History
<1>4. CASE Dies BY <1>2, <1>4 DEF Dies
<1>5. ASSUME NEW q \in Askers, Complete(q) \/ Answer(q) PROVE CapInv'
  <2>1. UNCHANGED <<own, budget, missed, job>>
    BY <1>5 DEF Complete, Answer, Service, Files
  <2>2. \A r \in Askers \ {q} : chain'[r] = chain[r]
    BY <1>5 DEF Complete, Answer, Base, TypeOK
  <2>3. chain'[q].at \notin {"charging", "pinning"}
    <3>1. CASE Complete(q)
      <4>1. \E pinned, day, left :
               chain'[q] = [NoAsk EXCEPT !.at = "asking", !.pinned = pinned, !.day = day, !.left = left]
        BY <3>1 DEF Complete, Base, TypeOK
      <4> QED BY <4>1 DEF NoAsk
    <3>2. CASE Answer(q)
      <4> DEFINE k == chain[q]  p == Head(chain[q].left)
      <4>1. chain'[q] \in {NoAsk, [k EXCEPT !.at = "ok", !.by = p],
                           [k EXCEPT !.at = "answered", !.by = p]}
        BY <3>2 DEF Answer, Done, Base, TypeOK
      <4>2. /\ [k EXCEPT !.at = "ok", !.by = p].at = "ok"
            /\ [k EXCEPT !.at = "answered", !.by = p].at = "answered" /\ NoAsk.at = "idle"
        BY ReadTypes DEF Ask, NoAsk
      <4> QED BY <4>1, <4>2
    <3> QED BY <1>5, <3>1, <3>2
  <2>4. chain[q].at \in {"idle", "asking"} BY <1>5 DEF Complete, Answer
  <2>5. desk.at = "charged" => desk' = desk BY <2>2, <2>4 DEF desk, Askers
  <2> QED BY <2>1, <2>2, <2>3, <2>5, QuietCap
<1>6. ASSUME NEW q \in Askers, ProviderFails(q) PROVE CapInv'
  <2>1. UNCHANGED <<own, budget, missed>> /\ chain[q].at = "asking"
    BY <1>6 DEF ProviderFails, History
  <2>2. CASE q = "sentiment" /\ Failed(job)
    BY <1>2, <2>1, <2>2 DEF Failed, Store, NextJob
  <2>3. CASE /\ UNCHANGED job
             /\ chain' \in {[chain EXCEPT ![q] = NoAsk], [chain EXCEPT ![q].left = Tail(chain[q].left)]}
    <3>1. \A r \in Askers \ {q} : chain'[r] = chain[r] BY <2>3 DEF Base, TypeOK
    <3>2. chain'[q].at \in {"idle", "asking"}
      BY SMTT(60), <2>1, <2>3, ReadTypes DEF NoAsk, Base, TypeOK, Ask
    <3>3. desk.at = "charged" => desk' = desk BY <2>1, <3>1 DEF desk, Askers
    <3> QED BY <2>1, <2>3, <3>1, <3>2, <3>3, QuietCap
  <2> QED BY <1>6, <2>2, <2>3 DEF ProviderFails
<1>7. "sentiment" \in Askers BY DEF Askers
<1> QED BY <1>1, <1>3, <1>4, <1>5, <1>6, <1>7, ConsiderCap, ReadForChargeCap, ReadForPinCap,
           PinCap, ChargeCap DEF Next

-----------------------------------------------------------------------------
(* The theorems. *)

ResearchInv == Base /\ AskedInv /\ NewsInv /\ PinInv /\ CapInv

\* The invariant of the specification: types, where each completion stands, and what
\* the four properties below need of the step before (Desk.Run, Chain.CompleteR,
\* Charge and Pin, gather).
THEOREM Invariant == Spec => []ResearchInv
<1>1. Init => ResearchInv
  BY InitBase, InitAsked, InitNews, InitPin, InitCap DEF ResearchInv
<1>2. ResearchInv /\ [Next]_vars => ResearchInv'
  BY StepBase, StepAsked, StepNews, StepPin, StepCap DEF ResearchInv
<1> QED BY <1>1, <1>2, PTL DEF Spec

\* A headline is put to the models once a day (Desk.Run and Store), for any feeds and
\* any number of refreshes, write failures and deaths.
THEOREM AskedAlwaysOnce == Spec => AskedOnce
<1>1. ResearchInv /\ [Next]_vars => [AskedStep]_vars BY StepAsked DEF ResearchInv
<1>2. Spec => [][AskedStep]_vars BY <1>1, Invariant, PTL DEF Spec
<1>3. AskedOnce <=> [][AskedStep]_vars BY PTL DEF AskedOnce, AskedStep
<1> QED BY <1>2, <1>3

\* The answers a day used are of one model (Chain.CompleteR and Pin), whoever asks.
THEOREM OneModelAlways == Spec => []OneModelPerDay
<1>1. ResearchInv => OneModelPerDay
  <2> SUFFICES ASSUME PinInv, NEW d \in Days \ loose PROVE Cardinality(answered[d]) <= 1
    BY DEF ResearchInv, OneModelPerDay
  <2> DEFINE one == {budget[d].pin}
  <2>1. answered[d] \subseteq one BY DEF PinInv, Used
  <2>2. IsFiniteSet(one) /\ Cardinality(one) = 1 BY FS_Singleton
  <2>3. Cardinality(answered[d]) <= Cardinality(one) BY <2>1, <2>2, FS_Subset
  <2> QED BY <2>2, <2>3
<1> QED BY <1>1, Invariant, PTL

\* Completions about a day's own news stay within both caps (AllowLLM and Charge),
\* for any caps and costs.
THEOREM CapAlwaysHolds == Spec => []CapHoldsOnTodaysNews
<1>1. ResearchInv => CapHoldsOnTodaysNews BY DEF ResearchInv, CapInv
<1> QED BY <1>1, Invariant, PTL

\* A tilt comes of nothing published after the bar (gather, the desk's key, satelliteScore).
THEOREM TiltAlwaysPast == Spec => []TiltSeesNoLaterNews
<1>1. ResearchInv => TiltSeesNoLaterNews
  BY DEF ResearchInv, NewsInv, Past, TiltSeesNoLaterNews, Tilt, Scored, Reports
<1> QED BY <1>1, Invariant, PTL
=============================================================================
