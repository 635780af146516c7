---------------------------- MODULE GatewayProofs ----------------------------
(***************************************************************************)
(* The limiter lets no more than a burst through, and the page paints only *)
(* what trading held.                                                      *)
(***************************************************************************)
EXTENDS Gateway, TLAPS

-----------------------------------------------------------------------------
(* The limiter. *)

\* What passed this second and what the bucket would let through make up at
\* most a burst.
BurstInv ==
    /\ bucket \in [tokens : Nat, idle : Nat] /\ passed \in Nat
    /\ passed + Refilled <= Burst

\* Refilled is a whole number that no burst exceeds.
LEMMA RefilledBounded ==
    ASSUME BurstInv
    PROVE  Refilled \in Nat /\ Refilled <= Burst
<1>1. Burst \in Nat /\ Rate \in Nat BY LimitAssumption
<1>2. bucket.tokens \in Nat /\ bucket.idle \in Nat BY DEF BurstInv
<1>3. bucket.idle * Rate \in Nat BY <1>1, <1>2
<1> HIDE DEF BurstInv
<1> QED BY <1>1, <1>2, <1>3 DEF Refilled, Least

\* After a look the bucket holds what it was left with.
LEMMA LookKeepsBurst ==
    ASSUME BurstInv, NEW n \in Nat,
           bucket' = [tokens |-> n, idle |-> 0],
           passed' \in Nat, passed' + n <= Burst
    PROVE  BurstInv'
<1>1. Burst \in Nat /\ Rate \in Nat BY LimitAssumption
<1>2. bucket'.tokens = n /\ bucket'.idle = 0 OBVIOUS
<1>3. 0 * Rate = 0 BY <1>1
<1>4. Refilled' = n
    <2>0. \A p, k, b \in Nat : p + k <= b => k <= b OBVIOUS
    <2>1. n <= Burst BY <1>1, <2>0, Zenon
    <2>2. Refilled' = Least(Burst, n + 0 * Rate) BY <1>2 DEF Refilled
    <2> QED BY <1>1, <1>3, <2>1, <2>2 DEF Least
<1> QED BY <1>1, <1>4 DEF BurstInv

LEMMA TakeKeepsBurst ==
    ASSUME BurstInv, Passes, Takes
    PROVE  BurstInv'
<1>1. Refilled \in Nat /\ Refilled <= Burst BY RefilledBounded
<1>2. Refilled - 1 \in Nat BY <1>1 DEF Passes
<1>3. passed \in Nat /\ passed + Refilled <= Burst BY DEF BurstInv
<1>4. /\ bucket' = [tokens |-> Refilled - 1, idle |-> 0]
      /\ passed' = passed + 1 BY DEF Takes
<1>5. passed' \in Nat /\ passed' + (Refilled - 1) <= Burst
    BY <1>1, <1>2, <1>3, <1>4, LimitAssumption
<1> QED BY <1>2, <1>4, <1>5, LookKeepsBurst

LEMMA RefusalKeepsBurst ==
    ASSUME BurstInv, Refused
    PROVE  BurstInv'
<1>1. Refilled \in Nat BY RefilledBounded
<1>2. passed \in Nat /\ passed + Refilled <= Burst BY DEF BurstInv
<1>3. bucket' = [tokens |-> Refilled, idle |-> 0] /\ passed' = passed BY DEF Refused
<1> QED BY <1>1, <1>2, <1>3, LookKeepsBurst

LEMMA SecondKeepsBurst ==
    ASSUME BurstInv, Second
    PROVE  BurstInv'
<1>1. {Burst, Rate, MaxIdle} \subseteq Nat BY LimitAssumption
<1>2. bucket.tokens \in Nat /\ bucket.idle \in Nat BY DEF BurstInv
<1> DEFINE idle == Least(MaxIdle, bucket.idle + 1)
<1>3. idle \in Nat BY <1>1, <1>2 DEF Least
<1>4. bucket' = [bucket EXCEPT !.idle = idle] /\ passed' = 0
    <2>1. bucket' = [bucket EXCEPT !.idle = Least(MaxIdle, @ + 1)] /\ passed' = 0 BY DEF Second
    <2> QED BY <2>1
<1> HIDE DEF idle
<1>5. bucket' \in [tokens : Nat, idle : Nat] BY <1>3, <1>4 DEF BurstInv
<1>6. bucket'.tokens + bucket'.idle * Rate \in Nat
    <2>1. bucket'.tokens \in Nat /\ bucket'.idle \in Nat BY <1>5
    <2>2. bucket'.idle * Rate \in Nat BY <1>1, <2>1
    <2> QED BY <2>1, <2>2
<1>7. Refilled' <= Burst /\ Refilled' \in Nat BY <1>1, <1>6 DEF Refilled, Least
<1> QED BY <1>1, <1>4, <1>5, <1>7 DEF BurstInv

LEMMA StepKeepsBurst ==
    ASSUME BurstInv, [Next]_vars
    PROVE  BurstInv'
<1>1. ASSUME UNCHANGED <<bucket, passed>> PROVE BurstInv'
    BY <1>1 DEF BurstInv, Refilled
<1>2. CASE Second BY <1>2, SecondKeepsBurst
<1>3. CASE Poll BY <1>1, <1>3 DEF Poll
<1>4. ASSUME NEW s \in Slots, Read(s) PROVE BurstInv'
    <2>1. IF Passes THEN Takes ELSE Refused BY <1>4 DEF Read
    <2> QED BY <2>1, TakeKeepsBurst, RefusalKeepsBurst
<1>5. ASSUME NEW s \in Slots, Paint(s) PROVE BurstInv'
    BY <1>1, <1>5 DEF Paint
<1>6. ASSUME NEW c \in {"desk", "save"}, Press(c) PROVE BurstInv'
    BY <1>1, <1>6 DEF Press
<1>7. CASE Execute
    <2>1. Passes /\ Takes BY <1>7 DEF Execute
    <2> QED BY <2>1, TakeKeepsBurst
<1>8. CASE Refuse
    <2>1. IF Passes THEN Takes ELSE Refused BY <1>8 DEF Refuse
    <2> QED BY <2>1, TakeKeepsBurst, RefusalKeepsBurst
<1>9. CASE BookMoves BY <1>1, <1>9 DEF BookMoves
<1>10. ASSUME NEW v, Stop(v) PROVE BurstInv' BY <1>1, <1>10 DEF Stop
<1>11. ASSUME NEW v, Restart(v) PROVE BurstInv' BY <1>1, <1>11 DEF Restart
<1>12. CASE UNCHANGED vars BY <1>1, <1>12 DEF vars
<1> QED BY <1>2, <1>3, <1>4, <1>5, <1>6, <1>7, <1>8, <1>9, <1>10, <1>11, <1>12
        DEF Next, Serves

\* However long a client was quiet, the limiter lets no more than a burst of
\* its requests through at once (ratelimit.Limiter.Allow).
THEOREM BurstAlwaysBounded == Spec => []BurstBounded
<1>1. Init => BurstInv
    <2> SUFFICES ASSUME Init PROVE BurstInv OBVIOUS
    <2>1. Burst \in Nat /\ Rate \in Nat BY LimitAssumption
    <2>2. bucket = [tokens |-> Burst, idle |-> 0] /\ passed = 0 BY DEF Init
    <2>3. bucket.idle * Rate = 0 BY <2>1, <2>2
    <2>4. Refilled = Burst BY <2>1, <2>2, <2>3 DEF Refilled, Least
    <2> QED BY <2>1, <2>2, <2>4 DEF BurstInv
<1>2. BurstInv /\ [Next]_vars => BurstInv' BY StepKeepsBurst
<1>3. BurstInv => BurstBounded
    <2> SUFFICES ASSUME BurstInv PROVE BurstBounded OBVIOUS
    <2>1. Refilled \in Nat /\ passed \in Nat /\ passed + Refilled <= Burst
        BY RefilledBounded DEF BurstInv
    <2> QED BY <2>1, LimitAssumption DEF BurstBounded
<1> QED BY <1>1, <1>2, <1>3, PTL DEF Spec

-----------------------------------------------------------------------------
(* The page. *)

\* The reads a refresh may still wait for.
Dues == {Reads, <<"journal", "sentiment", "ips">>, <<"sentiment", "ips">>, <<"ips">>, <<>>}

Refreshes == [open : BOOLEAN, due : Dues, failed : BOOLEAN, since : Int, book : Int, ips : Int]
Pages     == [book : Int, ips : Int, since : Int]

\* Of a refresh, when trading's book has version k and the statement version n:
\* what it read trading held, and the book not before the refresh began unless
\* that read is still to come or something failed.
RefreshOK(r, k, n) ==
    /\ r \in Refreshes
    /\ r.since <= k /\ r.book <= k /\ r.ips <= n
    /\ r.open /\ ~r.failed /\ r.due # Reads => r.since <= r.book

PageOK(p, k, n) ==
    /\ p \in Pages
    /\ p.book <= k /\ p.ips <= n
    /\ p.book # Missing \/ p.ips # Missing => p.since <= p.book

RefreshInv ==
    /\ book \in Nat /\ bound \in Nat
    /\ slot \in [Slots -> Refreshes]
    /\ \A s \in Slots : RefreshOK(slot[s], book, bound)
    /\ PageOK(page, book, bound)

\* The book's read is the first of a refresh.
LEMMA DueShrinks ==
    ASSUME NEW d \in Dues, d # <<>>
    PROVE  /\ Tail(d) \in Dues /\ Tail(d) # Reads
           /\ Head(d) \in {"portfolio", "journal", "sentiment", "ips"}
           /\ Head(d) = "portfolio" <=> d = Reads
<1>1. CASE d = Reads
    <2>1. Tail(d) = <<"journal", "sentiment", "ips">> /\ Head(d) = "portfolio"
        BY <1>1 DEF Reads
    <2> QED BY <1>1, <2>1 DEF Dues, Reads
<1>2. CASE d = <<"journal", "sentiment", "ips">>
    <2>1. Tail(d) = <<"sentiment", "ips">> /\ Head(d) = "journal" BY <1>2
    <2> QED BY <1>2, <2>1 DEF Dues, Reads
<1>3. CASE d = <<"sentiment", "ips">>
    <2>1. Tail(d) = <<"ips">> /\ Head(d) = "sentiment" BY <1>3
    <2> QED BY <1>3, <2>1 DEF Dues, Reads
<1>4. CASE d = <<"ips">>
    <2>1. Tail(d) = <<>> /\ Head(d) = "ips" BY <1>4
    <2> QED BY <1>4, <2>1 DEF Dues, Reads
<1> QED BY <1>1, <1>2, <1>3, <1>4 DEF Dues

LEMMA ClosedOK ==
    ASSUME NEW k \in Nat, NEW n \in Nat
    PROVE  RefreshOK(Closed, k, n)
BY DEF RefreshOK, Refreshes, Closed, Dues, Missing

LEMMA OpenedOK ==
    ASSUME NEW k \in Nat, NEW n \in Nat, NEW b \in Nat, b <= k
    PROVE  RefreshOK([Opened EXCEPT !.since = b], k, n)
<1> DEFINE r == [Closed EXCEPT !.open = TRUE, !.due = Reads, !.since = b]
<1>1. /\ Closed \in Refreshes
      /\ Closed.book = -1 /\ Closed.ips = -1 BY ClosedOK DEF RefreshOK, Closed, Missing
<1>2. Reads \in Dues /\ b \in Int BY DEF Dues
<1>3. r \in Refreshes BY <1>1, <1>2 DEF Refreshes
<1>4. r.due = Reads /\ r.since = b /\ r.book = -1 /\ r.ips = -1 BY <1>1 DEF Refreshes
<1>5. [Opened EXCEPT !.since = b] = r BY <1>1 DEF Opened, Refreshes
<1> HIDE DEF r
<1>6. RefreshOK(r, k, n) BY <1>3, <1>4 DEF RefreshOK
<1> QED BY <1>5, <1>6

LEMMA FailedOK ==
    ASSUME NEW k \in Nat, NEW n \in Nat, NEW d \in Dues
    PROVE  RefreshOK([Closed EXCEPT !.open = TRUE, !.due = d, !.failed = TRUE], k, n)
<1> DEFINE r == [Closed EXCEPT !.open = TRUE, !.due = d, !.failed = TRUE]
<1>1. /\ Closed \in Refreshes
      /\ Closed.since = 0 /\ Closed.book = -1 /\ Closed.ips = -1 BY ClosedOK DEF RefreshOK, Closed, Missing
<1>2. r \in Refreshes BY <1>1 DEF Refreshes
<1>3. r.failed /\ r.since = 0 /\ r.book = -1 /\ r.ips = -1 BY <1>1 DEF Refreshes
<1> HIDE DEF r
<1>4. RefreshOK(r, k, n) BY <1>2, <1>3 DEF RefreshOK
<1> QED BY <1>4 DEF r

\* What was true of a version stays true of later ones.
LEMMA VersionsGrow ==
    ASSUME NEW k \in Nat, NEW n \in Nat, NEW j \in Nat, NEW m \in Nat, k <= j, n <= m
    PROVE  /\ \A r : RefreshOK(r, k, n) => RefreshOK(r, j, m)
           /\ \A p : PageOK(p, k, n) => PageOK(p, j, m)
<1>1. ASSUME NEW r, RefreshOK(r, k, n) PROVE RefreshOK(r, j, m)
    <2>1. r.since \in Int /\ r.book \in Int /\ r.ips \in Int BY <1>1 DEF RefreshOK, Refreshes
    <2> QED BY <1>1, <2>1 DEF RefreshOK
<1>2. ASSUME NEW p, PageOK(p, k, n) PROVE PageOK(p, j, m)
    <2>1. p.book \in Int /\ p.ips \in Int BY <1>2 DEF PageOK, Pages
    <2> QED BY <1>2, <2>1 DEF PageOK
<1> QED BY <1>1, <1>2

\* A read that does not fail: what is taken over is what trading holds.
LEMMA AnsweredOK ==
    ASSUME NEW k \in Nat, NEW n \in Nat, NEW r, RefreshOK(r, k, n), r.due # <<>>, ~r.failed,
           NEW b \in {k, r.book}, NEW i \in {n, r.ips},
           Head(r.due) = "portfolio" => b = k
    PROVE  RefreshOK([r EXCEPT !.due = Tail(r.due), !.book = b, !.ips = i], k, n)
<1> DEFINE q == [r EXCEPT !.due = Tail(r.due), !.book = b, !.ips = i]
<1>1. r \in Refreshes /\ r.due \in Dues BY DEF RefreshOK, Refreshes
<1>2. Tail(r.due) \in Dues /\ (Head(r.due) = "portfolio" <=> r.due = Reads)
    BY <1>1, DueShrinks
<1>3. r.since \in Int /\ r.book \in Int /\ r.ips \in Int BY <1>1 DEF Refreshes
<1>4. b \in Int /\ i \in Int BY <1>3
<1>5. q \in Refreshes BY <1>1, <1>2, <1>4 DEF Refreshes
<1>6. /\ q.since = r.since /\ q.book = b /\ q.ips = i
      /\ q.open = r.open /\ q.failed = r.failed BY <1>1 DEF Refreshes
<1>7. r.since <= k /\ r.book <= k /\ r.ips <= n BY DEF RefreshOK
<1>8. q.since <= k /\ q.book <= k /\ q.ips <= n BY <1>3, <1>6, <1>7
<1>9. ASSUME q.open PROVE q.since <= q.book
    <2>1. CASE r.due = Reads BY <1>2, <1>3, <1>6, <1>7, <2>1
    <2>2. CASE r.due # Reads
        <3>1. r.since <= r.book BY <1>6, <1>9, <2>2 DEF RefreshOK
        <3> QED BY <1>3, <1>6, <1>7, <3>1
    <2> QED BY <2>1, <2>2
<1> QED BY <1>5, <1>8, <1>9 DEF RefreshOK

\* Steps that leave the page's part alone.
LEMMA KeepsRefresh ==
    ASSUME RefreshInv, UNCHANGED <<book, bound, slot, page>>
    PROVE  RefreshInv'
BY DEF RefreshInv

\* Steps that put one refresh and the page right again.
LEMMA SlotKeepsRefresh ==
    ASSUME RefreshInv, NEW s \in Slots, NEW r, RefreshOK(r, book, bound),
           slot' = [slot EXCEPT ![s] = r],
           UNCHANGED <<book, bound>>, PageOK(page', book, bound)
    PROVE  RefreshInv'
<1>1. r \in Refreshes BY DEF RefreshOK
<1>2. slot' \in [Slots -> Refreshes] BY <1>1 DEF RefreshInv
<1>3. \A t \in Slots : RefreshOK(slot'[t], book, bound) BY DEF RefreshInv
<1> QED BY <1>2, <1>3 DEF RefreshInv

LEMMA ReadKeepsRefresh ==
    ASSUME RefreshInv, NEW s \in Slots, Read(s)
    PROVE  RefreshInv'
<1> DEFINE old    == slot[s]
           r      == Head(old.due)
           served == Passes /\ Service[r] \in up
           answered == served \/ (Passes /\ r \in Fallback)
           fails  == ~answered /\ r \notin Caught
           b      == IF r = "portfolio" /\ served THEN GetPortfolio ELSE old.book
           i      == IF r = "ips" /\ served THEN GetIPS ELSE old.ips
           lost   == [Closed EXCEPT !.open = TRUE, !.due = Tail(old.due), !.failed = TRUE]
           kept   == [old EXCEPT !.due = Tail(old.due), !.book = b, !.ips = i]
<1>1. old.due # <<>> /\ UNCHANGED <<book, bound>> BY DEF Read, Server
<1>2. book \in Nat /\ bound \in Nat /\ RefreshOK(old, book, bound) /\ PageOK(page, book, bound)
    BY DEF RefreshInv
<1>3. old \in Refreshes /\ old.due \in Dues BY <1>2 DEF RefreshOK, Refreshes
<1>4. Tail(old.due) \in Dues BY <1>1, <1>3, DueShrinks
<1>5. slot' = [slot EXCEPT ![s] = IF fails \/ old.failed THEN lost ELSE kept]
    BY DEF Read
<1>7. PageOK(page', book, bound) BY <1>2 DEF Read
<1>8. RefreshOK(lost, book, bound) BY ZenonT(60), <1>2, <1>4, FailedOK
<1>9. ASSUME ~fails, ~old.failed PROVE RefreshOK(kept, book, bound)
    <2>1. b \in {book, old.book} /\ i \in {bound, old.ips} BY DEF GetPortfolio, GetIPS
    <2>2. r = "portfolio" => b = book BY <1>9 DEF GetPortfolio, Fallback, Caught
    <2> HIDE DEF b, i
    <2> QED BY <1>1, <1>2, <1>9, <2>1, <2>2, AnsweredOK
<1> HIDE DEF fails, lost, kept
<1> DEFINE new == IF fails \/ old.failed THEN lost ELSE kept
<1>10. RefreshOK(new, book, bound) BY <1>8, <1>9
<1>11. slot' = [slot EXCEPT ![s] = new] BY <1>5
<1> HIDE DEF new
<1> QED BY <1>1, <1>7, <1>10, <1>11, SlotKeepsRefresh

LEMMA PaintKeepsRefresh ==
    ASSUME RefreshInv, NEW s \in Slots, Paint(s)
    PROVE  RefreshInv'
<1> DEFINE old == slot[s]
           new == [book |-> old.book, ips |-> old.ips, since |-> old.since]
<1>1. /\ old.open /\ old.due = <<>> /\ UNCHANGED <<book, bound>>
      /\ slot' = [slot EXCEPT ![s] = Closed]
      /\ page' = IF old.failed THEN page ELSE new BY DEF Paint, Server
<1>2. book \in Nat /\ bound \in Nat /\ RefreshOK(old, book, bound) /\ PageOK(page, book, bound)
    BY DEF RefreshInv
<1>3. ASSUME ~old.failed PROVE PageOK(new, book, bound)
    <2>1. old.since \in Int /\ old.book \in Int /\ old.ips \in Int
        BY <1>2 DEF RefreshOK, Refreshes
    <2>2. old.due # Reads BY <1>1 DEF Reads
    <2>3. old.since <= old.book /\ old.book <= book /\ old.ips <= bound
        BY <1>1, <1>2, <1>3, <2>2 DEF RefreshOK
    <2> QED BY <2>1, <2>3 DEF PageOK, Pages
<1> HIDE DEF new
<1>4. PageOK(page', book, bound) BY <1>1, <1>2, <1>3
<1>5. RefreshOK(Closed, book, bound) BY <1>2, ClosedOK
<1> QED BY <1>1, <1>4, <1>5, SlotKeepsRefresh

LEMMA PollKeepsRefresh ==
    ASSUME RefreshInv, Poll
    PROVE  RefreshInv'
<1>1. book \in Nat /\ bound \in Nat /\ PageOK(page, book, bound) BY DEF RefreshInv
<1>2. /\ slot' = [slot EXCEPT !["poll"] = Opened]
      /\ UNCHANGED <<book, bound, page>> BY DEF Poll, Server
<1>3. Opened = [Opened EXCEPT !.since = book] BY DEF Opened, Closed
<1>4. RefreshOK([Opened EXCEPT !.since = book], book, bound) BY <1>1, OpenedOK
<1>5. RefreshOK(Opened, book, bound) BY <1>3, <1>4
<1> QED BY <1>1, <1>2, <1>5, SlotKeepsRefresh DEF Slots

\* The book and the statement move on, and maybe a refresh of the page begins.
LEMMA MovesKeepRefresh ==
    ASSUME RefreshInv, book' \in Nat, bound' \in Nat, book <= book', bound <= bound',
           page' = page,
           slot' = slot \/ slot' = [slot EXCEPT !["own"] = [Opened EXCEPT !.since = book']]
    PROVE  RefreshInv'
<1>1. book \in Nat /\ bound \in Nat BY DEF RefreshInv
<1>2. PageOK(page, book', bound') /\ \A s \in Slots : RefreshOK(slot[s], book', bound')
    BY <1>1, VersionsGrow DEF RefreshInv
<1> DEFINE new == [Opened EXCEPT !.since = book']
<1>3. RefreshOK(new, book', bound') BY OpenedOK
<1> HIDE DEF new
<1>4. \A s \in Slots : RefreshOK(slot'[s], book', bound')
    BY <1>2, <1>3 DEF RefreshInv, new
<1>5. slot' \in [Slots -> Refreshes]
    <2>1. new \in Refreshes BY <1>3 DEF RefreshOK
    <2> QED BY <2>1 DEF RefreshInv, new
<1> QED BY <1>2, <1>4, <1>5 DEF RefreshInv

LEMMA ExecuteKeepsRefresh ==
    ASSUME RefreshInv, Execute
    PROVE  RefreshInv'
<1>1. book \in Nat /\ bound \in Nat BY DEF RefreshInv
<1>2. \/ book' = book + 1 /\ bound' = bound
      \/ bound' = bound + 1 /\ book' = book BY DEF Execute
<1>3. book' \in Nat /\ bound' \in Nat /\ book <= book' /\ bound <= bound' BY <1>1, <1>2
<1>4. page' = page BY DEF Execute
<1>5. slot' = slot \/ slot' = [slot EXCEPT !["own"] = [Opened EXCEPT !.since = book']]
    BY DEF Execute
<1> QED BY <1>3, <1>4, <1>5, MovesKeepRefresh

LEMMA StepKeepsRefresh ==
    ASSUME RefreshInv, [Next]_vars
    PROVE  RefreshInv'
<1>1. CASE Second BY <1>1, KeepsRefresh DEF Second, Server
<1>2. CASE Poll BY <1>2, PollKeepsRefresh
<1>3. ASSUME NEW s \in Slots, Read(s) PROVE RefreshInv' BY <1>3, ReadKeepsRefresh
<1>4. ASSUME NEW s \in Slots, Paint(s) PROVE RefreshInv' BY <1>4, PaintKeepsRefresh
<1>5. ASSUME NEW c \in {"desk", "save"}, Press(c) PROVE RefreshInv'
    BY <1>5, KeepsRefresh DEF Press, Server
<1>6. CASE Execute BY <1>6, ExecuteKeepsRefresh
<1>7. CASE Refuse BY <1>7, KeepsRefresh DEF Refuse, Server
<1>8. CASE BookMoves
    <2>1. book' = book + 1 /\ UNCHANGED <<bound, slot, page>> BY <1>8 DEF BookMoves, Desk
    <2>2. book \in Nat /\ bound \in Nat BY DEF RefreshInv
    <2>3. book' \in Nat /\ bound' \in Nat /\ book <= book' /\ bound <= bound' BY <2>1, <2>2
    <2> QED BY <2>1, <2>3, MovesKeepRefresh
<1>9. ASSUME NEW v, Stop(v) PROVE RefreshInv' BY <1>9, KeepsRefresh DEF Stop, Desk
<1>10. ASSUME NEW v, Restart(v) PROVE RefreshInv' BY <1>10, KeepsRefresh DEF Restart, Desk
<1>11. CASE UNCHANGED vars BY <1>11, KeepsRefresh DEF vars
<1> QED BY <1>1, <1>2, <1>3, <1>4, <1>5, <1>6, <1>7, <1>8, <1>9, <1>10, <1>11
        DEF Next, Serves

\* The page never shows the answer that stands in for a service that is away,
\* nor a book from before its refresh, whatever overtakes what (unaryFallback in
\* server.go, refresh in use-desk.ts).
THEOREM PaintedAlwaysTrue == Spec => []PaintedWasTrue
<1>1. Init => RefreshInv
    <2> SUFFICES ASSUME Init PROVE RefreshInv OBVIOUS
    <2>1. book = 0 /\ bound = 0 /\ slot = [s \in Slots |-> Closed]
          /\ page = [book |-> Missing, ips |-> Missing, since |-> 0] BY DEF Init
    <2>2. RefreshOK(Closed, 0, 0) BY ClosedOK
    <2>3. Closed \in Refreshes BY <2>2 DEF RefreshOK
    <2>4. PageOK(page, 0, 0) BY <2>1 DEF PageOK, Pages, Missing
    <2> QED BY <2>1, <2>2, <2>3, <2>4 DEF RefreshInv
<1>2. RefreshInv /\ [Next]_vars => RefreshInv' BY StepKeepsRefresh
<1>3. RefreshInv => PaintedWasTrue
    <2> SUFFICES ASSUME RefreshInv, page.book # Missing \/ page.ips # Missing
                 PROVE  page.book \in page.since .. book /\ page.ips <= bound
        BY DEF PaintedWasTrue
    <2>1. PageOK(page, book, bound) /\ book \in Nat BY DEF RefreshInv
    <2>2. page.book \in Int /\ page.since \in Int BY <2>1 DEF PageOK, Pages
    <2> QED BY <2>1, <2>2 DEF PageOK
<1> QED BY <1>1, <1>2, <1>3, PTL DEF Spec

=============================================================================
