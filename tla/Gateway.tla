------------------------------- MODULE Gateway -------------------------------
(***************************************************************************)
(* The web desk's page and the gateway it polls: the reads of a refresh,   *)
(* each through the rate limiter and on to its service, the commands of    *)
(* the operator, and services that stop.                                   *)
(*                                                                         *)
(* Of a refresh's thirteen reads there are four, one for each service and  *)
(* way to fail: /portfolio (and /campaign, /benchmarks) fails when trading *)
(* does; /journal (and /backtest) of learning has a fallback at the        *)
(* gateway; /sentiment (and /news, /investigations) has none and fails     *)
(* when the sentiment service does; a failed /ips is caught on the page,   *)
(* as is one of /research, /health and the public campaigns.               *)
(* Trading's book, with its campaign and autopilot, and the bound          *)
(* statement are versions: how often they changed.                         *)
(***************************************************************************)
EXTENDS Integers, Sequences

CONSTANTS
    Burst, Rate,     \* GATEWAY_BURST and GATEWAY_RPS, requests and requests a second
    PollEvery,       \* seconds between two polls of the page
    MaxIdle,         \* bound: seconds the bucket can tell from more
    MaxChanges,      \* bound: changes of the book, and of the bound statement
    MaxPresses,      \* bound: commands of the operator
    MaxStops         \* bound: times trading or sentiment stops

ASSUME LimitAssumption ==
    /\ {Burst, Rate, PollEvery, MaxIdle} \subseteq Nat \ {0}
    /\ {MaxChanges, MaxPresses, MaxStops} \subseteq Nat

Missing == -1                 \* no value: an empty message, a caught error
Versions == 0 .. MaxChanges
Reads == <<"portfolio", "journal", "sentiment", "ips">>
Service == [portfolio |-> "trading", journal |-> "learning",
            sentiment |-> "sentiment", ips |-> "trading"]
Services == {Service[r] : r \in DOMAIN Service}

\* The page's timer and its commands refresh independently.
Slots == {"poll", "own"}

VARIABLES
    book, bound,     \* what trading holds, and the statement on record
    up,              \* services that answer
    bucket,          \* the limiter's tokens and the seconds since it looked
    passed,          \* history: requests let through this second
    slot,            \* the page's refreshes under way
    page,            \* what it shows, and the book's version that refresh began at
    command,         \* the operator's command: none, sent or answered
    timer,           \* seconds to the next poll
    presses, stops

vars == <<book, bound, up, bucket, passed, slot, page, command, timer,
          presses, stops>>

Closed == [open |-> FALSE, due |-> <<>>, failed |-> FALSE, since |-> 0,
           book |-> Missing, ips |-> Missing]

Init ==
    /\ book = 0 /\ bound = 0
    /\ up = Services
    /\ bucket = [tokens |-> Burst, idle |-> 0] /\ passed = 0
    /\ slot = [s \in Slots |-> Closed]
    /\ page = [book |-> Missing, ips |-> Missing, since |-> 0]
    /\ command = "none" /\ timer = 0 /\ presses = 0 /\ stops = 0

Desk == <<slot, page, command, timer, presses>>
Server == <<book, bound, up, stops>>

-----------------------------------------------------------------------------
(* The limiter: a bucket for a client, refilled when a request looks. *)

Least(a, b) == IF a < b THEN a ELSE b

\* The mutant saves up without end.
RefilledFully == bucket.tokens + bucket.idle * Rate
Refilled == Least(Burst, bucket.tokens + bucket.idle * Rate)

Passes == Refilled >= 1
Takes == /\ bucket' = [tokens |-> Refilled - 1, idle |-> 0]
         /\ passed' = passed + 1
Refused == bucket' = [tokens |-> Refilled, idle |-> 0] /\ UNCHANGED passed

Second ==
    /\ bucket' = [bucket EXCEPT !.idle = Least(MaxIdle, @ + 1)]
    /\ passed' = 0
    /\ timer' = IF timer = 0 THEN 0 ELSE timer - 1
    /\ UNCHANGED <<Server, slot, page, command, presses>>

-----------------------------------------------------------------------------
(* A refresh of the page.  Bound: a poll waits for the one before. *)

Opened == [Closed EXCEPT !.open = TRUE, !.due = Reads, !.since = book]

\* The interval runs on whatever becomes of its refreshes.
Poll ==
    /\ timer = 0 /\ ~slot["poll"].open
    /\ timer' = PollEvery
    /\ slot' = [slot EXCEPT !["poll"] = Opened]
    /\ UNCHANGED <<Server, bucket, passed, page, command, presses>>

\* unaryFallback: the reads whose service may be away (Unavailable, or past
\* the deadline).  The mutants answer for every service, and for none.
FallbackForAll == DOMAIN Service
FallbackForNone == {}
Fallback == {"journal"}

\* Promise.all fails with its first error but for the reads that catch theirs.
Caught == {"ips"}

\* What trading answers: the book, the statement, of this moment.
GetPortfolio == book
GetIPS == bound

\* The reads are answered in the order they are sent: by the limiter with 429,
\* else by the service.
Read(s) ==
    /\ slot[s].due # <<>>
    /\ IF Passes THEN Takes ELSE Refused
    /\ LET mine == slot[s]
           r == Head(mine.due)
           served == Passes /\ Service[r] \in up
           answered == served \/ (Passes /\ r \in Fallback)
           fails == ~answered /\ r \notin Caught
           left == Tail(mine.due)
       IN  slot' = [slot EXCEPT ![s] =
              IF fails \/ mine.failed
              THEN [Closed EXCEPT !.open = TRUE, !.due = left, !.failed = TRUE]
              ELSE [mine EXCEPT !.due = left,
                       !.book = IF r = "portfolio" /\ served THEN GetPortfolio ELSE mine.book,
                       !.ips = IF r = "ips" /\ served THEN GetIPS ELSE mine.ips]]
    /\ UNCHANGED <<Server, page, command, timer, presses>>

\* With every read answered the page is painted, whatever was painted since.
Paint(s) ==
    /\ slot[s].open /\ slot[s].due = <<>>
    /\ slot' = [slot EXCEPT ![s] = Closed]
    /\ page' = IF slot[s].failed THEN page
               ELSE [book |-> slot[s].book, ips |-> slot[s].ips,
                     since |-> slot[s].since]
    /\ UNCHANGED <<Server, bucket, passed, command, timer, presses>>

-----------------------------------------------------------------------------
(* Commands: start, stop, resume and the statement's form. *)

\* One at a time: the buttons are off while one is under way.
Press(c) ==
    /\ command = "none" /\ ~slot["own"].open /\ presses < MaxPresses
    /\ command' = c /\ presses' = presses + 1
    /\ UNCHANGED <<Server, bucket, passed, slot, page, timer>>

\* The service carries it out; the answer refreshes the page, a lost one
\* (the page gives up after twenty seconds) leaves it to the poll.
Execute ==
    /\ command # "none" /\ Passes /\ Takes /\ "trading" \in up
    /\ \/ command = "desk" /\ book < MaxChanges /\ book' = book + 1 /\ bound' = bound
       \/ command = "save" /\ bound < MaxChanges /\ bound' = bound + 1 /\ book' = book
    /\ command' = "none"
    /\ \/ slot' = [slot EXCEPT !["own"] = [Opened EXCEPT !.since = book']]
       \/ slot' = slot
    /\ UNCHANGED <<up, stops, page, timer, presses>>

\* 429, 409, 502: nothing was done (the page's error line is left out).
Refuse ==
    /\ command # "none"
    /\ IF Passes THEN Takes ELSE Refused
    /\ command' = "none"
    /\ UNCHANGED <<Server, slot, page, timer, presses>>

-----------------------------------------------------------------------------
(* The services. *)

BookMoves ==
    /\ "trading" \in up /\ book < MaxChanges
    /\ book' = book + 1
    /\ UNCHANGED <<bound, up, stops, bucket, passed, Desk>>

Stop(v) ==
    /\ v \in up /\ (v # "learning" => stops < MaxStops)
    /\ stops' = IF v = "learning" THEN stops ELSE stops + 1
    /\ up' = up \ {v}
    /\ UNCHANGED <<book, bound, bucket, passed, Desk>>

Restart(v) ==
    /\ v \notin up /\ up' = up \cup {v}
    /\ UNCHANGED <<book, bound, stops, bucket, passed, Desk>>

Serves == \E s \in Slots : Read(s) \/ Paint(s)

Next ==
    \/ Second \/ Poll \/ Serves
    \/ \E c \in {"desk", "save"} : Press(c)
    \/ Execute \/ Refuse \/ BookMoves
    \/ \E v \in Services : Stop(v) \/ Restart(v)

Spec == Init /\ [][Next]_vars

\* Time passes, the page's timer runs, a request sent is answered, and trading
\* and sentiment are started again; nobody has to press, and learning may stay
\* away or come and go.
FairSpec ==
    /\ Spec
    /\ WF_vars(Second) /\ WF_vars(Poll)
    /\ \A v \in Services \ {"learning"} : WF_vars(Restart(v))
    /\ \A s \in Slots : WF_vars(Read(s) \/ Paint(s))

-----------------------------------------------------------------------------
(* Properties. *)

\* What the page shows as the book is a version trading held since the
\* refresh began, never the empty answer that stands in for a service that is
\* away (unaryFallback is for learning's reads only).
PaintedWasTrue ==
    page.book # Missing \/ page.ips # Missing
        => page.book \in page.since .. book /\ page.ips <= bound

\* However long a client was quiet, no more than a burst of its requests gets
\* through at once (Limiter.Allow).
BurstBounded == passed <= Burst

\* Once trading and sentiment are up for good the page comes to show the book
\* and the statement there are, whatever was lost, refused or painted out of
\* order before, and though learning never comes back.  (One failed read of
\* sentiment fails a whole refresh, the book's with it: while that service is
\* away the page stands still.)
PageCatchesUp == <>[](page.book = book /\ page.ips = bound)
=============================================================================
