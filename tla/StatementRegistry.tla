-------------------------- MODULE StatementRegistry --------------------------
(***************************************************************************)
(* What the policy service promises the desk: there is one statement on    *)
(* record, whoever stops the process it stays on record, and the book only *)
(* ever takes up the one on record and does so in the end.                 *)
(***************************************************************************)
CONSTANTS
    Admissible,   \* statements that may go on record
    None          \* no statement

VARIABLES
    statement,    \* the statement on record
    running,      \* the statement the book runs under
    on            \* is the process running

vars == <<statement, running, on>>

Init == statement = None /\ running = None /\ on = FALSE

\* A statement goes on record, put by a client or chosen at a start.
Accept == on /\ statement' \in Admissible /\ UNCHANGED <<running, on>>

TakeUp == /\ on /\ statement # None
          /\ running' = statement
          /\ UNCHANGED <<statement, on>>

Start == ~on /\ on' = TRUE /\ UNCHANGED <<statement, running>>

\* The book is memory of the process.
Stop == on /\ on' = FALSE /\ running' = None /\ UNCHANGED statement

Next == Accept \/ TakeUp \/ Start \/ Stop

Spec == Init /\ [][Next]_vars

FairSpec == Spec /\ WF_vars(TakeUp)
=============================================================================
