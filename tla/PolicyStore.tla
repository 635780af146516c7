----------------------------- MODULE PolicyStore -----------------------------
(***************************************************************************)
(* The policy service of internal/policy over its directory of statements: *)
(* PutIPS as its three unlocked steps, the boot of cmd/trading that reads  *)
(* back what they left, and the frozen campaigns that forbid a change.     *)
(*                                                                         *)
(* A statement is its id and its terms (every other field); its hash is a  *)
(* fingerprint of both, so equal hashes are equal statements.  A file is   *)
(* written beside and renamed over under the store's mutex: a put file or  *)
(* pointer is there or it is not.                                          *)
(***************************************************************************)
EXTENDS Naturals, FiniteSets

CONSTANTS
    Clients,      \* callers of PutIPS
    Ids,          \* ids of statements
    Terms,        \* what a statement may say
    IdA, TermsA,  \* IPS A, the shipped default
    PreferId,     \* IPS_ID of the environment, or None
    FrozenAt,     \* terms each id is frozen under when we start, or None
    None,
    MayFail,      \* may reading or writing a statement's file fail
    MayTear,      \* may a ledger be unreadable while it is rewritten
    MaxPuts,      \* bound: calls of PutIPS
    MaxCrashes,   \* bound: times the process dies
    MaxFreezes    \* bound: ledgers another process freezes meanwhile

Statements == [id : Ids, terms : Terms]
A == [id |-> IdA, terms |-> TermsA]

ASSUME NoneAssumption   == /\ None \notin Ids /\ None \notin Terms
                           /\ None \notin Statements
ASSUME DefaultAssumption == IdA \in Ids /\ TermsA \in Terms
ASSUME PreferAssumption == PreferId \in Ids \cup {None}
\* The committed ledgers of IPS A froze it as it ships.
ASSUME FrozenAssumption == /\ FrozenAt \in [Ids -> Terms \cup {None}]
                           /\ FrozenAt[IdA] \in {TermsA, None}
ASSUME BoundAssumption  == /\ {MayFail, MayTear} \subseteq BOOLEAN
                           /\ {MaxPuts, MaxCrashes, MaxFreezes} \subseteq Nat

VARIABLES
    disk,            \* the file of each id
    bound,           \* the BOUND pointer
    frozen,          \* what the campaign ledgers froze
    phase, chosen,   \* the process: down, a step of its boot, or serving
    book,            \* the statement the trading service is bound to
    pc, put,         \* each PutIPS in progress: its next step, its statement
    puts, crashes, freezes,
    acked, since     \* history: last put acknowledged, puts begun after it

vars == <<disk, bound, frozen, phase, chosen, book, pc, put,
          puts, crashes, freezes, acked, since>>

Stored == {id \in Ids : disk[id] # None}
OnDisk(id) == [id |-> id, terms |-> disk[id]]

\* The statement on record: the file the pointer names.
Current == IF bound = None \/ disk[bound] = None THEN None ELSE OnDisk(bound)

Init ==
    /\ disk = [id \in Ids |-> None] /\ bound = None
    /\ frozen = FrozenAt
    /\ phase = "down" /\ chosen = None /\ book = None
    /\ pc = [c \in Clients |-> "idle"] /\ put = [c \in Clients |-> A]
    /\ puts = 0 /\ crashes = 0 /\ freezes = 0
    /\ acked = None /\ since = {}

-----------------------------------------------------------------------------
(* PutIPS.  The statement is valid; a refused one changes nothing. *)

\* FailedPrecondition unless the id is not frozen or the bytes are the same.
\* FrozenIPS passes over a ledger it cannot read.  The mutant takes an id
\* without a file for a new one.
MayChangeOrNew(p) == frozen[p.id] \in {None, p.terms} \/ disk[p.id] = None
MayChange(p) == frozen[p.id] \in {None, p.terms} \/ MayTear

PutStart(c, p) ==
    /\ phase = "serving" /\ pc[c] = "idle" /\ puts < MaxPuts
    /\ MayChange(p)
    /\ pc' = [pc EXCEPT ![c] = "store"]
    /\ put' = [put EXCEPT ![c] = p]
    /\ puts' = puts + 1
    /\ since' = since \cup {p}
    /\ UNCHANGED <<disk, bound, frozen, phase, chosen, book, crashes, freezes, acked>>

\* Internal: what is stored so far stays stored.
PutFails(c) ==
    /\ MayFail /\ pc[c] \in {"store", "point"}
    /\ pc' = [pc EXCEPT ![c] = "idle"]
    /\ UNCHANGED <<disk, bound, frozen, phase, chosen, book, put, puts,
                   crashes, freezes, acked, since>>

StorePut(c) ==
    /\ pc[c] = "store"
    /\ disk' = [disk EXCEPT ![put[c].id] = put[c].terms]
    /\ pc' = [pc EXCEPT ![c] = "point"]
    /\ UNCHANGED <<bound, frozen, phase, chosen, book, put, puts, crashes,
                   freezes, acked, since>>

SetBound(c) ==
    /\ pc[c] = "point"
    /\ bound' = put[c].id
    /\ pc' = [pc EXCEPT ![c] = "bind"]
    /\ UNCHANGED <<disk, frozen, phase, chosen, book, put, puts, crashes,
                   freezes, acked, since>>

\* BindIPS keeps a statement of the same hash, which is the same statement.
\* The mutant compares ids.
BindIPSById(p) == book' = IF book # None /\ book.id = p.id THEN book ELSE p
BindIPS(p) == book' = p

OnPut(c) ==
    /\ pc[c] = "bind"
    /\ BindIPS(put[c])
    /\ pc' = [pc EXCEPT ![c] = "idle"]
    /\ acked' = put[c] /\ since' = {}
    /\ UNCHANGED <<disk, bound, frozen, phase, chosen, put, puts, crashes, freezes>>

-----------------------------------------------------------------------------
(* The process: it dies, it starts, it boots the book. *)

Client == <<pc, put, puts, acked, since>>

Crash ==
    /\ phase # "down" /\ crashes < MaxCrashes
    /\ crashes' = crashes + 1
    /\ phase' = "down" /\ chosen' = None /\ book' = None
    /\ pc' = [c \in Clients |-> "idle"]
    /\ UNCHANGED <<disk, bound, frozen, put, puts, freezes, acked, since>>

Start ==
    /\ phase = "down" /\ phase' = "prefer"
    /\ UNCHANGED <<disk, bound, frozen, chosen, book, Client, crashes, freezes>>

Boot(from) == phase = from /\ UNCHANGED <<frozen, book, Client, crashes, freezes>>
NotFound(next) == phase' = next /\ UNCHANGED <<disk, bound, chosen>>

\* Boot returns the file of id.
Choose(id) == chosen' = OnDisk(id) /\ phase' = "bind" /\ UNCHANGED disk

\* SetBound at a boot: an error is ignored.
Point(id) == bound' \in {id} \cup (IF MayFail THEN {bound} ELSE {})

\* IPS_ID, if there is such a file.
TryPreferred ==
    /\ Boot("prefer")
    /\ \/ PreferId \in Stored /\ Point(PreferId) /\ Choose(PreferId)
       \/ (PreferId \notin Stored \/ MayFail) /\ NotFound("pointer")

\* The file BOUND names.  The mutant forgets the pointer.
TryPointerForgotten == Boot("pointer") /\ NotFound("only")
TryPointer ==
    /\ Boot("pointer")
    /\ \/ Current # None /\ Choose(bound) /\ UNCHANGED bound
       \/ (Current = None \/ MayFail) /\ NotFound("only")

\* List skips a file it cannot read; a directory it cannot read is an error.
TryOnly ==
    /\ Boot("only")
    /\ \/ \E listed \in IF MayFail THEN SUBSET Stored ELSE {Stored} :
            \/ \E id \in listed : listed = {id} /\ Point(id) /\ Choose(id)
            \/ Cardinality(listed) # 1 /\ NotFound("default")
       \/ MayFail /\ NotFound("serving")

\* IPS A as stored, or stored as it ships.  The mutant points before it stores.
TryDefaultPointed ==
    /\ Boot("default")
    /\ bound' = IdA /\ phase' = "created" /\ UNCHANGED <<disk, chosen>>
TryDefault ==
    /\ Boot("default")
    /\ \/ IdA \in Stored /\ Point(IdA) /\ Choose(IdA)
       \/ /\ IdA \notin Stored \/ MayFail
          /\ disk' = [disk EXCEPT ![IdA] = TermsA]
          /\ phase' = "created" /\ UNCHANGED <<bound, chosen>>
       \/ MayFail /\ NotFound("serving")

PointDefault ==
    /\ Boot("created")
    /\ \/ bound' = IdA /\ chosen' = A /\ phase' = "bind" /\ UNCHANGED disk
       \/ MayFail /\ NotFound("serving")

\* cmd/trading binds what Boot chose, then serves; a failed Boot binds nothing.
BootBind ==
    /\ phase = "bind"
    /\ BindIPS(chosen)
    /\ phase' = "serving" /\ chosen' = None
    /\ UNCHANGED <<disk, bound, frozen, Client, crashes, freezes>>

BootStep == TryPreferred \/ TryPointer \/ TryOnly \/ TryDefault \/ PointDefault \/ BootBind

\* cmd/campaign -run writes the ledger of its own statement.
Freeze(p) ==
    /\ freezes < MaxFreezes /\ frozen[p.id] = None
    /\ frozen' = [frozen EXCEPT ![p.id] = p.terms]
    /\ freezes' = freezes + 1
    /\ UNCHANGED <<disk, bound, phase, chosen, book, Client, crashes>>

PutStep(c) == StorePut(c) \/ SetBound(c) \/ OnPut(c)

Next ==
    \/ \E c \in Clients : \/ \E p \in Statements : PutStart(c, p)
                          \/ PutFails(c) \/ StorePut(c) \/ SetBound(c) \/ OnPut(c)
    \/ Crash \/ Start
    \/ TryPreferred \/ TryPointer \/ TryOnly \/ TryDefault \/ PointDefault \/ BootBind
    \/ \E p \in Statements : Freeze(p)

Spec == Init /\ [][Next]_vars

\* A handler and a boot that has begun run on; nobody has to start the
\* process, call it or kill it.
FairSpec == Spec /\ WF_vars(BootStep) /\ \A c \in Clients : WF_vars(PutStep(c))

-----------------------------------------------------------------------------
(* Properties. *)

TypeOK ==
    /\ disk \in [Ids -> Terms \cup {None}]
    /\ bound \in Ids \cup {None}
    /\ frozen \in [Ids -> Terms \cup {None}]
    /\ phase \in {"down", "prefer", "pointer", "only", "default", "created",
                  "bind", "serving"}
    /\ chosen \in Statements \cup {None} /\ book \in Statements \cup {None}
    /\ pc \in [Clients -> {"idle", "store", "point", "bind"}]
    /\ put \in [Clients -> Statements]
    /\ {puts, crashes, freezes} \subseteq Nat
    /\ acked \in Statements \cup {None} /\ since \subseteq Statements

Settled == phase = "serving" /\ \A c \in Clients : pc[c] = "idle"

Allowed(p) == FrozenAt[p.id] \in {None, p.terms}
Admissible == {p \in Statements : Allowed(p)}

\* A statement bound to a frozen campaign is what was frozen, on disk and in
\* the book, whatever is put, dies, fails or is booted (PutIPS's check and
\* Boot, which has none).
FrozenKept ==
    /\ \A id \in Stored : Allowed(OnDisk(id))
    /\ book # None => Allowed(book)

\* The pointer never names a statement that is not stored, wherever a put or
\* a boot is cut short: Boot would skip it for another (PutIPS and Boot store
\* before they point).
PointerNamesFile == bound # None => bound \in Stored

\* With one client, a statement whose put was acknowledged is what the book
\* runs under after any number of restarts, or one put later (Boot keeps the
\* put statement, as its test expects of a single restart).
AckedPutSurvives ==
    phase = "serving" /\ acked # None => book \in {acked} \cup since

\* With one client and no file errors the service keeps the promise of
\* StatementRegistry.
Registry == INSTANCE StatementRegistry WITH
    statement <- Current, running <- book, on <- phase # "down"
KeepsPromise == Registry!FairSpec

\* internal/policy/store.go:19 calls BOUND the statement the live book is
\* under.  Two clients whose puts interleave leave the pointer on one
\* statement and the book under the other, with nothing in progress.
BookUnderBound == Settled /\ bound # None => book = Current
=============================================================================
