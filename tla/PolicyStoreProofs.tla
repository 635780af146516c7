-------------------------- MODULE PolicyStoreProofs --------------------------
(***************************************************************************)
(* What PolicyStore keeps for any clients, ids, terms, failures and number *)
(* of calls and crashes.                                                   *)
(***************************************************************************)
EXTENDS PolicyStore, TLAPS

USE DEF Statements

\* Every variable keeps its type (all of PolicyStore).
THEOREM TypeCorrect == Spec => []TypeOK
<1>1. Init => TypeOK
  BY DefaultAssumption, FrozenAssumption DEF Init, TypeOK, A
<1>2. TypeOK /\ [Next]_vars => TypeOK'
  <2> SUFFICES ASSUME TypeOK, [Next]_vars PROVE TypeOK'
    OBVIOUS
  <2> USE DEF TypeOK
  <2>1. ASSUME NEW c \in Clients, NEW p \in Statements, PutStart(c, p) PROVE TypeOK'
    BY <2>1 DEF PutStart
  <2>2. ASSUME NEW c \in Clients, PutFails(c) PROVE TypeOK'
    BY <2>2 DEF PutFails
  <2>3. ASSUME NEW c \in Clients, StorePut(c) PROVE TypeOK'
    BY <2>3 DEF StorePut
  <2>4. ASSUME NEW c \in Clients, SetBound(c) PROVE TypeOK'
    BY <2>4 DEF SetBound
  <2>5. ASSUME NEW c \in Clients, OnPut(c) PROVE TypeOK'
    BY <2>5 DEF OnPut, BindIPS
  <2>6. CASE Crash
    BY <2>6 DEF Crash
  <2>7. CASE Start
    BY <2>7 DEF Start, Client
  <2>8. CASE TryPreferred
    BY <2>8 DEF TryPreferred, Boot, NotFound, Choose, Point, OnDisk, Stored, Client
  <2>9. CASE TryPointer
    BY <2>9 DEF TryPointer, Boot, NotFound, Choose, OnDisk, Current, Client
  <2>10. CASE TryOnly
    BY <2>10 DEF TryOnly, Boot, NotFound, Choose, Point, OnDisk, Stored, Client
  <2>11. CASE TryDefault
    BY <2>11, DefaultAssumption DEF TryDefault, Boot, NotFound, Choose, Point, OnDisk, Stored, Client
  <2>12. CASE PointDefault
    BY <2>12, DefaultAssumption DEF PointDefault, Boot, NotFound, A, Client
  <2>13. CASE BootBind
    BY <2>13 DEF BootBind, BindIPS, Client
  <2>14. ASSUME NEW p \in Statements, Freeze(p) PROVE TypeOK'
    BY <2>14 DEF Freeze, Client
  <2>15. CASE UNCHANGED vars
    BY <2>15 DEF vars
  <2> QED
    BY <2>1, <2>2, <2>3, <2>4, <2>5, <2>6, <2>7, <2>8, <2>9, <2>10, <2>11,
       <2>12, <2>13, <2>14, <2>15 DEF Next
<1> QED
  BY <1>1, <1>2, PTL DEF Spec

-----------------------------------------------------------------------------
(* Frozen statements, when no ledger is frozen meanwhile: what is about to   *)
(* be stored or bound is as allowed as what is.                              *)

FrozenInv ==
    /\ FrozenKept
    /\ frozen = FrozenAt
    /\ \A c \in Clients : Allowed(put[c])
    /\ chosen # None => Allowed(chosen)

LEMMA FrozenInvariant == ASSUME MaxFreezes = 0, ~MayTear PROVE Spec => []FrozenInv
<1> USE DEF FrozenInv, FrozenKept, Allowed, Stored, OnDisk
<1>1. Init => FrozenInv
  BY SMTT(60), DefaultAssumption, FrozenAssumption, NoneAssumption DEF Init, A
<1>2. TypeOK /\ FrozenInv /\ [Next]_vars => FrozenInv'
  <2> SUFFICES ASSUME TypeOK, FrozenInv, [Next]_vars PROVE FrozenInv'
    OBVIOUS
  <2> USE NoneAssumption DEF TypeOK
  <2>1. ASSUME NEW c \in Clients, NEW p \in Statements, PutStart(c, p) PROVE FrozenInv'
    BY <2>1 DEF PutStart, MayChange
  <2>2. ASSUME NEW c \in Clients, PutFails(c) PROVE FrozenInv'
    BY <2>2 DEF PutFails
  <2>3. ASSUME NEW c \in Clients, StorePut(c) PROVE FrozenInv'
    BY <2>3 DEF StorePut
  <2>4. ASSUME NEW c \in Clients, SetBound(c) PROVE FrozenInv'
    BY <2>4 DEF SetBound
  <2>5. ASSUME NEW c \in Clients, OnPut(c) PROVE FrozenInv'
    BY <2>5 DEF OnPut, BindIPS
  <2>6. CASE Crash
    BY <2>6 DEF Crash
  <2>7. CASE Start
    BY <2>7 DEF Start, Client
  <2>8. CASE TryPreferred
    BY <2>8 DEF TryPreferred, Boot, NotFound, Choose, Client
  <2>9. CASE TryPointer
    BY <2>9 DEF TryPointer, Boot, NotFound, Choose, Current, Client
  <2>10. CASE TryOnly
    BY <2>10 DEF TryOnly, Boot, NotFound, Choose, Client
  <2>11. CASE TryDefault
    BY <2>11, DefaultAssumption, FrozenAssumption DEF TryDefault, Boot, NotFound, Choose, Client
  <2>12. CASE PointDefault
    BY <2>12, DefaultAssumption, FrozenAssumption DEF PointDefault, Boot, NotFound, A, Client
  <2>13. CASE BootBind
    BY <2>13 DEF BootBind, BindIPS, Client
  <2>14. ASSUME NEW p \in Statements, Freeze(p) PROVE FALSE
    BY <2>14 DEF Freeze
  <2>15. CASE UNCHANGED vars
    BY <2>15 DEF vars
  <2> QED
    BY <2>1, <2>2, <2>3, <2>4, <2>5, <2>6, <2>7, <2>8, <2>9, <2>10, <2>11,
       <2>12, <2>13, <2>14, <2>15 DEF Next
<1> QED
  BY <1>1, <1>2, TypeCorrect, PTL DEF Spec

\* A statement bound to a frozen campaign stays what was frozen, on disk and
\* in the book, while no ledger is frozen or rewritten meanwhile (PutIPS, Boot).
THEOREM FrozenAlwaysKept == ASSUME MaxFreezes = 0, ~MayTear PROVE Spec => []FrozenKept
<1>1. FrozenInv => FrozenKept
  BY DEF FrozenInv
<1> QED
  BY <1>1, FrozenInvariant, PTL

-----------------------------------------------------------------------------
(* The pointer: whoever is about to point has stored. *)

PointerInv ==
    /\ PointerNamesFile
    /\ \A c \in Clients : pc[c] = "point" => put[c].id \in Stored
    /\ phase = "created" => IdA \in Stored

\* The BOUND pointer names a stored statement, wherever a put or a boot stops.
THEOREM PointerAlwaysNamesFile == Spec => []PointerNamesFile
<1> USE DEF PointerInv, PointerNamesFile, Stored
<1>1. Init => PointerInv
  BY DEF Init
<1>2. TypeOK /\ PointerInv /\ [Next]_vars => PointerInv'
  <2> SUFFICES ASSUME TypeOK, PointerInv, [Next]_vars PROVE PointerInv'
    OBVIOUS
  <2> USE NoneAssumption DEF TypeOK
  <2>1. ASSUME NEW c \in Clients, NEW p \in Statements, PutStart(c, p) PROVE PointerInv'
    BY <2>1 DEF PutStart
  <2>2. ASSUME NEW c \in Clients, PutFails(c) PROVE PointerInv'
    BY <2>2 DEF PutFails
  <2>3. ASSUME NEW c \in Clients, StorePut(c) PROVE PointerInv'
    BY <2>3 DEF StorePut
  <2>4. ASSUME NEW c \in Clients, SetBound(c) PROVE PointerInv'
    BY <2>4 DEF SetBound
  <2>5. ASSUME NEW c \in Clients, OnPut(c) PROVE PointerInv'
    BY <2>5 DEF OnPut
  <2>6. CASE Crash
    BY <2>6 DEF Crash
  <2>7. CASE Start
    BY <2>7 DEF Start, Client
  <2>8. CASE TryPreferred
    BY <2>8 DEF TryPreferred, Boot, NotFound, Choose, Point, Client
  <2>9. CASE TryPointer
    BY <2>9 DEF TryPointer, Boot, NotFound, Choose, Client
  <2>10. CASE TryOnly
    BY <2>10 DEF TryOnly, Boot, NotFound, Choose, Point, Client
  <2>11. CASE TryDefault
    BY <2>11, DefaultAssumption DEF TryDefault, Boot, NotFound, Choose, Point, Client
  <2>12. CASE PointDefault
    BY <2>12 DEF PointDefault, Boot, NotFound, Client
  <2>13. CASE BootBind
    BY <2>13 DEF BootBind, Client
  <2>14. ASSUME NEW p \in Statements, Freeze(p) PROVE PointerInv'
    BY <2>14 DEF Freeze, Client
  <2>15. CASE UNCHANGED vars
    BY SMTT(60), <2>15 DEF vars
  <2> QED
    BY <2>1, <2>2, <2>3, <2>4, <2>5, <2>6, <2>7, <2>8, <2>9, <2>10, <2>11,
       <2>12, <2>13, <2>14, <2>15 DEF Next
<1> QED
  BY <1>1, <1>2, TypeCorrect, PTL DEF Spec

-----------------------------------------------------------------------------
(* One client and no file errors: the service implements StatementRegistry.  *)

OneClient == \A c, d \in Clients : c = d

\* Where one put and one boot stand: only a serving process has a put in
\* progress or a book, and a statement is on record before the book binds it.
PromiseInv ==
    /\ phase # "serving" => book = None /\ \A c \in Clients : pc[c] = "idle"
    /\ phase = "created" => disk[IdA] = TermsA
    /\ phase = "bind" => chosen = Current /\ chosen # None
    /\ \A c \in Clients :
          /\ pc[c] = "point" => disk[put[c].id] = put[c].terms
          /\ pc[c] = "bind" => put[c] = Current

\* The refinement invariant, with what the other theorems give.
StoreInv == TypeOK /\ FrozenInv /\ PromiseInv

LEMMA PromiseKept ==
  ASSUME OneClient, ~MayFail, TypeOK, PromiseInv, [Next]_vars
  PROVE  PromiseInv'
<1> USE NoneAssumption DEF TypeOK, PromiseInv, OneClient, Current, OnDisk
<1>1. ASSUME NEW c \in Clients, NEW p \in Statements, PutStart(c, p) PROVE PromiseInv'
  BY <1>1 DEF PutStart
<1>2. ASSUME NEW c \in Clients, PutFails(c) PROVE FALSE
  BY <1>2 DEF PutFails
<1>3. ASSUME NEW c \in Clients, StorePut(c) PROVE PromiseInv'
  BY <1>3 DEF StorePut
<1>4. ASSUME NEW c \in Clients, SetBound(c) PROVE PromiseInv'
  BY <1>4 DEF SetBound
<1>5. ASSUME NEW c \in Clients, OnPut(c) PROVE PromiseInv'
  BY <1>5 DEF OnPut, BindIPS
<1>6. CASE Crash
  BY <1>6 DEF Crash
<1>7. CASE Start
  BY <1>7 DEF Start, Client
<1>8. CASE TryPreferred
  BY <1>8 DEF TryPreferred, Boot, NotFound, Choose, Point, Stored, Client
<1>9. CASE TryPointer
  BY <1>9 DEF TryPointer, Boot, NotFound, Choose, Client
<1>10. CASE TryOnly
  BY <1>10 DEF TryOnly, Boot, NotFound, Choose, Point, Stored, Client
<1>11. CASE TryDefault
  BY <1>11, DefaultAssumption DEF TryDefault, Boot, NotFound, Choose, Point, Stored, Client
<1>12. CASE PointDefault
  BY <1>12, DefaultAssumption DEF PointDefault, Boot, NotFound, A, Client
<1>13. CASE BootBind
  BY <1>13 DEF BootBind, BindIPS, Client
<1>14. ASSUME NEW p \in Statements, Freeze(p) PROVE PromiseInv'
  BY <1>14 DEF Freeze, Client
<1>15. CASE UNCHANGED vars
  BY <1>15 DEF vars
<1> QED
  BY <1>1, <1>2, <1>3, <1>4, <1>5, <1>6, <1>7, <1>8, <1>9, <1>10, <1>11,
     <1>12, <1>13, <1>14, <1>15 DEF Next

\* Each step of the service is a step of the registry or none.
LEMMA StepsImplement ==
  ASSUME OneClient, ~MayFail, StoreInv, StoreInv', [Next]_vars
  PROVE  [Registry!Next]_(Registry!vars)
<1> USE NoneAssumption DEF StoreInv, TypeOK, FrozenInv, FrozenKept, PromiseInv,
        Current, OnDisk, Stored, Registry!vars
<1> DEFINE Accepts == Current' \in Admissible /\ UNCHANGED book /\ phase # "down" /\ phase' # "down"
           Stutters == UNCHANGED <<Current, book>> /\ (phase # "down") = (phase' # "down")
<1>a. ASSUME Accepts PROVE Registry!Next
  BY <1>a DEF Registry!Next, Registry!Accept
<1>b. ASSUME Stutters PROVE UNCHANGED Registry!vars
  BY <1>b
<1>1. ASSUME NEW c \in Clients, NEW p \in Statements, PutStart(c, p) PROVE Stutters
  BY <1>1 DEF PutStart
<1>2. ASSUME NEW c \in Clients, PutFails(c) PROVE FALSE
  BY <1>2 DEF PutFails
<1>3. ASSUME NEW c \in Clients, StorePut(c) PROVE Accepts \/ Stutters
  <2>1. CASE bound = put[c].id
    BY <1>3, <2>1 DEF StorePut, Admissible, Allowed
  <2>2. CASE bound # put[c].id
    BY <1>3, <2>2 DEF StorePut
  <2> QED
    BY SMTT(60), <2>1, <2>2
<1>4. ASSUME NEW c \in Clients, SetBound(c) PROVE Accepts
  BY <1>4 DEF SetBound, Admissible, Allowed
<1>5. ASSUME NEW c \in Clients, OnPut(c) PROVE Registry!TakeUp
  BY <1>5 DEF OnPut, BindIPS, Registry!TakeUp
<1>6. CASE Crash
  BY <1>6 DEF Crash, Registry!Next, Registry!Stop
<1>7. CASE Start
  BY <1>7 DEF Start, Client, Registry!Next, Registry!Start
<1>8. CASE TryPreferred
  <2>1. Accepts \/ Stutters
    BY <1>8 DEF TryPreferred, Boot, NotFound, Choose, Point, Client, Admissible, Allowed
  <2> QED
    BY <2>1, <1>a, <1>b
<1>9. CASE TryPointer
  <2>1. Stutters
    BY <1>9 DEF TryPointer, Boot, NotFound, Choose, Client
  <2> QED
    BY <2>1, <1>b
<1>10. CASE TryOnly
  <2>1. Accepts \/ Stutters
    BY <1>10 DEF TryOnly, Boot, NotFound, Choose, Point, Client, Admissible, Allowed
  <2> QED
    BY <2>1, <1>a, <1>b
<1>11. CASE TryDefault
  <2>1. Accepts \/ Stutters
    BY <1>11, DefaultAssumption DEF TryDefault, Boot, NotFound, Choose, Point, Client, Admissible, Allowed
  <2> QED
    BY <2>1, <1>a, <1>b
<1>12. CASE PointDefault
  <2>1. Accepts
    BY <1>12, DefaultAssumption DEF PointDefault, Boot, NotFound, A, Client, Admissible, Allowed
  <2> QED
    BY <2>1, <1>a
<1>13. CASE BootBind
  BY <1>13 DEF BootBind, BindIPS, Client, Registry!Next, Registry!TakeUp
<1>14. ASSUME NEW p \in Statements, Freeze(p) PROVE Stutters
  BY <1>14 DEF Freeze, Client
<1>15. CASE UNCHANGED vars
  <2>1. Stutters
    BY <1>15 DEF vars
  <2> QED
    BY <2>1, <1>b
<1>16. Registry!TakeUp => Registry!Next
  BY DEF Registry!Next
<1> HIDE DEF Accepts, Stutters
<1> QED
  BY <1>a, <1>b, <1>1, <1>2, <1>3, <1>4, <1>5, <1>6, <1>7, <1>8, <1>9, <1>10, <1>11,
     <1>12, <1>13, <1>14, <1>15, <1>16 DEF Next

\* With one client, no file errors and no ledger written meanwhile, the policy
\* service over its files implements the registry: the book takes up only the
\* statement on record, and only what the frozen campaigns admit goes on record.
THEOREM RegistryImplemented ==
  ASSUME OneClient, ~MayFail, ~MayTear, MaxFreezes = 0
  PROVE  Spec => Registry!Spec
<1>1. Init => Registry!Init
  BY NoneAssumption DEF Init, Registry!Init, Current
<1>2. Init => PromiseInv
  BY DEF Init, PromiseInv
<1>3. TypeOK /\ PromiseInv /\ [Next]_vars => PromiseInv'
  BY PromiseKept
<1>4. Spec => []PromiseInv
  BY <1>2, <1>3, TypeCorrect, PTL DEF Spec
<1>5. StoreInv /\ StoreInv' /\ [Next]_vars => [Registry!Next]_(Registry!vars)
  BY StepsImplement
<1>6. Spec => []StoreInv
  BY <1>4, TypeCorrect, FrozenInvariant, PTL DEF StoreInv
<1> QED
  BY <1>1, <1>5, <1>6, PTL DEF Spec, Registry!Spec
-----------------------------------------------------------------------------
(* One client, no file errors and no IPS_ID: an acknowledged put survives.   *)

\* What makes AckedPutSurvives inductive: the statement on record is the
\* acknowledged one or a later put's, so that a boot, which finds it under the
\* pointer, never comes to its other choices.
AckedInv ==
    /\ \A c \in Clients : pc[c] # "idle" => put[c] \in since
    /\ acked # None =>
          /\ Current \in {acked} \cup since
          /\ phase \notin {"only", "default", "created"}
          /\ phase = "serving" => book \in {acked} \cup since

LEMMA AckedStep ==
  ASSUME OneClient, ~MayFail, PreferId = None, TypeOK, PromiseInv, AckedInv, [Next]_vars
  PROVE  AckedInv'
<1> USE NoneAssumption DEF TypeOK, AckedInv
<1>1. ASSUME NEW c \in Clients, NEW p \in Statements, PutStart(c, p) PROVE AckedInv'
  BY <1>1 DEF PutStart, OneClient, Current, OnDisk
<1>2. ASSUME NEW c \in Clients, PutFails(c) PROVE FALSE
  BY <1>2 DEF PutFails
<1>3. ASSUME NEW c \in Clients, StorePut(c) PROVE AckedInv'
  <2>1. put[c] \in since BY <1>3 DEF StorePut
  <2>2. acked # None => Current' \in {put[c], Current}
    BY <1>3 DEF StorePut, Current, OnDisk
  <2> QED BY <1>3, <2>1, <2>2 DEF StorePut, OneClient
<1>4. ASSUME NEW c \in Clients, SetBound(c) PROVE AckedInv'
  <2>1. put[c] \in since /\ Current' = put[c]
    BY <1>4 DEF SetBound, PromiseInv, Current, OnDisk
  <2> QED BY <1>4, <2>1 DEF SetBound, OneClient
<1>5. ASSUME NEW c \in Clients, OnPut(c) PROVE AckedInv'
  <2>1. Current' = put[c] BY <1>5 DEF OnPut, PromiseInv, Current, OnDisk
  <2>2. phase = "serving" BY <1>5 DEF OnPut, PromiseInv
  <2> QED BY <1>5, <2>1, <2>2 DEF OnPut, BindIPS, OneClient
<1>6. CASE Crash
  BY <1>6 DEF Crash, Current, OnDisk
<1>7. CASE Start
  BY <1>7 DEF Start, Client, Current, OnDisk
<1>8. CASE TryPreferred
  <2>1. phase' = "pointer" /\ UNCHANGED <<disk, bound, Client>>
    BY <1>8 DEF TryPreferred, Boot, NotFound, Stored
  <2> QED BY <2>1 DEF Client, Current, OnDisk
<1>9. CASE TryPointer
  <2>1. UNCHANGED <<Current, Client>> BY <1>9 DEF TryPointer, Boot, NotFound, Choose, Current, OnDisk
  <2>2. Current # None => phase' = "bind" BY <1>9 DEF TryPointer, Choose
  <2>3. Current = None \/ phase' = "bind" BY <2>2
  <2>4. acked # None => Current # None BY DEF PromiseInv
  <2> QED BY <1>9, <2>1, <2>3, <2>4 DEF Boot, TryPointer, Client
<1>10. CASE TryOnly \/ TryDefault \/ PointDefault
  <2>1. acked = None /\ UNCHANGED Client
    BY <1>10 DEF TryOnly, TryDefault, PointDefault, Boot
  <2> QED BY <2>1 DEF Client
<1>11. CASE BootBind
  <2>1. book' = Current BY <1>11 DEF BootBind, BindIPS, PromiseInv
  <2> QED BY <1>11, <2>1 DEF BootBind, Client, Current, OnDisk
<1>12. ASSUME NEW p \in Statements, Freeze(p) PROVE AckedInv'
  BY <1>12 DEF Freeze, Client, Current, OnDisk
<1>13. CASE UNCHANGED vars
  BY <1>13 DEF vars, Current, OnDisk
<1> QED
  BY <1>1, <1>2, <1>3, <1>4, <1>5, <1>6, <1>7, <1>8, <1>9, <1>10, <1>11, <1>12, <1>13 DEF Next

\* With one client, no file errors and no IPS_ID set, the statement of an
\* acknowledged put is what the book runs under after any number of deaths and
\* boots, or one put later (PutIPS, Boot), whatever is frozen meanwhile.
THEOREM AckedPutAlwaysSurvives ==
  ASSUME OneClient, ~MayFail, PreferId = None
  PROVE  Spec => []AckedPutSurvives
<1>1. Init => PromiseInv /\ AckedInv
  BY DEF Init, PromiseInv, AckedInv
<1>2. TypeOK /\ PromiseInv /\ AckedInv /\ [Next]_vars => PromiseInv' /\ AckedInv'
  BY PromiseKept, AckedStep
<1>3. AckedInv => AckedPutSurvives
  BY DEF AckedInv, AckedPutSurvives
<1> QED
  BY <1>1, <1>2, <1>3, TypeCorrect, PTL DEF Spec
=============================================================================
