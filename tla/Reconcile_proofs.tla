-------------------------- MODULE Reconcile_proofs --------------------------
(* Proofs about the coalescing refresh, for any set of callers.               *)
EXTENDS Reconcile, TLAPS

(* The inductive invariant: the flags say exactly what the threads are doing. *)
IInv == TypeOK /\ OneWorker /\ (idle <=> ~running)

(* The invariant holds at the start.                                          *)
LEMMA InitInv == Init => IInv
BY DEF Init, IInv, TypeOK, OneWorker, Active

(* Every step keeps it: one case per action.                                  *)
LEMMA StepInv == IInv /\ [Next]_vars => IInv'
<1> SUFFICES ASSUME IInv, [Next]_vars PROVE IInv'
  OBVIOUS
<1> USE DEF IInv, TypeOK, OneWorker, Active, flags, history
<1>1. ASSUME NEW c \in Callers, Coalesce(c) PROVE IInv'
  BY <1>1 DEF Coalesce
<1>2. ASSUME NEW c \in Callers, Claim(c) PROVE IInv'
  BY <1>2 DEF Claim
<1>3. ASSUME NEW c \in Callers, Start(c) PROVE IInv'
  BY <1>3 DEF Start
<1>4. ASSUME NEW c \in Callers, StartFails(c) PROVE IInv'
  BY <1>4 DEF StartFails
<1>5. ASSUME NEW c \in Callers, BeginPass(c) PROVE IInv'
  BY <1>5 DEF BeginPass
<1>6. ASSUME NEW c \in Callers, EndPass(c) PROVE IInv'
  BY <1>6 DEF EndPass
<1>7. ASSUME NEW c \in Callers, Again(c) PROVE IInv'
  BY <1>7 DEF Again
<1>8. ASSUME NEW c \in Callers, Rest(c) PROVE IInv'
  BY <1>8 DEF Rest
<1>9. CASE UNCHANGED vars
  BY <1>9 DEF vars
<1>10. QED
  BY <1>1, <1>2, <1>3, <1>4, <1>5, <1>6, <1>7, <1>8, <1>9 DEF Next, Request, Work

(* IInv is an invariant of the specification.                                 *)
THEOREM Invariance == Spec => []IInv
<1>1. QED
  BY InitInv, StepInv, PTL DEF Spec

(* At most one thread is the worker or about to become it, and                *)
(* _async_running is set exactly while there is one.                          *)
THEOREM SingleWorker == Spec => []OneWorker
<1>1. IInv => OneWorker
  BY DEF IInv
<1>2. QED
  BY <1>1, Invariance, PTL

(* When wait_reconciled returns, no background pass is running or to come.    *)
THEOREM QuietWhenIdle == Spec => []IdleMeansQuiet
<1>1. IInv => IdleMeansQuiet
  BY DEF IInv, OneWorker, IdleMeansQuiet
<1>2. QED
  BY <1>1, Invariance, PTL

-----------------------------------------------------------------------------
(* What NoneForgotten needs to survive a thread that does not start: whoever  *)
(* is waiting besides the caller that starts it is in dirty.                  *)
OthersDirty == \A c \in Callers : pc[c] = "starting" /\ ~dirty => owed \subseteq {c}

(* An accepted request has a pass coming, or a thread could not be started    *)
(* and the request waits in dirty.                                            *)
THEOREM Remembered == Spec => []NoneForgotten
<1> DEFINE Kept == NoneForgotten /\ OthersDirty
<1>1. Init => Kept
  BY DEF Init, NoneForgotten, OthersDirty
<1>2. IInv /\ Kept /\ [Next]_vars => Kept'
  <2> SUFFICES ASSUME IInv, Kept, [Next]_vars PROVE Kept'
    OBVIOUS
  <2> USE DEF IInv, TypeOK, OneWorker, Active, NoneForgotten, OthersDirty, flags, history
  <2>1. ASSUME NEW c \in Callers, Coalesce(c) PROVE Kept'
    BY <2>1 DEF Coalesce
  <2>2. ASSUME NEW c \in Callers, Claim(c) PROVE Kept'
    BY <2>2 DEF Claim
  <2>3. ASSUME NEW c \in Callers, Start(c) PROVE Kept'
    BY <2>3 DEF Start
  <2>4. ASSUME NEW c \in Callers, StartFails(c) PROVE Kept'
    BY <2>4 DEF StartFails
  <2>5. ASSUME NEW c \in Callers, BeginPass(c) PROVE Kept'
    BY <2>5 DEF BeginPass
  <2>6. ASSUME NEW c \in Callers, EndPass(c) PROVE Kept'
    BY <2>6 DEF EndPass
  <2>7. ASSUME NEW c \in Callers, Again(c) PROVE Kept'
    BY <2>7 DEF Again
  <2>8. ASSUME NEW c \in Callers, Rest(c) PROVE Kept'
    BY <2>8 DEF Rest
  <2>9. CASE UNCHANGED vars
    BY <2>9 DEF vars
  <2>10. QED
    BY <2>1, <2>2, <2>3, <2>4, <2>5, <2>6, <2>7, <2>8, <2>9 DEF Next, Request, Work
<1>3. QED
  BY <1>1, <1>2, Invariance, PTL DEF Spec

-----------------------------------------------------------------------------
(* The safety part of ServiceSpec: every step of the flags and the worker is  *)
(* a step of RefreshService or leaves it as it is.                            *)
THEOREM ImplementsService ==
    Spec => Service!Init /\ [][Service!Next]_<<passing, pending>>
<1> USE DEF passing, pending
<1>1. Init => Service!Init
  BY DEF Init, Service!Init
<1>2. IInv /\ [Next]_vars => [Service!Next]_<<passing, pending>>
  <2> SUFFICES ASSUME IInv, [Next]_vars PROVE [Service!Next]_<<passing, pending>>
    OBVIOUS
  <2> USE DEF IInv, TypeOK, OneWorker, Active, flags, history,
              Service!Next, Service!Ask, Service!Refuse, Service!Begin, Service!End
  <2>1. ASSUME NEW c \in Callers, Request(c) PROVE Service!Ask
    BY <2>1 DEF Request, Coalesce, Claim
  <2>2. ASSUME NEW c \in Callers, Start(c) \/ Again(c) \/ Rest(c)
        PROVE  UNCHANGED <<passing, pending>>
    BY <2>2 DEF Start, Again, Rest
  <2>3. ASSUME NEW c \in Callers, StartFails(c)
        PROVE  Service!Refuse \/ UNCHANGED <<passing, pending>>
    BY <2>3 DEF StartFails
  <2>4. ASSUME NEW c \in Callers, BeginPass(c) PROVE Service!Begin
    BY <2>4 DEF BeginPass
  <2>5. ASSUME NEW c \in Callers, EndPass(c) PROVE Service!End
    BY <2>5 DEF EndPass
  <2>6. CASE UNCHANGED vars
    BY <2>6 DEF vars
  <2>7. QED
    BY <2>1, <2>2, <2>3, <2>4, <2>5, <2>6 DEF Next, Work
<1>3. QED
  BY <1>1, <1>2, Invariance, PTL DEF Spec
=============================================================================
