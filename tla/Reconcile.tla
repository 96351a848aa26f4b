------------------------------ MODULE Reconcile -----------------------------
(* The coalescing background refresh of src/sag/reconciler.py: tool calls and *)
(* the periodic loop ask, one worker thread at a time makes the passes.       *)

CONSTANTS
    Callers,  \* threads that ask: tool calls, and the periodic loop
    Periodic  \* the periodic loop

ASSUME ReconcileAssumption == Periodic \in Callers

VARIABLES
    running, \* _async_running
    dirty,   \* _async_dirty
    idle,    \* _async_idle.is_set()
    pc,      \* a caller is "out", or "starting" a thread, outside the lock
    worker,  \* the thread each caller started: none, before, in, after a pass
    owed,    \* history: callers that asked since the last pass began, and were
             \* not told that the request failed
    refused  \* history: a thread could not be started, and nobody asked since

flags == <<running, dirty, idle>>
history == <<owed, refused>>
vars == <<running, dirty, idle, pc, worker, owed, refused>>

Init ==
    /\ running = FALSE
    /\ dirty = FALSE
    /\ idle = TRUE
    /\ pc = [c \in Callers |-> "out"]
    /\ worker = [c \in Callers |-> "none"]
    /\ owed = {}
    /\ refused = FALSE

-----------------------------------------------------------------------------
(* request_reconcile, under the lock: a pass is under way ...                 *)
Coalesce(c) ==
    /\ pc[c] = "out"
    /\ running
    /\ dirty' = TRUE
    /\ owed' = owed \cup {c}
    /\ UNCHANGED <<running, idle, pc, worker, refused>>

(* Mutants: _async_running is not looked at; the event is not cleared.        *)
ClaimUnchecked(c) ==
    /\ pc[c] = "out"
    /\ running' = TRUE
    /\ idle' = FALSE
    /\ pc' = [pc EXCEPT ![c] = "starting"]
    /\ owed' = owed \cup {c}
    /\ refused' = FALSE
    /\ UNCHANGED <<dirty, worker>>

ClaimIdle(c) ==
    /\ pc[c] = "out"
    /\ ~running
    /\ running' = TRUE
    /\ pc' = [pc EXCEPT ![c] = "starting"]
    /\ owed' = owed \cup {c}
    /\ refused' = FALSE
    /\ UNCHANGED <<dirty, idle, worker>>

(* ... or this caller is to start one.                                        *)
Claim(c) ==
    /\ pc[c] = "out"
    /\ ~running
    /\ running' = TRUE
    /\ idle' = FALSE
    /\ pc' = [pc EXCEPT ![c] = "starting"]
    /\ owed' = owed \cup {c}
    /\ refused' = FALSE
    /\ UNCHANGED <<dirty, worker>>

Start(c) ==
    /\ pc[c] = "starting"
    /\ pc' = [pc EXCEPT ![c] = "out"]
    /\ worker' = [worker EXCEPT ![c] = "begin"]
    /\ UNCHANGED <<flags, history>>

(* The thread cannot be started: the exception reaches this caller.           *)
StartFails(c) ==
    /\ pc[c] = "starting"
    /\ pc' = [pc EXCEPT ![c] = "out"]
    /\ running' = FALSE
    /\ idle' = TRUE
    /\ owed' = owed \ {c}
    /\ refused' = TRUE
    /\ UNCHANGED <<dirty, worker>>

-----------------------------------------------------------------------------
(* _reconcile_worker: reconcile() catches everything, so a pass always ends.  *)

BeginPass(c) ==
    /\ worker[c] = "begin"
    /\ worker' = [worker EXCEPT ![c] = "pass"]
    /\ owed' = {}
    /\ refused' = FALSE
    /\ UNCHANGED <<flags, pc>>

EndPass(c) ==
    /\ worker[c] = "pass"
    /\ worker' = [worker EXCEPT ![c] = "check"]
    /\ UNCHANGED <<flags, pc, history>>

Again(c) ==
    /\ worker[c] = "check"
    /\ dirty
    /\ dirty' = FALSE
    /\ worker' = [worker EXCEPT ![c] = "begin"]
    /\ UNCHANGED <<running, idle, pc, history>>

(* Mutant: the flag is not looked at before the worker goes.                  *)
RestUnchecked(c) ==
    /\ worker[c] = "check"
    /\ running' = FALSE
    /\ idle' = TRUE
    /\ worker' = [worker EXCEPT ![c] = "none"]
    /\ UNCHANGED <<dirty, pc, history>>

Rest(c) ==
    /\ worker[c] = "check"
    /\ ~dirty
    /\ running' = FALSE
    /\ idle' = TRUE
    /\ worker' = [worker EXCEPT ![c] = "none"]
    /\ UNCHANGED <<dirty, pc, history>>

-----------------------------------------------------------------------------
Request(c) == Coalesce(c) \/ Claim(c)
Work(c) == BeginPass(c) \/ EndPass(c) \/ Again(c) \/ Rest(c)

Next == \E c \in Callers : Request(c) \/ Start(c) \/ StartFails(c) \/ Work(c)

Spec == Init /\ [][Next]_vars

(* Threads run: a worker goes on, and a caller that is starting one comes to  *)
(* an end of it.  The periodic loop keeps asking (server.py:676), and threads *)
(* do not fail to start forever.                                              *)
FairSpec ==
    /\ Spec
    /\ \A c \in Callers : WF_vars(Work(c)) /\ WF_vars(Start(c) \/ StartFails(c))
    /\ WF_vars(Request(Periodic))
    /\ \A c \in Callers : SF_vars(Start(c))

-----------------------------------------------------------------------------
(* Every variable has its type.                                               *)
TypeOK ==
    /\ running \in BOOLEAN
    /\ dirty \in BOOLEAN
    /\ idle \in BOOLEAN
    /\ pc \in [Callers -> {"out", "starting"}]
    /\ worker \in [Callers -> {"none", "begin", "pass", "check"}]
    /\ owed \subseteq Callers
    /\ refused \in BOOLEAN

(* One thread at most is starting or being the worker, so passes asked for in *)
(* the background never overlap; and _async_running says whether there is one *)
(* ("never leave _async_running stuck", reconciler.py:302).                   *)
Active(c) == pc[c] = "starting" \/ worker[c] # "none"
OneWorker ==
    /\ \A c, d \in Callers : Active(c) /\ Active(d) => c = d
    /\ \A c \in Callers : ~(pc[c] = "starting" /\ worker[c] # "none")
    /\ running <=> \E c \in Callers : Active(c)

(* wait_reconciled: when the event is set no pass is running or to come.      *)
IdleMeansQuiet == idle => \A c \in Callers : ~Active(c)

(* A request that was accepted and has not had a pass yet has one coming: a   *)
(* thread that is about to begin one, or a worker that will find dirty set    *)
(* (reconciler.py:286: "coalesced into a single follow-up pass").  Only when  *)
(* the thread could not be started does it wait, in dirty, for the next       *)
(* request.                                                                   *)
NoneForgotten ==
    owed # {} => \/ \E c \in Callers : pc[c] = "starting" \/ worker[c] = "begin"
                 \/ dirty /\ (refused \/ \E c \in Callers : worker[c] \in {"pass", "check"})

(* The worker implements the abstract service: its passes do not overlap and  *)
(* each of the requests it accepts is followed by a pass.                     *)
passing == \E c \in Callers : worker[c] = "pass"
pending == owed # {}
Service == INSTANCE RefreshService WITH busy <- passing, due <- pending
ServiceSpec == Service!Spec
=============================================================================
