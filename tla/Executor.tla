------------------------------ MODULE Executor ------------------------------
(* One shell under supervision (src/sag/executor.py): processes that write to *)
(* its two pipes, and the thread that reads them, with a deadline.            *)
EXTENDS Naturals, FiniteSets

CONSTANTS
    Shell,      \* bash, the leader of a process group
    Kids,       \* processes it may start, in the background or not
    Streams,    \* stdout and stderr
    Cap,        \* bytes kept of a stream
    PipeSize, MaxBytes,     \* what a pipe holds; bound on what is written
    Timeout, Drain, Reap    \* timeout, _KILL_DRAIN_SECONDS, 5 s

ASSUME ExecutorAssumption ==
    /\ Shell \notin Kids
    /\ {Cap, PipeSize, MaxBytes, Timeout, Drain, Reap} \subseteq Nat \ {0}

Processes == {Shell} \cup Kids

VARIABLES
    sup,        \* where the supervisor is
    alive, group,   \* processes, and those in the shell's group
    holds,      \* the pipes a process may write to
    sent, got,  \* bytes written to, and read from, a pipe
    kept, dropped,  \* of _Capture
    open,       \* pipes registered with the selector
    now, until, \* time, and the end of the wait the supervisor is in
    timedOut,
    raised      \* the supervision broke

procs == <<alive, group, holds, sent>>
capture == <<got, kept, dropped, open>>
executor == <<sup, procs, capture, now, until, timedOut, raised>>

Alone ==
    /\ sup = "idle"
    /\ alive = {} /\ group = {}
    /\ holds = [p \in Processes |-> {}]
    /\ sent = [s \in Streams |-> 0]
    /\ got = [s \in Streams |-> 0]
    /\ kept = [s \in Streams |-> 0]
    /\ dropped = [s \in Streams |-> FALSE]
    /\ open = {}
    /\ now = 0 /\ until = 0
    /\ timedOut = FALSE /\ raised = FALSE

-----------------------------------------------------------------------------
(* The processes.  A fork inherits the pipes, and the group unless it leaves  *)
(* it (setsid, a job under "set -m").                                         *)
Fork(p, q) ==
    /\ p \in alive /\ q \in Kids \ alive
    /\ alive' = alive \cup {q}
    /\ \/ group' = group
       \/ p \in group /\ group' = group \cup {q}
    /\ holds' = [holds EXCEPT ![q] = holds[p]]
    /\ UNCHANGED <<sup, sent, capture, now, until, timedOut, raised>>

Output(p, s) ==
    /\ s \in holds[p]
    /\ sent[s] < MaxBytes /\ sent[s] - got[s] < PipeSize
    /\ sent' = [sent EXCEPT ![s] = @ + 1]
    /\ UNCHANGED <<sup, alive, group, holds, capture, now, until, timedOut, raised>>

Redirect(p, s) ==
    /\ s \in holds[p]
    /\ holds' = [holds EXCEPT ![p] = @ \ {s}]
    /\ UNCHANGED <<sup, alive, group, sent, capture, now, until, timedOut, raised>>

Die(S) ==
    /\ alive' = alive \ S
    /\ group' = group \ S
    /\ holds' = [p \in Processes |-> IF p \in S THEN {} ELSE holds[p]]

Exit(p) ==
    /\ p \in alive
    /\ Die({p})
    /\ UNCHANGED <<sup, sent, capture, now, until, timedOut, raised>>

Holders(s) == {p \in alive : s \in holds[p]}

-----------------------------------------------------------------------------
(* _collect.                                                                  *)
Goto(from, to) == sup = from /\ sup' = to

Spawn ==
    /\ Goto("idle", "pump")
    /\ alive' = {Shell}
    /\ group' = {Shell}
    /\ holds' = [holds EXCEPT ![Shell] = Streams]
    /\ open' = Streams
    /\ until' = Timeout
    /\ UNCHANGED <<sent, got, kept, dropped, now, timedOut, raised>>

(* Mutant: whatever is read in the drain starts it again.                     *)
ReadExtends(s) ==
    /\ sup \in {"pump", "drain"} /\ s \in open
    /\ \E n \in 1 .. sent[s] - got[s] :
          LET room == Cap - kept[s] IN
          /\ got' = [got EXCEPT ![s] = @ + n]
          /\ kept' = [kept EXCEPT ![s] = @ + IF n < room THEN n ELSE room]
          /\ dropped' = [dropped EXCEPT ![s] = @ \/ n > room]
    /\ until' = IF sup = "drain" THEN now + Drain ELSE until
    /\ UNCHANGED <<sup, procs, open, now, timedOut, raised>>

(* Mutant: a stream that fills the buffer exactly counts as cut.              *)
ReadShort(s) ==
    /\ sup \in {"pump", "drain"} /\ s \in open
    /\ \E n \in 1 .. sent[s] - got[s] :
          LET room == Cap - kept[s] IN
          /\ got' = [got EXCEPT ![s] = @ + n]
          /\ kept' = [kept EXCEPT ![s] = @ + IF n < room THEN n ELSE room]
          /\ dropped' = [dropped EXCEPT ![s] = @ \/ n >= room]
    /\ UNCHANGED <<sup, procs, open, now, until, timedOut, raised>>

(* One os.read of a ready pipe, fed to its buffer ...                         *)
Read(s) ==
    /\ sup \in {"pump", "drain"} /\ s \in open
    /\ \E n \in 1 .. sent[s] - got[s] :
          LET room == Cap - kept[s] IN
          /\ got' = [got EXCEPT ![s] = @ + n]
          /\ kept' = [kept EXCEPT ![s] = @ + IF n < room THEN n ELSE room]
          /\ dropped' = [dropped EXCEPT ![s] = @ \/ n > room]
    /\ UNCHANGED <<sup, procs, open, now, until, timedOut, raised>>

(* ... or its end: nobody can write to it any more.                           *)
Eof(s) ==
    /\ sup \in {"pump", "drain"} /\ s \in open
    /\ sent[s] = got[s] /\ Holders(s) = {}
    /\ open' = open \ {s}
    /\ UNCHANGED <<sup, procs, got, kept, dropped, now, until, timedOut, raised>>

(* Mutant: the shell's exit is taken for the end.                             *)
PumpedEarly ==
    /\ Goto("pump", "reap")
    /\ open = {} \/ Shell \notin alive
    /\ UNCHANGED <<procs, capture, now, until, timedOut, raised>>

Pumped ==
    /\ Goto("pump", "reap")
    /\ open = {}
    /\ UNCHANGED <<procs, capture, now, until, timedOut, raised>>

Reaped ==
    /\ Goto("reap", "done")
    /\ Shell \notin alive
    /\ UNCHANGED <<procs, capture, now, until, timedOut, raised>>

(* Mutant: only the shell is killed.                                          *)
ExpireShell ==
    /\ sup \in {"pump", "reap"} /\ now >= until
    /\ sup = "pump" => open # {}
    /\ sup = "reap" => Shell \in alive
    /\ sup' = "drain"
    /\ timedOut' = TRUE
    /\ until' = now + Drain
    /\ Die({Shell})
    /\ UNCHANGED <<sent, capture, now, raised>>

(* The deadline, while reading or while waiting for the shell.                *)
Expire ==
    /\ sup \in {"pump", "reap"} /\ now >= until
    /\ sup = "pump" => open # {}
    /\ sup = "reap" => Shell \in alive
    /\ sup' = "drain"
    /\ timedOut' = TRUE
    /\ until' = now + Drain
    /\ Die(group)
    /\ UNCHANGED <<sent, capture, now, raised>>

(* Mutant: reads on until the pipes are closed.                               *)
DrainedFully ==
    /\ Goto("drain", "wait")
    /\ open = {}
    /\ until' = now + Reap
    /\ UNCHANGED <<procs, capture, now, timedOut, raised>>

Drained ==
    /\ Goto("drain", "wait")
    /\ open = {} \/ now >= until
    /\ until' = now + Reap
    /\ UNCHANGED <<procs, capture, now, timedOut, raised>>

Waited ==
    /\ Goto("wait", "done")
    /\ Shell \notin alive \/ now >= until
    /\ UNCHANGED <<procs, capture, now, until, timedOut, raised>>

(* The supervision itself fails: the group is killed and the shell reaped.    *)
Break ==
    /\ sup \in {"pump", "reap", "drain"}
    /\ sup' = "wait"
    /\ raised' = TRUE
    /\ until' = now + Reap
    /\ Die(group)
    /\ UNCHANGED <<sent, capture, now, timedOut>>

(* Time: a wait that has run out is over before the next moment.              *)
Tick ==
    /\ sup \in {"pump", "reap", "drain", "wait"}
    /\ now < until
    /\ now' = now + 1
    /\ UNCHANGED <<sup, procs, capture, until, timedOut, raised>>

Supervise ==
    \/ \E s \in Streams : Read(s) \/ Eof(s)
    \/ Pumped \/ Reaped \/ Expire \/ Drained \/ Waited

Run ==
    \/ \E p \in Processes : Exit(p) \/ \E q \in Kids : Fork(p, q)
    \/ \E p \in Processes, s \in Streams : Output(p, s) \/ Redirect(p, s)
    \/ Supervise \/ Break \/ Tick

-----------------------------------------------------------------------------
(* A command that was not cut off: everything anybody wrote to its pipes was  *)
(* read, background processes included, and nobody can add to it.             *)
OutputComplete ==
    sup = "done" /\ ~timedOut /\ ~raised =>
        /\ Shell \notin alive
        /\ \A s \in Streams : sent[s] = got[s] /\ Holders(s) = {}

(* When a command is cut off, or its supervision breaks, no process of its    *)
(* group survives it (executor.py:178: "the shell must not keep running       *)
(* unsupervised").                                                            *)
GroupGone == sup = "done" /\ (timedOut \/ raised) => group = {}

(* What is kept of a stream is all of it or its first Cap bytes, and it is    *)
(* marked as cut exactly when something is missing, however reads split it.   *)
CutIsMarked ==
    \A s \in Streams :
        /\ kept[s] = IF got[s] < Cap THEN got[s] ELSE Cap
        /\ dropped[s] <=> got[s] > Cap

(* A command never keeps its caller longer than its timeout and the two waits *)
(* after it, even if a process that left the group goes on writing.           *)
InTime == now <= Timeout + Drain + Reap
=============================================================================
