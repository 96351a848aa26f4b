------------------------------- MODULE Tasks --------------------------------
(* Agent tasks (src/sag/collab.py): created, claimed, released, finished and  *)
(* reopened by agents whose calls run in parallel.  An update reads the row   *)
(* outside any transaction, decides, and then writes it whole; only the write *)
(* and the notice that goes with it are one transaction.                      *)
(*                                                                            *)
(* A call is used once.  The result it sets, the message it posts and the     *)
(* thread that message opens are named after the call.                        *)

CONSTANTS
    Agents,
    TaskIds,
    Calls,       \* hub_create_task and hub_update_task calls (bounds the run)
    None         \* SQL NULL

Statuses == {"open", "claimed", "done", "cancelled"}
Actions == {"claim", "release", "done", "cancel", "reopen", "comment"}

(* A row of agent_tasks, and a message about a task.                          *)
Rows == [status : Statuses, creator : Agents, assignee : Agents \cup {None},
         result : Calls \cup {None}, closed : BOOLEAN, thread : Calls \cup {None}]
Messages == [id : Calls, thread : Calls, task : TaskIds, to : SUBSET Agents]

ASSUME TasksAssumption == None \notin Agents \cup Calls \cup Rows \cup TaskIds

VARIABLES
    task,   \* agent_tasks
    msgs,   \* agent_messages with a task_id
    active, \* agents that hold an ACTIVE token
    pc,     \* new, write (decided, about to write), ended
    who,    \* the agent of a call
    tid,    \* the task it is about
    act,    \* the action it asked for
    seen    \* the row it read

tables == <<task, msgs>>
calls == <<pc, who, tid, act, seen>>
vars == <<task, msgs, active, pc, who, tid, act, seen>>

Init ==
    /\ task = [t \in TaskIds |-> None]
    /\ msgs = {}
    /\ active = Agents
    /\ pc = [c \in Calls |-> "new"]
    /\ who = [c \in Calls |-> None]
    /\ tid = [c \in Calls |-> None]
    /\ act = [c \in Calls |-> None]
    /\ seen = [c \in Calls |-> None]

-----------------------------------------------------------------------------
Involved(a, row) == a \in {row.creator, row.assignee}

(* Mutant: releasing is open to everyone.                                     *)
AllowedLoose(a, action, row) ==
    CASE action = "claim" ->
           \/ row.status = "claimed" /\ row.assignee = a
           \/ row.status = "open" /\ row.assignee \in {None, a}
      [] action = "release" -> row.status = "claimed"
      [] OTHER -> TRUE

(* The checks of update_task.                                                 *)
Allowed(a, action, row) ==
    CASE action = "claim" ->
           \/ row.status = "claimed" /\ row.assignee = a
           \/ row.status = "open" /\ row.assignee \in {None, a}
      [] action = "release" -> row.status = "claimed" /\ Involved(a, row)
      [] action = "done" -> /\ row.status \in {"open", "claimed"}
                            /\ row.assignee # None => Involved(a, row)
      [] action = "cancel" -> /\ row.status \in {"open", "claimed"}
                              /\ Involved(a, row)
      [] action = "reopen" -> /\ row.status \in {"done", "cancelled"}
                              /\ Involved(a, row)
      [] OTHER -> TRUE

(* Mutants: a done task keeps no closing time; reopening clears the result.   *)
DecidedUnclosed(a, action, row, given) ==
    CASE action = "done" -> [row EXCEPT !.status = "done",
                                        !.assignee = IF @ = None THEN a ELSE @]
      [] OTHER -> row

DecidedForgetful(a, action, row, given) ==
    CASE action = "reopen" -> [row EXCEPT !.status = "open", !.closed = FALSE, !.result = None]
      [] action = "done" -> [row EXCEPT !.status = "done", !.closed = TRUE, !.result = given]
      [] OTHER -> row

(* The columns it computes from the row it read.  given is the text that came *)
(* with the call, if any.                                                     *)
Decided(a, action, row, given) ==
    LET text == IF given # None THEN given ELSE row.result IN
    CASE action = "claim" -> [row EXCEPT !.status = "claimed", !.assignee = a]
      [] action = "release" -> [row EXCEPT !.status = "open", !.assignee = None]
      [] action = "done" -> [row EXCEPT !.status = "done", !.closed = TRUE, !.result = text,
                                        !.assignee = IF @ = None THEN a ELSE @]
      [] action = "cancel" -> [row EXCEPT !.status = "cancelled", !.closed = TRUE,
                                          !.result = text]
      [] action = "reopen" -> [row EXCEPT !.status = "open", !.closed = FALSE]
      [] OTHER -> row

(* Mutant: the thread of the row read earlier is used, not the row's own.     *)
NotifyStale(c, sender, t, row, targets) ==
    LET to == (targets \cap active) \ {sender}
        opened == seen[c] = None \/ seen[c].thread = None
        thread == IF opened THEN c ELSE seen[c].thread
    IN IF to = {}
       THEN /\ task' = [task EXCEPT ![t] = row]
            /\ UNCHANGED msgs
       ELSE /\ task' = [task EXCEPT ![t] = [row EXCEPT !.thread = thread]]
            /\ msgs' = msgs \cup {[id |-> c, thread |-> thread, task |-> t, to |-> to]}

(* _notify_task: a message to those concerned who are active, the sender left *)
(* out, in the task's thread; the first such message opens the thread.  The   *)
(* row is the one just written, read again inside the transaction.            *)
Notify(c, sender, t, row, targets) ==
    LET to == (targets \cap active) \ {sender}
        thread == IF row.thread = None THEN c ELSE row.thread
    IN IF to = {}
       THEN /\ task' = [task EXCEPT ![t] = row]
            /\ UNCHANGED msgs
       ELSE /\ task' = [task EXCEPT ![t] = [row EXCEPT !.thread = thread]]
            /\ msgs' = msgs \cup {[id |-> c, thread |-> thread, task |-> t, to |-> to]}

-----------------------------------------------------------------------------
(* hub_create_task.  An unassigned task is announced to everyone.             *)
Create(c, a, t, assignee, notify) ==
    /\ pc[c] = "new"
    /\ a \in active
    /\ task[t] = None
    /\ assignee \in active \cup {None}
    /\ who' = [who EXCEPT ![c] = a]
    /\ LET row == [status |-> "open", creator |-> a, assignee |-> assignee,
                   result |-> None, closed |-> FALSE, thread |-> None]
       IN Notify(c, a, t, row, IF ~notify THEN {}
                               ELSE IF assignee = None THEN active ELSE {assignee})
    /\ pc' = [pc EXCEPT ![c] = "ended"]
    /\ UNCHANGED <<active, tid, act, seen>>

(* hub_update_task up to its first write: SELECT in autocommit, checks.       *)
Read(c, a, t, action) ==
    /\ pc[c] = "new"
    /\ a \in active
    /\ task[t] # None
    /\ pc' = [pc EXCEPT ![c] = IF Allowed(a, action, task[t]) THEN "write" ELSE "ended"]
    /\ who' = [who EXCEPT ![c] = a]
    /\ tid' = [tid EXCEPT ![c] = t]
    /\ act' = [act EXCEPT ![c] = action]
    /\ seen' = [seen EXCEPT ![c] = task[t]]
    /\ UNCHANGED <<tables, active>>

(* UPDATE ... WHERE id = ?, the notice and the commit: one transaction.  The  *)
(* columns come from the row as read; thread_id is not among them, and a      *)
(* comment writes none of them.                                               *)
Write(c) ==
    /\ pc[c] = "write"
    /\ UNCHANGED <<active, who, tid, act, seen>>
    /\ pc' = [pc EXCEPT ![c] = "ended"]
    /\ \E given \in {c, None} :
         LET t == tid[c]
             new == Decided(who[c], act[c], seen[c], given)
         IN Notify(c, who[c], t,
                   IF act[c] = "comment" THEN task[t]
                   ELSE [new EXCEPT !.thread = task[t].thread],
                   {seen[c].creator, seen[c].assignee, new.assignee} \ {None})

(* Database locked, or the gateway dies before the commit.                    *)
Abort(c) ==
    /\ pc[c] = "write"
    /\ pc' = [pc EXCEPT ![c] = "ended"]
    /\ UNCHANGED <<tables, active, who, tid, act, seen>>

(* The root admin revokes an agent's token, or issues one again.              *)
Revoke(a) ==
    /\ a \in active
    /\ active' = active \ {a}
    /\ UNCHANGED <<tables, calls>>

Issue(a) ==
    /\ a \notin active
    /\ active' = active \cup {a}
    /\ UNCHANGED <<tables, calls>>

Next ==
    \/ \E c \in Calls, a \in Agents, t \in TaskIds :
         \/ \E assignee \in Agents \cup {None}, notify \in BOOLEAN :
              Create(c, a, t, assignee, notify)
         \/ \E action \in Actions : Read(c, a, t, action)
    \/ \E c \in Calls : Write(c) \/ Abort(c)
    \/ \E a \in Agents : Revoke(a) \/ Issue(a)

Spec == Init /\ [][Next]_vars

-----------------------------------------------------------------------------
(* Every variable has its type: a row in memory or in the table is a row.     *)
TypeOK ==
    /\ task \in [TaskIds -> Rows \cup {None}]
    /\ msgs \subseteq Messages
    /\ active \subseteq Agents
    /\ pc \in [Calls -> {"new", "write", "ended"}]
    /\ who \in [Calls -> Agents \cup {None}]
    /\ tid \in [Calls -> TaskIds \cup {None}]
    /\ act \in [Calls -> Actions \cup {None}]
    /\ seen \in [Calls -> Rows \cup {None}]

Consistent(row) ==
    /\ row.closed <=> row.status \in {"done", "cancelled"}
    /\ row.status = "claimed" => row.assignee # None

(* However updates interleave, each with columns computed from a row read     *)
(* earlier: a task has a closing time exactly when it is done or cancelled,   *)
(* and a claimed task has someone who claimed it.                             *)
RowConsistent == \A t \in TaskIds : task[t] # None => Consistent(task[t])

(* "Each change is posted to the task's thread" (README.md:88): a task has    *)
(* one thread, even when two updates both read a row that had none.           *)
OneThread ==
    \A m \in msgs : task[m.task] # None /\ m.thread = task[m.task].thread

(* The call whose write this step is decided on a row that was still current. *)
WritesFresh(c, t) ==
    /\ pc[c] = "write" /\ pc'[c] = "ended" /\ tid[c] = t
    /\ task[t] = [seen[c] EXCEPT !.thread = task[t].thread]

(* A claim is taken away from its holder only by the holder or the creator,   *)
(* except by a call that another one overtook between its read and its write. *)
HolderDecides ==
    [][\A t \in TaskIds, c \in Calls :
          /\ task[t] # None /\ task[t].status = "claimed"
          /\ task'[t].assignee # task[t].assignee
          /\ WritesFresh(c, t)
          => Involved(who[c], task[t])]_vars

(* A recorded result is replaced by another result, never dropped, except by  *)
(* a call that another one overtook: reopening and releasing keep it.         *)
ResultKept ==
    [][\A t \in TaskIds, c \in Calls :
          /\ task[t] # None /\ task[t].result # None
          /\ WritesFresh(c, t)
          => task'[t].result # None]_vars

(* "claim (take it; open -> claimed)" (tools_spec.py:373): a claim never takes*)
(* a task that someone else has claimed.                                      *)
ClaimNeverSteals ==
    [][\A t \in TaskIds :
          task[t] # None /\ task[t].status = "claimed" /\ task'[t].status = "claimed"
          => task'[t].assignee = task[t].assignee]_vars
=============================================================================
