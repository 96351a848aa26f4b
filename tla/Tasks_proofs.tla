---------------------------- MODULE Tasks_proofs ----------------------------
(* Proofs about tasks, for any agents, tasks and calls, however the updates   *)
(* of one task interleave.                                                    *)
EXTENDS Tasks, TLAPS

(* A call about to write knows a row that was consistent when it read it, and *)
(* may do what it is about to do to that row.                                 *)
SeenOK ==
    \A c \in Calls : pc[c] = "write" =>
        /\ who[c] \in Agents
        /\ tid[c] \in TaskIds
        /\ task[tid[c]] # None
        /\ act[c] \in Actions
        /\ seen[c] \in Rows
        /\ Consistent(seen[c])
        /\ Allowed(who[c], act[c], seen[c])

IInv == TypeOK /\ RowConsistent /\ OneThread /\ SeenOK

(* The invariant holds at the start.                                          *)
LEMMA InitInv == Init => IInv
BY TasksAssumption DEF Init, IInv, TypeOK, RowConsistent, OneThread, SeenOK

(* What update_task computes from a consistent row is a consistent row again. *)
LEMMA DecidedConsistent ==
    ASSUME NEW a \in Agents, NEW action \in Actions, NEW row \in Rows,
           NEW given \in Calls \cup {None},
           Consistent(row), Allowed(a, action, row)
    PROVE  /\ Decided(a, action, row, given) \in Rows
           /\ Consistent(Decided(a, action, row, given))
BY TasksAssumption DEF Decided, Allowed, Consistent, Rows, Statuses, Actions, Involved

(* Writing a consistent row that has the thread of the row it replaces keeps  *)
(* the tables right, whoever is notified.                                     *)
LEMMA NotifyKeeps ==
    ASSUME IInv, NEW c \in Calls, NEW sender \in Agents, NEW t \in TaskIds,
           NEW row \in Rows, NEW targets \in SUBSET Agents,
           Consistent(row),
           \A m \in msgs : m.task = t => m.thread = row.thread,
           Notify(c, sender, t, row, targets)
    PROVE  /\ task' \in [TaskIds -> Rows \cup {None}]
           /\ msgs' \subseteq Messages
           /\ RowConsistent'
           /\ OneThread'
           /\ \A u \in TaskIds : task[u] # None => task'[u] # None
<1> DEFINE to == (targets \cap active) \ {sender}
           thread == IF row.thread = None THEN c ELSE row.thread
           new == [row EXCEPT !.thread = thread]
<1> USE DEF IInv
<1>1. /\ new \in Rows
      /\ Consistent(new)
      /\ row # None
      /\ new # None
      /\ new.thread = thread
      /\ thread \in Calls
  BY TasksAssumption DEF Rows, Consistent
<1>2. CASE to = {}
  <2>1. task' = [task EXCEPT ![t] = row] /\ msgs' = msgs
    BY <1>2 DEF Notify
  <2>2. QED
    BY <1>1, <2>1 DEF TypeOK, RowConsistent, OneThread, Messages
<1>3. CASE to # {}
  <2>1. /\ task' = [task EXCEPT ![t] = new]
        /\ msgs' = msgs \cup {[id |-> c, thread |-> thread, task |-> t, to |-> to]}
    BY <1>3 DEF Notify
  <2>2. to \in SUBSET Agents
    BY DEF TypeOK
  <2>3. task' \in [TaskIds -> Rows \cup {None}] /\ msgs' \subseteq Messages
    BY <1>1, <2>1, <2>2 DEF TypeOK, Messages
  <2>4. RowConsistent'
    BY <1>1, <2>1 DEF TypeOK, RowConsistent
  <2>5. ASSUME NEW m \in msgs, m.task = t PROVE m.thread = thread
    BY <2>5, TasksAssumption DEF TypeOK, Messages
  <2>6. OneThread'
    BY <1>1, <2>1, <2>5 DEF TypeOK, OneThread, Messages
  <2>7. QED
    BY <1>1, <2>1, <2>3, <2>4, <2>6 DEF TypeOK
<1>4. QED
  BY <1>2, <1>3

-----------------------------------------------------------------------------
(* Every step keeps the invariant: one case per action.                       *)
LEMMA StepInv == IInv /\ [Next]_vars => IInv'
<1> SUFFICES ASSUME IInv, [Next]_vars PROVE IInv'
  OBVIOUS
<1> USE TasksAssumption DEF IInv
<1>1. ASSUME NEW c \in Calls, NEW a \in Agents, NEW t \in TaskIds,
             NEW assignee \in Agents \cup {None}, NEW notify \in BOOLEAN,
             Create(c, a, t, assignee, notify)
      PROVE  IInv'
  <2> DEFINE row == [status |-> "open", creator |-> a, assignee |-> assignee,
                     result |-> None, closed |-> FALSE, thread |-> None]
             targets == IF ~notify THEN {} ELSE IF assignee = None THEN active ELSE {assignee}
  <2>1. row \in Rows /\ Consistent(row)
    BY DEF Rows, Statuses, Consistent
  <2>2. targets \in SUBSET Agents
    BY <1>1 DEF TypeOK
  <2>3. \A m \in msgs : m.task = t => m.thread = row.thread
    BY <1>1 DEF Create, OneThread
  <2>4. Notify(c, a, t, row, targets)
    BY <1>1 DEF Create
  <2>5. /\ task' \in [TaskIds -> Rows \cup {None}]
        /\ msgs' \subseteq Messages
        /\ RowConsistent'
        /\ OneThread'
        /\ \A u \in TaskIds : task[u] # None => task'[u] # None
    <3> HIDE DEF row, targets
    <3>1. QED
      BY <2>1, <2>2, <2>3, <2>4, NotifyKeeps
  <2>6. TypeOK'
    BY <1>1, <2>5 DEF Create, TypeOK
  <2>7. SeenOK'
    BY <1>1, <2>5 DEF Create, TypeOK, SeenOK
  <2>8. QED
    BY <2>5, <2>6, <2>7
<1>2. ASSUME NEW c \in Calls, NEW a \in Agents, NEW t \in TaskIds,
             NEW action \in Actions, Read(c, a, t, action)
      PROVE  IInv'
  <2>1. TypeOK'
    BY <1>2 DEF Read, TypeOK, tables
  <2>2. RowConsistent' /\ OneThread'
    BY <1>2 DEF Read, RowConsistent, OneThread, tables
  <2>3. SeenOK'
    BY <1>2 DEF Read, TypeOK, RowConsistent, SeenOK, tables
  <2>4. QED
    BY <2>1, <2>2, <2>3
<1>3. ASSUME NEW c \in Calls, Write(c) PROVE IInv'
  <2> DEFINE t == tid[c]
  <2>1. /\ who[c] \in Agents /\ t \in TaskIds /\ act[c] \in Actions
        /\ seen[c] \in Rows /\ Consistent(seen[c]) /\ Allowed(who[c], act[c], seen[c])
        /\ task[t] \in Rows /\ Consistent(task[t])
    BY <1>3 DEF Write, TypeOK, RowConsistent, SeenOK
  <2>2. PICK given \in {c, None} :
          LET new == Decided(who[c], act[c], seen[c], given)
          IN Notify(c, who[c], t,
                    IF act[c] = "comment" THEN task[t]
                    ELSE [new EXCEPT !.thread = task[t].thread],
                    {seen[c].creator, seen[c].assignee, new.assignee} \ {None})
    BY <1>3 DEF Write
  <2> DEFINE new == Decided(who[c], act[c], seen[c], given)
             row == IF act[c] = "comment" THEN task[t]
                    ELSE [new EXCEPT !.thread = task[t].thread]
             targets == {seen[c].creator, seen[c].assignee, new.assignee} \ {None}
  <2>3. new \in Rows /\ Consistent(new)
    BY <2>1, DecidedConsistent
  <2>4. row \in Rows /\ Consistent(row) /\ row.thread = task[t].thread
    <3> HIDE DEF new
    <3>1. QED
      BY <2>1, <2>3 DEF Rows, Consistent
  <2>5. targets \in SUBSET Agents
    <3> HIDE DEF new
    <3>1. QED
      BY <2>1, <2>3 DEF Rows
  <2>6. \A m \in msgs : m.task = t => m.thread = row.thread
    BY <2>4 DEF OneThread
  <2>7. /\ task' \in [TaskIds -> Rows \cup {None}]
        /\ msgs' \subseteq Messages
        /\ RowConsistent'
        /\ OneThread'
        /\ \A u \in TaskIds : task[u] # None => task'[u] # None
    <3>1. Notify(c, who[c], t, row, targets)
      BY <2>2
    <3> HIDE DEF row, targets, t
    <3>2. QED
      BY <2>1, <2>4, <2>5, <2>6, <3>1, NotifyKeeps
  <2>8. TypeOK'
    BY <1>3, <2>7 DEF Write, TypeOK
  <2>9. SeenOK'
    BY <1>3, <2>7 DEF Write, TypeOK, SeenOK
  <2>10. QED
    BY <2>7, <2>8, <2>9
<1>4. ASSUME NEW c \in Calls, Abort(c) PROVE IInv'
  BY <1>4 DEF Abort, TypeOK, RowConsistent, OneThread, SeenOK, tables
<1>5. ASSUME NEW a \in Agents, Revoke(a) \/ Issue(a) PROVE IInv'
  BY <1>5 DEF Revoke, Issue, TypeOK, RowConsistent, OneThread, SeenOK, tables, calls
<1>6. CASE UNCHANGED vars
  BY <1>6 DEF vars, TypeOK, RowConsistent, OneThread, SeenOK
<1>7. QED
  BY <1>1, <1>2, <1>3, <1>4, <1>5, <1>6 DEF Next

-----------------------------------------------------------------------------
(* A call that ends while it was about to write has written, or has failed    *)
(* and changed nothing.                                                       *)
LEMMA EndsByWriting ==
    ASSUME IInv, Next, NEW c \in Calls, pc[c] = "write", pc'[c] = "ended"
    PROVE  Write(c) \/ UNCHANGED task
<1> USE DEF IInv
<1>1. ASSUME NEW d \in Calls, d # c, pc' = [pc EXCEPT ![d] = pc'[d]] PROVE FALSE
  BY <1>1 DEF TypeOK
<1>2. ASSUME NEW d \in Calls, NEW a \in Agents, NEW t \in TaskIds,
             NEW assignee \in Agents \cup {None}, NEW notify \in BOOLEAN,
             Create(d, a, t, assignee, notify)
      PROVE  FALSE
  BY <1>2 DEF Create, TypeOK
<1>3. ASSUME NEW d \in Calls, NEW a \in Agents, NEW t \in TaskIds,
             NEW action \in Actions, Read(d, a, t, action)
      PROVE  FALSE
  BY <1>3 DEF Read, TypeOK
<1>4. ASSUME NEW d \in Calls, Write(d) PROVE d = c
  BY <1>4 DEF Write, TypeOK
<1>5. ASSUME NEW d \in Calls, Abort(d) PROVE UNCHANGED task
  BY <1>5 DEF Abort, tables
<1>6. ASSUME NEW a \in Agents, Revoke(a) \/ Issue(a) PROVE UNCHANGED task
  BY <1>6 DEF Revoke, Issue, tables
<1> QED
  BY <1>2, <1>3, <1>4, <1>5, <1>6 DEF Next

(* What a write puts into the row, the thread aside.                          *)
LEMMA Written ==
    ASSUME IInv, NEW c \in Calls, Write(c), act[c] # "comment"
    PROVE  \E given \in {c, None} :
              LET new == Decided(who[c], act[c], seen[c], given)
              IN  /\ task'[tid[c]].assignee = new.assignee
                  /\ task'[tid[c]].result = new.result
<1> DEFINE t == tid[c]
<1> USE DEF IInv
<1>1. /\ who[c] \in Agents /\ t \in TaskIds /\ act[c] \in Actions
      /\ seen[c] \in Rows /\ Consistent(seen[c]) /\ Allowed(who[c], act[c], seen[c])
      /\ task \in [TaskIds -> Rows \cup {None}]
  BY DEF Write, TypeOK, SeenOK
<1>2. PICK given \in {c, None} :
        LET new == Decided(who[c], act[c], seen[c], given)
        IN Notify(c, who[c], t,
                  IF act[c] = "comment" THEN task[t]
                  ELSE [new EXCEPT !.thread = task[t].thread],
                  {seen[c].creator, seen[c].assignee, new.assignee} \ {None})
  BY DEF Write
<1> DEFINE new == Decided(who[c], act[c], seen[c], given)
           row == [new EXCEPT !.thread = task[t].thread]
           targets == {seen[c].creator, seen[c].assignee, new.assignee} \ {None}
<1>3. new \in Rows
  BY <1>1, DecidedConsistent
<1>4. Notify(c, who[c], t, row, targets)
  BY <1>2
<1> HIDE DEF new
<1>5. row.assignee = new.assignee /\ row.result = new.result
  BY <1>3 DEF Rows
<1>6. \A th : LET r == [row EXCEPT !.thread = th] IN r.assignee = row.assignee /\ r.result = row.result
  BY <1>3 DEF Rows
<1> HIDE DEF row, targets
<1>7. \/ task' = [task EXCEPT ![t] = row]
      \/ \E th : task' = [task EXCEPT ![t] = [row EXCEPT !.thread = th]]
  BY <1>4, Zenon DEF Notify
<1>8. task'[t] = row \/ \E th : task'[t] = [row EXCEPT !.thread = th]
  BY <1>1, <1>7
<1>9. task'[t].assignee = row.assignee /\ task'[t].result = row.result
  BY <1>6, <1>8, Zenon
<1> QED
  BY <1>5, <1>9 DEF new

(* A row read that is still current, the thread aside.                        *)
LEMMA Current ==
    ASSUME IInv, NEW c \in Calls, NEW t \in TaskIds, task[t] # None, WritesFresh(c, t)
    PROVE  /\ seen[c] \in Rows /\ who[c] \in Agents /\ act[c] \in Actions
           /\ task[t] \in Rows /\ Consistent(task[t])
           /\ Allowed(who[c], act[c], seen[c])
           /\ seen[c].status = task[t].status /\ seen[c].assignee = task[t].assignee
           /\ seen[c].creator = task[t].creator /\ seen[c].result = task[t].result
<1>1. seen[c] \in Rows /\ who[c] \in Agents /\ act[c] \in Actions /\ Allowed(who[c], act[c], seen[c])
  BY DEF IInv, WritesFresh, SeenOK
<1>2. task[t] \in Rows /\ Consistent(task[t])
  BY DEF IInv, TypeOK, RowConsistent
<1>3. task[t] = [seen[c] EXCEPT !.thread = task[t].thread]
  BY DEF WritesFresh
<1>4. \A th : LET r == [seen[c] EXCEPT !.thread = th]
              IN  /\ r.status = seen[c].status /\ r.assignee = seen[c].assignee
                  /\ r.creator = seen[c].creator /\ r.result = seen[c].result
  BY <1>1 DEF Rows
<1>5. /\ seen[c].status = task[t].status /\ seen[c].assignee = task[t].assignee
      /\ seen[c].creator = task[t].creator /\ seen[c].result = task[t].result
  BY <1>3, <1>4, Zenon
<1> QED
  BY <1>1, <1>2, <1>5

-----------------------------------------------------------------------------
(* However updates interleave, a task is closed exactly when it is done or    *)
(* cancelled, and a claimed task has an assignee.                             *)
THEOREM TasksConsistent == Spec => [](TypeOK /\ RowConsistent)
<1>1. IInv => TypeOK /\ RowConsistent
  BY DEF IInv
<1>2. QED
  BY InitInv, StepInv, <1>1, PTL DEF Spec

(* A task has one thread, though several updates may have read a row that had *)
(* none.                                                                      *)
THEOREM ThreadUnique == Spec => []OneThread
<1>1. IInv => OneThread
  BY DEF IInv
<1>2. QED
  BY InitInv, StepInv, <1>1, PTL DEF Spec

(* No call that decides on the row as it is takes a claim from its holder,    *)
(* unless it is the holder's or the creator's.                                *)
THEOREM HolderKeeps == Spec => HolderDecides
<1> DEFINE Decides == \A t \in TaskIds, c \in Calls :
                         /\ task[t] # None /\ task[t].status = "claimed"
                         /\ task'[t].assignee # task[t].assignee
                         /\ WritesFresh(c, t)
                         => Involved(who[c], task[t])
<1>1. ASSUME IInv, Next PROVE Decides
  <2> SUFFICES ASSUME NEW t \in TaskIds, NEW c \in Calls,
                      task[t] # None, task[t].status = "claimed",
                      task'[t].assignee # task[t].assignee, WritesFresh(c, t)
               PROVE  Involved(who[c], task[t])
    OBVIOUS
  <2>1. Write(c)
    BY <1>1, EndsByWriting DEF WritesFresh
  <2>2. tid[c] = t
    BY DEF WritesFresh
  <2>3. /\ Allowed(who[c], act[c], seen[c]) /\ act[c] \in Actions
        /\ seen[c] \in Rows /\ who[c] \in Agents /\ task[t].assignee # None
        /\ seen[c].status = "claimed" /\ seen[c].assignee = task[t].assignee
        /\ seen[c].creator = task[t].creator
    BY <1>1, Current DEF Consistent
  <2>4. CASE act[c] = "comment"
    <3>1. task[t] \in Rows
      BY <1>1, Current
    <3>2. task'[t].assignee = task[t].assignee
      BY <1>1, <2>1, <2>2, <2>4, <3>1 DEF Write, Notify, IInv, TypeOK, Rows
    <3> QED
      BY <3>2
  <2>5. CASE act[c] # "comment"
    <3>1. PICK given \in {c, None} :
             task'[t].assignee = Decided(who[c], act[c], seen[c], given).assignee
      BY <1>1, <2>1, <2>2, <2>5, Written
    <3> QED
      BY <2>3, <2>5, <3>1 DEF Decided, Allowed, Involved, Actions, Rows
  <2> QED
    BY <2>4, <2>5
<1>2. IInv /\ [Next]_vars => [Decides]_vars
  BY <1>1
<1> QED
  BY InitInv, StepInv, <1>2, PTL DEF Spec, HolderDecides

(* No call that decides on the row as it is drops a result.                   *)
THEOREM ResultStays == Spec => ResultKept
<1> DEFINE Keeps == \A t \in TaskIds, c \in Calls :
                       /\ task[t] # None /\ task[t].result # None
                       /\ WritesFresh(c, t)
                       => task'[t].result # None
<1>1. ASSUME IInv, Next PROVE Keeps
  <2> SUFFICES ASSUME NEW t \in TaskIds, NEW c \in Calls,
                      task[t] # None, task[t].result # None, WritesFresh(c, t)
               PROVE  task'[t].result # None
    OBVIOUS
  <2>1. Write(c) \/ UNCHANGED task
    BY <1>1, EndsByWriting DEF WritesFresh
  <2>2. tid[c] = t
    BY DEF WritesFresh
  <2>3. /\ act[c] \in Actions /\ seen[c] \in Rows /\ who[c] \in Agents
        /\ task[t] \in Rows /\ seen[c].result # None
    BY <1>1, Current
  <2>4. CASE UNCHANGED task
    BY <2>4
  <2>5. CASE Write(c) /\ act[c] = "comment"
    <3>1. task'[t].result = task[t].result
      BY <1>1, <2>2, <2>3, <2>5 DEF Write, Notify, IInv, TypeOK, Rows
    <3> QED
      BY <3>1
  <2>6. CASE Write(c) /\ act[c] # "comment"
    <3>1. PICK given \in {c, None} :
             task'[t].result = Decided(who[c], act[c], seen[c], given).result
      BY <1>1, <2>2, <2>6, Written
    <3>2. c # None
      BY TasksAssumption
    <3> QED
      BY <2>3, <2>6, <3>1, <3>2 DEF Decided, Actions, Rows
  <2> QED
    BY <2>1, <2>4, <2>5, <2>6
<1>2. IInv /\ [Next]_vars => [Keeps]_vars
  BY <1>1
<1> QED
  BY InitInv, StepInv, <1>2, PTL DEF Spec, ResultKept
=============================================================================
