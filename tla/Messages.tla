------------------------------ MODULE Messages ------------------------------
(* Messages between agents (src/sag/collab.py): recipients, threads and read  *)
(* marks.  SELECTs run outside the transaction that follows them, so calls,   *)
(* revocations and changes of groups come in between; rows are never deleted. *)
EXTENDS Naturals, Sequences, FiniteSets

CONSTANTS
    Agents,     \* holders of a credential, active or revoked
    Groups,
    Patterns,   \* sets of agents, for "*" and "prefix:*"
    Specs,      \* what "to" may say: sets of agents, groups and patterns
    Limits,     \* of hub_inbox
    Calls,      \* calls of the tools, each made once
    MaxClock, MaxChanges    \* bounds; changes are of the directory

(* An agent's id is neither a group nor a pattern (auth.py:16): those begin   *)
(* with "@" or end with "*".                                                  *)
ASSUME MessagesAssumption ==
    /\ Patterns \subseteq SUBSET Agents
    /\ Agents \cap (Groups \cup Patterns) = {}
    /\ \A s \in Specs : /\ s \subseteq Agents \cup Groups \cup Patterns
                        /\ Cardinality(s \cap Groups) <= 1
    /\ Limits \subseteq Nat \ {0}
    /\ MaxClock \in Nat /\ MaxChanges \in Nat

VARIABLES
    active,     \* agents whose credential is ACTIVE
    members,    \* agent_groups: pairs of a group and an agent
    messages,   \* agent_messages with its recipients, in order of insertion
    read,       \* pairs of an agent and a message that have read_at
    clock,      \* _now()
    changes,    \* of active and members so far
    pc, job,    \* a thread's place, and what it has read so far
    always, ever,   \* history: what held all through a send, and at some moment
    handled     \* history: messages shown in full to an agent, or named by it

vars == <<active, members, messages, read, clock, changes, pc, job,
          always, ever, handled>>
directory == <<active, members, changes>>
rows == <<messages, read>>

(* A thread has the number of its first message.                              *)
Ids == DOMAIN messages
Threads == {messages[i].thread : i \in Ids}

Blank == [who |-> {}, wanted |-> {}, spec |-> {}, known |-> {}, rcpts |-> {}, thread |-> 0,
          re |-> 0, reply |-> FALSE, at |-> 0, unread |-> {}]

Init ==
    /\ active \in SUBSET Agents
    /\ members = {}
    /\ messages = <<>>
    /\ read = {}
    /\ clock = 0
    /\ changes = 0
    /\ pc = [c \in Calls |-> "idle"]
    /\ job = [c \in Calls |-> Blank]
    /\ always = [c \in Calls |-> {}]
    /\ ever = [c \in Calls |-> {}]
    /\ handled = {}

-----------------------------------------------------------------------------
(* Who sees a message, and the order of a thread: by created_at, then rowid.  *)
CanSee(a, i) == a = messages[i].from \/ a \in messages[i].rcpts
InThread(t) == {i \in Ids : messages[i].thread = t}
CanSeeThread(a, t) == \E i \in InThread(t) : CanSee(a, i)
Before(i, j) ==
    \/ messages[i].at < messages[j].at
    \/ messages[i].at = messages[j].at /\ i < j
Newest(S, n) == {i \in S : Cardinality({j \in S : Before(i, j)}) < n}
LastOf(S) == CHOOSE i \in Newest(S, 1) : TRUE
UnreadBy(a) == {i \in Ids : a \in messages[i].rcpts /\ <<a, i>> \notin read}

(* The agents that "to" stands for, given who is active and who is in which   *)
(* group.  A pattern or a group leaves out the sender.                        *)
Expand(sender, spec, known, pairs) ==
    LET wide == UNION (spec \cap Patterns)
                \cup {a \in Agents : \E g \in spec \cap Groups : <<g, a>> \in pairs}
    IN known \cap (spec \cup (wide \ {sender}))

Goto(c, from, to) == pc[c] = from /\ pc' = [pc EXCEPT ![c] = to]
Return(c) == pc' = [pc EXCEPT ![c] = "done"] /\ job' = [job EXCEPT ![c] = Blank]

(* What a call that sends has seen of the directory, which changes meanwhile. *)
Facts == [active |-> active, members |-> members]
NoFacts == [active |-> {}, members |-> {}]
Both(f, g) == [active |-> f.active \cap g.active, members |-> f.members \cap g.members]
Either(f, g) == [active |-> f.active \cup g.active, members |-> f.members \cup g.members]
Watch ==
    LET Seen(c, old) == IF pc'[c] \in {"idle", "mark", "done"} THEN NoFacts
                        ELSE IF pc[c] = "idle" THEN Facts' ELSE old
    IN /\ always' = [c \in Calls |-> Seen(c, Both(always[c], Facts'))]
       /\ ever' = [c \in Calls |-> Seen(c, Either(ever[c], Facts'))]

-----------------------------------------------------------------------------
(* hub_send_message: the last message of the thread, if any, is replied to.   *)
Send(c) ==
    /\ Goto(c, "idle", "actives")
    /\ \E a \in active, spec \in Specs, t \in Threads \cup {0} :
          /\ t # 0 => CanSeeThread(a, t)
          /\ job' = [job EXCEPT ![c] = [Blank EXCEPT
                !.who = a, !.wanted = spec, !.spec = spec, !.thread = t,
                !.re = IF t = 0 THEN 0 ELSE LastOf(InThread(t))]]
    /\ UNCHANGED <<directory, rows, clock, handled>>
    /\ Watch

(* hub_reply: to the sender, to all, or, of one's own message, to those it    *)
(* went to; a note to oneself is answered to oneself.                         *)
Reply(c) ==
    /\ Goto(c, "idle", "filter")
    /\ \E a \in active, i \in Ids, all \in BOOLEAN :
          LET m == messages[i]
              others == ({m.from} \cup IF all \/ m.from = a THEN m.rcpts ELSE {}) \ {a}
              targets == IF others # {} THEN others ELSE m.rcpts \cap {a}
          IN /\ CanSee(a, i)
             /\ job' = [job EXCEPT ![c] = [Blank EXCEPT
                   !.who = a, !.wanted = targets, !.spec = targets, !.thread = m.thread,
                   !.re = i, !.reply = TRUE]]
             /\ handled' = handled \cup {<<a, i>>}
    /\ UNCHANGED <<directory, rows, clock>>
    /\ Watch

(* Those revoked meanwhile are left out; nobody left is an error.             *)
Filter(c) ==
    LET left == job[c].spec \cap active IN
    /\ IF left = {} THEN pc[c] = "filter" /\ Return(c)
       ELSE Goto(c, "filter", "actives") /\ job' = [job EXCEPT ![c].spec = left]
    /\ UNCHANGED <<directory, rows, clock, handled>>
    /\ Watch

(* Mutant: revoked agents too.                                                *)
ActivesAll(c) ==
    /\ Goto(c, "actives", "resolve")
    /\ job' = [job EXCEPT ![c].known = Agents]
    /\ UNCHANGED <<directory, rows, clock, handled>>
    /\ Watch

(* resolve_recipients reads who is active, and then the group ...             *)
Actives(c) ==
    /\ Goto(c, "actives", "resolve")
    /\ job' = [job EXCEPT ![c].known = active]
    /\ UNCHANGED <<directory, rows, clock, handled>>
    /\ Watch

(* ... where an agent that is not active, an unknown group or no recipient at *)
(* all is an error.                                                           *)
Resolve(c) ==
    LET j == job[c]
        rcpts == Expand(j.who, j.spec, j.known, members)
    IN /\ pc[c] = "resolve"
       /\ \/ /\ j.spec \cap Agents \subseteq j.known
             /\ \A g \in j.spec \cap Groups : \E a \in Agents : <<g, a>> \in members
             /\ rcpts # {}
             /\ Goto(c, "resolve", "stamp")
             /\ job' = [job EXCEPT ![c].rcpts = rcpts, ![c].spec = {}, ![c].known = {}]
          \/ /\ \/ ~(j.spec \cap Agents \subseteq j.known)
                \/ \E g \in j.spec \cap Groups : \A a \in Agents : <<g, a>> \notin members
                \/ rcpts = {}
             /\ Return(c)
       /\ UNCHANGED <<directory, rows, clock, handled>>
       /\ Watch

Stamp(c) ==
    /\ Goto(c, "stamp", "insert")
    /\ job' = [job EXCEPT ![c].at = clock]
    /\ UNCHANGED <<directory, rows, clock, handled>>
    /\ Watch

(* Mutant: answers what is the last message by now.                           *)
InsertLatest(c) ==
    LET j == job[c]
        new == Len(messages) + 1
    IN /\ pc[c] = "insert"
       /\ messages' = Append(messages,
             [from |-> j.who, rcpts |-> j.rcpts, at |-> j.at,
              re |-> IF j.thread = 0 THEN 0 ELSE LastOf(InThread(j.thread)),
              thread |-> IF j.thread = 0 THEN new ELSE j.thread])
       /\ read' = IF j.reply /\ j.who \in messages[j.re].rcpts
                  THEN read \cup {<<j.who, j.re>>} ELSE read
       /\ Return(c)
       /\ UNCHANGED <<directory, clock, handled>>
       /\ Watch

(* _insert_message, and a reply's mark, in one transaction.                   *)
Insert(c) ==
    LET j == job[c]
        new == Len(messages) + 1
    IN /\ pc[c] = "insert"
       /\ messages' = Append(messages,
             [from |-> j.who, rcpts |-> j.rcpts, re |-> j.re, at |-> j.at,
              thread |-> IF j.thread = 0 THEN new ELSE j.thread])
       /\ read' = IF j.reply /\ j.who \in messages[j.re].rcpts
                  THEN read \cup {<<j.who, j.re>>} ELSE read
       /\ Return(c)
       /\ UNCHANGED <<directory, clock, handled>>
       /\ Watch

-----------------------------------------------------------------------------
(* hub_inbox of a thread: the newest messages one may see, in full ...        *)
Show(c, a, S) ==
    /\ Goto(c, "idle", "mark")
    /\ job' = [job EXCEPT ![c] = [Blank EXCEPT !.who = a, !.unread = S \cap UnreadBy(a)]]
    /\ handled' = handled \cup {<<a, i>> : i \in S}
    /\ UNCHANGED <<directory, rows, clock>>
    /\ Watch

Inbox(c) ==
    \E a \in active, t \in Threads, only \in BOOLEAN, n \in Limits :
        /\ CanSeeThread(a, t)
        /\ LET visible == {i \in InThread(t) : CanSee(a, i)} IN
           Show(c, a, Newest(IF only THEN visible \cap UnreadBy(a) ELSE visible, n))

(* ... or hub_read_message ...                                                *)
ReadMessage(c) == \E a \in active, i \in Ids : CanSee(a, i) /\ Show(c, a, {i})

(* Mutant: all of their thread is marked.                                     *)
MarkThread(c) ==
    /\ pc[c] = "mark"
    /\ Return(c)
    /\ read' = read \cup {<<job[c].who, i>> :
          i \in {k \in UnreadBy(job[c].who) :
                   \E l \in job[c].unread : messages[k].thread = messages[l].thread}}
    /\ UNCHANGED <<directory, messages, clock, handled>>
    /\ Watch

(* ... which are then marked read.                                            *)
Mark(c) ==
    /\ pc[c] = "mark"
    /\ Return(c)
    /\ read' = read \cup {<<job[c].who, i>> : i \in job[c].unread}
    /\ UNCHANGED <<directory, messages, clock, handled>>
    /\ Watch

(* hub_mark_read, of messages, a thread or all, in one transaction.           *)
MarkRead ==
    \E a \in active, S \in {{i} : i \in Ids} \cup {InThread(t) : t \in Threads} \cup {Ids} :
        /\ LET marked == {<<a, i>> : i \in S \cap UnreadBy(a)} IN
              read' = read \cup marked /\ handled' = handled \cup marked
        /\ UNCHANGED <<directory, messages, clock, pc, job, always, ever>>

(* The database is locked or full.                                            *)
Fails(c) ==
    /\ pc[c] \notin {"idle", "done"}
    /\ Return(c)
    /\ UNCHANGED <<directory, rows, clock, handled>>
    /\ Watch

-----------------------------------------------------------------------------
Directory(agents, pairs) ==
    /\ changes < MaxChanges
    /\ changes' = changes + 1
    /\ active' = agents
    /\ members' = pairs
    /\ UNCHANGED <<rows, clock, pc, job, handled>>
    /\ Watch

(* hub_set_group replaces the members, in one transaction.                    *)
SetGroup == \E g \in Groups, S \in SUBSET Agents :
    Directory(active, {p \in members : p[1] # g} \cup ({g} \X S))

Issue == \E a \in Agents \ active : Directory(active \cup {a}, members)
Revoke == \E a \in active : Directory(active \ {a}, members)

Tick ==
    /\ clock < MaxClock
    /\ clock' = clock + 1
    /\ UNCHANGED <<directory, rows, pc, job, always, ever, handled>>

Next ==
    \/ \E c \in Calls : \/ Send(c) \/ Reply(c) \/ Filter(c) \/ Actives(c) \/ Resolve(c)
                        \/ Stamp(c) \/ Insert(c) \/ Inbox(c) \/ ReadMessage(c) \/ Mark(c)
                        \/ Fails(c)
    \/ MarkRead \/ SetGroup \/ Issue \/ Revoke \/ Tick

Spec == Init /\ [][Next]_vars

-----------------------------------------------------------------------------
(* Every variable has its type: a message has a sender and recipients, an     *)
(* answer is in the thread of what it answers, which is older, and a thread   *)
(* has the number of its first message.                                       *)
TypeOK ==
    /\ active \subseteq Agents
    /\ members \subseteq Groups \X Agents
    /\ \A i \in Ids : LET m == messages[i] IN
          /\ m.from \in Agents
          /\ m.rcpts \subseteq Agents /\ m.rcpts # {}
          /\ m.thread \in 1 .. i /\ m.re \in 0 .. i - 1 /\ m.at \in 0 .. MaxClock
          /\ m.re # 0 => m.thread = messages[m.re].thread
          /\ m.re = 0 <=> m.thread = i
    /\ read \cup handled \subseteq Agents \X Ids
    /\ clock \in 0 .. MaxClock
    /\ changes \in 0 .. MaxChanges

(* A message an agent received is marked read only after that agent was shown *)
(* it in full, answered it or named it, whatever arrives in its thread        *)
(* meanwhile (README.md:86: the inbox list "doesn't mark anything").          *)
ReadMeansHandled == read \subseteq handled

(* A message goes to all those its "to" stood for throughout the call, and to *)
(* nobody it stood for at no moment of it: nobody revoked before the call.    *)
Audience ==
    [][Len(messages') > Len(messages) =>
          \E c \in Calls :
              LET j == job[c]
                  Goes(facts) == Expand(j.who, j.wanted, facts.active, facts.members)
                  rcpts == messages'[Len(messages')].rcpts
              IN /\ pc[c] = "insert" /\ pc'[c] = "done"
                 /\ Goes(always[c]) \subseteq rcpts
                 /\ rcpts \subseteq Goes(ever[c])]_vars

(* An answer comes after what it answers in the order a thread is shown in,   *)
(* though sends that overlap may be inserted in another order than that of    *)
(* their times.                                                               *)
AnswersFollow == \A i \in Ids : messages[i].re # 0 => Before(messages[i].re, i)
=============================================================================
