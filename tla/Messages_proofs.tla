-------------------------- MODULE Messages_proofs --------------------------
(* Read marks, the order of answers and who a message goes to, for any        *)
(* agents, groups, calls and bounds.                                          *)
EXTENDS Messages, FiniteSetTheorems, WellFoundedInduction, TLAPS

Fields == DOMAIN Blank
Sending == {"filter", "actives", "resolve", "stamp", "insert"}

(* What call c, being at place p with job j, is going to mark as read has     *)
(* been handled.                                                              *)
Due(p, j, done) ==
    /\ p = "mark" => \A i \in j.unread : <<j.who, i>> \in done
    /\ p \in Sending => (j.reply => <<j.who, j.re>> \in done)

Shape ==
    /\ DOMAIN pc = Calls /\ DOMAIN job = Calls
    /\ \A c \in Calls : DOMAIN job[c] = Fields

Owed == \A c \in Calls : Due(pc[c], job[c], handled)

MarkInv == Shape /\ Owed /\ ReadMeansHandled

LEMMA BlankFields ==
  /\ Fields = {"who", "wanted", "spec", "known", "rcpts", "thread", "re", "reply", "at", "unread"}
  /\ Blank.reply = FALSE
  BY DEF Fields, Blank

(* One call moves to a place where it owes nothing new.                       *)
LEMMA OneMoves ==
  ASSUME Shape, Owed, NEW c \in Calls, NEW to, NEW j,
         pc' = [pc EXCEPT ![c] = to], job' = [job EXCEPT ![c] = j],
         handled \subseteq handled', DOMAIN j = Fields, Due(to, j, handled')
  PROVE  Shape' /\ Owed'
<1>1. Shape'
  BY DEF Shape
<1>2. ASSUME NEW d \in Calls PROVE Due(pc'[d], job'[d], handled')
  <2>1. CASE d = c
    BY <2>1 DEF Shape
  <2>2. CASE d # c
    <3>1. pc'[d] = pc[d] /\ job'[d] = job[d]
      BY <2>2 DEF Shape
    <3>2. Due(pc[d], job[d], handled)
      BY DEF Owed
    <3> QED
      BY <3>1, <3>2 DEF Due
  <2> QED
    BY <2>1, <2>2
<1> QED
  BY <1>1, <1>2 DEF Owed

(* A call that is over, or fails, owes nothing.                               *)
LEMMA OneReturns ==
  ASSUME Shape, Owed, NEW c \in Calls, Return(c), handled \subseteq handled'
  PROVE  Shape' /\ Owed'
<1>1. DOMAIN Blank = Fields /\ Due("done", Blank, handled')
  BY DEF Fields, Due, Sending
<1> QED
  BY <1>1, OneMoves DEF Return

(* A step on the way of a send keeps its sender and what it answers.          *)
LEMMA OneGoesOn ==
  ASSUME Shape, Owed, NEW c \in Calls, NEW to \in Sending, NEW j, pc[c] \in Sending,
         pc' = [pc EXCEPT ![c] = to], job' = [job EXCEPT ![c] = j], UNCHANGED handled,
         DOMAIN j = Fields,
         j.who = job[c].who, j.re = job[c].re, j.reply = job[c].reply
  PROVE  Shape' /\ Owed'
<1>1. Due(pc[c], job[c], handled)
  BY DEF Owed
<1>2. Due(to, j, handled')
  BY <1>1 DEF Due, Sending
<1> QED
  BY <1>2, OneMoves

LEMMA MarkInit == Init => MarkInv
<1> SUFFICES ASSUME Init PROVE MarkInv
  OBVIOUS
<1>1. \A c \in Calls : pc[c] = "idle" /\ job[c] = Blank
  BY DEF Init
<1>2. Shape
  BY <1>1 DEF Init, Shape, Fields
<1>3. Owed
  BY <1>1 DEF Owed, Due, Sending
<1> QED
  BY <1>2, <1>3 DEF MarkInv, Init, ReadMeansHandled

LEMMA MarkStep == MarkInv /\ [Next]_vars => MarkInv'
<1> SUFFICES ASSUME MarkInv, [Next]_vars PROVE MarkInv'
  OBVIOUS
<1> USE DEF MarkInv
<1>1. ASSUME NEW c \in Calls, Send(c) PROVE MarkInv'
  <2>1. PICK a \in active, spec \in Specs, t \in Threads \cup {0} :
            job' = [job EXCEPT ![c] = [Blank EXCEPT
                !.who = a, !.wanted = spec, !.spec = spec, !.thread = t,
                !.re = IF t = 0 THEN 0 ELSE LastOf(InThread(t))]]
    BY <1>1 DEF Send
  <2> DEFINE j == [Blank EXCEPT
                !.who = a, !.wanted = spec, !.spec = spec, !.thread = t,
                !.re = IF t = 0 THEN 0 ELSE LastOf(InThread(t))]
  <2>2. DOMAIN j = Fields /\ j.reply = FALSE
    BY DEF Fields, Blank
  <2>3. Due("actives", j, handled')
    BY <2>2 DEF Due
  <2>4. pc' = [pc EXCEPT ![c] = "actives"] /\ UNCHANGED <<read, handled>>
    BY <1>1 DEF Send, Goto, rows
  <2> HIDE DEF j
  <2>5. Shape' /\ Owed'
    BY <2>1, <2>2, <2>3, <2>4, OneMoves DEF j
  <2> QED
    BY <2>4, <2>5 DEF ReadMeansHandled
<1>2. ASSUME NEW c \in Calls, Reply(c) PROVE MarkInv'
  <2> DEFINE Answer(a, i, targets) ==
        [Blank EXCEPT !.who = a, !.wanted = targets, !.spec = targets,
                      !.thread = messages[i].thread, !.re = i, !.reply = TRUE]
  <2>0. PICK a \in active, i \in Ids :
            \E targets : /\ job' = [job EXCEPT ![c] = Answer(a, i, targets)]
                         /\ handled' = handled \cup {<<a, i>>}
    BY <1>2 DEF Reply
  <2>1. PICK targets : /\ job' = [job EXCEPT ![c] = Answer(a, i, targets)]
                       /\ handled' = handled \cup {<<a, i>>}
    BY <2>0
  <2> DEFINE j == Answer(a, i, targets)
  <2>2. DOMAIN j = Fields /\ j.who = a /\ j.re = i
    BY DEF Fields, Blank
  <2>3. Due("filter", j, handled')
    BY <2>1, <2>2 DEF Due
  <2>4. pc' = [pc EXCEPT ![c] = "filter"] /\ UNCHANGED read
    BY <1>2 DEF Reply, Goto, rows
  <2> HIDE DEF j
  <2>5. Shape' /\ Owed'
    BY <2>1, <2>2, <2>3, <2>4, OneMoves DEF j
  <2> QED
    BY <2>1, <2>4, <2>5 DEF ReadMeansHandled
<1>3. ASSUME NEW c \in Calls, NEW to \in Sending, NEW j,
             pc[c] \in Sending, pc' = [pc EXCEPT ![c] = to], job' = [job EXCEPT ![c] = j],
             UNCHANGED <<read, handled>>, DOMAIN j = Fields,
             j.who = job[c].who, j.re = job[c].re, j.reply = job[c].reply
      PROVE  MarkInv'
  BY <1>3, OneGoesOn DEF ReadMeansHandled
<1>4. ASSUME NEW c \in Calls, Return(c), UNCHANGED <<read, handled>> PROVE MarkInv'
  BY <1>4, OneReturns DEF ReadMeansHandled
<1>5. ASSUME NEW c \in Calls, Filter(c) PROVE MarkInv'
  <2>1. CASE Return(c)
    BY <1>4, <1>5, <2>1 DEF Filter, rows
  <2>2. CASE ~Return(c)
    <3> DEFINE j == [job[c] EXCEPT !.spec = job[c].spec \cap active]
    <3>1. DOMAIN j = Fields /\ j.who = job[c].who /\ j.re = job[c].re /\ j.reply = job[c].reply
      BY BlankFields DEF Shape
    <3>2. pc[c] = "filter" /\ pc' = [pc EXCEPT ![c] = "actives"] /\ job' = [job EXCEPT ![c] = j]
      BY <1>5, <2>2 DEF Filter, Goto
    <3>3. UNCHANGED <<read, handled>>
      BY <1>5 DEF Filter, rows
    <3>4. {"filter", "actives"} \subseteq Sending
      BY DEF Sending
    <3> HIDE DEF j
    <3> QED
      BY <1>3, <3>1, <3>2, <3>3, <3>4
  <2> QED
    BY <2>1, <2>2
<1>6. ASSUME NEW c \in Calls, Actives(c) PROVE MarkInv'
  <2> DEFINE j == [job[c] EXCEPT !.known = active]
  <2>1. DOMAIN j = Fields /\ j.who = job[c].who /\ j.re = job[c].re /\ j.reply = job[c].reply
    BY BlankFields DEF Shape
  <2>2. pc[c] = "actives" /\ pc' = [pc EXCEPT ![c] = "resolve"] /\ job' = [job EXCEPT ![c] = j]
    BY <1>6 DEF Actives, Goto
  <2>3. UNCHANGED <<read, handled>>
    BY <1>6 DEF Actives, rows
  <2>4. {"actives", "resolve"} \subseteq Sending
    BY DEF Sending
  <2> HIDE DEF j
  <2> QED
    BY <1>3, <2>1, <2>2, <2>3, <2>4
<1>7. ASSUME NEW c \in Calls, Resolve(c) PROVE MarkInv'
  <2>1. CASE Return(c)
    BY <1>4, <1>7, <2>1 DEF Resolve, rows
  <2>2. CASE ~Return(c)
    <3> DEFINE r == Expand(job[c].who, job[c].spec, job[c].known, members)
               j == [job[c] EXCEPT !.rcpts = r, !.spec = {}, !.known = {}]
    <3>1. DOMAIN j = Fields /\ j.who = job[c].who /\ j.re = job[c].re /\ j.reply = job[c].reply
      BY BlankFields DEF Shape
    <3>2. pc[c] = "resolve" /\ pc' = [pc EXCEPT ![c] = "stamp"] /\ job' = [job EXCEPT ![c] = j]
      BY <1>7, <2>2 DEF Resolve, Goto, Shape
    <3>3. UNCHANGED <<read, handled>>
      BY <1>7 DEF Resolve, rows
    <3>4. {"resolve", "stamp"} \subseteq Sending
      BY DEF Sending
    <3> HIDE DEF j
    <3> QED
      BY <1>3, <3>1, <3>2, <3>3, <3>4
  <2> QED
    BY <2>1, <2>2
<1>8. ASSUME NEW c \in Calls, Stamp(c) PROVE MarkInv'
  <2> DEFINE j == [job[c] EXCEPT !.at = clock]
  <2>1. DOMAIN j = Fields /\ j.who = job[c].who /\ j.re = job[c].re /\ j.reply = job[c].reply
    BY BlankFields DEF Shape
  <2>2. pc[c] = "stamp" /\ pc' = [pc EXCEPT ![c] = "insert"] /\ job' = [job EXCEPT ![c] = j]
    BY <1>8 DEF Stamp, Goto
  <2>3. UNCHANGED <<read, handled>>
    BY <1>8 DEF Stamp, rows
  <2>4. {"stamp", "insert"} \subseteq Sending
    BY DEF Sending
  <2> HIDE DEF j
  <2> QED
    BY <1>3, <2>1, <2>2, <2>3, <2>4
<1>9. ASSUME NEW c \in Calls, Insert(c) PROVE MarkInv'
  <2>1. Return(c) /\ UNCHANGED handled /\ pc[c] = "insert"
    BY <1>9 DEF Insert
  <2>2. read' \subseteq read \cup {<<job[c].who, job[c].re>>} /\ (job[c].reply \/ read' = read)
    BY <1>9 DEF Insert
  <2>3. job[c].reply => <<job[c].who, job[c].re>> \in handled
    BY <2>1 DEF Owed, Due, Sending
  <2> QED
    BY <2>1, <2>2, <2>3, OneReturns DEF ReadMeansHandled
<1>10. ASSUME NEW c \in Calls, NEW a, NEW S, Show(c, a, S) PROVE MarkInv'
  <2> DEFINE j == [Blank EXCEPT !.who = a, !.unread = S \cap UnreadBy(a)]
  <2>1. DOMAIN j = Fields /\ j.who = a /\ j.unread \subseteq S
    BY DEF Fields, Blank
  <2>2. pc' = [pc EXCEPT ![c] = "mark"] /\ job' = [job EXCEPT ![c] = j] /\ UNCHANGED read
    BY <1>10 DEF Show, Goto, rows
  <2>3. handled' = handled \cup {<<a, i>> : i \in S}
    BY <1>10 DEF Show
  <2> HIDE DEF j
  <2>4. Due("mark", j, handled')
    BY <2>1, <2>3 DEF Due, Sending
  <2>5. Shape' /\ Owed'
    BY <2>1, <2>2, <2>3, <2>4, OneMoves
  <2> QED
    BY <2>2, <2>3, <2>5 DEF ReadMeansHandled
<1>11. ASSUME NEW c \in Calls, Mark(c) PROVE MarkInv'
  <2>1. Return(c) /\ UNCHANGED handled /\ pc[c] = "mark"
        /\ read' = read \cup {<<job[c].who, i>> : i \in job[c].unread}
    BY <1>11 DEF Mark
  <2>2. \A i \in job[c].unread : <<job[c].who, i>> \in handled
    BY <2>1 DEF Owed, Due
  <2> QED
    BY <2>1, <2>2, OneReturns DEF ReadMeansHandled
<1>12. CASE MarkRead
  <2>1. PICK a \in active, S \in {{i} : i \in Ids} \cup {InThread(t) : t \in Threads} \cup {Ids} :
            /\ read' = read \cup {<<a, i>> : i \in S \cap UnreadBy(a)}
            /\ handled' = handled \cup {<<a, i>> : i \in S \cap UnreadBy(a)}
            /\ UNCHANGED <<pc, job>>
    BY <1>12 DEF MarkRead
  <2> QED
    BY <2>1 DEF Shape, Owed, Due, ReadMeansHandled
<1>13. CASE UNCHANGED <<read, handled, pc, job>>
  BY <1>13 DEF Shape, Owed, Due, ReadMeansHandled
<1>14. CASE SetGroup \/ Issue \/ Revoke \/ Tick \/ UNCHANGED vars
  BY <1>13, <1>14 DEF SetGroup, Issue, Revoke, Tick, vars, Directory, rows
<1>15. ASSUME NEW c \in Calls, Inbox(c) \/ ReadMessage(c) PROVE MarkInv'
  BY <1>10, <1>15 DEF Inbox, ReadMessage
<1>16. ASSUME NEW c \in Calls, Fails(c) PROVE MarkInv'
  BY <1>4, <1>16 DEF Fails, rows
<1> QED
  BY <1>1, <1>2, <1>5, <1>6, <1>7, <1>8, <1>9, <1>11, <1>12, <1>14, <1>15, <1>16 DEF Next

(* A message is marked read only after its reader was shown it in full,       *)
(* answered it or named it, for any number of overlapping calls.              *)
THEOREM MarkedAfter == Spec => []ReadMeansHandled
<1>1. MarkInv => ReadMeansHandled
  BY DEF MarkInv
<1> QED
  BY <1>1, MarkInit, MarkStep, PTL DEF Spec

-----------------------------------------------------------------------------
(* A set of messages that is not empty has a last one.                        *)
Rows == [from : Agents, rcpts : SUBSET Agents, re : Nat, at : 0 .. MaxClock, thread : Nat]

LEMMA Least ==
  ASSUME NEW S, S # {}, NEW f, \A i \in S : f[i] \in Nat
  PROVE  \E i \in S : \A j \in S : f[i] <= f[j]
<1> DEFINE Less == {ss \in Nat \X Nat : ss[1] < ss[2]}
           T == {f[i] : i \in S}
<1>1. IsWellFoundedOn(Less, Nat)
  BY NatLessThanWellFounded DEF OpToRel
<1>2. T \subseteq Nat /\ T # {}
  OBVIOUS
<1> HIDE DEF Less, T
<1>3. \E n \in T : \A k \in T : ~(<<k, n>> \in Less)
  BY <1>1, <1>2, WFMin
<1>4. PICK n \in T : \A k \in T : <<k, n>> \notin Less
  BY <1>3
<1>5. ASSUME NEW k \in T PROVE n <= k
  <2>1. <<k, n>> \in Nat \X Nat /\ k \in Nat /\ n \in Nat
    BY <1>2
  <2>2. k < n => <<k, n>> \in Less
    BY <2>1 DEF Less
  <2> QED
    BY <1>4, <2>1, <2>2
<1> QED
  BY <1>5 DEF T

LEMMA LastIsThere ==
  ASSUME messages \in Seq(Rows), NEW S, S \subseteq Ids, S # {}
  PROVE  LastOf(S) \in S
<1>1. ASSUME NEW i \in Ids
      PROVE  /\ i \in 1 .. Len(messages) /\ Len(messages) \in Nat
             /\ messages[i].at \in 0 .. MaxClock /\ MaxClock \in Nat
  <2>1. i \in 1 .. Len(messages) /\ Len(messages) \in Nat
    BY DEF Ids
  <2>2. messages[i] \in Rows
    BY <2>1
  <2> QED
    BY <2>1, <2>2, MessagesAssumption DEF Rows
<1> DEFINE age == [i \in Ids |-> MaxClock - messages[i].at]
           back == [i \in Ids |-> Len(messages) - i]
           T(i) == {j \in S : age[j] = age[i]}
<1>2. \A i \in S : age[i] \in Nat /\ back[i] \in Nat
  BY <1>1
<1>3. PICK i \in S : \A j \in S : age[i] <= age[j]
  <2> HIDE DEF age
  <2> QED
    BY <1>2, Least
<1>4. PICK l \in T(i) : \A j \in T(i) : back[l] <= back[j]
  <2>1. \A j \in T(i) : back[j] \in Nat
    BY <1>2
  <2> HIDE DEF age, back
  <2>2. T(i) # {}
    OBVIOUS
  <2> HIDE DEF T
  <2> QED
    BY <2>1, <2>2, Least
<1>5. ASSUME NEW j \in S PROVE ~Before(l, j)
  <2>1. age[l] <= age[j] /\ (age[j] = age[l] => back[l] <= back[j])
    BY <1>3, <1>4
  <2>2. \A k \in {l, j} : /\ k \in 1 .. Len(messages) /\ messages[k].at \in 0 .. MaxClock
                          /\ age[k] = MaxClock - messages[k].at /\ back[k] = Len(messages) - k
    BY <1>1
  <2> HIDE DEF age, back
  <2> QED
    BY <1>1, <2>1, <2>2 DEF Before
<1> HIDE DEF T
<1>6. {j \in S : Before(l, j)} = {}
  BY <1>5
<1>7. l \in Newest(S, 1)
  <2>1. Cardinality({j \in S : Before(l, j)}) = 0
    BY <1>6, FS_EmptySet
  <2>2. l \in S
    BY <1>4 DEF T
  <2> QED
    BY <2>1, <2>2 DEF Newest
<1> QED
  BY <1>7 DEF LastOf, Newest

-----------------------------------------------------------------------------
(* What a call on its way to a message has: what it answers and its thread,   *)
(* its recipients, and a time no earlier than that of what it answers, ...    *)
Going(c) ==
    LET j == job[c] IN
    /\ pc[c] \in Sending =>
          /\ j.who \in Agents /\ j.re \in 0 .. Len(messages) /\ j.thread \in 0 .. Len(messages)
          /\ j.re = 0 <=> j.thread = 0
          /\ j.re # 0 => j.thread = messages[j.re].thread
    /\ pc[c] \in {"stamp", "insert"} => j.rcpts \subseteq Agents /\ j.rcpts # {}
    /\ pc[c] = "insert" => /\ j.at \in 0 .. clock
                           /\ j.re # 0 => messages[j.re].at <= j.at
    /\ pc[c] = "mark" => j.who \in Agents /\ j.unread \subseteq Ids

(* ... the directory is between what it was throughout and what it ever was,  *)
(* ...                                                                        *)
Within(c) ==
    pc[c] \in Sending =>
        /\ always[c].active \subseteq active /\ active \subseteq ever[c].active
        /\ always[c].members \subseteq members /\ members \subseteq ever[c].members

(* ... and so is what the call has read of it and made of its "to".           *)
Goes(c, facts) == Expand(job[c].who, job[c].wanted, facts.active, facts.members)
Aimed(c) ==
    LET j == job[c]
        left == j.wanted \cap always[c].active
    IN /\ pc[c] = "filter" => j.spec = j.wanted /\ j.wanted \subseteq Agents
       /\ pc[c] \in {"actives", "resolve"} =>
             \/ j.spec = j.wanted
             \/ j.spec \subseteq j.wanted /\ j.wanted \subseteq Agents /\ left \subseteq j.spec
       /\ pc[c] = "resolve" => /\ always[c].active \subseteq j.known
                               /\ j.known \subseteq ever[c].active \cap Agents
       /\ pc[c] \in {"stamp", "insert"} => /\ Goes(c, always[c]) \subseteq j.rcpts
                                           /\ j.rcpts \subseteq Goes(c, ever[c])

Table ==
    /\ messages \in Seq(Rows)
    /\ clock \in 0 .. MaxClock
    /\ \A i \in Ids : messages[i].at <= clock

SendInv ==
    /\ MarkInv /\ TypeOK /\ Table /\ AnswersFollow
    /\ \A c \in Calls : Going(c) /\ Within(c) /\ Aimed(c)

LEMMA LengthOK ==
  ASSUME Table
  PROVE  Len(messages) \in Nat /\ Ids = 1 .. Len(messages) /\ \A i \in Ids : messages[i] \in Rows
<1>1. Len(messages) \in Nat /\ Ids = 1 .. Len(messages)
  BY DEF Table, Ids
<1> QED
  BY <1>1 DEF Table

(* Who "to" stands for grows with who is active and who is in a group, and    *)
(* agents stand for themselves.                                               *)
LEMMA ExpandGrows ==
  ASSUME NEW s, NEW spec, NEW K, NEW L, K \subseteq L, NEW P, NEW Q, P \subseteq Q
  PROVE  Expand(s, spec, K, P) \subseteq Expand(s, spec, L, Q)
  BY DEF Expand

LEMMA ExpandAgents ==
  ASSUME NEW s, NEW spec, spec \subseteq Agents, NEW K, NEW P
  PROVE  Expand(s, spec, K, P) = K \cap spec
<1>1. spec \cap Patterns = {} /\ spec \cap Groups = {}
  BY MessagesAssumption
<1> QED
  BY <1>1 DEF Expand

(* What Watch remembers of a call that goes on, and of one that starts.       *)
LEMMA Watched ==
  ASSUME Watch, NEW c \in Calls, pc'[c] \in Sending
  PROVE  /\ pc[c] # "idle" => /\ always'[c].active = always[c].active \cap active'
                              /\ always'[c].members = always[c].members \cap members'
                              /\ ever'[c].active = ever[c].active \cup active'
                              /\ ever'[c].members = ever[c].members \cup members'
         /\ pc[c] = "idle" => /\ always'[c].active = active' /\ always'[c].members = members'
                              /\ ever'[c].active = active' /\ ever'[c].members = members'
<1>1. pc'[c] \notin {"idle", "mark", "done"}
  BY DEF Sending
<1>2. /\ always'[c] = IF pc[c] = "idle" THEN Facts' ELSE Both(always[c], Facts')
      /\ ever'[c] = IF pc[c] = "idle" THEN Facts' ELSE Either(ever[c], Facts')
  BY <1>1 DEF Watch
<1> QED
  BY <1>2 DEF Facts, Both, Either

Looks == Watch \/ UNCHANGED <<directory, always, ever>>

LEMMA WithinKept ==
  ASSUME Looks, NEW c \in Calls, Within(c),
         pc'[c] \in Sending => pc[c] \in Sending \/ (pc[c] = "idle" /\ Watch)
  PROVE  Within(c)'
<1> SUFFICES ASSUME pc'[c] \in Sending
             PROVE  /\ always'[c].active \subseteq active' /\ active' \subseteq ever'[c].active
                    /\ always'[c].members \subseteq members' /\ members' \subseteq ever'[c].members
  BY DEF Within
<1>1. CASE Watch
  BY <1>1, Watched
<1>2. CASE UNCHANGED <<directory, always, ever>> /\ pc[c] \in Sending
  BY <1>2 DEF Within, directory
<1> QED
  BY <1>1, <1>2 DEF Looks

(* Messages are never changed or removed, and time does not go back.          *)
Kept ==
    /\ Len(messages) <= Len(messages') /\ clock <= clock'
    /\ \A i \in Ids : messages'[i] = messages[i]

(* A step of others leaves what is known of a call as it is.                  *)
LEMMA OthersGoOn ==
  ASSUME SendInv, Looks, Kept, Table', NEW c \in Calls, pc'[c] = pc[c], job'[c] = job[c]
  PROVE  (Going(c) /\ Within(c) /\ Aimed(c))'
<1> USE DEF SendInv
<1>0. "idle" \notin Sending /\ {"filter", "actives", "resolve", "stamp", "insert"} = Sending
  BY DEF Sending
<1>1. Within(c)'
  BY <1>0, WithinKept
<1>2. Going(c)'
  <2>1. /\ Len(messages) \in Nat /\ Len(messages') \in Nat /\ clock \in Nat /\ clock' \in Nat
        /\ Ids = 1 .. Len(messages) /\ Ids' = 1 .. Len(messages')
        /\ Len(messages) <= Len(messages') /\ clock <= clock'
    BY LengthOK DEF Kept, Table, Ids
  <2>2. Going(c)
    OBVIOUS
  <2>3. \A i \in 1 .. Len(messages) : messages'[i] = messages[i]
    BY <2>1 DEF Kept
  <2>4. pc[c] \in Sending => /\ job[c].re \in 0 .. Len(messages)
                             /\ job[c].re # 0 => messages'[job[c].re] = messages[job[c].re]
    BY <2>1, <2>2, <2>3 DEF Going
  <2>5. pc[c] = "insert" => pc[c] \in Sending
    BY DEF Sending
  <2> QED
    BY <2>1, <2>2, <2>4, <2>5 DEF Going
<1>3. pc[c] \in Sending =>
         /\ always'[c].active \subseteq always[c].active /\ ever[c].active \subseteq ever'[c].active
         /\ always'[c].members \subseteq always[c].members
         /\ ever[c].members \subseteq ever'[c].members
  BY <1>0, Watched DEF Looks
<1>4. pc[c] \in {"stamp", "insert"} =>
         Goes(c, always[c])' \subseteq job[c].rcpts /\ job[c].rcpts \subseteq Goes(c, ever[c])'
  BY <1>0, <1>3, ExpandGrows DEF Aimed, Goes
<1> QED
  BY <1>0, <1>1, <1>2, <1>3, <1>4 DEF Aimed

(* A step of one call that leaves the rows and the directory alone.           *)
LEMMA OneGoes ==
  ASSUME SendInv, MarkInv', NEW c \in Calls, Watch, UNCHANGED <<directory, messages, clock>>,
         \A d \in Calls \ {c} : pc'[d] = pc[d] /\ job'[d] = job[d],
         read' \cup handled' \subseteq Agents \X Ids,
         pc'[c] \in Sending => pc[c] \in Sending \/ pc[c] = "idle",
         (Going(c) /\ Aimed(c))'
  PROVE  SendInv'
<1>1. TypeOK' /\ Table' /\ AnswersFollow'
  BY DEF SendInv, TypeOK, Table, AnswersFollow, Before, Ids, directory
<1>2. Kept
  BY LengthOK DEF Kept, SendInv, Table
<1>3. ASSUME NEW d \in Calls PROVE (Going(d) /\ Within(d) /\ Aimed(d))'
  <2>1. CASE d = c
    BY <2>1, WithinKept DEF Looks, SendInv
  <2>2. CASE d # c
    BY <1>1, <1>2, <2>2, OthersGoOn DEF Looks
  <2> QED
    BY <2>1, <2>2
<1> QED
  BY <1>1, <1>3 DEF SendInv

LEMMA OneIsOver ==
  ASSUME SendInv, MarkInv', NEW c \in Calls, Watch, UNCHANGED <<directory, messages, clock>>,
         Return(c), read' \cup handled' \subseteq Agents \X Ids
  PROVE  SendInv'
<1>1. /\ pc'[c] = "done" /\ pc'[c] \notin Sending
      /\ \A d \in Calls \ {c} : pc'[d] = pc[d] /\ job'[d] = job[d]
  BY DEF Return, SendInv, MarkInv, Shape, Sending
<1>2. (Going(c) /\ Aimed(c))'
  BY <1>1 DEF Going, Aimed
<1> QED
  BY <1>1, <1>2, OneGoes

(* Steps of others than the calls.                                            *)
LEMMA NoneGoes ==
  ASSUME SendInv, MarkInv', UNCHANGED <<messages, pc, job>>, Looks,
         clock' \in clock .. MaxClock, active' \subseteq Agents,
         members' \subseteq Groups \X Agents, changes' \in 0 .. MaxChanges,
         read' \cup handled' \subseteq Agents \X Ids
  PROVE  SendInv'
<1>1. clock \in Nat /\ clock' \in Nat /\ clock <= clock' /\ clock' \in 0 .. MaxClock
  BY MessagesAssumption DEF SendInv, Table
<1>2. TypeOK' /\ AnswersFollow'
  BY <1>1 DEF SendInv, TypeOK, AnswersFollow, Before, Ids
<1>3. Table'
  <2>1. \A i \in Ids : messages[i].at \in Nat /\ messages[i].at <= clock
    BY LengthOK, MessagesAssumption DEF SendInv, Table, Rows
  <2> QED
    BY <1>1, <2>1 DEF SendInv, Table, Ids
<1>4. Kept
  BY <1>1, LengthOK DEF Kept, SendInv
<1> QED
  BY <1>2, <1>3, <1>4, OthersGoOn DEF SendInv

LEMMA SendInit == Init => SendInv
<1> SUFFICES ASSUME Init PROVE SendInv
  OBVIOUS
<1>1. messages = <<>> /\ Ids = {} /\ \A c \in Calls : pc[c] = "idle"
  BY DEF Init, Ids
<1>2. TypeOK /\ Table /\ AnswersFollow
  BY <1>1, MessagesAssumption DEF Init, TypeOK, Table, AnswersFollow
<1>3. \A c \in Calls : Going(c) /\ Within(c) /\ Aimed(c)
  BY <1>1 DEF Going, Within, Aimed, Sending
<1> QED
  BY <1>2, <1>3, MarkInit DEF SendInv

(* Where a message or a reply begins.                                         *)
LEMMA StepSend ==
  ASSUME SendInv, MarkInv', NEW c \in Calls, Send(c)
  PROVE  SendInv'
<1>1. PICK a \in active, spec \in Specs, t \in Threads \cup {0} :
          job' = [job EXCEPT ![c] = [Blank EXCEPT
              !.who = a, !.wanted = spec, !.spec = spec, !.thread = t,
              !.re = IF t = 0 THEN 0 ELSE LastOf(InThread(t))]]
  BY DEF Send
<1> DEFINE re == IF t = 0 THEN 0 ELSE LastOf(InThread(t))
<1>2. /\ pc[c] = "idle" /\ pc'[c] = "actives"
      /\ \A d \in Calls \ {c} : pc'[d] = pc[d] /\ job'[d] = job[d]
      /\ UNCHANGED <<directory, messages, read, clock, handled>> /\ Watch
  BY <1>1 DEF Send, Goto, rows, SendInv, MarkInv, Shape
<1>3. job'[c].who = a /\ job'[c].thread = t /\ job'[c].re = re /\ job'[c].spec = job'[c].wanted
  BY <1>1 DEF SendInv, MarkInv, Shape, Blank
<1> HIDE DEF re
<1>4. t # 0 => re \in Ids /\ messages[re].thread = t /\ t \in 1 .. Len(messages)
  <2> SUFFICES ASSUME t # 0 PROVE re \in Ids /\ messages[re].thread = t /\ t \in 1 .. Len(messages)
    OBVIOUS
  <2>1. PICK i \in Ids : messages[i].thread = t
    BY DEF Threads
  <2>2. t \in 1 .. i /\ i \in 1 .. Len(messages) /\ Len(messages) \in Nat
    BY <2>1, LengthOK DEF SendInv, TypeOK
  <2>3. InThread(t) \subseteq Ids /\ InThread(t) # {}
    BY <2>1 DEF InThread
  <2>4. re \in InThread(t)
    BY <2>3, LastIsThere DEF re, SendInv, Table
  <2> QED
    BY <2>2, <2>4 DEF InThread
<1>5. t = 0 => re = 0
  BY DEF re
<1>6. Going(c)'
  <2>1. a \in Agents /\ Ids = 1 .. Len(messages) /\ Len(messages) \in Nat
    BY LengthOK DEF SendInv, TypeOK
  <2> QED
    BY <1>2, <1>3, <1>4, <1>5, <2>1 DEF Going
<1>7. Aimed(c)'
  BY <1>2, <1>3 DEF Aimed
<1> QED
  BY <1>2, <1>6, <1>7, OneGoes DEF SendInv, TypeOK

LEMMA StepReply ==
  ASSUME SendInv, MarkInv', NEW c \in Calls, Reply(c)
  PROVE  SendInv'
<1>1. PICK a \in active, i \in Ids, all \in BOOLEAN :
          LET m == messages[i]
              others == ({m.from} \cup IF all \/ m.from = a THEN m.rcpts ELSE {}) \ {a}
              targets == IF others # {} THEN others ELSE m.rcpts \cap {a}
          IN /\ CanSee(a, i)
             /\ job' = [job EXCEPT ![c] = [Blank EXCEPT
                   !.who = a, !.wanted = targets, !.spec = targets, !.thread = m.thread,
                   !.re = i, !.reply = TRUE]]
             /\ handled' = handled \cup {<<a, i>>}
  BY DEF Reply
<1> DEFINE m == messages[i]
           others == ({m.from} \cup IF all \/ m.from = a THEN m.rcpts ELSE {}) \ {a}
           targets == IF others # {} THEN others ELSE m.rcpts \cap {a}
<1>2. /\ pc[c] = "idle" /\ pc'[c] = "filter"
      /\ \A d \in Calls \ {c} : pc'[d] = pc[d] /\ job'[d] = job[d]
      /\ UNCHANGED <<directory, messages, read, clock>> /\ Watch
  BY <1>1 DEF Reply, Goto, rows, SendInv, MarkInv, Shape
<1>3. /\ job'[c].who = a /\ job'[c].thread = m.thread /\ job'[c].re = i
      /\ job'[c].spec = targets /\ job'[c].wanted = targets
  BY <1>1 DEF SendInv, MarkInv, Shape, Blank
<1>4. /\ a \in Agents /\ m.from \in Agents /\ m.rcpts \subseteq Agents /\ m.thread \in 1 .. i
      /\ i \in 1 .. Len(messages) /\ Ids = 1 .. Len(messages) /\ Len(messages) \in Nat
  BY LengthOK DEF SendInv, TypeOK
<1>5. targets \subseteq Agents
  BY <1>4
<1> HIDE DEF targets, others
<1>6. Going(c)'
  BY <1>2, <1>3, <1>4 DEF Going
<1>7. Aimed(c)'
  BY <1>2, <1>3, <1>5 DEF Aimed
<1>8. read' \cup handled' \subseteq Agents \X Ids
  BY <1>1, <1>2, <1>4 DEF SendInv, TypeOK
<1> QED
  BY <1>2, <1>6, <1>7, <1>8, OneGoes

(* The steps on the way change one field of the job.                          *)
LEMMA OnTheWay ==
  ASSUME SendInv, NEW c \in Calls, NEW to, NEW j, pc' = [pc EXCEPT ![c] = to],
         job' = [job EXCEPT ![c] = j]
  PROVE  /\ pc'[c] = to /\ job'[c] = j
         /\ \A d \in Calls \ {c} : pc'[d] = pc[d] /\ job'[d] = job[d]
         /\ read \cup handled \subseteq Agents \X Ids
  BY DEF SendInv, MarkInv, Shape, TypeOK

LEMMA StepFilter ==
  ASSUME SendInv, MarkInv', NEW c \in Calls, Filter(c)
  PROVE  SendInv'
<1>1. UNCHANGED <<directory, messages, read, clock, handled>> /\ Watch /\ pc[c] = "filter"
  BY DEF Filter, rows, Goto
<1>2. CASE Return(c)
  BY <1>1, <1>2, OneIsOver DEF SendInv, TypeOK
<1>3. CASE ~Return(c)
  <2> DEFINE j == [job[c] EXCEPT !.spec = job[c].spec \cap active]
  <2>1. pc' = [pc EXCEPT ![c] = "actives"] /\ job' = [job EXCEPT ![c] = j]
    BY <1>3 DEF Filter, Goto
  <2>2. /\ j.spec = job[c].spec \cap active
        /\ j.who = job[c].who /\ j.re = job[c].re /\ j.thread = job[c].thread
        /\ j.wanted = job[c].wanted
    BY BlankFields DEF SendInv, MarkInv, Shape
  <2> HIDE DEF j
  <2>3. /\ pc'[c] = "actives" /\ job'[c] = j
        /\ \A d \in Calls \ {c} : pc'[d] = pc[d] /\ job'[d] = job[d]
        /\ read \cup handled \subseteq Agents \X Ids
    BY <2>1, OnTheWay
  <2>4. Going(c)'
    BY <1>1, <2>2, <2>3 DEF SendInv, Going, Sending
  <2>5. always'[c].active \subseteq active
    BY <1>1, <2>3, Watched DEF Sending, directory
  <2>6. Aimed(c)'
    BY <1>1, <2>2, <2>3, <2>5 DEF SendInv, Aimed
  <2> QED
    BY <1>1, <2>3, <2>4, <2>6, OneGoes DEF Sending
<1> QED
  BY <1>2, <1>3

LEMMA StepActives ==
  ASSUME SendInv, MarkInv', NEW c \in Calls, Actives(c)
  PROVE  SendInv'
<1> DEFINE j == [job[c] EXCEPT !.known = active]
<1>1. /\ UNCHANGED <<directory, messages, read, clock, handled>> /\ Watch /\ pc[c] = "actives"
      /\ pc' = [pc EXCEPT ![c] = "resolve"] /\ job' = [job EXCEPT ![c] = j]
  BY DEF Actives, rows, Goto
<1>2. /\ j.known = active /\ j.spec = job[c].spec
      /\ j.who = job[c].who /\ j.re = job[c].re /\ j.thread = job[c].thread
      /\ j.wanted = job[c].wanted
  BY BlankFields DEF SendInv, MarkInv, Shape
<1> HIDE DEF j
<1>3. /\ pc'[c] = "resolve" /\ job'[c] = j
      /\ \A d \in Calls \ {c} : pc'[d] = pc[d] /\ job'[d] = job[d]
      /\ read \cup handled \subseteq Agents \X Ids
  BY <1>1, OnTheWay
<1>4. Going(c)'
  BY <1>1, <1>2, <1>3 DEF SendInv, Going, Sending
<1>5. /\ always'[c].active = always[c].active \cap active
      /\ ever'[c].active = ever[c].active \cup active
  BY <1>1, <1>3, Watched DEF Sending, directory
<1>6. Aimed(c)'
  <2>1. active \subseteq Agents
    BY DEF SendInv, TypeOK
  <2> QED
    BY <1>1, <1>2, <1>3, <1>5, <2>1 DEF SendInv, Aimed
<1> QED
  BY <1>1, <1>3, <1>4, <1>6, OneGoes DEF Sending

LEMMA StepResolve ==
  ASSUME SendInv, MarkInv', NEW c \in Calls, Resolve(c)
  PROVE  SendInv'
<1>1. UNCHANGED <<directory, messages, read, clock, handled>> /\ Watch /\ pc[c] = "resolve"
  BY DEF Resolve, rows, Goto
<1>2. CASE Return(c)
  BY <1>1, <1>2, OneIsOver DEF SendInv, TypeOK
<1>3. CASE ~Return(c)
  <2> DEFINE o == job[c]
             r == Expand(o.who, o.spec, o.known, members)
             j == [o EXCEPT !.rcpts = r, !.spec = {}, !.known = {}]
  <2>1. r # {} /\ pc' = [pc EXCEPT ![c] = "stamp"] /\ job' = [job EXCEPT ![c] = j]
    BY <1>3 DEF Resolve, Goto, SendInv, MarkInv, Shape
  <2>2. /\ j.rcpts = r /\ j.who = o.who /\ j.re = o.re /\ j.thread = o.thread
        /\ j.wanted = o.wanted
    BY BlankFields DEF SendInv, MarkInv, Shape
  <2> HIDE DEF j
  <2>3. /\ pc'[c] = "stamp" /\ job'[c] = j
        /\ \A d \in Calls \ {c} : pc'[d] = pc[d] /\ job'[d] = job[d]
        /\ read \cup handled \subseteq Agents \X Ids
    BY <2>1, OnTheWay
  <2>4. /\ always[c].active \subseteq o.known /\ o.known \subseteq ever[c].active \cap Agents
        /\ always[c].members \subseteq members /\ members \subseteq ever[c].members
    BY <1>1 DEF SendInv, Aimed, Within, Sending
  <2>5. r \subseteq Agents
    BY <2>4 DEF Expand
  <2>6. Going(c)'
    BY <1>1, <2>1, <2>2, <2>3, <2>5 DEF SendInv, Going, Sending
  <2>7. Goes(c, always[c]) \subseteq r /\ r \subseteq Goes(c, ever[c])
    <3>1. CASE o.spec = o.wanted
      BY <2>4, <3>1, ExpandGrows DEF Goes
    <3>2. CASE /\ o.spec \subseteq o.wanted /\ o.wanted \subseteq Agents
               /\ o.wanted \cap always[c].active \subseteq o.spec
      <4>1. /\ Goes(c, always[c]) = always[c].active \cap o.wanted
            /\ Goes(c, ever[c]) = ever[c].active \cap o.wanted
        BY <3>2, ExpandAgents DEF Goes
      <4>2. r = o.known \cap o.spec
        BY <3>2, ExpandAgents
      <4> QED
        BY <2>4, <3>2, <4>1, <4>2
    <3> QED
      BY <1>1, <3>1, <3>2 DEF SendInv, Aimed
  <2>8. /\ always'[c].active \subseteq always[c].active
        /\ always'[c].members \subseteq always[c].members
        /\ ever[c].active \subseteq ever'[c].active /\ ever[c].members \subseteq ever'[c].members
    BY <1>1, <2>3, Watched DEF Sending
  <2> HIDE DEF r
  <2>9. Aimed(c)'
    <3>1. Goes(c, always[c])' \subseteq Goes(c, always[c])
      BY <2>2, <2>3, <2>8, ExpandGrows DEF Goes
    <3>2. Goes(c, ever[c]) \subseteq Goes(c, ever[c])'
      BY <2>2, <2>3, <2>8, ExpandGrows DEF Goes
    <3> QED
      BY <2>2, <2>3, <2>7, <3>1, <3>2 DEF Aimed
  <2> QED
    BY <1>1, <2>3, <2>6, <2>9, OneGoes DEF Sending
<1> QED
  BY <1>2, <1>3

LEMMA StepStamp ==
  ASSUME SendInv, MarkInv', NEW c \in Calls, Stamp(c)
  PROVE  SendInv'
<1> DEFINE j == [job[c] EXCEPT !.at = clock]
<1>1. /\ UNCHANGED <<directory, messages, read, clock, handled>> /\ Watch /\ pc[c] = "stamp"
      /\ pc' = [pc EXCEPT ![c] = "insert"] /\ job' = [job EXCEPT ![c] = j]
  BY DEF Stamp, rows, Goto
<1>2. /\ j.at = clock /\ j.rcpts = job[c].rcpts
      /\ j.who = job[c].who /\ j.re = job[c].re /\ j.thread = job[c].thread
      /\ j.wanted = job[c].wanted
  BY BlankFields DEF SendInv, MarkInv, Shape
<1> HIDE DEF j
<1>3. /\ pc'[c] = "insert" /\ job'[c] = j
      /\ \A d \in Calls \ {c} : pc'[d] = pc[d] /\ job'[d] = job[d]
      /\ read \cup handled \subseteq Agents \X Ids
  BY <1>1, OnTheWay
<1>4. Going(c)'
  <2>1. clock \in 0 .. clock
    BY MessagesAssumption DEF SendInv, Table
  <2>2. job[c].re # 0 => job[c].re \in Ids /\ messages[job[c].re].at <= clock
    BY <1>1, LengthOK DEF SendInv, Table, Going, Sending
  <2> QED
    BY <1>1, <1>2, <1>3, <2>1, <2>2 DEF SendInv, Going, Sending
<1>5. /\ always'[c].active \subseteq always[c].active
      /\ always'[c].members \subseteq always[c].members
      /\ ever[c].active \subseteq ever'[c].active /\ ever[c].members \subseteq ever'[c].members
  BY <1>1, <1>3, Watched DEF Sending
<1>6. Aimed(c)'
  <2>1. Goes(c, always[c])' \subseteq Goes(c, always[c])
    BY <1>2, <1>3, <1>5, ExpandGrows DEF Goes
  <2>2. Goes(c, ever[c]) \subseteq Goes(c, ever[c])'
    BY <1>2, <1>3, <1>5, ExpandGrows DEF Goes
  <2> QED
    BY <1>1, <1>2, <1>3, <2>1, <2>2 DEF SendInv, Aimed
<1> QED
  BY <1>1, <1>3, <1>4, <1>6, OneGoes DEF Sending

(* The new message is the last of its table; the others are what they were.   *)
LEMMA StepInsert ==
  ASSUME SendInv, MarkInv', NEW c \in Calls, Insert(c)
  PROVE  SendInv'
<1> DEFINE j == job[c]
           n == Len(messages) + 1
           m == [from |-> j.who, rcpts |-> j.rcpts, re |-> j.re, at |-> j.at,
                 thread |-> IF j.thread = 0 THEN n ELSE j.thread]
<1>1. /\ UNCHANGED <<directory, clock, handled>> /\ Watch /\ pc[c] = "insert" /\ Return(c)
      /\ messages' = Append(messages, m)
      /\ read' = IF j.reply /\ j.who \in messages[j.re].rcpts
                 THEN read \cup {<<j.who, j.re>>} ELSE read
  BY DEF Insert
<1>2. /\ j.who \in Agents /\ j.re \in 0 .. Len(messages) /\ j.thread \in 0 .. Len(messages)
      /\ j.re = 0 <=> j.thread = 0
      /\ j.re # 0 => j.thread = messages[j.re].thread
      /\ j.rcpts \subseteq Agents /\ j.rcpts # {}
      /\ j.at \in 0 .. clock /\ (j.re # 0 => messages[j.re].at <= j.at)
  BY <1>1 DEF SendInv, Going, Sending
<1>3. /\ Len(messages) \in Nat /\ Ids = 1 .. Len(messages)
      /\ clock \in 0 .. MaxClock /\ MaxClock \in Nat
  BY LengthOK, MessagesAssumption DEF SendInv, Table
<1>4. m \in Rows
  BY <1>2, <1>3 DEF Rows
<1>5. /\ Len(messages') = n /\ Ids' = 1 .. n /\ messages'[n] = m
      /\ \A i \in Ids : messages'[i] = messages[i]
      /\ messages' \in Seq(Rows)
  BY <1>1, <1>3, <1>4 DEF SendInv, Table, Ids
<1>6. /\ m.from = j.who /\ m.rcpts = j.rcpts /\ m.re = j.re /\ m.at = j.at
      /\ m.thread = IF j.thread = 0 THEN n ELSE j.thread
  OBVIOUS
<1> HIDE DEF m
<1>7. Table'
  <2>1. \A i \in Ids' : i \in Ids \/ i = n
    BY <1>3, <1>5
  <2>2. \A i \in Ids : messages[i].at <= clock
    BY DEF SendInv, Table
  <2>3. m.at <= clock
    BY <1>2, <1>3, <1>6
  <2> QED
    BY <1>1, <1>3, <1>5, <2>1, <2>2, <2>3 DEF Table
<1>8. TypeOK'
  <2>1. ASSUME NEW i \in Ids', i # n
        PROVE  LET x == messages'[i] IN
               /\ x.from \in Agents
               /\ x.rcpts \subseteq Agents /\ x.rcpts # {}
               /\ x.thread \in 1 .. i /\ x.re \in 0 .. i - 1 /\ x.at \in 0 .. MaxClock
               /\ x.re # 0 => x.thread = messages'[x.re].thread
               /\ x.re = 0 <=> x.thread = i
    <3>1. i \in Ids /\ messages'[i] = messages[i]
      BY <1>3, <1>5, <2>1
    <3>2. messages[i].re \in 0 .. i - 1
      BY <3>1 DEF SendInv, TypeOK
    <3>3. messages[i].re # 0 => messages'[messages[i].re] = messages[messages[i].re]
      BY <1>3, <1>5, <3>1, <3>2
    <3> QED
      BY <3>1, <3>3 DEF SendInv, TypeOK
  <2>2. /\ m.from \in Agents
        /\ m.rcpts \subseteq Agents /\ m.rcpts # {}
        /\ m.re \in 0 .. n - 1 /\ m.at \in 0 .. MaxClock
    BY <1>2, <1>3, <1>6
  <2>3. m.thread \in 1 .. n
    BY <1>2, <1>3, <1>6
  <2>4. m.re # 0 => m.thread = messages'[m.re].thread
    BY <1>2, <1>3, <1>5, <1>6
  <2>5. m.re = 0 <=> m.thread = n
    BY <1>2, <1>3, <1>6
  <2>6. read' \cup handled' \subseteq Agents \X Ids'
    <3>1. read \cup handled \subseteq Agents \X Ids /\ Ids \subseteq Ids'
      BY <1>3, <1>5 DEF SendInv, TypeOK
    <3>2. j.reply => <<j.who, j.re>> \in handled
      BY <1>1 DEF SendInv, MarkInv, Owed, Due, Sending
    <3> QED
      BY <1>1, <3>1, <3>2
  <2> QED
    BY <1>1, <1>5, <2>1, <2>2, <2>3, <2>4, <2>5, <2>6 DEF SendInv, TypeOK, directory
<1>9. AnswersFollow'
  <2>1. ASSUME NEW i \in Ids', messages'[i].re # 0 PROVE Before(messages[i].re, i)'
    <3>1. CASE i # n
      <4>1. i \in Ids /\ messages'[i] = messages[i] /\ messages[i].re \in 0 .. i - 1
        BY <1>3, <1>5, <3>1 DEF SendInv, TypeOK
      <4>2. messages'[messages[i].re] = messages[messages[i].re] /\ Before(messages[i].re, i)
        BY <1>3, <1>5, <2>1, <4>1 DEF SendInv, AnswersFollow
      <4> QED
        BY <4>1, <4>2 DEF Before
    <3>2. CASE i = n
      <4>1. /\ j.re \in Ids /\ messages'[n].re = j.re /\ messages'[n].at = j.at
            /\ messages'[j.re] = messages[j.re] /\ j.re < n
        BY <1>2, <1>3, <1>5, <1>6, <2>1, <3>2
      <4>2. messages[j.re].at \in Nat /\ j.at \in Nat /\ messages[j.re].at <= j.at
        BY <1>2, <1>3, <4>1, LengthOK DEF SendInv, Rows
      <4> QED
        BY <3>2, <4>1, <4>2 DEF Before
    <3> QED
      BY <3>1, <3>2
  <2> QED
    BY <2>1 DEF AnswersFollow
<1>10. Kept
  BY <1>1, <1>3, <1>5 DEF Kept
<1>11. /\ pc'[c] = "done" /\ pc'[c] \notin Sending
       /\ \A d \in Calls \ {c} : pc'[d] = pc[d] /\ job'[d] = job[d]
  BY <1>1 DEF Return, SendInv, MarkInv, Shape, Sending
<1>12. (Going(c) /\ Within(c) /\ Aimed(c))'
  BY <1>11 DEF Going, Within, Aimed
<1>13. \A d \in Calls \ {c} : (Going(d) /\ Within(d) /\ Aimed(d))'
  BY <1>1, <1>7, <1>10, <1>11, OthersGoOn DEF Looks
<1> QED
  BY <1>7, <1>8, <1>9, <1>12, <1>13 DEF SendInv

(* What a call shows, it has of its own reading.                              *)
LEMMA StepShow ==
  ASSUME SendInv, MarkInv', NEW c \in Calls, NEW a \in active, NEW S, S \subseteq Ids,
         Show(c, a, S)
  PROVE  SendInv'
<1> DEFINE j == [Blank EXCEPT !.who = a, !.unread = S \cap UnreadBy(a)]
<1>1. /\ UNCHANGED <<directory, messages, read, clock>> /\ Watch
      /\ handled' = handled \cup {<<a, i>> : i \in S}
      /\ pc' = [pc EXCEPT ![c] = "mark"] /\ job' = [job EXCEPT ![c] = j]
  BY DEF Show, Goto, rows
<1>2. j.who = a /\ j.unread \subseteq Ids /\ a \in Agents
  BY DEF Blank, SendInv, TypeOK
<1> HIDE DEF j
<1>3. /\ pc'[c] = "mark" /\ job'[c] = j
      /\ \A d \in Calls \ {c} : pc'[d] = pc[d] /\ job'[d] = job[d]
      /\ read \cup handled \subseteq Agents \X Ids
  BY <1>1, OnTheWay
<1>4. (Going(c) /\ Aimed(c))' /\ pc'[c] \notin Sending
  BY <1>1, <1>2, <1>3 DEF Going, Aimed, Sending, Ids
<1>5. read' \cup handled' \subseteq Agents \X Ids
  BY <1>1, <1>2, <1>3
<1> QED
  BY <1>1, <1>3, <1>4, <1>5, OneGoes

LEMMA StepMark ==
  ASSUME SendInv, MarkInv', NEW c \in Calls, Mark(c)
  PROVE  SendInv'
<1>1. /\ UNCHANGED <<directory, messages, clock, handled>> /\ Watch /\ Return(c) /\ pc[c] = "mark"
      /\ read' = read \cup {<<job[c].who, i>> : i \in job[c].unread}
  BY DEF Mark
<1>2. job[c].who \in Agents /\ job[c].unread \subseteq Ids
  BY <1>1 DEF SendInv, Going
<1>3. read' \cup handled' \subseteq Agents \X Ids
  BY <1>1, <1>2 DEF SendInv, TypeOK
<1> QED
  BY <1>1, <1>3, OneIsOver

(* The directory changes under the calls, and they watch it.                  *)
LEMMA StepDirectory ==
  ASSUME SendInv, MarkInv', NEW A, A \subseteq Agents, NEW P, P \subseteq Groups \X Agents,
         Directory(A, P)
  PROVE  SendInv'
<1>1. /\ UNCHANGED <<messages, read, clock, pc, job, handled>> /\ Watch
      /\ active' = A /\ members' = P /\ changes' = changes + 1 /\ changes < MaxChanges
  BY DEF Directory, rows
<1>2. changes' \in 0 .. MaxChanges /\ clock \in clock .. MaxClock
  BY <1>1, MessagesAssumption DEF SendInv, TypeOK
<1> QED
  BY <1>1, <1>2, NoneGoes DEF Looks, SendInv, TypeOK

LEMMA SendStep == SendInv /\ [Next]_vars => SendInv'
<1> SUFFICES ASSUME SendInv, [Next]_vars PROVE SendInv'
  OBVIOUS
<1>1. MarkInv'
  BY MarkStep DEF SendInv
<1>2. /\ active \subseteq Agents /\ members \subseteq Groups \X Agents
      /\ read \cup handled \subseteq Agents \X Ids /\ changes \in 0 .. MaxChanges
      /\ clock \in 0 .. MaxClock /\ clock \in clock .. MaxClock
  BY MessagesAssumption DEF SendInv, TypeOK
<1>3. ASSUME NEW c \in Calls, Send(c) \/ Reply(c) \/ Filter(c) \/ Actives(c) \/ Resolve(c)
                              \/ Stamp(c) \/ Insert(c) \/ Mark(c)
      PROVE  SendInv'
  BY <1>1, <1>3, StepSend, StepReply, StepFilter, StepActives, StepResolve, StepStamp, StepInsert,
     StepMark
<1>4. ASSUME NEW c \in Calls, Inbox(c) PROVE SendInv'
  <2>1. PICK a \in active, t \in Threads, only \in BOOLEAN, k \in Limits :
            LET visible == {i \in InThread(t) : CanSee(a, i)} IN
            Show(c, a, Newest(IF only THEN visible \cap UnreadBy(a) ELSE visible, k))
    BY <1>4 DEF Inbox
  <2> DEFINE visible == {i \in InThread(t) : CanSee(a, i)}
             S == Newest(IF only THEN visible \cap UnreadBy(a) ELSE visible, k)
  <2>2. S \subseteq Ids
    BY DEF Newest, InThread
  <2>3. Show(c, a, S)
    BY <2>1
  <2> HIDE DEF S
  <2> QED
    BY <1>1, <2>2, <2>3, StepShow
<1>5. ASSUME NEW c \in Calls, ReadMessage(c) PROVE SendInv'
  <2>1. PICK a \in active, i \in Ids : Show(c, a, {i})
    BY <1>5 DEF ReadMessage
  <2> QED
    BY <1>1, <2>1, StepShow
<1>6. ASSUME NEW c \in Calls, Fails(c) PROVE SendInv'
  BY <1>1, <1>2, <1>6, OneIsOver DEF Fails, rows
<1>7. CASE MarkRead
  <2>1. PICK a \in active, S \in {{i} : i \in Ids} \cup {InThread(t) : t \in Threads} \cup {Ids} :
            /\ read' = read \cup {<<a, i>> : i \in S \cap UnreadBy(a)}
            /\ handled' = handled \cup {<<a, i>> : i \in S \cap UnreadBy(a)}
            /\ UNCHANGED <<directory, messages, clock, pc, job, always, ever>>
    BY <1>7 DEF MarkRead
  <2>2. UnreadBy(a) \subseteq Ids
    BY DEF UnreadBy
  <2>3. read' \cup handled' \subseteq Agents \X Ids
    BY <1>2, <2>1, <2>2
  <2> QED
    BY <1>1, <1>2, <2>1, <2>3, NoneGoes DEF Looks, directory
<1>8. CASE SetGroup
  <2>1. PICK g \in Groups, S \in SUBSET Agents :
            Directory(active, {p \in members : p[1] # g} \cup ({g} \X S))
    BY <1>8 DEF SetGroup
  <2>2. {p \in members : p[1] # g} \cup ({g} \X S) \subseteq Groups \X Agents
    BY <1>2
  <2> QED
    BY <1>1, <1>2, <2>1, <2>2, StepDirectory
<1>9. CASE Issue
  BY <1>1, <1>2, <1>9, StepDirectory DEF Issue
<1>10. CASE Revoke
  BY <1>1, <1>2, <1>10, StepDirectory DEF Revoke
<1>11. CASE Tick
  <2>1. clock' \in clock .. MaxClock
    BY <1>2, <1>11, MessagesAssumption DEF Tick
  <2> QED
    BY <1>1, <1>2, <1>11, <2>1, NoneGoes DEF Tick, Looks, directory, rows
<1>12. CASE UNCHANGED vars
  BY <1>1, <1>2, <1>12, NoneGoes DEF vars, Looks, directory
<1> QED
  BY <1>3, <1>4, <1>5, <1>6, <1>7, <1>8, <1>9, <1>10, <1>11, <1>12 DEF Next

(* Every message, read mark and change of the directory always has its type,  *)
(* and an answer is in the thread of what it answers.                         *)
THEOREM TypeCorrect == Spec => []TypeOK
<1>1. SendInv => TypeOK
  BY DEF SendInv
<1> QED
  BY <1>1, SendInit, SendStep, PTL DEF Spec

(* An answer comes after what it answers in the order a thread is shown in,   *)
(* for any sends that overlap: its time is taken after what it answers was    *)
(* found, and of two messages of one time the later row comes last.           *)
THEOREM AnswersInOrder == Spec => []AnswersFollow
<1>1. SendInv => AnswersFollow
  BY DEF SendInv
<1> QED
  BY <1>1, SendInit, SendStep, PTL DEF Spec

(* A message goes to all those its "to" stood for throughout the call, and to *)
(* nobody it stood for at no moment of it, however agents are issued and      *)
(* revoked and groups are set while the call reads them one by one.           *)
THEOREM AudienceRight == Spec => Audience
<1> DEFINE Grows == Len(messages') > Len(messages) =>
          \E c \in Calls :
              LET j == job[c]
                  To(facts) == Expand(j.who, j.wanted, facts.active, facts.members)
                  rcpts == messages'[Len(messages')].rcpts
              IN /\ pc[c] = "insert" /\ pc'[c] = "done"
                 /\ To(always[c]) \subseteq rcpts
                 /\ rcpts \subseteq To(ever[c])
<1>1. SendInv /\ [Next]_vars => [Grows]_vars
  <2> SUFFICES ASSUME SendInv, [Next]_vars, Len(messages') > Len(messages) PROVE Grows
    OBVIOUS
  <2>1. Len(messages) \in Nat
    BY LengthOK DEF SendInv
  <2>2. messages' # messages
    BY <2>1
  <2>3. PICK c \in Calls : Insert(c)
    BY <2>2 DEF Next, Send, Reply, Filter, Actives, Resolve, Stamp, Inbox, ReadMessage, Show, Mark,
                Fails, MarkRead, SetGroup, Issue, Revoke, Directory, Tick, rows, vars
  <2>4. /\ pc[c] = "insert" /\ pc'[c] = "done"
        /\ \E r : messages' = Append(messages, r) /\ r.rcpts = job[c].rcpts
    BY <2>3 DEF Insert, Return, SendInv, MarkInv, Shape
  <2>5. messages'[Len(messages')].rcpts = job[c].rcpts
    BY <2>1, <2>4 DEF SendInv, Table
  <2>6. Goes(c, always[c]) \subseteq job[c].rcpts /\ job[c].rcpts \subseteq Goes(c, ever[c])
    BY <2>4 DEF SendInv, Aimed
  <2> QED
    BY <2>4, <2>5, <2>6 DEF Goes
<1> QED
  BY <1>1, SendInit, SendStep, PTL DEF Spec, Audience
=============================================================================
