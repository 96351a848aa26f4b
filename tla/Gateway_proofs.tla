--------------------------- MODULE Gateway_proofs ---------------------------
(* Sessions, streams and tokens, for any clients, connections, streams,       *)
(* restarts and bounds, however requests overlap.                             *)
EXTENDS Gateway, FiniteSetTheorems, TLAPS

(* A request that is to be answered on a stream is its owner's, and a stream  *)
(* that is listed, aimed at or was answered on is not given away again.       *)
StreamsOwned ==
    /\ \A x \in Streams : streams[x].listed => streams[x].state # "unused"
    /\ \A q \in Slots :
          LET x == req[q].target IN
          x \in Streams => streams[x].state # "unused" /\ streams[x].owner = req[q].agent
    /\ \A p \in pushed : streams[p[1]].state # "unused"

Counted == spoilt <= events /\ events <= Events

IInv == TypeOK /\ Counted /\ RejectOnce /\ HintsOwed /\ StreamsOwned /\ OwnStream

-----------------------------------------------------------------------------
(* The tables at the start, and after a restart, hold nothing.                *)
LEMMA SidsOK == NoSid \notin Sids /\ \A c \in Clients : boot \in 0 .. Boots => NewSid(c) \in Sids
BY SessionsAssumption DEF Sids, NewSid

LEMMA IdleOK ==
    /\ Idle \in [path : {"none", "mcp", "messages"}, agent : Agents,
                 role : {"admin", "operator"}, hint : Sids \cup {NoSid},
                 target : Streams \cup {NoStream}]
    /\ Idle.path = "none" /\ Idle.hint = NoSid /\ Idle.target = NoStream
BY CredentialsAssumption DEF Idle

LEMMA NoneHinting ==
    ASSUME NEW s \in Sids, \A q \in Slots : req[q] = Idle
    PROVE  Cardinality(Hinting(s)) = 0
<1>1. Hinting(s) = {}
  BY SidsOK, IdleOK DEF Hinting
<1> QED
  BY <1>1, FS_EmptySet

LEMMA InitInv == Init => IInv
<1> SUFFICES ASSUME Init PROVE IInv
  OBVIOUS
<1> USE CredentialsAssumption, SessionsAssumption, GatewayAssumption DEF Init
<1>1. CredentialsType /\ SessionsType
  BY DEF InitCredentials, CredentialsType, SessionsType, Fresh, Empty
<1>2. req \in [Slots -> [path : {"none", "mcp", "messages"}, agent : Agents,
                         role : {"admin", "operator"}, hint : Sids \cup {NoSid},
                         target : Streams \cup {NoStream}]]
  BY IdleOK
<1>3. streams \in [Streams -> [owner : Agents, state : {"unused", "open", "unheard", "broken"},
                               listed : BOOLEAN, closed : BOOLEAN]]
  BY DEF Unused
<1>4. TypeOK /\ Counted
  BY <1>1, <1>2, <1>3 DEF TypeOK, Counted
<1>5. RejectOnce /\ OwnStream
  BY DEF RejectOnce, OwnStream, Fresh
<1>6. HintsOwed
  <2> SUFFICES ASSUME NEW s \in Sids
               PROVE  Cardinality(Hinting(s)) + (IF table[s] = "rejected" THEN 1 ELSE 0) <= unhinted[s]
    BY DEF HintsOwed
  <2>1. Cardinality(Hinting(s)) = 0
    BY NoneHinting
  <2>2. table[s] = "absent" /\ unhinted[s] = 0
    BY DEF Fresh, Empty
  <2> QED
    BY <2>1, <2>2
<1>7. StreamsOwned
  BY IdleOK DEF StreamsOwned, Unused
<1> QED
  BY <1>4, <1>5, <1>6, <1>7 DEF IInv

-----------------------------------------------------------------------------
(* When one connection takes on a request, or is done with one, the hints of  *)
(* an id on their way change by that request's only.                          *)
LEMMA HintingMoves ==
    ASSUME TypeOK, NEW q \in Slots, NEW r, req' = [req EXCEPT ![q] = r], NEW s \in Sids
    PROVE  /\ Cardinality(Hinting(s)) \in Nat
           /\ Cardinality(Hinting(s))' \in Nat
           /\ Cardinality(Hinting(s))' = Cardinality(Hinting(s))
                 - (IF req[q].hint = s THEN 1 ELSE 0) + (IF r.hint = s THEN 1 ELSE 0)
<1> DEFINE others == Hinting(s) \ {q}
<1>1. IsFiniteSet(Hinting(s))
  BY GatewayAssumption, FS_Subset DEF Hinting
<1>2. /\ IsFiniteSet(others)
      /\ Cardinality(others) = IF q \in Hinting(s) THEN Cardinality(Hinting(s)) - 1
                               ELSE Cardinality(Hinting(s))
  BY <1>1, FS_RemoveElement
<1>3. Cardinality(Hinting(s)) \in Nat /\ Cardinality(others) \in Nat
  BY <1>1, <1>2, FS_CardinalityType
<1>4. Hinting(s)' = IF r.hint = s THEN others \cup {q} ELSE others
  BY DEF TypeOK, Hinting
<1>5. Cardinality(others \cup {q}) = Cardinality(others) + 1
  BY <1>2, FS_AddElement
<1>6. q \in Hinting(s) <=> req[q].hint = s
  BY DEF Hinting
<1>7. Cardinality(Hinting(s)') = IF r.hint = s THEN Cardinality(others) + 1 ELSE Cardinality(others)
  BY <1>4, <1>5
<1> HIDE DEF others
<1> QED
  BY <1>2, <1>3, <1>6, <1>7

LEMMA HintingStays ==
    ASSUME TypeOK, UNCHANGED req, NEW s \in Sids
    PROVE  /\ Cardinality(Hinting(s)) \in Nat
           /\ Cardinality(Hinting(s))' = Cardinality(Hinting(s))
<1>1. IsFiniteSet(Hinting(s))
  BY GatewayAssumption, FS_Subset DEF Hinting
<1> QED
  BY <1>1, FS_CardinalityType DEF Hinting

(* An id that a request brings is one of those issued, or none.               *)
LEMMA Verdicts ==
    ASSUME TypeOK, NEW s \in Sids \cup {NoSid}
    PROVE  /\ Verdict(s) = "reject" => s \in Sids /\ table[s] = "absent"
           /\ Verdict(s) = "hint" => s \in Sids /\ table[s] = "rejected"
           /\ s \in Sids /\ table[s] # "absent" => Verdict(s) # "reject"
BY DEF Verdict, Stale, TypeOK, SessionsType

-----------------------------------------------------------------------------
(* The table of stale sessions: each step of a request that touches it.       *)
TableOK == SessionsType /\ RejectOnce /\ HintsOwed

LEMMA NotFoundTable ==
    ASSUME IInv, NEW q \in Slots, NotFound(q)
    PROVE  TableOK'
<1> DEFINE s == sid[Owner[q]]
<1> USE DEF IInv
<1>1. s \in Sids \cup {NoSid}
  BY GatewayAssumption DEF TypeOK
<1>2. /\ Verdict(s) = "reject"
      /\ table' = Noted(s)
      /\ rejected' = IF Full THEN {s} ELSE rejected \cup {s}
      /\ unhinted' = [unhinted EXCEPT ![s] = @ + 1]
      /\ boot' = boot
  BY DEF NotFound, Reject
<1>3. s \in Sids /\ table[s] = "absent"
  BY <1>1, <1>2, Verdicts
<1>4. req' = req
  BY DEF NotFound
<1> HIDE DEF s
<1>5. /\ table' \in [Sids -> {"absent", "rejected", "hinted"}]
      /\ table'[s] = "rejected"
      /\ \A u \in Sids \ {s} : table'[u] = table[u] \/ (Full /\ table'[u] = "absent")
  BY <1>2, <1>3 DEF Noted, Empty, TypeOK, SessionsType
<1>6. SessionsType'
  <2>1. SessionsType
    BY DEF TypeOK
  <2>2. unhinted' \in [Sids -> Nat]
    BY <1>2, <1>3, <2>1 DEF SessionsType
  <2>3. rejected' \subseteq Sids
    BY <1>2, <1>3, <2>1 DEF SessionsType
  <2> QED
    BY <1>2, <1>5, <2>1, <2>2, <2>3 DEF SessionsType
<1>7. RejectOnce'
  <2> SUFFICES ASSUME NEW u \in rejected' PROVE (Verdict(u) # "reject")'
    BY DEF RejectOnce
  <2>1. u = s \/ (u \in rejected /\ ~Full)
    BY <1>2
  <2>2. u \in Sids /\ (table'[u] # "absent" \/ ~Stale(u))
    BY <2>1, <1>3, <1>5 DEF RejectOnce, Verdict, TypeOK, SessionsType
  <2> QED
    BY <2>2, <1>2, <1>5 DEF Verdict, Stale
<1>8. HintsOwed'
  <2> SUFFICES ASSUME NEW u \in Sids
               PROVE  Cardinality(Hinting(u))' + (IF table'[u] = "rejected" THEN 1 ELSE 0) <= unhinted'[u]
    BY DEF HintsOwed
  <2>1. /\ Cardinality(Hinting(u)) \in Nat
        /\ Cardinality(Hinting(u))' = Cardinality(Hinting(u))
    BY <1>4, HintingStays
  <2>2. Cardinality(Hinting(u)) + (IF table[u] = "rejected" THEN 1 ELSE 0) <= unhinted[u]
    BY DEF HintsOwed
  <2>3. unhinted[u] \in Nat /\ unhinted'[u] = IF u = s THEN unhinted[u] + 1 ELSE unhinted[u]
    BY <1>2 DEF TypeOK, SessionsType
  <2> QED
    BY <2>1, <2>2, <2>3, <1>3, <1>5
<1> QED
  BY <1>6, <1>7, <1>8 DEF TableOK

(* A request is let through, with the hint or without; one that is not run    *)
(* takes the hint with it.                                                    *)
LEMMA AdmitTable ==
    ASSUME IInv, NEW q \in Slots, req[q] = Idle, Admit(sid[Owner[q]]),
           NEW r, r.hint = NoSid \/ (Verdict(sid[Owner[q]]) = "hint" /\ r.hint = sid[Owner[q]]),
           req' = [req EXCEPT ![q] = r]
    PROVE  TableOK'
<1> DEFINE s == sid[Owner[q]]
<1> USE DEF IInv
<1>1. SessionsType /\ s \in Sids \cup {NoSid}
  BY GatewayAssumption DEF TypeOK
<1>2. /\ table' = IF Verdict(s) = "hint" THEN [table EXCEPT ![s] = "hinted"] ELSE table
      /\ boot' = boot /\ rejected' = rejected /\ unhinted' = unhinted
      /\ r.hint = NoSid \/ (Verdict(s) = "hint" /\ r.hint = s)
  BY DEF Admit
<1>3. Verdict(s) = "hint" => s \in Sids /\ table[s] = "rejected"
  BY <1>1, Verdicts
<1> HIDE DEF s
<1>4. SessionsType'
  BY <1>1, <1>2, <1>3 DEF SessionsType
<1>5. RejectOnce'
  <2> SUFFICES ASSUME NEW u \in rejected PROVE (Verdict(u) # "reject")'
    BY <1>2 DEF RejectOnce
  <2>1. table[u] # "absent" \/ ~Stale(u)
    BY <1>1 DEF RejectOnce, Verdict, SessionsType
  <2>2. table'[u] # "absent" \/ ~Stale(u)
    BY <1>1, <1>2, <2>1 DEF SessionsType
  <2> QED
    BY <1>1, <1>2, <1>4, <2>2 DEF Verdict, Stale, SessionsType
<1>6. HintsOwed'
  <2> SUFFICES ASSUME NEW u \in Sids
               PROVE  Cardinality(Hinting(u))' + (IF table'[u] = "rejected" THEN 1 ELSE 0) <= unhinted'[u]
    BY DEF HintsOwed
  <2>1. req[q].hint # u
    BY SidsOK, IdleOK
  <2>2. /\ Cardinality(Hinting(u)) \in Nat
        /\ Cardinality(Hinting(u))' = Cardinality(Hinting(u)) - 0 + (IF r.hint = u THEN 1 ELSE 0)
    BY <2>1, HintingMoves
  <2>3. Cardinality(Hinting(u)) + (IF table[u] = "rejected" THEN 1 ELSE 0) <= unhinted[u]
    BY DEF HintsOwed
  <2>4. unhinted'[u] = unhinted[u] /\ unhinted[u] \in Nat
    BY <1>1, <1>2 DEF SessionsType
  <2>5. CASE Verdict(s) = "hint" /\ u = s
    BY <1>1, <1>2, <1>3, <2>2, <2>3, <2>4, <2>5 DEF SessionsType
  <2>6. CASE ~(Verdict(s) = "hint" /\ u = s)
    <3>1. table'[u] = table[u] /\ r.hint # u
      BY <1>1, <1>2, <1>3, <2>6, SidsOK DEF SessionsType
    <3> QED
      BY <2>2, <2>3, <2>4, <3>1
  <2> QED
    BY <2>5, <2>6
<1> QED
  BY <1>4, <1>5, <1>6 DEF TableOK

(* A request ends: a result carries its hint, or the hint goes back.          *)
LEMMA EndTable ==
    ASSUME IInv, NEW q \in Slots, Done(q), NEW h, h = req[q].hint,
           \/ h = NoSid /\ UNCHANGED sessions
           \/ h # NoSid /\ (Hinted(h) \/ HintBack(h))
    PROVE  TableOK'
<1> USE DEF IInv
<1>1. SessionsType /\ h \in Sids \cup {NoSid}
  BY DEF TypeOK
<1>2. req' = [req EXCEPT ![q] = Idle] /\ boot' = boot /\ rejected' = rejected
  BY DEF Done, sessions, Hinted, HintBack
<1>3. ASSUME NEW u \in Sids
      PROVE  /\ Cardinality(Hinting(u)) \in Nat /\ Cardinality(Hinting(u))' \in Nat
             /\ Cardinality(Hinting(u))' = Cardinality(Hinting(u)) - (IF h = u THEN 1 ELSE 0)
             /\ Cardinality(Hinting(u)) + (IF table[u] = "rejected" THEN 1 ELSE 0) <= unhinted[u]
             /\ unhinted[u] \in Nat
  <2>1. Idle.hint # u
    BY SidsOK, IdleOK
  <2>2. /\ Cardinality(Hinting(u)) \in Nat /\ Cardinality(Hinting(u))' \in Nat
        /\ Cardinality(Hinting(u))' = Cardinality(Hinting(u)) - (IF h = u THEN 1 ELSE 0) + 0
    BY <1>2, <2>1, HintingMoves
  <2> QED
    BY <1>1, <2>2 DEF HintsOwed, SessionsType
<1>4. CASE h = NoSid
  <2>1. table' = table /\ unhinted' = unhinted
    BY <1>4 DEF sessions
  <2>2. SessionsType' /\ RejectOnce'
    BY <1>1, <1>2, <2>1 DEF SessionsType, RejectOnce, Verdict, Stale
  <2>3. HintsOwed'
    BY <1>3, <1>4, <2>1, SidsOK DEF HintsOwed
  <2> QED
    BY <2>2, <2>3 DEF TableOK
<1>5. CASE h # NoSid /\ Hinted(h)
  <2>1. table' = table /\ unhinted' = [unhinted EXCEPT ![h] = @ - 1]
    BY <1>5 DEF Hinted
  <2>2. h \in Sids
    BY <1>1, <1>5
  <2>3. unhinted[h] - 1 \in Nat
    BY <1>3, <2>2
  <2>4. unhinted' \in [Sids -> Nat]
        /\ \A u \in Sids : unhinted'[u] = IF u = h THEN unhinted[u] - 1 ELSE unhinted[u]
    BY <1>1, <2>1, <2>2, <2>3 DEF SessionsType
  <2>5. SessionsType' /\ RejectOnce'
    BY <1>1, <1>2, <2>1, <2>4 DEF SessionsType, RejectOnce, Verdict, Stale
  <2>6. HintsOwed'
    BY <1>3, <2>1, <2>4 DEF HintsOwed
  <2> QED
    BY <2>5, <2>6 DEF TableOK
<1>6. CASE h # NoSid /\ HintBack(h)
  <2>1. table' = [table EXCEPT ![h] = "rejected"] /\ unhinted' = unhinted /\ h \in Sids
    BY <1>1, <1>6 DEF HintBack
  <2>2. \A u \in Sids : table'[u] = IF u = h THEN "rejected" ELSE table[u]
    BY <1>1, <2>1 DEF SessionsType
  <2>3. SessionsType'
    BY <1>1, <1>2, <2>1 DEF SessionsType
  <2>4. RejectOnce'
    <3> SUFFICES ASSUME NEW u \in rejected PROVE (Verdict(u) # "reject")'
      BY <1>2 DEF RejectOnce
    <3>1. table[u] # "absent" \/ ~Stale(u)
      BY <1>1 DEF RejectOnce, Verdict, SessionsType
    <3>2. table'[u] # "absent" \/ ~Stale(u)
      BY <1>1, <2>2, <3>1 DEF SessionsType
    <3> QED
      BY <1>1, <1>2, <2>3, <3>2 DEF Verdict, Stale, SessionsType
  <2>5. HintsOwed'
    BY <1>3, <2>1, <2>2 DEF HintsOwed
  <2> QED
    BY <2>3, <2>4, <2>5 DEF TableOK
<1> QED
  BY <1>4, <1>5, <1>6

-----------------------------------------------------------------------------
(* Tokens: what a step can do to them, ...                                    *)
LEMMA CredsMoves ==
    ASSUME [Next]_vars
    PROVE  \/ UNCHANGED creds
           \/ \E a \in Agents : \/ Revoke(a)
                               \/ \E role \in {"admin", "operator"} : Issue(a, role)
<1>1. ASSUME NEW q \in Slots, Effect(q)
      PROVE  \/ UNCHANGED creds
             \/ \E a \in Agents : Revoke(a) \/ Issue(a, "operator")
  BY <1>1 DEF Effect, Administer
<1>2. ASSUME NEW q \in Slots, Send(q) \/ Discard(q) \/ Post(q) PROVE UNCHANGED creds
  BY <1>2 DEF Send, NotFound, Initialize, Start, Discard, Post
<1>3. ASSUME NEW q \in Slots, Result(q) \/ NoResult(q) \/ Reply(q) PROVE Effect(q)
  BY <1>3 DEF Result, NoResult, Reply
<1>4. ASSUME NEW x \in Streams, Hangup(x) \/ Ping(x) \/ \E c \in Clients : Listen(x, c)
      PROVE  UNCHANGED creds
  BY <1>4 DEF Hangup, Ping, Listen
<1>5. CommandLine => \E a \in Agents, role \in {"admin", "operator"} : Issue(a, role)
  BY DEF CommandLine, Cli
<1>6. Restart \/ UNCHANGED vars => UNCHANGED creds
  BY DEF Restart, vars
<1> QED
  BY <1>1, <1>2, <1>3, <1>4, <1>5, <1>6 DEF Next

(* ... and that none of it brings a dead token back.                          *)
LEMMA CredsStep ==
    ASSUME CredentialsType, [Next]_vars
    PROVE  /\ CredentialsType'
           /\ \A a \in Agents : \A n \in 1 .. creds[a].token : ~Works(a, n) => ~Works(a, n)'
<1> USE CredentialsAssumption
<1>1. CASE UNCHANGED creds
  BY <1>1 DEF CredentialsType, Works
<1>2. ASSUME NEW b \in Agents, Revoke(b)
      PROVE  /\ CredentialsType'
             /\ \A a \in Agents : \A n \in 1 .. creds[a].token : ~Works(a, n) => ~Works(a, n)'
  BY <1>2 DEF Revoke, CredentialsType, Works
<1>3. ASSUME NEW b \in Agents, NEW role \in {"admin", "operator"}, Issue(b, role)
      PROVE  /\ CredentialsType'
             /\ \A a \in Agents : \A n \in 1 .. creds[a].token : ~Works(a, n) => ~Works(a, n)'
  <2>1. creds' = [creds EXCEPT ![b] = [token |-> creds[b].token + 1, role |-> role, status |-> "ACTIVE"]]
    BY <1>3 DEF Issue
  <2>2. creds[b].token + 1 \in 1 .. MaxTokens
    BY <1>3 DEF Issue, CredentialsType
  <2>3. CredentialsType'
    BY <2>1, <2>2 DEF CredentialsType
  <2>4. ASSUME NEW a \in Agents, NEW n \in 1 .. creds[a].token, ~Works(a, n) PROVE ~Works(a, n)'
    BY <2>1, <2>4 DEF CredentialsType, Works
  <2> QED
    BY <2>3, <2>4
<1> QED
  BY <1>1, <1>2, <1>3, CredsMoves

(* Faults are counted.                                                        *)
LEMMA CountedStep ==
    ASSUME Counted, {spoilt, events} \subseteq 0 .. Events, [Next]_vars
    PROVE  Counted' /\ {spoilt', events'} \subseteq 0 .. Events
<1>1. \/ UNCHANGED <<spoilt, events>>
      \/ Event /\ spoilt' \in {spoilt, spoilt + 1}
  <2>1. ASSUME NEW q \in Slots, Send(q)
        PROVE  Calm \/ Spoil
    BY <2>1 DEF Send, NotFound, Initialize, Start
  <2>2. ASSUME NEW q \in Slots, Discard(q) \/ Result(q) \/ NoResult(q) \/ Post(q) \/ Reply(q)
        PROVE  Calm \/ Spoil
    BY <2>2 DEF Discard, Result, NoResult, Post, Reply
  <2>3. ASSUME NEW x \in Streams, Hangup(x) \/ Ping(x) \/ \E c \in Clients : Listen(x, c)
        PROVE  spoilt' = spoilt /\ (events' = events \/ Event)
    BY <2>3 DEF Hangup, Ping, Listen
  <2>4. Restart \/ CommandLine => spoilt' = spoilt /\ Event
    BY DEF Restart, CommandLine
  <2>5. UNCHANGED vars => spoilt' = spoilt /\ events' = events
    BY DEF vars
  <2> QED
    BY <2>1, <2>2, <2>3, <2>4, <2>5 DEF Next, Calm, Spoil
<1> QED
  BY <1>1, GatewayAssumption DEF Event, Counted

-----------------------------------------------------------------------------
(* Requests and streams.                                                      *)
Requests == [path : {"none", "mcp", "messages"}, agent : Agents,
             role : {"admin", "operator"}, hint : Sids \cup {NoSid},
             target : Streams \cup {NoStream}]
StreamRecords == [owner : Agents, state : {"unused", "open", "unheard", "broken"},
                  listed : BOOLEAN, closed : BOOLEAN]

(* What a request may be answered on.                                         *)
Lawful(r) ==
    r.target \in Streams => streams[r.target].state # "unused" /\ streams[r.target].owner = r.agent

StreamsOK ==
    /\ req \in [Slots -> Requests] /\ streams \in [Streams -> StreamRecords]
    /\ pushed \subseteq Streams \X Agents
    /\ StreamsOwned /\ OwnStream

LEMMA RequestOK ==
    ASSUME CredentialsType, NEW q \in Slots
    PROVE  /\ Request(q) \in Requests /\ Request(q).agent = Owner[q]
           /\ \A h \in Sids \cup {NoSid} :
                 LET r == [Request(q) EXCEPT !.path = "mcp", !.hint = h]
                 IN  r \in Requests /\ r.hint = h /\ r.target = NoStream
           /\ \A x \in Streams \cup {NoStream} :
                 LET r == [Request(q) EXCEPT !.path = "messages", !.target = x]
                 IN  r \in Requests /\ r.target = x /\ r.agent = Owner[q] /\ r.hint = NoSid
BY GatewayAssumption, CredentialsAssumption DEF CredentialsType, Request, Requests, Idle

(* A connection takes on a lawful request, or is done with one.               *)
LEMMA RequestStreams ==
    ASSUME StreamsOK, NEW q \in Slots, NEW r \in Requests, Lawful(r),
           req' = [req EXCEPT ![q] = r], UNCHANGED <<streams, pushed>>
    PROVE  StreamsOK'
<1>1. ASSUME NEW d \in Slots
      PROVE  (LET x == req[d].target IN
                 x \in Streams => streams[x].state # "unused" /\ streams[x].owner = req[d].agent)'
  BY DEF StreamsOK, StreamsOwned, Lawful
<1> QED
  BY <1>1 DEF StreamsOK, StreamsOwned, OwnStream

LEMMA IdleLawful == Idle \in Requests /\ Lawful(Idle)
BY IdleOK, GatewayAssumption DEF Lawful, Requests

(* A stream changes, but not its owner once it has one.                       *)
LEMMA StreamMoves ==
    ASSUME StreamsOK, NEW x \in Streams, NEW new \in StreamRecords,
           streams' = [streams EXCEPT ![x] = new], UNCHANGED <<req, pushed>>,
           new.state # "unused",
           streams[x].state # "unused" => new.owner = streams[x].owner
    PROVE  StreamsOK'
<1>1. streams' \in [Streams -> StreamRecords]
  BY DEF StreamsOK
<1>2. \A y \in Streams : streams[y].state # "unused" =>
          streams'[y].state # "unused" /\ streams'[y].owner = streams[y].owner
  BY DEF StreamsOK
<1>3. \A y \in Streams : streams'[y].listed => streams'[y].state # "unused"
  BY DEF StreamsOK, StreamsOwned
<1>4. StreamsOwned'
  BY <1>2, <1>3 DEF StreamsOK, StreamsOwned
<1>5. OwnStream'
  BY <1>2 DEF StreamsOK, StreamsOwned, OwnStream
<1> QED
  BY <1>1, <1>4, <1>5 DEF StreamsOK

LEMMA ReplyStreams ==
    ASSUME StreamsOK, NEW q \in Slots, Reply(q)
    PROVE  StreamsOK'
<1> DEFINE x == req[q].target
<1>1. req' = [req EXCEPT ![q] = Idle]
  BY DEF Reply, Done
<1>2. CASE UNCHANGED <<streams, pushed>>
  BY <1>1, <1>2, IdleLawful, RequestStreams
<1>3. CASE x # NoStream /\ pushed' = pushed \cup {<<x, req[q].agent>>} /\ UNCHANGED streams
  <2>1. x \in Streams /\ req[q].agent \in Agents
    BY <1>3 DEF StreamsOK, Requests
  <2>2. streams[x].state # "unused" /\ streams[x].owner = req[q].agent
    BY <2>1 DEF StreamsOK, StreamsOwned
  <2>3. ASSUME NEW p \in pushed' PROVE streams[p[1]].state # "unused" /\ streams[p[1]].owner = p[2]
    BY <1>3, <2>2 DEF StreamsOK, StreamsOwned, OwnStream
  <2>4. pushed' \subseteq Streams \X Agents
    BY <1>3, <2>1 DEF StreamsOK
  <2>5. ASSUME NEW d \in Slots
        PROVE  (LET y == req[d].target IN
                   y \in Streams => streams[y].state # "unused" /\ streams[y].owner = req[d].agent)'
    BY <1>1, <1>3, IdleLawful DEF StreamsOK, StreamsOwned, Lawful
  <2>6. StreamsOwned' /\ OwnStream'
    BY <1>3, <2>3, <2>5 DEF StreamsOK, StreamsOwned, OwnStream
  <2> QED
    BY <1>1, <1>3, <2>4, <2>6, IdleLawful DEF StreamsOK
<1>4. CASE x # NoStream /\ streams' = [streams EXCEPT ![x].closed = TRUE] /\ UNCHANGED pushed
  <2>1. x \in Streams
    BY <1>4 DEF StreamsOK, Requests
  <2> DEFINE new == [streams[x] EXCEPT !.closed = TRUE]
  <2>2. /\ new \in StreamRecords /\ streams' = [streams EXCEPT ![x] = new]
        /\ new.owner = streams[x].owner /\ new.state = streams[x].state /\ new.listed = streams[x].listed
    BY <1>4, <2>1 DEF StreamsOK, StreamRecords
  <2> HIDE DEF new
  <2>3. \A y \in Streams : /\ streams'[y].owner = streams[y].owner
                           /\ streams'[y].state = streams[y].state
                           /\ streams'[y].listed = streams[y].listed
    BY <2>1, <2>2 DEF StreamsOK
  <2>4. ASSUME NEW d \in Slots
        PROVE  (LET y == req[d].target IN
                   y \in Streams => streams[y].state # "unused" /\ streams[y].owner = req[d].agent)'
    BY <1>1, <2>3, IdleLawful DEF StreamsOK, StreamsOwned, Lawful
  <2>5. StreamsOwned' /\ OwnStream'
    BY <1>4, <2>3, <2>4 DEF StreamsOK, StreamsOwned, OwnStream
  <2> QED
    BY <1>1, <1>4, <2>1, <2>2, <2>5, IdleLawful DEF StreamsOK
<1> QED
  BY <1>2, <1>3, <1>4 DEF Reply

LEMMA ListenStreams ==
    ASSUME StreamsOK, NEW x \in Streams, NEW c \in Clients, Listen(x, c)
    PROVE  StreamsOK'
<1> PICK s \in {"open", "unheard"} :
       streams' = [streams EXCEPT ![x] = [@ EXCEPT !.owner = c, !.state = s, !.listed = TRUE]]
  BY DEF Listen
<1> DEFINE new == [streams[x] EXCEPT !.owner = c, !.state = s, !.listed = TRUE]
<1>1. new \in StreamRecords /\ new.state = s
  BY GatewayAssumption DEF StreamsOK, StreamRecords
<1>2. streams[x].state = "unused"
  BY DEF Listen, Unused
<1>3. streams' = [streams EXCEPT ![x] = new] /\ UNCHANGED <<req, pushed>>
  BY DEF Listen
<1> HIDE DEF new
<1> QED
  BY <1>1, <1>2, <1>3, StreamMoves

LEMMA StreamsStep ==
    ASSUME IInv, [Next]_vars
    PROVE  StreamsOK'
<1> USE GatewayAssumption
<1>1. StreamsOK /\ CredentialsType
  BY DEF IInv, TypeOK, StreamsOK, Requests, StreamRecords
<1>2. CASE UNCHANGED <<req, streams, pushed>>
  BY <1>1, <1>2 DEF StreamsOK, StreamsOwned, OwnStream
<1>3. ASSUME NEW q \in Slots, NotFound(q) \/ Initialize(q) \/ Discard(q) PROVE StreamsOK'
  BY <1>2, <1>3 DEF NotFound, Initialize, Discard
<1>4. ASSUME NEW q \in Slots, Start(q) PROVE StreamsOK'
  <2> DEFINE h == IF Verdict(sid[Owner[q]]) = "hint" THEN sid[Owner[q]] ELSE NoSid
             r == [Request(q) EXCEPT !.path = "mcp", !.hint = h]
  <2>1. h \in Sids \cup {NoSid}
    BY DEF IInv, TypeOK
  <2>2. req' = [req EXCEPT ![q] = r] /\ UNCHANGED <<streams, pushed>>
    BY <1>4 DEF Start
  <2> HIDE DEF h
  <2>3. r \in Requests /\ Lawful(r)
    BY <1>1, <2>1, RequestOK DEF Lawful
  <2> QED
    BY <1>1, <2>2, <2>3, RequestStreams
<1>5. ASSUME NEW q \in Slots, Post(q) PROVE StreamsOK'
  <2>1. PICK x \in Streams \cup {NoStream} :
            req' = [req EXCEPT ![q] = [Request(q) EXCEPT !.path = "messages", !.target = Target(x, Owner[q])]]
    BY <1>5 DEF Post
  <2> DEFINE y == Target(x, Owner[q])
             r == [Request(q) EXCEPT !.path = "messages", !.target = y]
  <2>2. y \in Streams \cup {NoStream} /\ (y \in Streams => streams[y].listed /\ streams[y].owner = Owner[q])
    BY DEF Target
  <2>3. UNCHANGED <<streams, pushed>>
    BY <1>5 DEF Post
  <2> HIDE DEF y
  <2>4. r \in Requests /\ r.target = y /\ r.agent = Owner[q]
    BY <1>1, <2>2, RequestOK
  <2>5. Lawful(r)
    BY <1>1, <2>2, <2>4 DEF Lawful, StreamsOK, StreamsOwned
  <2> QED
    BY <1>1, <2>1, <2>3, <2>4, <2>5, RequestStreams DEF y
<1>6. ASSUME NEW q \in Slots, Result(q) \/ NoResult(q) PROVE StreamsOK'
  BY <1>1, <1>6, IdleLawful, RequestStreams DEF Result, NoResult, Done
<1>7. ASSUME NEW q \in Slots, Reply(q) PROVE StreamsOK'
  BY <1>1, <1>7, ReplyStreams
<1>8. ASSUME NEW x \in Streams, NEW c \in Clients, Listen(x, c) PROVE StreamsOK'
  BY <1>1, <1>8, ListenStreams
<1>9. ASSUME NEW x \in Streams, Hangup(x) PROVE StreamsOK'
  <2> DEFINE new == [streams[x] EXCEPT !.state = "broken"]
  <2>1. new \in StreamRecords /\ new.state # "unused" /\ new.owner = streams[x].owner
    BY <1>1 DEF StreamsOK, StreamRecords
  <2>2. streams' = [streams EXCEPT ![x] = new] /\ UNCHANGED <<req, pushed>>
    BY <1>9 DEF Hangup
  <2> HIDE DEF new
  <2> QED
    BY <1>1, <2>1, <2>2, StreamMoves
<1>10. ASSUME NEW x \in Streams, Ping(x) PROVE StreamsOK'
  <2> DEFINE new == [streams[x] EXCEPT !.listed = FALSE]
  <2>1. new \in StreamRecords /\ new.state = streams[x].state /\ new.owner = streams[x].owner
    BY <1>1 DEF StreamsOK, StreamRecords
  <2>2. streams' = [streams EXCEPT ![x] = new] /\ UNCHANGED <<req, pushed>> /\ streams[x].state = "broken"
    BY <1>10 DEF Ping
  <2> HIDE DEF new
  <2> QED
    BY <1>1, <2>1, <2>2, StreamMoves
<1>11. CASE Restart
  <2>1. /\ \A d \in Slots : req'[d] = Idle
        /\ req' \in [Slots -> Requests]
        /\ pushed' = pushed
    BY <1>11, IdleLawful DEF Restart
  <2>2. /\ streams' \in [Streams -> StreamRecords]
        /\ \A x \in Streams : /\ streams'[x].owner = streams[x].owner
                              /\ streams'[x].listed = FALSE
                              /\ streams[x].state # "unused" => streams'[x].state # "unused"
    BY <1>1, <1>11 DEF Restart, StreamsOK, StreamRecords
  <2>3. \A d \in Slots : req'[d].target \notin Streams
    BY <2>1, IdleOK
  <2>4. StreamsOwned' /\ OwnStream'
    BY <1>1, <2>1, <2>2, <2>3 DEF StreamsOK, StreamsOwned, OwnStream
  <2> QED
    BY <1>1, <2>1, <2>2, <2>4 DEF StreamsOK
<1>12. CASE CommandLine
  BY <1>2, <1>12 DEF CommandLine
<1>13. CASE UNCHANGED vars
  BY <1>2, <1>13 DEF vars
<1> QED
  BY <1>3, <1>4, <1>5, <1>6, <1>7, <1>8, <1>9, <1>10, <1>11, <1>12, <1>13 DEF Next, Send

-----------------------------------------------------------------------------
(* The table, and what clients know.                                          *)
LEMMA TableStep ==
    ASSUME IInv, [Next]_vars
    PROVE  TableOK'
<1>1. TableOK
  BY DEF IInv, TypeOK, TableOK
<1>2. CASE UNCHANGED <<sessions, req>>
  <2>1. \A s \in Sids : Cardinality(Hinting(s))' = Cardinality(Hinting(s))
    BY <1>2, HintingStays DEF IInv
  <2> QED
    BY <1>1, <1>2, <2>1 DEF sessions, TableOK, SessionsType, RejectOnce, HintsOwed, Verdict, Stale
<1>3. ASSUME NEW q \in Slots, NotFound(q) PROVE TableOK'
  BY <1>3, NotFoundTable
<1>4. ASSUME NEW q \in Slots, Initialize(q) PROVE TableOK'
  BY <1>2, <1>4 DEF Initialize
<1>5. ASSUME NEW q \in Slots, Discard(q) PROVE TableOK'
  <2>1. req[q] = Idle /\ req' = [req EXCEPT ![q] = Idle]
    BY <1>5 DEF Discard, McpComes, Comes, IInv, TypeOK
  <2>2. Admit(sid[Owner[q]])
    BY <1>5 DEF Discard
  <2>3. Idle.hint = NoSid
    BY IdleOK
  <2> QED
    BY <2>1, <2>2, <2>3, AdmitTable
<1>6. ASSUME NEW q \in Slots, Start(q) PROVE TableOK'
  <2> DEFINE h == IF Verdict(sid[Owner[q]]) = "hint" THEN sid[Owner[q]] ELSE NoSid
             r == [Request(q) EXCEPT !.path = "mcp", !.hint = h]
  <2>1. h \in Sids \cup {NoSid}
    BY GatewayAssumption DEF IInv, TypeOK
  <2>2. r.hint = h
    <3> HIDE DEF h
    <3> QED
      BY <2>1, RequestOK DEF IInv, TypeOK
  <2>3. req[q] = Idle /\ req' = [req EXCEPT ![q] = r] /\ Admit(sid[Owner[q]])
    BY <1>6 DEF Start, McpComes, Comes
  <2>4. r.hint = NoSid \/ (Verdict(sid[Owner[q]]) = "hint" /\ r.hint = sid[Owner[q]])
    BY <2>2
  <2> HIDE DEF r
  <2> QED
    BY <2>3, <2>4, AdmitTable
<1>7. ASSUME NEW q \in Slots, Post(q) PROVE TableOK'
  <2>1. PICK x \in Streams \cup {NoStream} :
            req' = [req EXCEPT ![q] = [Request(q) EXCEPT !.path = "messages", !.target = Target(x, Owner[q])]]
    BY <1>7 DEF Post
  <2> DEFINE r == [Request(q) EXCEPT !.path = "messages", !.target = Target(x, Owner[q])]
  <2>2. r.hint = NoSid
    BY DEF Request, Idle
  <2>3. req[q].hint = NoSid
    BY <1>7, IdleOK DEF Post, Comes
  <2> HIDE DEF r
  <2>4. \A s \in Sids : Cardinality(Hinting(s))' = Cardinality(Hinting(s))
    <3> SUFFICES ASSUME NEW s \in Sids PROVE Cardinality(Hinting(s))' = Cardinality(Hinting(s))
      OBVIOUS
    <3>1. /\ Cardinality(Hinting(s)) \in Nat
          /\ Cardinality(Hinting(s))' = Cardinality(Hinting(s)) - (IF req[q].hint = s THEN 1 ELSE 0)
                                         + (IF r.hint = s THEN 1 ELSE 0)
      BY <2>1, HintingMoves DEF r, IInv
    <3> QED
      BY <2>2, <2>3, <3>1, SidsOK
  <2> QED
    BY <1>1, <1>7, <2>4 DEF Post, sessions, TableOK, SessionsType, RejectOnce, HintsOwed, Verdict, Stale
<1>8. ASSUME NEW q \in Slots, Result(q) PROVE TableOK'
  BY <1>8, EndTable DEF Result
<1>9. ASSUME NEW q \in Slots, NoResult(q) PROVE TableOK'
  BY <1>9, EndTable DEF NoResult
<1>10. ASSUME NEW q \in Slots, Reply(q) PROVE TableOK'
  <2>1. Done(q) /\ UNCHANGED sessions
    BY <1>10 DEF Reply
  <2>2. SessionsType' /\ RejectOnce'
    BY <1>1, <2>1 DEF sessions, TableOK, SessionsType, RejectOnce, Verdict, Stale
  <2>3. HintsOwed'
    <3> SUFFICES ASSUME NEW s \in Sids
                 PROVE  Cardinality(Hinting(s))' + (IF table'[s] = "rejected" THEN 1 ELSE 0) <= unhinted'[s]
      BY DEF HintsOwed
    <3>1. /\ Cardinality(Hinting(s)) \in Nat /\ Cardinality(Hinting(s))' \in Nat
          /\ Cardinality(Hinting(s))' = Cardinality(Hinting(s)) - (IF req[q].hint = s THEN 1 ELSE 0)
                                         + (IF Idle.hint = s THEN 1 ELSE 0)
      BY <2>1, HintingMoves DEF Done, IInv
    <3>2. Idle.hint # s
      BY SidsOK, IdleOK
    <3>3. Cardinality(Hinting(s)) + (IF table[s] = "rejected" THEN 1 ELSE 0) <= unhinted[s]
          /\ unhinted[s] \in Nat
      BY <1>1 DEF TableOK, HintsOwed, SessionsType
    <3> QED
      BY <2>1, <3>1, <3>2, <3>3 DEF sessions
  <2> QED
    BY <2>2, <2>3 DEF TableOK
<1>11. ASSUME NEW x \in Streams, Hangup(x) \/ Ping(x) \/ \E c \in Clients : Listen(x, c)
       PROVE  TableOK'
  BY <1>2, <1>11 DEF Hangup, Ping, Listen
<1>12. CASE Restart
  <2>1. /\ boot' \in 0 .. Boots /\ table' = Empty /\ rejected' = {}
        /\ unhinted' = [s \in Sids |-> 0]
    <3>1. boot \in 0 .. Boots /\ Boots \in Nat
      BY <1>1, SessionsAssumption DEF TableOK, SessionsType
    <3>2. Reboot
      BY <1>12 DEF Restart
    <3> QED
      BY <3>1, <3>2 DEF Reboot
  <2>2. SessionsType' /\ RejectOnce'
    BY <2>1 DEF SessionsType, RejectOnce, Empty
  <2>3. ASSUME NEW s \in Sids PROVE Cardinality(Hinting(s))' = 0
    <3>1. Hinting(s)' = {}
      BY <1>12, SidsOK, IdleOK DEF Restart, Hinting
    <3> QED
      BY <3>1, FS_EmptySet
  <2>4. HintsOwed'
    BY <2>1, <2>3 DEF HintsOwed, Empty
  <2> QED
    BY <2>2, <2>4 DEF TableOK
<1>13. CASE CommandLine
  BY <1>2, <1>13 DEF CommandLine
<1>14. CASE UNCHANGED vars
  BY <1>2, <1>14 DEF vars
<1> QED
  BY <1>3, <1>4, <1>5, <1>6, <1>7, <1>8, <1>9, <1>10, <1>11, <1>12, <1>13, <1>14 DEF Next, Send

(* What clients know: their ids are ids that were issued.                     *)
LEMMA ClientsStep ==
    ASSUME TypeOK, [Next]_vars
    PROVE  /\ transport' = transport
           /\ sid' \in [Clients -> Sids \cup {NoSid}]
           /\ aware' \subseteq Clients
<1> USE GatewayAssumption
<1>1. /\ transport \in [Clients -> {"mcp", "stubborn", "sse"}]
      /\ sid \in [Clients -> Sids \cup {NoSid}] /\ aware \subseteq Clients
      /\ boot \in 0 .. Boots
  BY DEF TypeOK, SessionsType
<1>2. CASE UNCHANGED clients
  BY <1>1, <1>2 DEF clients
<1>3. ASSUME NEW q \in Slots, NotFound(q)
      PROVE  transport' = transport /\ sid' \in [Clients -> Sids \cup {NoSid}] /\ aware' \subseteq Clients
  BY <1>1, <1>3 DEF NotFound
<1>4. ASSUME NEW q \in Slots, Initialize(q)
      PROVE  transport' = transport /\ sid' \in [Clients -> Sids \cup {NoSid}] /\ aware' \subseteq Clients
  BY <1>1, <1>4, SidsOK DEF Initialize
<1>5. ASSUME NEW q \in Slots, Result(q)
      PROVE  transport' = transport /\ sid' \in [Clients -> Sids \cup {NoSid}] /\ aware' \subseteq Clients
  BY <1>1, <1>5 DEF Result
<1>6. ASSUME NEW q \in Slots, Discard(q) \/ Start(q) \/ NoResult(q) \/ Post(q) \/ Reply(q)
      PROVE  UNCHANGED clients
  BY <1>6 DEF Discard, Start, NoResult, Post, Reply
<1>7. ASSUME NEW x \in Streams, Hangup(x) \/ Ping(x) \/ \E c \in Clients : Listen(x, c)
      PROVE  UNCHANGED clients
  BY <1>7 DEF Hangup, Ping, Listen
<1>8. CASE Restart
  BY <1>1, <1>8 DEF Restart
<1>9. CommandLine \/ UNCHANGED vars => UNCHANGED clients
  BY DEF CommandLine, vars
<1> QED
  BY <1>2, <1>3, <1>4, <1>5, <1>6, <1>7, <1>8, <1>9 DEF Next, Send

-----------------------------------------------------------------------------
LEMMA StepInv == IInv /\ [Next]_vars => IInv'
<1> SUFFICES ASSUME IInv, [Next]_vars PROVE IInv'
  OBVIOUS
<1>1. CredentialsType'
  BY CredsStep DEF IInv, TypeOK
<1>2. SessionsType' /\ RejectOnce' /\ HintsOwed'
  BY TableStep DEF TableOK
<1>3. StreamsOK'
  BY StreamsStep
<1>4. Counted' /\ {spoilt', events'} \subseteq 0 .. Events
  BY CountedStep DEF IInv, TypeOK
<1>5. /\ transport' \in [Clients -> {"mcp", "stubborn", "sse"}]
      /\ sid' \in [Clients -> Sids \cup {NoSid}]
      /\ aware' \subseteq Clients
  BY ClientsStep DEF IInv, TypeOK
<1>6. TypeOK'
  BY <1>1, <1>2, <1>3, <1>4, <1>5 DEF TypeOK, StreamsOK, Requests, StreamRecords
<1> QED
  BY <1>2, <1>3, <1>4, <1>6 DEF IInv, StreamsOK

THEOREM Invariance == Spec => []IInv
  BY InitInv, StepInv, PTL DEF Spec

(* An old session id is answered 404 once, however its requests overlap and   *)
(* whatever becomes of the hint, until a full table is emptied.               *)
THEOREM RejectedOnce == Spec => []RejectOnce
<1>1. IInv => RejectOnce
  BY DEF IInv
<1> QED
  BY <1>1, Invariance, PTL

(* A hint is never shown, nor on its way, that no 404 called for: not with    *)
(* any number of requests of one id, restarts, and times the table is emptied.*)
THEOREM NoHintTwice == Spec => []HintsOwed
<1>1. IInv => HintsOwed
  BY DEF IInv
<1> QED
  BY <1>1, Invariance, PTL

(* No answer is pushed into another agent's stream, though the stream may     *)
(* have been taken off the list, or its caller revoked, since the request.    *)
THEOREM StreamsPrivate == Spec => []OwnStream
<1>1. IInv => OwnStream
  BY DEF IInv
<1> QED
  BY <1>1, Invariance, PTL

(* A token that was replaced or revoked never works again, whatever the root  *)
(* admin's requests in flight and the command line do.                        *)
THEOREM DeadTokens == Spec => TokensDie
<1>1. IInv /\ [Next]_vars =>
        [\A a \in Agents : \A n \in 1 .. creds[a].token : ~Works(a, n) => ~Works(a, n)']_creds
  BY CredsStep DEF IInv, TypeOK
<1> QED
  BY <1>1, Invariance, PTL DEF Spec, TokensDie
=============================================================================
