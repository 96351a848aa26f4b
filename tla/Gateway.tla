------------------------------ MODULE Gateway -------------------------------
(* Requests as they come in (handle_client, src/sag/server.py): the token is  *)
(* checked, /mcp goes by the table of stale sessions, /messages answers on    *)
(* its own connection or on the caller's /sse stream.                         *)
EXTENDS Credentials, Sessions

CONSTANTS
    Slots, Owner,   \* connections, and whose client makes each
    Streams,        \* ids of /sse streams, each used once
    NoStream,
    Events          \* bound on the faults and on what the command line does

ASSUME GatewayAssumption ==
    /\ Clients = Agents /\ Owner \in [Slots -> Agents] /\ IsFiniteSet(Slots)
    /\ NoStream \notin Streams /\ Events \in Nat

VARIABLES
    transport,  \* what a client speaks: mcp, and initializes again after a 404;
                \* stubborn, which does not; or sse
    sid,        \* its Mcp-Session-Id
    aware,      \* clients that no restart is news to
    req,        \* the request a connection is busy with
    streams,    \* SSESession objects; the listed ones are in _SESSIONS
    pushed,     \* history: streams and callers of the answers pushed
    spoilt,     \* history: answers lost, and malformed requests
    events

clients == <<transport, sid, aware>>
vars == <<creds, sessions, clients, req, streams, pushed, spoilt, events>>

Idle == [path |-> "none", agent |-> Root, role |-> "operator", hint |-> NoSid, target |-> NoStream]
Unused == [owner |-> Root, state |-> "unused", listed |-> FALSE, closed |-> FALSE]

Init ==
    /\ InitCredentials
    /\ boot = 0 /\ Fresh
    /\ transport \in [Clients -> {"mcp", "stubborn", "sse"}]
    /\ sid = [c \in Clients |-> NoSid]
    /\ aware = Clients
    /\ req = [q \in Slots |-> Idle]
    /\ streams = [x \in Streams |-> Unused]
    /\ pushed = {}
    /\ spoilt = 0 /\ events = 0

Event == events < Events /\ events' = events + 1
Calm == UNCHANGED <<spoilt, events>>
Spoil == Event /\ spoilt' = spoilt + 1

(* A request with the client's token is let in with the role it has now.      *)
Comes(q) == req[q] = Idle /\ Works(Owner[q], creds[Owner[q]].token)
Request(q) == [Idle EXCEPT !.agent = Owner[q], !.role = creds[Owner[q]].role]

-----------------------------------------------------------------------------
(* POST /mcp: from the check of the session to the first await.               *)
McpComes(q) == Comes(q) /\ transport[Owner[q]] # "sse"

NotFound(q) ==
    /\ McpComes(q)
    /\ Reject(sid[Owner[q]])
    /\ \/ /\ Calm
          /\ aware' = aware \cup {Owner[q]}
          /\ sid' = [sid EXCEPT ![Owner[q]] = IF transport[Owner[q]] = "mcp" THEN NoSid ELSE @]
       \/ Spoil /\ UNCHANGED <<aware, sid>>
    /\ UNCHANGED <<creds, transport, req, streams, pushed>>

(* 400 to what is no JSON-RPC, or the client is gone before its call is run:  *)
(* a hint it took is not given back.                                          *)
Discard(q) ==
    /\ McpComes(q)
    /\ Admit(sid[Owner[q]])
    /\ Spoil
    /\ UNCHANGED <<creds, clients, req, streams, pushed>>

Initialize(q) ==
    /\ McpComes(q) /\ sid[Owner[q]] = NoSid
    /\ sid' = [sid EXCEPT ![Owner[q]] = NewSid(Owner[q])]
    /\ aware' = aware \cup {Owner[q]}
    /\ Calm
    /\ UNCHANGED <<creds, sessions, transport, req, streams, pushed>>

Start(q) ==
    /\ McpComes(q)
    /\ Admit(sid[Owner[q]])
    /\ LET s == sid[Owner[q]] IN
       req' = [req EXCEPT ![q] = [Request(q) EXCEPT !.path = "mcp",
                   !.hint = IF Verdict(s) = "hint" THEN s ELSE NoSid]]
    /\ Calm
    /\ UNCHANGED <<creds, clients, streams, pushed>>

-----------------------------------------------------------------------------
(* What was asked for: an administrative tool, or anything else.              *)
Effect(q) == UNCHANGED creds \/ Administer(req[q].agent, req[q].role)
Done(q) == req' = [req EXCEPT ![q] = Idle]

(* The end of run_all, and its answer: the result of a tool ...               *)
Result(q) ==
    /\ req[q].path = "mcp"
    /\ Effect(q)
    /\ IF req[q].hint = NoSid THEN UNCHANGED sessions ELSE Hinted(req[q].hint)
    /\ \/ Calm /\ aware' = IF req[q].hint = NoSid THEN aware ELSE aware \cup {Owner[q]}
       \/ Spoil /\ UNCHANGED aware
    /\ Done(q)
    /\ UNCHANGED <<transport, sid, streams, pushed>>

(* ... or something a hint cannot be on: an error, a list of tools, a pong.   *)
NoResult(q) ==
    /\ req[q].path = "mcp"
    /\ Effect(q)
    /\ IF req[q].hint = NoSid THEN UNCHANGED sessions ELSE HintBack(req[q].hint)
    /\ Done(q)
    /\ Calm
    /\ UNCHANGED <<clients, streams, pushed>>

-----------------------------------------------------------------------------
(* GET /sse: the stream is listed, and then announced to the client, unless   *)
(* its connection breaks first.                                               *)
Listen(x, c) ==
    /\ streams[x] = Unused
    /\ transport[c] = "sse" /\ Works(c, creds[c].token)
    /\ \/ /\ streams' = [streams EXCEPT ![x] = [@ EXCEPT !.owner = c, !.state = "open", !.listed = TRUE]]
          /\ UNCHANGED events
       \/ /\ streams' = [streams EXCEPT ![x] = [@ EXCEPT !.owner = c, !.state = "unheard", !.listed = TRUE]]
          /\ Event
    /\ UNCHANGED <<creds, sessions, clients, req, pushed, spoilt>>

Hangup(x) ==
    /\ streams[x].state = "open"
    /\ streams' = [streams EXCEPT ![x].state = "broken"]
    /\ Event
    /\ UNCHANGED <<creds, sessions, clients, req, pushed, spoilt>>

(* The loop of pings: it ends when a ping fails, or a push has.               *)
Ping(x) ==
    /\ streams[x].state = "broken" /\ streams[x].listed
    /\ streams' = [streams EXCEPT ![x].listed = FALSE]
    /\ UNCHANGED <<creds, sessions, clients, req, pushed, spoilt, events>>

(* Mutant: whoever names a stream is answered on it.                          *)
TargetAny(x, c) == IF x \in Streams /\ streams[x].listed THEN x ELSE NoStream

Target(x, c) ==
    IF x \in Streams /\ streams[x].listed /\ streams[x].owner = c THEN x ELSE NoStream

(* POST /messages, with any id.                                               *)
Post(q) ==
    /\ Comes(q) /\ transport[Owner[q]] = "sse"
    /\ \E x \in Streams \cup {NoStream} :
          req' = [req EXCEPT ![q] = [Request(q) EXCEPT !.path = "messages", !.target = Target(x, Owner[q])]]
    /\ Calm
    /\ UNCHANGED <<creds, sessions, clients, streams, pushed>>

(* Its answer: pushed if the stream has not been found closed by now, after a *)
(* 202 that may itself fail; or given on the connection of the request.       *)
Reply(q) ==
    /\ req[q].path = "messages"
    /\ Effect(q)
    /\ LET x == req[q].target
           push == x # NoStream /\ ~streams[x].closed
       IN  \/ push /\ streams[x].state = "open" /\ pushed' = pushed \cup {<<x, req[q].agent>>}
              /\ Calm /\ UNCHANGED streams
           \/ push /\ streams[x].state # "open" /\ streams' = [streams EXCEPT ![x].closed = TRUE]
              /\ Spoil /\ UNCHANGED pushed
           \/ ~push /\ Calm /\ UNCHANGED <<streams, pushed>>
           \/ Spoil /\ UNCHANGED <<streams, pushed>>
    /\ Done(q)
    /\ UNCHANGED <<sessions, clients>>

-----------------------------------------------------------------------------
Restart ==
    /\ Reboot
    /\ Event
    /\ aware' = {c \in Clients : sid[c] = NoSid}
    /\ req' = [q \in Slots |-> Idle]
    /\ streams' = [x \in Streams |-> [streams[x] EXCEPT !.listed = FALSE,
                      !.state = IF @ = "unused" THEN @ ELSE "broken"]]
    /\ UNCHANGED <<creds, transport, sid, pushed, spoilt>>

CommandLine ==
    /\ Cli
    /\ Event
    /\ UNCHANGED <<sessions, clients, req, streams, pushed, spoilt>>

Send(q) == NotFound(q) \/ Initialize(q) \/ Start(q)

Next ==
    \/ \E q \in Slots : Send(q) \/ Discard(q) \/ Result(q) \/ NoResult(q) \/ Post(q) \/ Reply(q)
    \/ \E x \in Streams : Hangup(x) \/ Ping(x) \/ \E c \in Clients : Listen(x, c)
    \/ Restart \/ CommandLine

Spec == Init /\ [][Next]_vars

(* Clients go on calling, and calls end, those that take the hint not always  *)
(* in an error.                                                               *)
FairSpec ==
    /\ Spec
    /\ \A q \in Slots : /\ WF_vars(Send(q))
                        /\ WF_vars(Result(q) \/ NoResult(q))
                        /\ SF_vars(req[q].hint # NoSid /\ Result(q))

-----------------------------------------------------------------------------
(* The type of each variable; no id has had more hints than 404s.             *)
TypeOK ==
    /\ CredentialsType /\ SessionsType
    /\ transport \in [Clients -> {"mcp", "stubborn", "sse"}]
    /\ sid \in [Clients -> Sids \cup {NoSid}] /\ aware \subseteq Clients
    /\ req \in [Slots -> [path : {"none", "mcp", "messages"}, agent : Agents,
                          role : {"admin", "operator"}, hint : Sids \cup {NoSid},
                          target : Streams \cup {NoStream}]]
    /\ streams \in [Streams -> [owner : Agents, state : {"unused", "open", "unheard", "broken"},
                                listed : BOOLEAN, closed : BOOLEAN]]
    /\ pushed \subseteq Streams \X Agents
    /\ {spoilt, events} \subseteq 0 .. Events

Hinting(s) == {q \in Slots : req[q].hint = s}

(* An old id is answered 404 once, "each old id only once" (server.py:251),   *)
(* as long as the table is not emptied: whatever its requests do with the     *)
(* hint, it stays in the table.                                               *)
RejectOnce == \A s \in rejected : Verdict(s) # "reject"

(* No hint without a 404 of its own before it: the hints still to come, on    *)
(* requests under way and from the table, never exceed the 404s not followed  *)
(* by one, though requests of one id overlap and the table is emptied.        *)
HintsOwed ==
    \A s \in Sids :
        Cardinality(Hinting(s)) + (IF table[s] = "rejected" THEN 1 ELSE 0) <= unhinted[s]

(* An answer is pushed into a stream of its caller's only (server.py:649).    *)
OwnStream == \A p \in pushed : streams[p[1]].owner = p[2]

(* After a restart every client that goes on calling hears of it, by the 404  *)
(* or by the hint, even if one answer is lost or one request malformed.       *)
Told ==
    \A c \in Clients :
        <>(spoilt >= 2) \/ []<>(c \in aware \/ ~Works(c, creds[c].token))
=============================================================================
