---------------------------- MODULE ClientActor ----------------------------
(***************************************************************************)
(* One job server connection of the client (src/client/mod.rs): the calls  *)
(* of `Client`, the actor task that owns the connection                    *)
(* (`run_server_actor`, `actor_loop`) and, as an external part, the job    *)
(* server behind it.                                                       *)
(*                                                                         *)
(* A member of Requests is one call of the API: `submit` in the foreground *)
(* or the background, `get_status` or `get_status_unique`.  It is made at  *)
(* most once; many calls, from many tasks, are many requests.  A request   *)
(* names its oneshot reply channel and, for a foreground submission, the   *)
(* channel of its JobEventStream as well.                                  *)
(*                                                                         *)
(* The protocol has no request ids: an answer belongs to the oldest        *)
(* request still pending, and a copy of a WORK_* event to the subscriber   *)
(* whose turn it is.  Packets carry the request they are for in `req`;     *)
(* the actor never reads that field, the properties do.                    *)
(***************************************************************************)
EXTENDS Naturals, Sequences, HandleSubscribers

CONSTANTS
    Requests,        \* the calls made on the Client
    Kind,            \* [Requests -> Kinds]
    Unique,          \* [Requests -> unique ids or NoUnique]
    About,           \* the submission a status query asks about
    Oversized,       \* requests whose packet the codec refuses to encode
    Handles,         \* job handles the server may issue
    NoHandle, NoUnique,
    WithExceptions,  \* ClientBuilder::with_exceptions
    ServerEmits,     \* the WORK_* events workers of this server produce
    MaxEvents,       \* bound: WORK_* events of a job before its terminal one
    MaxBackoff       \* MAX_BACKOFF, in units of the initial backoff

Kinds == {"fg", "bg", "status", "status_unique"}
Progress == {"work_status", "work_data", "work_warning"}
Terminal == {"work_complete", "work_fail", "work_exception"}
Events == Progress \cup Terminal
Uniques == {Unique[r] : r \in Requests} \ {NoUnique}

IsSubmit(r) == Kind[r] \in {"fg", "bg"}

ASSUME RequestAssumption ==
    /\ NoRequest \notin Requests
    /\ NoHandle \notin Handles
    /\ Kind \in [Requests -> Kinds]
    /\ DOMAIN Unique = Requests
    /\ Oversized \subseteq Requests
    /\ About \in [{r \in Requests : ~IsSubmit(r)} -> {r \in Requests : IsSubmit(r)}]

ASSUME ServerAssumption ==
    /\ WithExceptions \in BOOLEAN
    /\ ServerEmits \subseteq Events
    /\ MaxEvents \in Nat
    /\ MaxBackoff \in Nat \ {0}

VARIABLES
    \* the calls
    caller,          \* the state of the call's future
    outcome,         \* what the call returned
    stream,          \* the JobEventStream of a foreground submission
    delivered,       \* the events sent to that stream, in order
    client_alive,    \* some clone of the Client exists
    \* the actor
    pc,              \* where run_server_actor is
    cmd_rx,          \* the command channel
    connected, attempted, backoff,
    pending_replies,
    job_events,      \* [Handles -> subscribers]
    \* the connection and the server at its other end
    wire,            \* "down", "up", or "closed" by the other side
    to_server, to_client,
    opted_in,        \* this connection asked for exceptions and was granted them
    job,             \* "unborn", "live" or "done"
    job_unique,      \* the unique id a job was created with
    log,             \* the WORK_* events of a job so far
    registered,      \* the registrations of this connection for a job, in order
    \* what the server did for a request
    answer,          \* the answer it gave
    since            \* the number of events of the job before the registration

calls == <<caller, outcome, stream, delivered, client_alive>>
actor == <<pc, connected, attempted, backoff>>
queues == <<cmd_rx, pending_replies, job_events>>
server == <<opted_in, job, job_unique, log, registered, answer, since>>
vars == <<calls, actor, queues, wire, to_server, to_client, server>>

-----------------------------------------------------------------------------
(* Packets and outcomes.                                                   *)

OptionReq == NoRequest   \* the only packet to the server that is no request

Packet(type, r, h, n) == [type |-> type, req |-> r, handle |-> h, n |-> n]

Outcome(result, h) == [result |-> result, handle |-> h]
NoOutcome == Outcome("none", NoHandle)
Closed == Outcome("connection_closed", NoHandle)
Answers == {"job_created", "status_res", "status_res_unique", "error"}

\* The packet type that answers a request (PendingReply).
ReplyType(r) == CASE IsSubmit(r)               -> "job_created"
                  [] Kind[r] = "status"        -> "status_res"
                  [] Kind[r] = "status_unique" -> "status_res_unique"

Elems(s) == {s[i] : i \in DOMAIN s}
Distinct(s) == \A i, j \in DOMAIN s : s[i] = s[j] => i = j

\* The requests whose event sender the actor holds in `job_events`.
Subscribed == (UNION {Elems(job_events[h].slots) : h \in Handles}) \ {NoRequest}

\* A stream has ended once nothing can send to it any more.
Held(r) == r \in Elems(cmd_rx) \cup Elems(pending_replies) \cup Subscribed

-----------------------------------------------------------------------------
Init ==
    /\ caller = [r \in Requests |-> "idle"]
    /\ outcome = [r \in Requests |-> NoOutcome]
    /\ stream = [r \in Requests |-> "none"]
    /\ delivered = [r \in Requests |-> <<>>]
    /\ client_alive = TRUE
    /\ pc = "connecting"
    /\ cmd_rx = <<>>
    /\ connected = FALSE /\ attempted = FALSE /\ backoff = 1
    /\ pending_replies = <<>>
    /\ job_events = [h \in Handles |-> Default]
    /\ wire = "down" /\ to_server = <<>> /\ to_client = <<>>
    /\ opted_in = FALSE
    /\ job = [h \in Handles |-> "unborn"]
    /\ job_unique = [h \in Handles |-> NoUnique]
    /\ log = [h \in Handles |-> <<>>]
    /\ registered = [h \in Handles |-> <<>>]
    /\ answer = [r \in Requests |-> NoOutcome]
    /\ since = [r \in Requests |-> 0]

-----------------------------------------------------------------------------
(* The callers.                                                            *)

\* A call that returns at once, without a word to the actor.
ReturnsAtOnce(r, result) ==
    /\ caller' = [caller EXCEPT ![r] = "done"]
    /\ outcome' = [outcome EXCEPT ![r] = Outcome(result, NoHandle)]
    /\ UNCHANGED <<stream, cmd_rx>>

\* A call that sends its command and awaits the reply.
Asks(r) ==
    /\ caller' = [caller EXCEPT ![r] = "waiting"]
    /\ stream' = [stream EXCEPT ![r] = IF Kind[r] = "fg" THEN "open" ELSE "none"]
    /\ cmd_rx' = Append(cmd_rx, r)
    /\ UNCHANGED outcome

\* submit_packet: the health check, then the command.
Submit(r) ==
    /\ client_alive /\ caller[r] = "idle" /\ IsSubmit(r)
    /\ IF connected THEN Asks(r) ELSE ReturnsAtOnce(r, "no_servers_available")
    /\ UNCHANGED <<delivered, client_alive, actor, pending_replies, job_events,
                   wire, to_server, to_client, server>>

\* get_status and get_status_unique, on the handle an earlier submission
\* returned. Neither checks that the server is up.
GetStatus(r) ==
    /\ client_alive /\ caller[r] = "idle" /\ ~IsSubmit(r)
    /\ outcome[About[r]].result = "job_created"
    /\ IF Kind[r] = "status_unique" /\ Unique[About[r]] = NoUnique
       THEN ReturnsAtOnce(r, "no_unique_id")
       ELSE Asks(r)
    /\ UNCHANGED <<delivered, client_alive, actor, pending_replies, job_events,
                   wire, to_server, to_client, server>>

\* The caller drops the future it awaits (a timeout, a lost select!): the
\* reply channel closes, and the event channel with it.
Cancel(r) ==
    /\ caller[r] = "waiting"
    /\ caller' = [caller EXCEPT ![r] = "cancelled"]
    /\ stream' = [stream EXCEPT ![r] = IF @ = "open" THEN "dropped" ELSE @]
    /\ UNCHANGED <<outcome, delivered, client_alive, actor, queues,
                   wire, to_server, to_client, server>>

\* The caller drops the JobEventStream a submission returned.
DropStream(r) ==
    /\ caller[r] = "done" /\ stream[r] = "open"
    /\ stream' = [stream EXCEPT ![r] = "dropped"]
    /\ UNCHANGED <<caller, outcome, delivered, client_alive, actor, queues,
                   wire, to_server, to_client, server>>

\* The last Client goes; a call borrows it, so none is under way.
DropClient ==
    /\ client_alive
    /\ \A r \in Requests : caller[r] # "waiting"
    /\ client_alive' = FALSE
    /\ UNCHANGED <<caller, outcome, stream, delivered, actor, queues,
                   wire, to_server, to_client, server>>

-----------------------------------------------------------------------------
(* Parts of the actor's steps.                                             *)

\* Sending on the oneshots of the requests in DOMAIN result: a cancelled call
\* is not there to hear.
Resolve(result) ==
    LET Told(r) == r \in DOMAIN result /\ caller[r] = "waiting"
    IN  /\ caller' = [r \in Requests |-> IF Told(r) THEN "done" ELSE caller[r]]
        /\ outcome' = [r \in Requests |-> IF Told(r) THEN result[r] ELSE outcome[r]]

\* Mutated form of LeaveLoop: the pending requests are kept for the next connection.
LeaveLoop_KeepsPending(next, refused) ==
    /\ Resolve([r \in refused |-> Outcome("send_failed", NoHandle)])
    /\ job_events' = [h \in Handles |-> Default]
    /\ pc' = next
    /\ UNCHANGED pending_replies

\* The end of actor_loop: the command whose send failed, in the set `refused`,
\* is told so, and fail_all_pending tells every pending request. The
\* subscribers go with the loop's locals.
LeaveLoop(next, refused) ==
    /\ Resolve([r \in Elems(pending_replies) \cup refused |->
                  IF r \in refused THEN Outcome("send_failed", NoHandle) ELSE Closed])
    /\ pending_replies' = <<>>
    /\ job_events' = [h \in Handles |-> Default]
    /\ pc' = next

\* The server's side of a connection that is gone.
ServerForgets ==
    /\ to_server' = <<>>
    /\ registered' = [h \in Handles |-> <<>>]
    /\ opted_in' = FALSE

\* `conn` is dropped.
CloseWire ==
    /\ wire' = "down"
    /\ to_client' = <<>>
    /\ ServerForgets

BecomeReady ==
    /\ connected' = TRUE
    /\ attempted' = TRUE
    /\ backoff' = 1
    /\ pc' = "actor_loop"

-----------------------------------------------------------------------------
(* run_server_actor, between two runs of actor_loop.                       *)

\* net::connect succeeds, and negotiate_exceptions sends its OPTION_REQ.
Connect ==
    /\ pc = "connecting"
    /\ wire' = "up"
    /\ IF WithExceptions
       THEN /\ to_server' = <<OptionReq>>
            /\ pc' = "negotiating"
            /\ UNCHANGED <<connected, attempted, backoff>>
       ELSE /\ BecomeReady
            /\ UNCHANGED to_server
    /\ UNCHANGED <<calls, queues, to_client, server>>

ConnectFails ==
    /\ pc = "connecting"
    /\ attempted' = TRUE
    /\ pc' = "backoff"
    /\ UNCHANGED <<calls, connected, backoff, queues, wire, to_server, to_client, server>>

\* Mutated form of Negotiate: the reply to OPTION_REQ is left for actor_loop to read.
Negotiate_NoWait ==
    /\ pc = "negotiating"
    /\ BecomeReady
    /\ UNCHANGED <<calls, queues, wire, to_server, to_client, server>>

\* negotiate_exceptions reads one packet, whatever it is: OPTION_RES, an ERROR
\* or anything else, the connection is used all the same.
Negotiate ==
    /\ pc = "negotiating" /\ to_client # <<>>
    /\ to_client' = Tail(to_client)
    /\ BecomeReady
    /\ UNCHANGED <<calls, queues, wire, to_server, server>>

NegotiateFails ==
    /\ pc = "negotiating" /\ wire = "closed"
    /\ attempted' = TRUE
    /\ pc' = "backoff"
    /\ CloseWire
    /\ UNCHANGED <<calls, connected, backoff, queues, job, job_unique, log, answer, since>>

\* Mutated form of MarkDisconnected: the outcome of actor_loop is ignored.
MarkDisconnected_Ignores ==
    /\ pc \in {"connection_lost", "client_dropped"}
    /\ connected' = FALSE
    /\ pc' = "backoff" /\ attempted' = TRUE
    /\ CloseWire
    /\ UNCHANGED <<calls, backoff, queues, job, job_unique, log, answer, since>>

\* actor_loop has returned: the flag goes down, and only then the connection.
MarkDisconnected ==
    /\ pc \in {"connection_lost", "client_dropped"}
    /\ connected' = FALSE
    /\ IF pc = "client_dropped"
       THEN pc' = "returned" /\ UNCHANGED attempted
       ELSE pc' = "backoff" /\ attempted' = TRUE
    /\ CloseWire
    /\ UNCHANGED <<calls, backoff, queues, job, job_unique, log, answer, since>>

\* Mutated form of Wake: the backoff is not capped.
Wake_Uncapped ==
    /\ pc = "backoff"
    /\ backoff' = 2 * backoff
    /\ pc' = "connecting"
    /\ UNCHANGED <<calls, connected, attempted, queues, wire, to_server, to_client, server>>

\* The backoff sleep ends.
Wake ==
    /\ pc = "backoff"
    /\ backoff' = IF 2 * backoff > MaxBackoff THEN MaxBackoff ELSE 2 * backoff
    /\ pc' = "connecting"
    /\ UNCHANGED <<calls, connected, attempted, queues, wire, to_server, to_client, server>>

-----------------------------------------------------------------------------
(* actor_loop: each branch of its select! is an action.                    *)

\* The next command is written to the socket and its reply awaited. Writing to
\* a connection the other side has closed may succeed: the packet is lost.
SendCommand ==
    /\ pc = "actor_loop" /\ cmd_rx # <<>>
    /\ LET r == Head(cmd_rx)
       IN  /\ r \notin Oversized
           /\ to_server' = IF wire = "up" THEN Append(to_server, r) ELSE to_server
           /\ pending_replies' = Append(pending_replies, r)
    /\ cmd_rx' = Tail(cmd_rx)
    /\ UNCHANGED <<calls, actor, job_events, wire, to_client, server>>

\* conn.send fails: the connection is closed, or the packet is too large to
\* encode, which ends the connection for every other request as well.
SendFails ==
    /\ pc = "actor_loop" /\ cmd_rx # <<>>
    /\ LET r == Head(cmd_rx)
       IN  /\ wire = "closed" \/ r \in Oversized
           /\ LeaveLoop("connection_lost", {r})
    /\ cmd_rx' = Tail(cmd_rx)
    /\ UNCHANGED <<stream, delivered, client_alive, connected, attempted, backoff,
                   wire, to_server, to_client, server>>

\* handle_incoming on any packet but WORK_*. The oldest pending request is
\* popped before its kind is looked at: if the packet is no answer to it, its
\* reply channel is dropped and the call reports ConnectionClosed. A packet that
\* answers nothing, or that no request is pending for, is ignored.
ReceiveReply ==
    /\ pc = "actor_loop" /\ to_client # <<>>
    /\ LET p == Head(to_client)
           r == Head(pending_replies)
           fits == p.type \in {ReplyType(r), "error"}
       IN  /\ p.type \notin Events
           /\ IF p.type \notin Answers \/ pending_replies = <<>>
              THEN UNCHANGED <<caller, outcome, pending_replies, job_events>>
              ELSE /\ pending_replies' = Tail(pending_replies)
                   /\ Resolve([q \in {r} |->
                                 IF fits THEN Outcome(p.type, p.handle) ELSE Closed])
                   /\ job_events' = IF p.type = "job_created" /\ Kind[r] = "fg"
                                    THEN [job_events EXCEPT ![p.handle] = Add(@, r)]
                                    ELSE job_events
    /\ to_client' = Tail(to_client)
    /\ UNCHANGED <<stream, delivered, client_alive, actor, cmd_rx, wire, to_server, server>>

\* dispatch_work_event: one copy of a WORK_* event, for whoever's turn it is.
ReceiveWork ==
    /\ pc = "actor_loop" /\ to_client # <<>>
    /\ LET p == Head(to_client)
           r == Receiver(job_events[p.handle])
       IN  /\ p.type \in Events
           /\ job_events' = [job_events EXCEPT
                                ![p.handle] = Deliver(@, p.type \in Terminal)]
           /\ delivered' = IF r # NoRequest /\ stream[r] = "open"
                           THEN [delivered EXCEPT
                                   ![r] = Append(@, [handle |-> p.handle, n |-> p.n])]
                           ELSE delivered
    /\ to_client' = Tail(to_client)
    /\ UNCHANGED <<caller, outcome, stream, client_alive, actor, cmd_rx, pending_replies,
                   wire, to_server, server>>

\* conn.recv returns None or an error; what was received before may be lost too.
ReceiveFails ==
    /\ pc = "actor_loop" /\ wire = "closed"
    /\ LeaveLoop("connection_lost", {})
    /\ UNCHANGED <<stream, delivered, client_alive, connected, attempted, backoff, cmd_rx,
                   wire, to_server, to_client, server>>

\* The prune tick.
PruneTick ==
    /\ pc = "actor_loop"
    /\ LET closed == {r \in Requests : stream[r] = "dropped"}
       IN  job_events' = [h \in Handles |-> Prune(job_events[h], closed)]
    /\ UNCHANGED <<calls, actor, cmd_rx, pending_replies, wire, to_server, to_client, server>>

\* cmd_rx.recv returns None: every Client is gone and every command was taken.
ClientGone ==
    /\ pc = "actor_loop" /\ cmd_rx = <<>> /\ ~client_alive
    /\ LeaveLoop("client_dropped", {})
    /\ UNCHANGED <<stream, delivered, client_alive, connected, attempted, backoff, cmd_rx,
                   wire, to_server, to_client, server>>

-----------------------------------------------------------------------------
(* The job server and the network. External: what the comments of          *)
(* HandleSubscribers and the tests say of gearmand, nothing else.          *)

\* The connection breaks, or the server closes it.
Break ==
    /\ wire = "up"
    /\ wire' = "closed"
    /\ ServerForgets
    /\ UNCHANGED <<calls, actor, queues, to_client, job, job_unique, log, answer, since>>

\* The server answers requests in the order it received them.
ServeOption ==
    /\ wire = "up" /\ to_server # <<>> /\ Head(to_server) = OptionReq
    /\ \E granted \in BOOLEAN :
         /\ to_client' = Append(to_client,
                Packet(IF granted THEN "option_res" ELSE "error", NoRequest, NoHandle, 0))
         /\ opted_in' = granted
    /\ to_server' = Tail(to_server)
    /\ UNCHANGED <<calls, actor, queues, wire, job, job_unique, log, registered, answer, since>>

Reply(r, type, h) ==
    /\ answer' = [answer EXCEPT ![r] = Outcome(type, h)]
    /\ to_client' = Append(to_client, Packet(type, r, h, 0))

\* A job for the submission r: the live one with its unique id if there is
\* one, else a new one.
JobFor(r) ==
    LET same == {h \in Handles : job[h] = "live" /\ job_unique[h] = Unique[r]}
    IN  IF Unique[r] # NoUnique /\ same # {}
        THEN same
        ELSE {h \in Handles : job[h] = "unborn"}

ServeSubmit ==
    /\ wire = "up" /\ to_server # <<>> /\ Head(to_server) # OptionReq
    /\ LET r == Head(to_server)
       IN  /\ IsSubmit(r)
           /\ \E h \in JobFor(r) :
                /\ job' = [job EXCEPT ![h] = "live"]
                /\ job_unique' = [job_unique EXCEPT ![h] = Unique[r]]
                /\ Reply(r, "job_created", h)
                /\ IF Kind[r] = "fg"
                   THEN /\ registered' = [registered EXCEPT ![h] = Append(@, r)]
                        /\ since' = [since EXCEPT ![r] = Len(log[h])]
                   ELSE UNCHANGED <<registered, since>>
    /\ to_server' = Tail(to_server)
    /\ UNCHANGED <<calls, actor, queues, wire, opted_in, log>>

ServeStatus ==
    /\ wire = "up" /\ to_server # <<>> /\ Head(to_server) # OptionReq
    /\ LET r == Head(to_server)
       IN  /\ ~IsSubmit(r)
           /\ Reply(r, ReplyType(r), outcome[About[r]].handle)
    /\ to_server' = Tail(to_server)
    /\ UNCHANGED <<calls, actor, queues, wire, opted_in, job, job_unique, log, registered, since>>

ServeError ==
    /\ wire = "up" /\ to_server # <<>> /\ Head(to_server) # OptionReq
    /\ Reply(Head(to_server), "error", NoHandle)
    /\ to_server' = Tail(to_server)
    /\ UNCHANGED <<calls, actor, queues, wire, opted_in, job, job_unique, log, registered, since>>

\* A worker reports an event of job h: one copy per registration, back to back.
\* An exception goes only to those who opted in. A terminal event ends the job.
ServerWork(h) ==
    /\ job[h] = "live"
    /\ \E event \in ServerEmits :
         LET silent == event = "work_exception" /\ ~opted_in
             copies == [i \in DOMAIN registered[h] |->
                          Packet(event, registered[h][i], h, Len(log[h]) + 1)]
         IN  /\ event \in Progress => Len(log[h]) < MaxEvents
             /\ log' = [log EXCEPT ![h] = Append(@, event)]
             /\ to_client' = IF silent THEN to_client ELSE to_client \o copies
             /\ IF event \in Terminal
                THEN /\ job' = [job EXCEPT ![h] = "done"]
                     /\ registered' = [registered EXCEPT ![h] = <<>>]
                ELSE UNCHANGED <<job, registered>>
    /\ UNCHANGED <<calls, actor, queues, wire, to_server, opted_in, job_unique, answer, since>>

\* Another client submits a job with one of our unique ids.
OtherClientSubmits(h) ==
    /\ job[h] = "unborn"
    /\ \E u \in Uniques :
         /\ \A g \in Handles : ~(job[g] = "live" /\ job_unique[g] = u)
         /\ job' = [job EXCEPT ![h] = "live"]
         /\ job_unique' = [job_unique EXCEPT ![h] = u]
    /\ UNCHANGED <<calls, actor, queues, wire, to_server, to_client, opted_in, log, registered,
                   answer, since>>

-----------------------------------------------------------------------------
Callers == \/ \E r \in Requests : Submit(r) \/ GetStatus(r) \/ Cancel(r) \/ DropStream(r)
           \/ DropClient

ActorLoop == \/ SendCommand \/ SendFails
             \/ ReceiveReply \/ ReceiveWork \/ ReceiveFails
             \/ PruneTick \/ ClientGone

Reconnecting == \/ Connect \/ ConnectFails \/ Negotiate \/ NegotiateFails
                \/ MarkDisconnected \/ Wake

Server == \/ ServeOption \/ ServeSubmit \/ ServeStatus \/ ServeError
          \/ \E h \in Handles : ServerWork(h) \/ OtherClientSubmits(h)
          \/ Break

Next == Callers \/ ActorLoop \/ Reconnecting \/ Server

Spec == Init /\ [][Next]_vars

\* What is assumed to go on. The actor: a task the runtime polls, and whose
\* select! picks a ready branch at random, so neither what cmd_rx.recv returns
\* nor the socket is passed over for ever; a branch that a lost connection
\* disables is ready again on the next one. The
\* network: connecting is not refused for ever, nor does each connection break
\* before the handshake ends. The server: it answers, and its workers finish
\* their jobs. Nothing is assumed of the callers, nor of PruneTick.
Fairness ==
    /\ WF_vars(MarkDisconnected \/ Wake \/ NegotiateFails
               \/ ReceiveReply \/ ReceiveWork \/ ReceiveFails)
    /\ SF_vars(Connect) /\ SF_vars(Negotiate)
    /\ SF_vars(SendCommand \/ SendFails \/ ClientGone)
    /\ SF_vars(ServeOption) /\ WF_vars(ServeSubmit \/ ServeStatus \/ ServeError)
    /\ \A h \in Handles : WF_vars(ServerWork(h))

FairSpec == Spec /\ Fairness

-----------------------------------------------------------------------------
(* Correctness.                                                            *)

Outcomes == [result : {"none", "connection_closed", "send_failed", "no_servers_available",
                       "no_unique_id"} \cup Answers,
             handle : Handles \cup {NoHandle}]

\* An event or a JOB_CREATED names a job.
Packets ==
    {p \in [type : Answers \cup Events \cup {"option_res"},
            req : Requests \cup {NoRequest},
            handle : Handles \cup {NoHandle},
            n : Nat] : p.type \in Events \cup {"job_created"} => p.handle \in Handles}

CallsOK ==
    /\ caller \in [Requests -> {"idle", "waiting", "done", "cancelled"}]
    /\ outcome \in [Requests -> Outcomes]
    /\ stream \in [Requests -> {"none", "open", "dropped"}]
    /\ delivered \in [Requests -> Seq([handle : Handles, n : Nat])]

ActorOK ==
    /\ pc \in {"connecting", "negotiating", "actor_loop", "connection_lost",
               "client_dropped", "backoff", "returned"}
    /\ backoff \in 1 .. MaxBackoff

QueuesOK ==
    /\ cmd_rx \in Seq(Requests)
    /\ pending_replies \in Seq(Requests)
    /\ job_events \in [Handles -> [slots : Seq(Requests \cup {NoRequest}), cursor : Nat]]

WireOK ==
    /\ wire \in {"down", "up", "closed"}
    /\ to_server \in Seq(Requests \cup {OptionReq})
    /\ to_client \in Seq(Packets)

ServerOK ==
    /\ job \in [Handles -> {"unborn", "live", "done"}]
    /\ job_unique \in [Handles -> {Unique[r] : r \in Requests} \cup {NoUnique}]
    /\ log \in [Handles -> Seq(Events)]
    /\ registered \in [Handles -> Seq(Requests)]
    /\ answer \in [Requests -> Outcomes]
    /\ since \in [Requests -> Nat]

FlagsOK ==
    /\ client_alive \in BOOLEAN
    /\ connected \in BOOLEAN /\ attempted \in BOOLEAN
    /\ opted_in \in BOOLEAN

\* Every variable holds a value of its kind, and the queues what the code puts in them.
TypeOK == CallsOK /\ ActorOK /\ QueuesOK /\ WireOK /\ ServerOK /\ FlagsOK

\* What a call returns is the server's answer to that very call, whatever
\* was sent, cancelled or coalesced around it: handle_incoming pops the reply
\* that is due (comments of run_server_actor and negotiate_exceptions).
ReplyAttribution ==
    \A r \in Requests :
        outcome[r].result \in Answers => /\ outcome[r] = answer[r]
                                         /\ outcome[r].result \in {ReplyType(r), "error"}

\* Every subscriber sees each event of its job, from its registration on,
\* exactly once and in order (comment of HandleSubscribers), although the
\* copies carry no subscriber and others join, prune and finish meanwhile.
EventsInOrder ==
    \A r \in Requests : \A i \in DOMAIN delivered[r] :
        delivered[r][i] = [handle |-> answer[r].handle, n |-> since[r] + i]

\* Once everything on the wire is read, the slots are gearmand's registrations,
\* one for one and in order, with the cursor at 0 (comment of HandleSubscribers);
\* an exception the client did not ask for is the one thing it cannot know.
SlotsMirrorRegistrations ==
    pc = "actor_loop" /\ wire = "up" /\ to_client = <<>> =>
        \A h \in Handles :
            \/ "work_exception" \in Elems(log[h]) /\ ~opted_in
            \/ /\ job_events[h].cursor = 0
               /\ Len(job_events[h].slots) = Len(registered[h])
               /\ \A i \in DOMAIN registered[h] :
                    job_events[h].slots[i] \in {registered[h][i], NoRequest}


\* The streams that can still yield an event: open, with a sender somewhere.
Listening == {r \in Requests : stream[r] = "open" /\ Held(r)}

Promise == INSTANCE JobStreams WITH
    Foreground <- {r \in Requests : Kind[r] = "fg"},
    listening <- Listening

\* The actor implements what the client promises (JobStreams): in particular a
\* stream ends only with its terminal event or together with all the others,
\* and no call reports a lost connection while the connection lives.
KeepsPromise == Promise!Spec

\* No call waits for ever: whatever breaks, it is answered or told so, and a
\* command queued while the server was down is sent once it is back (submit_packet
\* and get_status await their reply without a timeout).
CallsReturn ==
    \A r \in Requests : caller[r] = "waiting" ~> caller[r] # "waiting"

\* Every stream ends: with its job, or with the connection (JobEventStream; the
\* loop of submit_fg_unique returns only then).
StreamsEnd ==
    \A r \in {q \in Requests : Kind[q] = "fg"} : r \in Listening ~> r \notin Listening

\* Once the last Client is dropped the actor task returns (ActorOutcome::ClientDropped).
ActorReturns == ~client_alive ~> pc = "returned"

-----------------------------------------------------------------------------
(* Why replies are attributed to the right call: the inductive invariant.  *)

\* Whoever waits for an answer is in the command queue or pending on the
\* connection, once and in one place: the oneshot moves from ClientCommand to
\* PendingReply.
WaitingIsOwned ==
    /\ \A r \in Requests : caller[r] = "waiting" => r \in Elems(cmd_rx) \cup Elems(pending_replies)
    /\ Distinct(cmd_rx) /\ Distinct(pending_replies)
    /\ Elems(cmd_rx) \cap Elems(pending_replies) = {}

\* Only calls under way are queued or pending, and only a running loop has any pending.
QueuesHoldOpenCalls ==
    /\ \A r \in Elems(cmd_rx) \cup Elems(pending_replies) : caller[r] \in {"waiting", "cancelled"}
    /\ pc # "actor_loop" => pending_replies = <<>>

\* A call under way has no outcome; a request still on its way to the server,
\* perhaps of a call that has given up, has no answer.
NoOutcomeYet ==
    /\ \A r \in Requests : caller[r] # "done" => outcome[r] = NoOutcome
    /\ \A r \in Elems(to_server) \ {OptionReq} : outcome[r].result \notin Answers

\* What the connection may hold in each phase of the actor. Until the reply to
\* OPTION_REQ is read it is the only packet there is.
Phases ==
    /\ wire = "down" => to_client = <<>>
    /\ wire # "up" => to_server = <<>> /\ \A h \in Handles : registered[h] = <<>>
    /\ pc \in {"connecting", "backoff", "returned"} => wire = "down"
    /\ pc \in {"negotiating", "actor_loop"} => wire # "down"
    /\ pc = "negotiating" => /\ \A h \in Handles : registered[h] = <<>>
                             /\ \/ to_server = <<OptionReq>> /\ to_client = <<>>
                                \/ to_server = <<>> /\ Len(to_client) <= 1

\* The i-th packet under way to the client answers r.
IsReply(i, r) == to_client[i].type \notin Events /\ to_client[i].req = r

\* The pending requests the server has not answered are its queue, in order.
UnservedArePending ==
    LET served == Len(pending_replies) - Len(to_server)
    IN  wire = "up" => /\ served >= 0
                       /\ \A i \in DOMAIN to_server : to_server[i] = pending_replies[served + i]

\* The others have their answer under way.
ServedHaveReplies ==
    wire = "up" => \A k \in 1 .. Len(pending_replies) - Len(to_server) :
                     \E i \in DOMAIN to_client : IsReply(i, pending_replies[k])

\* Every reply under way is the answer to a pending request that was served.
RepliesArePending ==
    \A i \in DOMAIN to_client : to_client[i].type \notin Events =>
        /\ to_client[i].type \in {ReplyType(to_client[i].req), "error"}
        /\ answer[to_client[i].req] = Outcome(to_client[i].type, to_client[i].handle)
        /\ \E k \in DOMAIN pending_replies :
             /\ to_client[i].req = pending_replies[k]
             /\ wire = "up" => k <= Len(pending_replies) - Len(to_server)

\* Replies come in the order of the pending requests, with no gap and no double.
RepliesInOrder ==
    /\ \A i \in DOMAIN to_client, k \in DOMAIN pending_replies :
         k > 1 /\ IsReply(i, pending_replies[k])
            => \E j \in 1 .. i - 1 : IsReply(j, pending_replies[k - 1])
    /\ \A i, j \in DOMAIN to_client :
         /\ to_client[i].type \notin Events /\ to_client[j].type \notin Events
         /\ to_client[i].req = to_client[j].req
         => i = j

Aligned ==
    pc = "actor_loop" =>
        UnservedArePending /\ ServedHaveReplies /\ RepliesArePending /\ RepliesInOrder

AttributionInv ==
    /\ WaitingIsOwned /\ QueuesHoldOpenCalls /\ NoOutcomeYet
    /\ Phases /\ Aligned /\ ReplyAttribution

=============================================================================
