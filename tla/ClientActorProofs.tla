------------------------- MODULE ClientActorProofs -------------------------
(***************************************************************************)
(* Theorems about ClientActor, for any requests, handles and bounds: its   *)
(* types, and that every call gets its own answer.                         *)
(***************************************************************************)
EXTENDS ClientActor, TLAPS

-----------------------------------------------------------------------------
(* The operators of HandleSubscribers, for any set of senders.             *)

\* The values `HandleSubscribers` takes when its senders are in S.
SubsOf(S) == [slots : Seq(S), cursor : Nat]

\* Vec::swap_remove takes one element out and none in.
LEMMA SwapRemoveType ==
    ASSUME NEW S, NEW s \in Seq(S), NEW i \in 1 .. Len(s)
    PROVE  /\ SwapRemove(s, i) \in Seq(S)
           /\ Len(SwapRemove(s, i)) = Len(s) - 1
  BY DEF SwapRemove

\* add, deliver and prune_closed_subscribers keep the type.
LEMMA SubsType ==
    ASSUME NEW S, NoRequest \in S, NEW subs \in SubsOf(S)
    PROVE  /\ Default \in SubsOf(S)
           /\ \A r \in S : Add(subs, r) \in SubsOf(S)
           /\ \A terminal : Deliver(subs, terminal) \in SubsOf(S)
           /\ \A closed : Prune(subs, closed) \in SubsOf(S)
           /\ Receiver(subs) \in S
  <1>1. Default \in SubsOf(S)
    BY DEF Default, SubsOf
  <1>2. ASSUME NEW r \in S PROVE Add(subs, r) \in SubsOf(S)
    BY DEF Add, SubsOf
  <1>3. subs.slots # <<>> => NextSlot(subs) \in 1 .. Len(subs.slots)
    BY DEF SubsOf, NextSlot, InBounds
  <1>4. ASSUME NEW terminal PROVE Deliver(subs, terminal) \in SubsOf(S)
    BY <1>3, SwapRemoveType DEF Deliver, InBounds, SubsOf
  <1>5. ASSUME NEW closed PROVE Prune(subs, closed) \in SubsOf(S)
    BY DEF Prune, SubsOf
  <1>6. Receiver(subs) \in S
    BY <1>3 DEF Receiver, SubsOf
  <1> QED
    BY <1>1, <1>2, <1>4, <1>5, <1>6

-----------------------------------------------------------------------------
(* Types.                                                                  *)

USE DEF SubsOf

LEMMA InitType == Init => TypeOK
  <1> SUFFICES ASSUME Init PROVE TypeOK
    OBVIOUS
  <1> USE DEF Init, Default, NoOutcome, Outcome, Outcomes, Answers
  <1>1. CallsOK
    BY DEF CallsOK
  <1>2. ActorOK
    BY ServerAssumption DEF ActorOK
  <1>3. QueuesOK
    BY DEF QueuesOK
  <1>4. WireOK
    BY DEF WireOK
  <1>5. ServerOK
    BY DEF ServerOK
  <1>6. FlagsOK
    BY DEF FlagsOK
  <1> QED
    BY <1>1, <1>2, <1>3, <1>4, <1>5, <1>6 DEF TypeOK

LEMMA CallersType == ASSUME TypeOK, Callers PROVE TypeOK'
  <1> USE DEF TypeOK
  <1>1. ASSUME NEW r \in Requests, Submit(r) \/ GetStatus(r)
        PROVE  TypeOK'
    <2> USE <1>1 DEF Submit, GetStatus
    <2>1. (\E result \in {"no_servers_available", "no_unique_id"} : ReturnsAtOnce(r, result))
          \/ Asks(r)
      OBVIOUS
    <2>2. CallsOK'
      <3>1. ASSUME NEW result \in {"no_servers_available", "no_unique_id"},
                   ReturnsAtOnce(r, result)
            PROVE  CallsOK'
        BY <3>1 DEF CallsOK, ReturnsAtOnce, Outcome, Outcomes
      <3>2. ASSUME Asks(r) PROVE CallsOK'
        BY <3>2 DEF CallsOK, Asks
      <3> QED
        BY <2>1, <3>1, <3>2
    <2>3. QueuesOK'
      <3>1. cmd_rx' \in {cmd_rx, Append(cmd_rx, r)}
        BY <2>1 DEF Asks, ReturnsAtOnce
      <3>2. UNCHANGED <<pending_replies, job_events>>
        OBVIOUS
      <3> QED
        BY <3>1, <3>2 DEF QueuesOK
    <2>4. ActorOK' /\ WireOK' /\ ServerOK'
      BY DEF ActorOK, WireOK, ServerOK, actor, server
    <2>5. FlagsOK'
      BY DEF FlagsOK, actor, server
    <2> QED
      BY <2>2, <2>3, <2>4, <2>5
  <1>2. CASE \E r \in Requests : Cancel(r) \/ DropStream(r)
    <2> USE <1>2 DEF Cancel, DropStream
    <2>1. CallsOK'
      BY DEF CallsOK
    <2>2. ActorOK' /\ QueuesOK' /\ WireOK' /\ ServerOK'
      BY DEF ActorOK, QueuesOK, WireOK, ServerOK, actor, queues, server
    <2>3. FlagsOK'
      BY DEF FlagsOK, actor, server
    <2> QED
      BY <2>1, <2>2, <2>3
  <1>3. CASE DropClient
    <2> USE <1>3 DEF DropClient
    <2>1. CallsOK' /\ ActorOK' /\ QueuesOK' /\ WireOK' /\ ServerOK'
      BY DEF CallsOK, ActorOK, QueuesOK, WireOK, ServerOK, actor, queues, server
    <2>2. FlagsOK'
      BY DEF FlagsOK, actor, server
    <2> QED
      BY <2>1, <2>2
  <1> QED
    BY <1>1, <1>2, <1>3 DEF Callers

LEMMA ReconnectingType == ASSUME TypeOK, Reconnecting PROVE TypeOK'
  <1> USE DEF TypeOK
  <1>1. CASE Connect
    <2> USE <1>1 DEF Connect
    <2>1. CallsOK' /\ QueuesOK' /\ ServerOK'
      BY DEF CallsOK, QueuesOK, ServerOK, calls, queues, server
    <2>2. ActorOK'
      BY ServerAssumption DEF ActorOK, BecomeReady
    <2>3. WireOK'
      <3>1. to_server' \in {<<OptionReq>>, to_server}
        OBVIOUS
      <3>2. <<OptionReq>> \in Seq(Requests \cup {OptionReq})
        OBVIOUS
      <3> QED
        BY <3>1, <3>2 DEF WireOK
    <2>4. FlagsOK'
      BY DEF FlagsOK, BecomeReady, calls, server
    <2> QED
      BY <2>1, <2>2, <2>3, <2>4
  <1>2. CASE ConnectFails \/ Wake
    <2> USE <1>2 DEF ConnectFails, Wake
    <2>1. CallsOK' /\ QueuesOK' /\ WireOK' /\ ServerOK'
      BY DEF CallsOK, QueuesOK, WireOK, ServerOK, calls, queues, server
    <2>2. ActorOK'
      BY ServerAssumption DEF ActorOK
    <2>3. FlagsOK'
      BY DEF FlagsOK, calls, server
    <2> QED
      BY <2>1, <2>2, <2>3
  <1>3. CASE Negotiate
    <2> USE <1>3 DEF Negotiate
    <2>1. CallsOK' /\ QueuesOK' /\ ServerOK'
      BY DEF CallsOK, QueuesOK, ServerOK, calls, queues, server
    <2>2. ActorOK' /\ WireOK'
      BY ServerAssumption DEF ActorOK, WireOK, BecomeReady
    <2>3. FlagsOK'
      BY DEF FlagsOK, BecomeReady, calls, server
    <2> QED
      BY <2>1, <2>2, <2>3
  <1>4. CASE NegotiateFails \/ MarkDisconnected
    <2> USE <1>4 DEF NegotiateFails, MarkDisconnected
    <2>1. CallsOK' /\ QueuesOK'
      BY DEF CallsOK, QueuesOK, calls, queues
    <2>2. ActorOK'
      BY DEF ActorOK
    <2>3. WireOK'
      <3>1. wire' = "down" /\ to_client' = <<>> /\ to_server' = <<>>
        BY DEF CloseWire, ServerForgets
      <3> QED
        BY <3>1 DEF WireOK
    <2>4. ServerOK'
      <3>1. registered' = [h \in Handles |-> <<>>] /\ UNCHANGED <<job, job_unique, log, answer, since>>
        BY DEF CloseWire, ServerForgets
      <3> QED
        BY <3>1 DEF ServerOK
    <2>5. FlagsOK'
      BY DEF FlagsOK, CloseWire, ServerForgets, calls
    <2> QED
      BY <2>1, <2>2, <2>3, <2>4, <2>5
  <1> QED
    BY <1>1, <1>2, <1>3, <1>4 DEF Reconnecting

\* The oneshots only carry outcomes, to requests.
LEMMA ResolveType ==
    ASSUME CallsOK, NEW D \in SUBSET Requests, NEW result \in [D -> Outcomes], Resolve(result),
           UNCHANGED <<stream, delivered>>
    PROVE  CallsOK'
  BY DEF CallsOK, Resolve

LEMMA LeaveLoopType ==
    ASSUME TypeOK, NEW next \in {"connection_lost", "client_dropped"},
           NEW refused \in SUBSET Requests, LeaveLoop(next, refused),
           UNCHANGED <<stream, delivered, backoff>>,
           cmd_rx' \in Seq(Requests)
    PROVE  CallsOK' /\ ActorOK' /\ QueuesOK'
  <1> DEFINE D == Elems(pending_replies) \cup refused
             result == [r \in D |-> IF r \in refused THEN Outcome("send_failed", NoHandle)
                                                     ELSE Closed]
  <1>1. D \in SUBSET Requests
    BY DEF TypeOK, QueuesOK, Elems
  <1>2. result \in [D -> Outcomes]
    BY DEF Outcome, Closed, Outcomes
  <1>3. Resolve(result)
    BY DEF LeaveLoop
  <1>4. CallsOK'
    <2> HIDE DEF D, result
    <2> QED
      BY <1>1, <1>2, <1>3, ResolveType DEF TypeOK
  <1>5. ActorOK'
    BY DEF TypeOK, ActorOK, LeaveLoop
  <1>6. QueuesOK'
    <2>1. pending_replies' = <<>> /\ job_events' = [h \in Handles |-> Default]
      BY DEF LeaveLoop
    <2> QED
      BY <2>1 DEF QueuesOK, Default
  <1> QED
    BY <1>4, <1>5, <1>6

LEMMA SendType == ASSUME TypeOK, SendCommand PROVE TypeOK'
  <1> USE DEF TypeOK
  <1>1. cmd_rx \in Seq(Requests) /\ cmd_rx # <<>>
    BY DEF SendCommand, QueuesOK
  <1>2. Head(cmd_rx) \in Requests /\ cmd_rx' \in Seq(Requests)
    BY <1>1 DEF SendCommand
  <1>3. QueuesOK'
    BY <1>2 DEF SendCommand, QueuesOK
  <1>4. WireOK'
    BY <1>2 DEF SendCommand, WireOK
  <1>5. CallsOK' /\ ActorOK' /\ ServerOK'
    BY DEF SendCommand, CallsOK, ActorOK, ServerOK, calls, actor, server
  <1>6. FlagsOK'
    BY DEF SendCommand, FlagsOK, calls, actor, server
  <1> QED
    BY <1>3, <1>4, <1>5, <1>6

\* The three ways out of actor_loop.
LEMMA LeavingType == ASSUME TypeOK, SendFails \/ ReceiveFails \/ ClientGone PROVE TypeOK'
  <1>1. cmd_rx \in Seq(Requests)
    BY DEF TypeOK, QueuesOK
  <1>2. \E next \in {"connection_lost", "client_dropped"}, refused \in SUBSET Requests :
            LeaveLoop(next, refused)
    <2>1. CASE SendFails
      BY <1>1, <2>1 DEF SendFails
    <2>2. CASE ReceiveFails \/ ClientGone
      BY <2>2 DEF ReceiveFails, ClientGone
    <2> QED
      BY <2>1, <2>2
  <1>3. cmd_rx' \in Seq(Requests)
    BY <1>1 DEF SendFails, ReceiveFails, ClientGone
  <1>4. UNCHANGED <<stream, delivered, client_alive, connected, attempted, backoff,
                    wire, to_server, to_client, server>>
    BY DEF SendFails, ReceiveFails, ClientGone
  <1>5. CallsOK' /\ ActorOK' /\ QueuesOK'
    BY <1>2, <1>3, <1>4, LeaveLoopType
  <1>6. WireOK' /\ ServerOK'
    BY <1>4 DEF TypeOK, WireOK, ServerOK, server
  <1>7. FlagsOK'
    BY <1>4 DEF TypeOK, FlagsOK, server
  <1> QED
    BY <1>5, <1>6, <1>7 DEF TypeOK

LEMMA PruneType == ASSUME TypeOK, PruneTick PROVE TypeOK'
  <1> USE DEF TypeOK
  <1>1. job_events' \in [Handles -> SubsOf(Requests \cup {NoRequest})]
    BY SubsType DEF PruneTick, QueuesOK
  <1>2. QueuesOK'
    BY <1>1 DEF PruneTick, QueuesOK
  <1>3. CallsOK' /\ ActorOK' /\ ServerOK' /\ WireOK'
    BY DEF PruneTick, CallsOK, ActorOK, ServerOK, WireOK, calls, actor, server
  <1>4. FlagsOK'
    BY DEF PruneTick, FlagsOK, calls, actor, server
  <1> QED
    BY <1>2, <1>3, <1>4

LEMMA ReceiveReplyType == ASSUME TypeOK, ReceiveReply PROVE TypeOK'
  <1> DEFINE p == Head(to_client)
             r == Head(pending_replies)
             o == IF p.type \in {ReplyType(r), "error"} THEN Outcome(p.type, p.handle) ELSE Closed
  <1> USE DEF TypeOK
  <1>1. p \in Packets /\ to_client' \in Seq(Packets)
    BY DEF ReceiveReply, WireOK
  <1>2. ASSUME UNCHANGED <<caller, outcome, pending_replies, job_events>>
        PROVE  CallsOK' /\ QueuesOK'
    <2>1. UNCHANGED <<stream, delivered, cmd_rx>>
      BY DEF ReceiveReply
    <2> QED
      BY <1>2, <2>1 DEF CallsOK, QueuesOK
  <1>3. ASSUME p.type \in Answers, pending_replies # <<>>,
               pending_replies' = Tail(pending_replies),
               Resolve([q \in {r} |-> o]),
               job_events' = IF p.type = "job_created" /\ Kind[r] = "fg"
                             THEN [job_events EXCEPT ![p.handle] = Add(@, r)]
                             ELSE job_events
        PROVE  CallsOK' /\ QueuesOK'
    <2>1. r \in Requests /\ pending_replies' \in Seq(Requests)
      BY <1>3 DEF QueuesOK
    <2>2. o \in Outcomes
      BY <1>1, <1>3 DEF Packets, Outcomes, Outcome, Closed
    <2>3. CallsOK'
      <3>1. [q \in {r} |-> o] \in [{r} -> Outcomes] /\ {r} \in SUBSET Requests
        BY <2>1, <2>2
      <3>2. UNCHANGED <<stream, delivered>>
        BY DEF ReceiveReply
      <3> HIDE DEF o, p, r
      <3> QED
        BY <1>3, <3>1, <3>2, ResolveType
    <2>4. job_events' \in [Handles -> SubsOf(Requests \cup {NoRequest})]
      <3>1. p.type = "job_created" => p.handle \in Handles
        BY <1>1 DEF Packets
      <3> QED
        BY <1>3, <2>1, <3>1, SubsType DEF QueuesOK
    <2>5. cmd_rx' = cmd_rx
      BY DEF ReceiveReply
    <2>6. QueuesOK'
      BY <2>1, <2>4, <2>5 DEF QueuesOK
    <2> QED
      BY <2>3, <2>6
  <1>4. CallsOK' /\ QueuesOK'
    BY <1>2, <1>3 DEF ReceiveReply
  <1>5. ActorOK' /\ WireOK' /\ ServerOK'
    BY <1>1 DEF ReceiveReply, ActorOK, WireOK, ServerOK, actor, server
  <1>6. FlagsOK'
    BY DEF ReceiveReply, FlagsOK, actor, server
  <1> QED
    BY <1>4, <1>5, <1>6

\* Appending to one of a family of sequences.
LEMMA AppendAt ==
    ASSUME NEW S, NEW T, NEW f \in [S -> Seq(T)], NEW x \in S, NEW e \in T
    PROVE  [f EXCEPT ![x] = Append(@, e)] \in [S -> Seq(T)]
  OBVIOUS

LEMMA ReceiveWorkType == ASSUME TypeOK, ReceiveWork PROVE TypeOK'
  <1> DEFINE p == Head(to_client)
             r == Receiver(job_events[p.handle])
  <1> USE DEF TypeOK
  <1>1. p \in Packets /\ to_client' \in Seq(Packets) /\ p.type \in Events
    BY DEF ReceiveWork, WireOK
  <1>2. p.handle \in Handles /\ p.n \in Nat
    BY <1>1 DEF Packets
  <1>3. /\ r \in Requests \cup {NoRequest}
        /\ \A terminal : Deliver(job_events[p.handle], terminal) \in SubsOf(Requests \cup {NoRequest})
    BY <1>2, SubsType DEF QueuesOK
  <1>4. QueuesOK'
    <2>1. job_events' = [job_events EXCEPT ![p.handle] = Deliver(@, p.type \in Terminal)]
          /\ UNCHANGED <<cmd_rx, pending_replies>>
      BY DEF ReceiveWork
    <2> HIDE DEF p
    <2> QED
      BY <1>2, <1>3, <2>1 DEF QueuesOK
  <1>5. CallsOK'
    <2>1. delivered' \in {delivered, [delivered EXCEPT
                              ![r] = Append(@, [handle |-> p.handle, n |-> p.n])]}
          /\ (delivered' = delivered \/ r # NoRequest) /\ UNCHANGED <<caller, outcome, stream>>
      BY DEF ReceiveWork
    <2>2. [handle |-> p.handle, n |-> p.n] \in [handle : Handles, n : Nat]
      BY <1>2
    <2>3. r # NoRequest => [delivered EXCEPT ![r] = Append(@, [handle |-> p.handle, n |-> p.n])]
                             \in [Requests -> Seq([handle : Handles, n : Nat])]
      <3> DEFINE T == [handle : Handles, n : Nat]
                 e == [handle |-> p.handle, n |-> p.n]
      <3>1. delivered \in [Requests -> Seq(T)] /\ e \in T
        BY <2>2 DEF CallsOK
      <3> HIDE DEF p, r, T, e
      <3>2. r # NoRequest => [delivered EXCEPT ![r] = Append(@, e)] \in [Requests -> Seq(T)]
        BY <1>3, <3>1, AppendAt
      <3> QED
        BY <3>2 DEF T, e
    <2> QED
      BY <2>1, <2>3 DEF CallsOK
  <1>6. ActorOK' /\ WireOK' /\ ServerOK'
    BY <1>1 DEF ReceiveWork, ActorOK, WireOK, ServerOK, actor, server
  <1>7. FlagsOK'
    BY DEF ReceiveWork, FlagsOK, actor, server
  <1> QED
    BY <1>4, <1>5, <1>6, <1>7

\* What the server takes from its queue is a request, unless it is the option.
LEMMA HeadType ==
    ASSUME TypeOK, wire = "up", to_server # <<>>, Head(to_server) # OptionReq
    PROVE  Head(to_server) \in Requests
  BY DEF TypeOK, WireOK

\* Packets reach the client at the end of the queue.
LEMMA PacketType ==
    ASSUME TypeOK, NEW type \in Answers \cup {"option_res"}, NEW r \in Requests \cup {NoRequest},
           NEW h \in Handles \cup {NoHandle}, type = "job_created" => h \in Handles
    PROVE  Append(to_client, Packet(type, r, h, 0)) \in Seq(Packets)
  BY DEF TypeOK, WireOK, Packet, Packets, Answers, Events, Progress, Terminal

LEMMA ReplyTypeLemma ==
    ASSUME TypeOK, NEW r \in Requests, NEW type \in Answers, NEW h \in Handles \cup {NoHandle},
           type = "job_created" => h \in Handles, Reply(r, type, h)
    PROVE  to_client' \in Seq(Packets) /\ answer' \in [Requests -> Outcomes]
  BY PacketType DEF TypeOK, ServerOK, Reply, Outcome, Outcomes

LEMMA ServeType == ASSUME TypeOK, ServeOption \/ ServeSubmit \/ ServeStatus \/ ServeError PROVE TypeOK'
  <1>1. /\ UNCHANGED <<calls, actor, queues, wire, log>>
        /\ wire = "up" /\ to_server # <<>> /\ to_server' = Tail(to_server)
    BY DEF ServeOption, ServeSubmit, ServeStatus, ServeError
  <1>2. CallsOK' /\ ActorOK' /\ QueuesOK'
    BY <1>1 DEF TypeOK, CallsOK, ActorOK, QueuesOK, calls, actor, queues
  <1>3. to_server' \in Seq(Requests \cup {OptionReq}) /\ wire' = "up"
    BY <1>1 DEF TypeOK, WireOK
  <1>4. CASE ServeOption
    <2>1. WireOK'
      BY <1>3, <1>4, PacketType DEF ServeOption, WireOK, Answers
    <2>2. ServerOK'
      BY <1>4 DEF ServeOption, TypeOK, ServerOK
    <2>3. FlagsOK'
      BY <1>4 DEF ServeOption, TypeOK, FlagsOK, calls, actor
    <2> QED
      BY <1>2, <2>1, <2>2, <2>3 DEF TypeOK
  <1>5. ASSUME ServeSubmit \/ ServeStatus \/ ServeError
        PROVE  TypeOK'
    <2> DEFINE r == Head(to_server)
    <2>1. r \in Requests
      BY <1>5, HeadType DEF ServeSubmit, ServeStatus, ServeError, TypeOK, WireOK, OptionReq
    <2>2. to_client' \in Seq(Packets) /\ answer' \in [Requests -> Outcomes]
      <3>1. CASE ServeError
        BY <2>1, <3>1, ReplyTypeLemma DEF ServeError, Answers
      <3>2. CASE ServeStatus
        <4>1. ReplyType(r) \in Answers /\ ReplyType(r) # "job_created"
          BY <2>1, <3>2, RequestAssumption DEF ServeStatus, ReplyType, IsSubmit, Kinds, Answers
        <4>2. About[r] \in Requests
          BY <2>1, <3>2, RequestAssumption DEF ServeStatus
        <4>3. outcome[About[r]].handle \in Handles \cup {NoHandle}
          BY <4>2 DEF TypeOK, CallsOK, Outcomes
        <4>4. Reply(r, ReplyType(r), outcome[About[r]].handle)
          BY <3>2 DEF ServeStatus
        <4> QED
          BY <2>1, <4>1, <4>3, <4>4, ReplyTypeLemma
      <3>3. CASE ServeSubmit
        <4>1. PICK h \in JobFor(r) : Reply(r, "job_created", h)
          BY <3>3 DEF ServeSubmit
        <4>2. h \in Handles
          BY <4>1 DEF JobFor
        <4> QED
          BY <2>1, <4>1, <4>2, ReplyTypeLemma DEF Answers
      <3> QED
        BY <1>5, <3>1, <3>2, <3>3
    <2>3. WireOK'
      BY <1>3, <2>2 DEF WireOK
    <2>4. ServerOK'
      <3>1. CASE ServeStatus \/ ServeError
        BY <2>2, <3>1 DEF ServeStatus, ServeError, TypeOK, ServerOK
      <3>2. CASE ServeSubmit
        <4>1. PICK h \in JobFor(r) :
                /\ job' = [job EXCEPT ![h] = "live"]
                /\ job_unique' = [job_unique EXCEPT ![h] = Unique[r]]
                /\ \/ /\ registered' = [registered EXCEPT ![h] = Append(@, r)]
                      /\ since' = [since EXCEPT ![r] = Len(log[h])]
                   \/ UNCHANGED <<registered, since>>
          BY <3>2 DEF ServeSubmit
        <4>2. h \in Handles
          BY <4>1 DEF JobFor
        <4>3. registered' \in [Handles -> Seq(Requests)]
          <5>1. registered \in [Handles -> Seq(Requests)]
            BY DEF TypeOK, ServerOK
          <5>2. [registered EXCEPT ![h] = Append(@, r)] \in [Handles -> Seq(Requests)]
            BY <2>1, <4>2, <5>1, AppendAt
          <5> QED
            BY <4>1, <5>1, <5>2
        <4>4. since' \in [Requests -> Nat]
          <5>1. since \in [Requests -> Nat] /\ log[h] \in Seq(Events)
            BY <4>2 DEF TypeOK, ServerOK
          <5>2. Len(log[h]) \in Nat
            BY <5>1
          <5> QED
            BY <4>1, <5>1, <5>2
        <4>5. job' \in [Handles -> {"unborn", "live", "done"}]
              /\ job_unique' \in [Handles -> {Unique[q] : q \in Requests} \cup {NoUnique}]
          BY <2>1, <4>1, <4>2 DEF TypeOK, ServerOK
        <4> QED
          BY <1>1, <2>2, <4>3, <4>4, <4>5 DEF TypeOK, ServerOK
      <3> QED
        BY <1>5, <3>1, <3>2
    <2>5. FlagsOK'
      BY <1>5 DEF ServeSubmit, ServeStatus, ServeError, TypeOK, FlagsOK, calls, actor
    <2> QED
      BY <1>2, <2>3, <2>4, <2>5 DEF TypeOK
  <1> QED
    BY <1>4, <1>5

LEMMA WorkType == ASSUME TypeOK, NEW h \in Handles, ServerWork(h) PROVE TypeOK'
  <1> DEFINE Copies(event) == [i \in DOMAIN registered[h] |->
                                 Packet(event, registered[h][i], h, Len(log[h]) + 1)]
  <1>1. PICK event \in ServerEmits :
          /\ log' = [log EXCEPT ![h] = Append(@, event)]
          /\ to_client' \in {to_client, to_client \o Copies(event)}
          /\ \/ job' = [job EXCEPT ![h] = "done"] /\ registered' = [registered EXCEPT ![h] = <<>>]
             \/ UNCHANGED <<job, registered>>
    BY DEF ServerWork
  <1>2. event \in Events
    BY ServerAssumption
  <1>3. UNCHANGED <<calls, actor, queues, wire, to_server, opted_in, job_unique, answer, since>>
    BY DEF ServerWork
  <1>4. registered[h] \in Seq(Requests) /\ Len(log[h]) + 1 \in Nat
    <2>1. log[h] \in Seq(Events) /\ registered[h] \in Seq(Requests)
      BY DEF TypeOK, ServerOK
    <2> QED
      BY <2>1
  <1>5. Copies(event) \in Seq(Packets)
    <2>1. ASSUME NEW i \in DOMAIN registered[h]
          PROVE  Packet(event, registered[h][i], h, Len(log[h]) + 1) \in Packets
      <3>1. registered[h][i] \in Requests
        BY <1>4
      <3> QED
        BY <1>2, <1>4, <3>1 DEF Packet, Packets
    <2>2. DOMAIN registered[h] = 1 .. Len(registered[h]) /\ Len(registered[h]) \in Nat
      BY <1>4
    <2> QED
      BY <2>1, <2>2
  <1>6. WireOK'
    <2>1. to_client \in Seq(Packets)
      BY DEF TypeOK, WireOK
    <2>2. \A s \in Seq(Packets) : to_client \o s \in Seq(Packets)
      BY <2>1
    <2>3. to_client' \in Seq(Packets)
      <3>1. to_client \o Copies(event) \in Seq(Packets)
        BY <1>5, <2>2
      <3> QED
        BY <1>1, <2>1, <3>1
    <2> QED
      BY <1>3, <2>3 DEF TypeOK, WireOK
  <1>7. ServerOK'
    <2>1. log' \in [Handles -> Seq(Events)]
      BY <1>1, <1>2, AppendAt DEF TypeOK, ServerOK
    <2>2. job' \in [Handles -> {"unborn", "live", "done"}]
          /\ registered' \in [Handles -> Seq(Requests)]
      <3>1. job \in [Handles -> {"unborn", "live", "done"}]
            /\ registered \in [Handles -> Seq(Requests)]
        BY DEF TypeOK, ServerOK
      <3>2. [registered EXCEPT ![h] = <<>>] \in [Handles -> Seq(Requests)]
        BY <3>1
      <3> QED
        BY <1>1, <3>1, <3>2
    <2> QED
      BY <1>3, <2>1, <2>2 DEF TypeOK, ServerOK
  <1>8. CallsOK' /\ ActorOK' /\ QueuesOK'
    BY <1>3 DEF TypeOK, CallsOK, ActorOK, QueuesOK, calls, actor, queues
  <1>9. FlagsOK'
    BY <1>3 DEF TypeOK, FlagsOK, calls, actor
  <1> QED
    BY <1>6, <1>7, <1>8, <1>9 DEF TypeOK

LEMMA EnvironmentType ==
    ASSUME TypeOK, Break \/ \E h \in Handles : OtherClientSubmits(h)
    PROVE  TypeOK'
  <1>1. CASE Break
    <2>1. /\ UNCHANGED <<calls, actor, queues, to_client, job, job_unique, log, answer, since>>
          /\ wire' = "closed" /\ to_server' = <<>> /\ registered' = [h \in Handles |-> <<>>]
      BY <1>1 DEF Break, ServerForgets
    <2>2. CallsOK' /\ ActorOK' /\ QueuesOK'
      BY <2>1 DEF TypeOK, CallsOK, ActorOK, QueuesOK, calls, actor, queues
    <2>3. WireOK'
      BY <2>1 DEF TypeOK, WireOK
    <2>4. ServerOK'
      BY <2>1 DEF TypeOK, ServerOK
    <2>5. FlagsOK'
      BY <1>1 DEF Break, ServerForgets, TypeOK, FlagsOK, calls, actor
    <2> QED
      BY <2>2, <2>3, <2>4, <2>5 DEF TypeOK
  <1>2. ASSUME NEW h \in Handles, OtherClientSubmits(h) PROVE TypeOK'
    <2>1. /\ UNCHANGED <<calls, actor, queues, wire, to_server, to_client, log, registered,
                         answer, since>>
          /\ job' = [job EXCEPT ![h] = "live"]
      BY <1>2 DEF OtherClientSubmits
    <2>2. PICK u \in Uniques : job_unique' = [job_unique EXCEPT ![h] = u]
      BY <1>2 DEF OtherClientSubmits
    <2>3. u \in {Unique[r] : r \in Requests}
      BY <2>2 DEF Uniques
    <2>4. CallsOK' /\ ActorOK' /\ QueuesOK' /\ WireOK'
      BY <2>1 DEF TypeOK, CallsOK, ActorOK, QueuesOK, WireOK, calls, actor, queues
    <2>5. ServerOK'
      BY <2>1, <2>2, <2>3 DEF TypeOK, ServerOK
    <2>6. FlagsOK'
      BY <1>2 DEF OtherClientSubmits, TypeOK, FlagsOK, calls, actor
    <2> QED
      BY <2>4, <2>5, <2>6 DEF TypeOK
  <1> QED
    BY <1>1, <1>2

LEMMA StutterType == ASSUME TypeOK, UNCHANGED vars PROVE TypeOK'
  <1>1. CallsOK' /\ ActorOK' /\ QueuesOK' /\ WireOK' /\ ServerOK'
    BY DEF TypeOK, CallsOK, ActorOK, QueuesOK, WireOK, ServerOK, vars, calls, actor, queues, server
  <1>2. FlagsOK'
    BY DEF TypeOK, FlagsOK, vars, calls, actor, server
  <1> QED
    BY <1>1, <1>2 DEF TypeOK

\* Every variable always holds a value of its kind, however many requests,
\* handles and events there are.
THEOREM TypeCorrect == Spec => []TypeOK
  <1>1. Init => TypeOK
    BY InitType
  <1>2. TypeOK /\ [Next]_vars => TypeOK'
    BY CallersType, ReconnectingType, SendType, LeavingType, PruneType, ReceiveReplyType,
       ReceiveWorkType, ServeType, WorkType, EnvironmentType, StutterType
       DEF Next, ActorLoop, Server
  <1> QED
    BY <1>1, <1>2, PTL DEF Spec

-----------------------------------------------------------------------------
(***************************************************************************)
(* Every call gets its own answer, and none is forgotten: WaitingIsOwned   *)
(* and ReplyAttribution are invariants of ClientActor.                     *)
(*                                                                         *)
(* The argument: replies carry no request id, so the actor's attribution   *)
(* is right because the pending requests line up with what is under way.   *)
(* Read from the oldest, the pending requests are those whose reply is     *)
(* under way, in the order of these replies, then those in the server's    *)
(* queue (Aligned).  A popped request is thus the one the reply at the     *)
(* head is for.                                                            *)
(***************************************************************************)

-----------------------------------------------------------------------------
(* Sequences without repetition.                                           *)

LEMMA AppendElems ==
    ASSUME NEW S, NEW s \in Seq(S), NEW x \in S
    PROVE  /\ Elems(Append(s, x)) = Elems(s) \cup {x}
           /\ Distinct(s) /\ x \notin Elems(s) => Distinct(Append(s, x))
  <1> DEFINE t == Append(s, x)
  <1>1. /\ DOMAIN s = 1 .. Len(s) /\ Len(s) \in Nat
        /\ DOMAIN t = 1 .. Len(s) + 1
        /\ \A i \in 1 .. Len(s) : t[i] = s[i]
        /\ t[Len(s) + 1] = x
    OBVIOUS
  <1> HIDE DEF t
  <1>2. Elems(t) = Elems(s) \cup {x}
    BY <1>1 DEF Elems
  <1>3. ASSUME Distinct(s), x \notin Elems(s), NEW i \in DOMAIN t, NEW j \in DOMAIN t, t[i] = t[j]
        PROVE  i = j
    BY <1>1, <1>3 DEF Elems, Distinct
  <1> QED
    BY <1>2, <1>3 DEF Distinct, t

LEMMA TailElems ==
    ASSUME NEW S, NEW s \in Seq(S), s # <<>>
    PROVE  /\ Head(s) \in S /\ Tail(s) \in Seq(S)
           /\ Elems(s) = {Head(s)} \cup Elems(Tail(s))
           /\ Distinct(s) => Distinct(Tail(s)) /\ Head(s) \notin Elems(Tail(s))
  <1>1. /\ Head(s) = s[1] /\ Tail(s) \in Seq(S) /\ Len(Tail(s)) = Len(s) - 1
        /\ Len(s) \in Nat \ {0}
        /\ \A i \in 1 .. Len(s) - 1 : Tail(s)[i] = s[i + 1]
    OBVIOUS
  <1>2. Elems(s) = {Head(s)} \cup Elems(Tail(s))
    <2>1. ASSUME NEW i \in DOMAIN s PROVE s[i] \in {Head(s)} \cup Elems(Tail(s))
      <3>1. CASE i = 1
        BY <1>1, <3>1
      <3>2. CASE i # 1
        <4>1. i - 1 \in DOMAIN Tail(s) /\ Tail(s)[i - 1] = s[i]
          BY <1>1, <3>2
        <4> QED
          BY <4>1 DEF Elems
      <3> QED
        BY <3>1, <3>2
    <2>2. ASSUME NEW i \in DOMAIN Tail(s) PROVE Tail(s)[i] \in Elems(s)
      <3>1. i + 1 \in DOMAIN s /\ Tail(s)[i] = s[i + 1]
        BY <1>1
      <3> QED
        BY <3>1 DEF Elems
    <2>3. Head(s) \in Elems(s)
      BY <1>1 DEF Elems
    <2> QED
      BY <2>1, <2>2, <2>3 DEF Elems
  <1>3. ASSUME Distinct(s) PROVE Distinct(Tail(s)) /\ Head(s) \notin Elems(Tail(s))
    BY <1>1, <1>3 DEF Distinct, Elems
  <1> QED
    BY <1>1, <1>2, <1>3

LEMMA ConcatElems ==
    ASSUME NEW S, NEW T, NEW s \in Seq(S), NEW t \in Seq(T)
    PROVE  /\ DOMAIN (s \o t) = 1 .. Len(s) + Len(t)
           /\ \A i \in 1 .. Len(s) : (s \o t)[i] = s[i]
           /\ \A i \in 1 .. Len(s) + Len(t) : i > Len(s) => (s \o t)[i] = t[i - Len(s)]
  <1>1. s \in Seq(S \cup T) /\ t \in Seq(S \cup T)
    OBVIOUS
  <1> QED
    BY <1>1

-----------------------------------------------------------------------------
(* Every waiting call is owned.                                            *)

LEMMA OwnedStep ==
    ASSUME TypeOK, WaitingIsOwned, QueuesHoldOpenCalls, Next
    PROVE  WaitingIsOwned' /\ QueuesHoldOpenCalls'
  <1> USE DEF WaitingIsOwned, QueuesHoldOpenCalls
  <1>0. cmd_rx \in Seq(Requests) /\ pending_replies \in Seq(Requests)
        /\ caller \in [Requests -> {"idle", "waiting", "done", "cancelled"}]
    BY DEF TypeOK, QueuesOK, CallsOK
  <1>1. ASSUME NEW r \in Requests, Submit(r) \/ GetStatus(r)
        PROVE  WaitingIsOwned' /\ QueuesHoldOpenCalls'
    <2>1. caller[r] = "idle" /\ UNCHANGED <<pending_replies, pc>>
      BY <1>1 DEF Submit, GetStatus, actor
    <2>2. CASE caller' = [caller EXCEPT ![r] = "done"] /\ UNCHANGED cmd_rx
      BY <1>0, <2>1, <2>2
    <2>3. CASE caller' = [caller EXCEPT ![r] = "waiting"] /\ cmd_rx' = Append(cmd_rx, r)
      BY <1>0, <2>1, <2>3, AppendElems
    <2> QED
      BY <1>1, <2>2, <2>3 DEF Submit, GetStatus, Asks, ReturnsAtOnce
  <1>2. ASSUME NEW r \in Requests, Cancel(r)
        PROVE  WaitingIsOwned' /\ QueuesHoldOpenCalls'
    BY <1>0, <1>2 DEF Cancel, queues, actor
  <1>3. CASE SendCommand
    <2>1. /\ cmd_rx # <<>> /\ cmd_rx' = Tail(cmd_rx) /\ pc = "actor_loop"
          /\ pending_replies' = Append(pending_replies, Head(cmd_rx))
          /\ UNCHANGED <<caller, pc>>
      BY <1>3 DEF SendCommand, calls, actor
    <2> QED
      BY <1>0, <2>1, AppendElems, TailElems
  <1>4. ASSUME NEW next, NEW refused, LeaveLoop(next, refused), next # "actor_loop",
               \/ refused = {} /\ cmd_rx' = cmd_rx
               \/ cmd_rx # <<>> /\ refused = {Head(cmd_rx)} /\ cmd_rx' = Tail(cmd_rx)
        PROVE  WaitingIsOwned' /\ QueuesHoldOpenCalls'
    <2>1. /\ pending_replies' = <<>> /\ pc' # "actor_loop"
          /\ caller' = [r \in Requests |->
                IF r \in Elems(pending_replies) \cup refused /\ caller[r] = "waiting"
                THEN "done" ELSE caller[r]]
      BY <1>4 DEF LeaveLoop, Resolve
    <2>2. Elems(cmd_rx') \subseteq Elems(cmd_rx) /\ Distinct(cmd_rx')
          /\ Elems(cmd_rx) = Elems(cmd_rx') \cup refused /\ refused \cap Elems(cmd_rx') = {}
      <3>1. CASE refused = {} /\ cmd_rx' = cmd_rx
        BY <3>1
      <3>2. CASE cmd_rx # <<>> /\ refused = {Head(cmd_rx)} /\ cmd_rx' = Tail(cmd_rx)
        <4>1. /\ Elems(cmd_rx) = {Head(cmd_rx)} \cup Elems(Tail(cmd_rx))
              /\ Distinct(Tail(cmd_rx)) /\ Head(cmd_rx) \notin Elems(Tail(cmd_rx))
          BY <1>0, <3>2, TailElems
        <4> QED
          BY <3>2, <4>1
      <3> QED
        BY <1>4, <3>1, <3>2
    <2>3. Elems(pending_replies') = {} /\ Distinct(pending_replies')
      BY <2>1 DEF Elems, Distinct
    <2>4. Elems(cmd_rx) \subseteq Requests
      BY <1>0 DEF Elems
    <2>5. ASSUME NEW r \in Requests, caller'[r] = "waiting"
          PROVE  r \in Elems(cmd_rx')
      BY <2>1, <2>2, <2>5
    <2>6. ASSUME NEW r \in Elems(cmd_rx')
          PROVE  caller'[r] \in {"waiting", "cancelled"}
      BY <2>1, <2>2, <2>4
    <2> QED
      BY <2>1, <2>2, <2>3, <2>5, <2>6
  <1>5. CASE SendFails \/ ReceiveFails \/ ClientGone
    BY <1>4, <1>5 DEF SendFails, ReceiveFails, ClientGone
  <1>6. CASE ReceiveReply
    <2>1. UNCHANGED <<cmd_rx, pc>> /\ pc = "actor_loop"
      BY <1>6 DEF ReceiveReply, actor
    <2>2. CASE UNCHANGED <<caller, pending_replies>>
      BY <2>1, <2>2
    <2>3. CASE /\ pending_replies # <<>> /\ pending_replies' = Tail(pending_replies)
               /\ caller' = [r \in Requests |->
                    IF r = Head(pending_replies) /\ caller[r] = "waiting"
                    THEN "done" ELSE caller[r]]
      <3> DEFINE q == Head(pending_replies)
      <3>1. /\ q \in Requests
            /\ Elems(pending_replies) = {q} \cup Elems(pending_replies')
            /\ Distinct(pending_replies') /\ q \notin Elems(pending_replies')
        BY <1>0, <2>3, TailElems
      <3>2. /\ Elems(cmd_rx) \subseteq Requests /\ Elems(pending_replies) \subseteq Requests
            /\ Elems(cmd_rx') = Elems(cmd_rx) /\ Distinct(cmd_rx')
        BY <1>0, <2>1 DEF Elems
      <3>3. caller' = [r \in Requests |-> IF r = q /\ caller[r] = "waiting"
                                          THEN "done" ELSE caller[r]]
        BY <2>3
      <3> HIDE DEF q
      <3>4. ASSUME NEW r \in Requests, caller'[r] = "waiting"
            PROVE  r \in Elems(cmd_rx') \cup Elems(pending_replies')
        BY <3>1, <3>2, <3>3, <3>4
      <3>5. ASSUME NEW r \in Elems(cmd_rx') \cup Elems(pending_replies')
            PROVE  caller'[r] \in {"waiting", "cancelled"}
        BY <3>1, <3>2, <3>3
      <3> QED
        BY <2>1, <3>1, <3>2, <3>4, <3>5
    <2> QED
      BY <1>6, <2>2, <2>3 DEF ReceiveReply, Resolve
  <1>7. ASSUME UNCHANGED <<caller, cmd_rx, pending_replies>>,
               pc = "actor_loop" => pc' = "actor_loop"
        PROVE  WaitingIsOwned' /\ QueuesHoldOpenCalls'
    BY <1>7
  <1>8. CASE \/ \E r \in Requests : DropStream(r)
             \/ DropClient \/ ReceiveWork \/ PruneTick
    BY <1>7, <1>8 DEF DropStream, DropClient, ReceiveWork, PruneTick, calls, queues, actor
  <1>9. CASE Reconnecting
    BY <1>7, <1>9 DEF Reconnecting, Connect, ConnectFails, Negotiate, NegotiateFails,
                      MarkDisconnected, Wake, BecomeReady, calls, queues
  <1>10. CASE Server
    BY <1>7, <1>10 DEF Server, ServeOption, ServeSubmit, ServeStatus, ServeError, ServerWork,
                       OtherClientSubmits, Break, calls, queues, actor
  <1> QED
    BY <1>1, <1>2, <1>3, <1>5, <1>6, <1>8, <1>9, <1>10 DEF Next, Callers, ActorLoop

-----------------------------------------------------------------------------
(* What the connection holds in each phase.                                *)

\* An event of a job without registrations sends nothing.
LEMMA NoCopies ==
    ASSUME TypeOK, NEW h \in Handles, ServerWork(h), registered[h] = <<>>
    PROVE  to_client' = to_client
  <1>1. PICK event : to_client' \in {to_client, to_client \o [i \in DOMAIN registered[h] |->
                                       Packet(event, registered[h][i], h, Len(log[h]) + 1)]}
    BY DEF ServerWork
  <1>2. DOMAIN registered[h] = {}
    BY DEF TypeOK, ServerOK
  <1>3. [i \in DOMAIN registered[h] |-> Packet(event, registered[h][i], h, Len(log[h]) + 1)] = <<>>
    BY <1>2
  <1>4. to_client \in Seq(Packets)
    BY DEF TypeOK, WireOK
  <1>5. to_client \o <<>> = to_client
    BY <1>4
  <1> QED
    BY <1>1, <1>3, <1>5

LEMMA PhasesStep == ASSUME TypeOK, Phases, Next PROVE Phases'
  <1> USE DEF Phases
  <1>0. to_server \in Seq(Requests \cup {OptionReq}) /\ to_client \in Seq(Packets)
        /\ registered \in [Handles -> Seq(Requests)]
    BY DEF TypeOK, WireOK, ServerOK
  <1>1. CASE Callers \/ PruneTick
    BY <1>1 DEF Callers, Submit, GetStatus, Cancel, DropStream, DropClient, PruneTick, actor, server
  <1>2. CASE SendCommand
    BY <1>2 DEF SendCommand, actor, server
  <1>3. CASE SendFails \/ ReceiveFails \/ ClientGone
    BY <1>3 DEF SendFails, ReceiveFails, ClientGone, LeaveLoop, server
  <1>4. CASE ReceiveReply \/ ReceiveWork
    BY <1>4 DEF ReceiveReply, ReceiveWork, actor, server, Phases
  <1>5. CASE Connect
    BY <1>5 DEF Connect, BecomeReady, server
  <1>6. CASE ConnectFails \/ Negotiate \/ Wake
    BY <1>6 DEF ConnectFails, Negotiate, Wake, BecomeReady, server
  <1>7. CASE NegotiateFails \/ MarkDisconnected
    BY <1>7 DEF NegotiateFails, MarkDisconnected, CloseWire, ServerForgets
  <1>8. CASE ServeOption
    <2>1. wire = "up" /\ UNCHANGED <<wire, pc, registered>> /\ to_server' = Tail(to_server)
      BY <1>8 DEF ServeOption, actor
    <2>2. PICK p : to_client' = Append(to_client, p)
      BY <1>8 DEF ServeOption
    <2>3. pc = "negotiating" => to_server' = <<>> /\ Len(to_client') <= 1
      <3>1. ASSUME pc = "negotiating", to_server = <<OptionReq>>, to_client = <<>>
            PROVE  to_server' = <<>> /\ Len(to_client') <= 1
        BY <2>1, <2>2, <3>1
      <3>2. to_server # <<>>
        BY <1>8 DEF ServeOption
      <3> QED
        BY <3>1, <3>2
    <2> QED
      BY <2>1, <2>3
  <1>9. CASE ServeSubmit \/ ServeStatus \/ ServeError
    <2>1. /\ wire = "up" /\ UNCHANGED <<wire, pc>>
          /\ to_server # <<>> /\ Head(to_server) # OptionReq
      BY <1>9 DEF ServeSubmit, ServeStatus, ServeError, actor
    <2>2. pc # "negotiating"
      BY <2>1
    <2> QED
      BY <2>1, <2>2
  <1>10. ASSUME NEW h \in Handles, ServerWork(h) PROVE Phases'
    <2>1. UNCHANGED <<wire, pc, to_server>>
      BY <1>10 DEF ServerWork, actor
    <2>2. registered' = registered \/ registered' = [registered EXCEPT ![h] = <<>>]
      BY <1>10 DEF ServerWork
    <2>3. registered[h] = <<>> => to_client' = to_client
      BY <1>10, NoCopies
    <2> QED
      BY <1>0, <2>1, <2>2, <2>3
  <1>11. CASE Break
    BY <1>11 DEF Break, ServerForgets, actor
  <1>12. ASSUME NEW h \in Handles, OtherClientSubmits(h) PROVE Phases'
    BY <1>12 DEF OtherClientSubmits, actor
  <1> QED
    BY <1>1, <1>2, <1>3, <1>4, <1>5, <1>6, <1>7, <1>8, <1>9, <1>10, <1>11, <1>12
       DEF Next, ActorLoop, Reconnecting, Server

-----------------------------------------------------------------------------
(* The reply at the head is the oldest pending request's.                  *)

LEMMA HeadReply ==
    ASSUME TypeOK, Phases, Aligned, Distinct(pending_replies), pc = "actor_loop",
           to_client # <<>>, Head(to_client).type \notin Events
    PROVE  LET p == Head(to_client)
               r == Head(pending_replies)
           IN  /\ pending_replies # <<>> /\ r \in Requests /\ p.req = r
               /\ p.type \in {ReplyType(r), "error"}
               /\ answer[r] = Outcome(p.type, p.handle)
               /\ r \notin Elems(to_server)
  <1>1. /\ to_client \in Seq(Packets) /\ 1 \in DOMAIN to_client /\ Head(to_client) = to_client[1]
        /\ pending_replies \in Seq(Requests)
        /\ to_server \in Seq(Requests \cup {OptionReq})
        /\ wire \in {"down", "up", "closed"}
    BY DEF TypeOK, WireOK, QueuesOK
  <1>2. UnservedArePending /\ RepliesArePending /\ RepliesInOrder
    BY DEF Aligned
  <1>3. PICK k \in DOMAIN pending_replies :
           /\ to_client[1].req = pending_replies[k]
           /\ wire = "up" => k <= Len(pending_replies) - Len(to_server)
    BY <1>1, <1>2 DEF RepliesArePending
  <1>4. k = 1
    <2>1. IsReply(1, pending_replies[k])
      BY <1>1, <1>3 DEF IsReply
    <2>2. ~ \E j \in 1 .. 1 - 1 : IsReply(j, pending_replies[k - 1])
      OBVIOUS
    <2>3. k \in Nat \ {0}
      BY <1>1
    <2> QED
      BY <1>1, <1>2, <2>1, <2>2, <2>3 DEF RepliesInOrder
  <1>5. pending_replies # <<>> /\ Head(pending_replies) = pending_replies[1]
        /\ Head(pending_replies) \in Requests
    BY <1>1, <1>4
  <1>6. Head(pending_replies) \notin Elems(to_server)
    <2> SUFFICES ASSUME NEW i \in DOMAIN to_server, to_server[i] = pending_replies[1]
                 PROVE  FALSE
      BY <1>5 DEF Elems
    <2>1. CASE wire = "up"
      <3> DEFINE served == Len(pending_replies) - Len(to_server)
      <3>1. served \in Nat /\ served >= 1 /\ i \in Nat \ {0} /\ i <= Len(to_server)
        BY <1>1, <1>2, <1>3, <1>4, <2>1 DEF UnservedArePending
      <3>2. to_server[i] = pending_replies[served + i]
        BY <1>2, <2>1 DEF UnservedArePending
      <3>3. served + i \in DOMAIN pending_replies /\ served + i # 1
        BY <1>1, <3>1
      <3> QED
        BY <1>3, <1>4, <3>2, <3>3 DEF Distinct
    <2>2. CASE wire # "up"
      BY <1>1, <2>2 DEF Phases
    <2> QED
      BY <2>1, <2>2
  <1>7. /\ to_client[1].type \in {ReplyType(to_client[1].req), "error"}
        /\ answer[to_client[1].req] = Outcome(to_client[1].type, to_client[1].handle)
    BY <1>1, <1>2 DEF RepliesArePending
  <1> QED
    BY <1>1, <1>3, <1>4, <1>5, <1>6, <1>7

\* The outcomes of a loop that ends say nothing of the server's answers.
LEMMA LossOutcome ==
    ASSUME TypeOK, NEW next, NEW refused, LeaveLoop(next, refused)
    PROVE  \A r \in Requests :
             \/ outcome'[r] = outcome[r] /\ caller'[r] = caller[r]
             \/ outcome'[r].result \notin Answers /\ caller'[r] = "done"
  BY DEF LeaveLoop, Resolve, Closed, Outcome, Answers

\* What reading a reply does to the outcomes.
LEMMA ReplyOutcome ==
    ASSUME TypeOK, Phases, Aligned, WaitingIsOwned, ReceiveReply
    PROVE  LET r == Head(pending_replies)
           IN  /\ r \in Requests /\ r \notin Elems(to_server) /\ pending_replies # <<>>
               /\ pending_replies' = Tail(pending_replies)
               /\ \A q \in Requests \ {r} : outcome'[q] = outcome[q] /\ caller'[q] = caller[q]
               /\ \/ outcome'[r] = outcome[r] /\ caller'[r] = caller[r]
                  \/ /\ outcome'[r] = answer[r] /\ caller'[r] = "done"
                     /\ answer[r].result \in {ReplyType(r), "error"}
  <1> DEFINE p == Head(to_client)
             r == Head(pending_replies)
  <1>1. /\ pending_replies # <<>> /\ r \in Requests /\ p.req = r
        /\ p.type \in {ReplyType(r), "error"}
        /\ answer[r] = Outcome(p.type, p.handle)
        /\ r \notin Elems(to_server)
    BY HeadReply DEF ReceiveReply, WaitingIsOwned
  <1>2. p.type \in Answers
    BY <1>1, RequestAssumption DEF ReplyType, IsSubmit, Kinds, Answers
  <1>3. /\ pending_replies' = Tail(pending_replies)
        /\ Resolve([q \in {r} |-> IF p.type \in {ReplyType(r), "error"}
                                  THEN Outcome(p.type, p.handle) ELSE Closed])
    BY <1>1, <1>2 DEF ReceiveReply
  <1>4. /\ caller' = [q \in Requests |-> IF q = r /\ caller[q] = "waiting"
                                        THEN "done" ELSE caller[q]]
        /\ outcome' = [q \in Requests |-> IF q = r /\ caller[q] = "waiting"
                                        THEN Outcome(p.type, p.handle) ELSE outcome[q]]
    <2> HIDE DEF p, r
    <2> QED
      BY <1>1, <1>3 DEF Resolve
  <1>5. answer[r].result = p.type
    BY <1>1 DEF Outcome
  <1> HIDE DEF p, r
  <1>6. /\ \A q \in Requests \ {r} : outcome'[q] = outcome[q] /\ caller'[q] = caller[q]
        /\ \/ outcome'[r] = outcome[r] /\ caller'[r] = caller[r]
           \/ outcome'[r] = answer[r] /\ caller'[r] = "done"
    BY <1>1, <1>4
  <1> QED
    BY <1>1, <1>3, <1>5, <1>6 DEF r

LEMMA NoOutcomeStep ==
    ASSUME TypeOK, WaitingIsOwned, QueuesHoldOpenCalls, NoOutcomeYet, Phases, Aligned, Next
    PROVE  NoOutcomeYet'
  <1> USE DEF NoOutcomeYet
  <1>0. to_server \in Seq(Requests \cup {OptionReq}) /\ cmd_rx \in Seq(Requests)
        /\ caller \in [Requests -> {"idle", "waiting", "done", "cancelled"}]
        /\ outcome \in [Requests -> Outcomes]
    BY DEF TypeOK, WireOK, QueuesOK, CallsOK
  <1>1. ASSUME NEW r \in Requests, Submit(r) \/ GetStatus(r) PROVE NoOutcomeYet'
    <2>1. UNCHANGED to_server /\ caller[r] = "idle"
      BY <1>1 DEF Submit, GetStatus
    <2>2. CASE Asks(r)
      BY <1>0, <2>1, <2>2 DEF Asks
    <2>3. ASSUME NEW result \in {"no_servers_available", "no_unique_id"}, ReturnsAtOnce(r, result)
          PROVE  NoOutcomeYet'
      <3>1. /\ caller' = [caller EXCEPT ![r] = "done"]
            /\ outcome' = [outcome EXCEPT ![r] = Outcome(result, NoHandle)]
        BY <2>3 DEF ReturnsAtOnce
      <3>2. Outcome(result, NoHandle).result \notin Answers
        BY DEF Outcome, Answers
      <3> QED
        BY <1>0, <2>1, <3>1, <3>2
    <2> QED
      BY <1>1, <2>2, <2>3 DEF Submit, GetStatus
  <1>2. ASSUME NEW r \in Requests, Cancel(r) PROVE NoOutcomeYet'
    BY <1>0, <1>2 DEF Cancel
  <1>3. CASE SendCommand
    <2> DEFINE r == Head(cmd_rx)
    <2>1. r \in Elems(cmd_rx) /\ r \in Requests
      BY <1>0, <1>3, TailElems DEF SendCommand
    <2>2. outcome[r] = NoOutcome
      BY <2>1 DEF QueuesHoldOpenCalls
    <2>3. outcome[r].result \notin Answers
      BY <2>2 DEF NoOutcome, Outcome, Answers
    <2>4. to_server' \in {to_server, Append(to_server, r)} /\ UNCHANGED <<caller, outcome>>
      BY <1>3 DEF SendCommand, calls
    <2> HIDE DEF r
    <2>5. Elems(to_server') \subseteq Elems(to_server) \cup {r}
      <3>1. r \in Requests \cup {OptionReq}
        BY <2>1
      <3>2. Elems(Append(to_server, r)) = Elems(to_server) \cup {r}
        BY <1>0, <3>1, AppendElems
      <3> QED
        BY <2>4, <3>2
    <2> QED
      BY <1>0, <2>3, <2>4, <2>5
  <1>4. CASE SendFails \/ ReceiveFails \/ ClientGone
    <2>1. \A r \in Requests :
             \/ outcome'[r] = outcome[r] /\ caller'[r] = caller[r]
             \/ outcome'[r].result \notin Answers /\ caller'[r] = "done"
      BY <1>4, LossOutcome DEF SendFails, ReceiveFails, ClientGone
    <2>2. UNCHANGED to_server
      BY <1>4 DEF SendFails, ReceiveFails, ClientGone
    <2>3. Elems(to_server) \subseteq Requests \cup {OptionReq}
      BY <1>0 DEF Elems
    <2> QED
      BY <1>0, <2>1, <2>2, <2>3
  <1>5. CASE ReceiveReply
    <2> DEFINE r == Head(pending_replies)
    <2>1. /\ r \in Requests /\ r \notin Elems(to_server)
          /\ \A q \in Requests \ {r} : outcome'[q] = outcome[q] /\ caller'[q] = caller[q]
          /\ \/ outcome'[r] = outcome[r] /\ caller'[r] = caller[r]
             \/ caller'[r] = "done"
      BY <1>5, ReplyOutcome
    <2>2. UNCHANGED to_server
      BY <1>5 DEF ReceiveReply
    <2> HIDE DEF r
    <2>3. Elems(to_server) \subseteq Requests \cup {OptionReq}
      BY <1>0 DEF Elems
    <2> QED
      BY <1>0, <2>1, <2>2, <2>3
  <1>6. ASSUME UNCHANGED <<caller, outcome>>,
               \/ to_server' \in {to_server, <<>>, <<OptionReq>>}
               \/ to_server # <<>> /\ to_server' = Tail(to_server)
        PROVE  NoOutcomeYet'
    <2>1. Elems(to_server') \subseteq Elems(to_server) \cup {OptionReq}
      <3>1. Elems(<<>>) = {} /\ Elems(<<OptionReq>>) = {OptionReq}
        BY DEF Elems
      <3>2. to_server # <<>> => Elems(Tail(to_server)) \subseteq Elems(to_server)
        BY <1>0, TailElems
      <3> QED
        BY <1>6, <3>1, <3>2
    <2> QED
      BY <1>6, <2>1
  <1>7. CASE \/ \E r \in Requests : DropStream(r)
             \/ DropClient \/ ReceiveWork \/ PruneTick
    BY <1>6, <1>7 DEF DropStream, DropClient, ReceiveWork, PruneTick, calls
  <1>8. CASE Reconnecting
    BY <1>6, <1>8 DEF Reconnecting, Connect, ConnectFails, Negotiate, NegotiateFails,
                      MarkDisconnected, Wake, CloseWire, ServerForgets, calls
  <1>9. CASE Server
    BY <1>6, <1>9 DEF Server, ServeOption, ServeSubmit, ServeStatus, ServeError, ServerWork,
                      OtherClientSubmits, Break, ServerForgets, calls
  <1> QED
    BY <1>1, <1>2, <1>3, <1>4, <1>5, <1>7, <1>8, <1>9 DEF Next, Callers, ActorLoop

LEMMA AttributionStep ==
    ASSUME TypeOK, WaitingIsOwned, NoOutcomeYet, Phases, Aligned, ReplyAttribution, Next
    PROVE  ReplyAttribution'
  <1> USE DEF ReplyAttribution
  <1>0. /\ outcome \in [Requests -> Outcomes] /\ answer \in [Requests -> Outcomes]
        /\ to_server \in Seq(Requests \cup {OptionReq})
    BY DEF TypeOK, CallsOK, ServerOK, WireOK
  <1>1. ASSUME UNCHANGED answer,
               \A r \in Requests : outcome'[r] = outcome[r] \/ outcome'[r].result \notin Answers
        PROVE  ReplyAttribution'
    BY <1>1
  <1>2. ASSUME NEW r \in Requests, Submit(r) \/ GetStatus(r) PROVE ReplyAttribution'
    <2>1. UNCHANGED answer
      BY <1>2 DEF Submit, GetStatus, server
    <2>2. \/ UNCHANGED outcome
          \/ \E result \in {"no_servers_available", "no_unique_id"} :
               outcome' = [outcome EXCEPT ![r] = Outcome(result, NoHandle)]
      BY <1>2 DEF Submit, GetStatus, Asks, ReturnsAtOnce
    <2>3. \A q \in Requests : outcome'[q] = outcome[q] \/ outcome'[q].result \notin Answers
      BY <1>0, <2>2 DEF Outcome, Answers
    <2> QED
      BY <1>1, <2>1, <2>3
  <1>3. CASE SendFails \/ ReceiveFails \/ ClientGone
    <2>1. UNCHANGED answer
      BY <1>3 DEF SendFails, ReceiveFails, ClientGone, server
    <2> QED
      BY <1>1, <1>3, <2>1, LossOutcome DEF SendFails, ReceiveFails, ClientGone
  <1>4. CASE ReceiveReply
    <2>1. UNCHANGED answer
      BY <1>4 DEF ReceiveReply, server
    <2> DEFINE r == Head(pending_replies)
    <2>2. /\ r \in Requests
          /\ \A q \in Requests \ {r} : outcome'[q] = outcome[q]
          /\ \/ outcome'[r] = outcome[r]
             \/ outcome'[r] = answer[r] /\ answer[r].result \in {ReplyType(r), "error"}
      BY <1>4, ReplyOutcome
    <2> HIDE DEF r
    <2> QED
      BY <2>1, <2>2
  <1>5. CASE ServeSubmit \/ ServeStatus \/ ServeError
    <2> DEFINE r == Head(to_server)
    <2>1. UNCHANGED outcome /\ to_server # <<>> /\ r # OptionReq
      BY <1>5 DEF ServeSubmit, ServeStatus, ServeError, calls
    <2>2. \E o : answer' = [answer EXCEPT ![r] = o]
      BY <1>5 DEF ServeSubmit, ServeStatus, ServeError, Reply
    <2>3. outcome[r].result \notin Answers
      BY <1>0, <2>1, TailElems DEF NoOutcomeYet
    <2> HIDE DEF r
    <2> QED
      BY <1>0, <2>1, <2>2, <2>3
  <1>6. ASSUME UNCHANGED <<outcome, answer>> PROVE ReplyAttribution'
    BY <1>6
  <1>7. CASE \/ \E r \in Requests : Cancel(r) \/ DropStream(r)
             \/ DropClient \/ SendCommand \/ ReceiveWork \/ PruneTick
    BY <1>6, <1>7 DEF Cancel, DropStream, DropClient, SendCommand, ReceiveWork, PruneTick, calls, server
  <1>8. CASE Reconnecting
    BY <1>6, <1>8 DEF Reconnecting, Connect, ConnectFails, Negotiate, NegotiateFails,
                      MarkDisconnected, Wake, calls, server
  <1>9. CASE ServeOption \/ Break \/ \E h \in Handles : ServerWork(h) \/ OtherClientSubmits(h)
    BY <1>6, <1>9 DEF ServeOption, Break, ServerWork, OtherClientSubmits, calls
  <1> QED
    BY <1>2, <1>3, <1>4, <1>5, <1>7, <1>8, <1>9 DEF Next, Callers, ActorLoop, Server

-----------------------------------------------------------------------------
(* The pending requests stay lined up with what is under way.              *)

USE DEF UnservedArePending, ServedHaveReplies, RepliesArePending, RepliesInOrder, IsReply

LEMMA SeqsOK ==
    ASSUME TypeOK
    PROVE  /\ to_client \in Seq(Packets) /\ pending_replies \in Seq(Requests)
           /\ to_server \in Seq(Requests \cup {OptionReq}) /\ cmd_rx \in Seq(Requests)
           /\ wire \in {"down", "up", "closed"}
  BY DEF TypeOK, WireOK, QueuesOK

\* A command sent is the last pending request and the last in the server's queue.
LEMMA AlignedSend ==
    ASSUME TypeOK, WaitingIsOwned, Phases, Aligned, SendCommand
    PROVE  Aligned'
  <1> DEFINE r == Head(cmd_rx)
             P == pending_replies
             S == to_server
  <1>1. /\ UNCHANGED <<to_client, wire, answer>> /\ pc = "actor_loop"
        /\ P' = Append(P, r)
        /\ S' = IF wire = "up" THEN Append(S, r) ELSE S
    BY DEF SendCommand, server
  <1>2. r \in Requests /\ r \notin Elems(P)
    BY SeqsOK, TailElems DEF SendCommand, WaitingIsOwned
  <1>3. /\ Len(P') = Len(P) + 1 /\ DOMAIN P' = 1 .. Len(P) + 1 /\ DOMAIN P = 1 .. Len(P)
        /\ Len(P) \in Nat
        /\ \A k \in 1 .. Len(P) : P'[k] = P[k]
        /\ P'[Len(P) + 1] = r
    BY <1>1, <1>2, SeqsOK
  <1>4. \A k \in DOMAIN P : P[k] # r
    BY <1>2 DEF Elems
  <1>5. wire = "up" => /\ Len(S') = Len(S) + 1 /\ DOMAIN S' = 1 .. Len(S) + 1
                       /\ Len(S) \in Nat /\ DOMAIN S = 1 .. Len(S)
                       /\ \A i \in 1 .. Len(S) : S'[i] = S[i]
                       /\ S'[Len(S) + 1] = r
    BY <1>1, <1>2, SeqsOK
  <1>6. UnservedArePending /\ ServedHaveReplies /\ RepliesArePending /\ RepliesInOrder
    BY <1>1 DEF Aligned
  <1> HIDE DEF r
  <1>7. UnservedArePending'
    BY <1>1, <1>3, <1>5, <1>6
  <1>8. ServedHaveReplies'
    BY SMTT(30), <1>1, <1>3, <1>5, <1>6
  <1>9. RepliesArePending'
    <2>1. ASSUME NEW i \in DOMAIN to_client, to_client[i].type \notin Events
          PROVE  \E k \in DOMAIN P' : /\ to_client[i].req = P'[k]
                                      /\ wire = "up" => k <= Len(P') - Len(S')
      <3>1. PICK k \in DOMAIN P : /\ to_client[i].req = P[k]
                                  /\ wire = "up" => k <= Len(P) - Len(S)
        BY <1>6, <2>1
      <3>2. k \in DOMAIN P' /\ P'[k] = P[k]
        BY <1>3
      <3>3. wire = "up" => Len(P') - Len(S') = Len(P) - Len(S)
        BY SMTT(30), <1>3, <1>5
      <3> QED
        BY <3>1, <3>2, <3>3
    <2> QED
      BY <1>1, <1>6, <2>1
  <1>10. RepliesInOrder'
    <2>1. ASSUME NEW i \in DOMAIN to_client, NEW k \in DOMAIN P', k > 1, IsReply(i, P'[k])
          PROVE  \E j \in 1 .. i - 1 : IsReply(j, P'[k - 1])
      <3>1. k \in DOMAIN P
        BY <1>3, <1>4, <1>6, <2>1
      <3>2. P'[k] = P[k] /\ P'[k - 1] = P[k - 1]
        BY <1>3, <2>1, <3>1
      <3> QED
        BY <1>6, <2>1, <3>1, <3>2
    <2> QED
      BY <1>1, <1>6, <2>1
  <1> QED
    BY <1>7, <1>8, <1>9, <1>10 DEF Aligned

\* An answer goes to the first request of the server's queue, which is the
\* first pending one without a reply.
LEMMA AlignedServe ==
    ASSUME TypeOK, WaitingIsOwned, Aligned, pc = "actor_loop", pc' = pc,
           wire = "up", to_server # <<>>, to_server' = Tail(to_server),
           NEW type \in {ReplyType(Head(to_server)), "error"}, type \in Answers,
           NEW h, Reply(Head(to_server), type, h),
           UNCHANGED <<wire, pending_replies>>
    PROVE  Aligned'
  <1> DEFINE r == Head(to_server)
             P == pending_replies
             S == to_server
             served == Len(P) - Len(S)
             p == Packet(type, r, h, 0)
  <1>1. UnservedArePending /\ ServedHaveReplies /\ RepliesArePending /\ RepliesInOrder
    BY DEF Aligned
  <1>2. /\ served \in Nat /\ served + 1 \in DOMAIN P /\ DOMAIN P = 1 .. Len(P) /\ Len(P) \in Nat
        /\ r = P[served + 1] /\ r \in Requests
    BY <1>1, SeqsOK
  <1>3. /\ Len(S') = Len(S) - 1 /\ DOMAIN S' = 1 .. Len(S) - 1 /\ Len(S) \in Nat
        /\ \A i \in 1 .. Len(S) - 1 : S'[i] = S[i + 1] /\ i + 1 \in DOMAIN S
        /\ Len(P) - Len(S') = served + 1
    BY SeqsOK
  <1>4. /\ to_client' = Append(to_client, p) /\ p.req = r /\ p.type = type /\ p.handle = h
        /\ answer' = [answer EXCEPT ![r] = Outcome(type, h)]
        /\ type \notin Events
    BY DEF Reply, Packet, Answers, Events, Progress, Terminal
  <1>5. /\ Len(to_client) \in Nat /\ DOMAIN to_client = 1 .. Len(to_client)
        /\ DOMAIN to_client' = 1 .. Len(to_client) + 1
        /\ \A i \in 1 .. Len(to_client) : to_client'[i] = to_client[i]
        /\ to_client'[Len(to_client) + 1] = p
    BY <1>4, SeqsOK
  <1>6. answer \in [Requests -> Outcomes]
    BY DEF TypeOK, ServerOK
  <1>7. \A k, l \in DOMAIN P : P[k] = P[l] => k = l
    BY DEF WaitingIsOwned, Distinct
  <1>8. \A i \in DOMAIN to_client : to_client[i].type \notin Events =>
           /\ to_client[i].req # r /\ to_client[i].req \in Requests
    BY <1>1, <1>2, <1>7, SeqsOK
  <1> HIDE DEF p, r
  <1>9. UnservedArePending'
    <2>1. ASSUME NEW i \in DOMAIN S' PROVE S'[i] = P[served + 1 + i]
      <3>1. S'[i] = S[i + 1] /\ i + 1 \in DOMAIN S /\ i \in Nat
        BY <1>3
      <3>2. S[i + 1] = P[served + (i + 1)]
        BY <1>1, <3>1
      <3> QED
        BY <1>2, <3>1, <3>2
    <2> QED
      BY <1>2, <1>3, <2>1
  <1>10. ServedHaveReplies'
    <2>1. ASSUME NEW k \in 1 .. served + 1
          PROVE  \E i \in DOMAIN to_client' : IsReply(i, P[k])'
      <3>1. CASE k = served + 1
        BY SMTT(30), <1>2, <1>4, <1>5, <3>1
      <3>2. CASE k # served + 1
        <4>1. k \in 1 .. served
          BY <1>2, <2>1, <3>2
        <4>2. PICK i \in DOMAIN to_client : IsReply(i, P[k])
          BY <1>1, <4>1
        <4>3. i \in DOMAIN to_client' /\ to_client'[i] = to_client[i]
          BY <1>5
        <4> QED
          BY <4>2, <4>3
      <3> QED
        BY <3>1, <3>2
    <2> QED
      BY <1>3, <2>1
  <1>11. RepliesArePending'
    <2>1. ASSUME NEW i \in DOMAIN to_client', to_client'[i].type \notin Events
          PROVE  /\ to_client'[i].type \in {ReplyType(to_client'[i].req), "error"}
                 /\ answer'[to_client'[i].req] = Outcome(to_client'[i].type, to_client'[i].handle)
                 /\ \E k \in DOMAIN P : to_client'[i].req = P[k] /\ k <= served + 1
      <3>1. CASE i = Len(to_client) + 1
        <4>1. to_client'[i] = p
          BY <1>5, <3>1
        <4>2. type \in {ReplyType(r), "error"}
          BY DEF r
        <4>3. answer'[r] = Outcome(type, h)
          BY <1>2, <1>4, <1>6
        <4>4. \E k \in DOMAIN P : r = P[k] /\ k <= served + 1
          BY <1>2
        <4>5. p.req = r /\ p.type = type /\ p.handle = h
          BY <1>4
        <4> QED
          BY <4>1, <4>2, <4>3, <4>4, <4>5
      <3>2. CASE i # Len(to_client) + 1
        <4>1. i \in DOMAIN to_client /\ to_client'[i] = to_client[i]
          BY <1>5, <3>2
        <4>2. answer'[to_client[i].req] = answer[to_client[i].req]
          BY <1>4, <1>6, <1>8, <2>1, <4>1
        <4>3. \E k \in DOMAIN P : to_client[i].req = P[k] /\ k <= served
          BY <1>1, <2>1, <4>1
        <4> QED
          BY <1>1, <1>2, <2>1, <4>1, <4>2, <4>3
      <3> QED
        BY <3>1, <3>2
    <2> QED
      BY <1>3, <2>1
  <1>12. RepliesInOrder'
    <2>1. ASSUME NEW i \in DOMAIN to_client', NEW k \in DOMAIN P, k > 1, IsReply(i, P[k])'
          PROVE  \E j \in 1 .. i - 1 : IsReply(j, P[k - 1])'
      <3>1. CASE i = Len(to_client) + 1
        <4>1. P[k] = r /\ k = served + 1
          BY <1>2, <1>4, <1>5, <1>7, <2>1, <3>1
        <4>2. k - 1 \in 1 .. served
          BY <1>2, <2>1, <4>1
        <4>3. PICK j \in DOMAIN to_client : IsReply(j, P[k - 1])
          BY <1>1, <4>2
        <4>4. j \in 1 .. i - 1 /\ to_client'[j] = to_client[j]
          BY <1>5, <3>1
        <4> QED
          BY <4>3, <4>4
      <3>2. CASE i # Len(to_client) + 1
        <4>1. i \in DOMAIN to_client /\ IsReply(i, P[k])
          BY <1>5, <2>1, <3>2
        <4>2. PICK j \in 1 .. i - 1 : IsReply(j, P[k - 1])
          BY <1>1, <2>1, <4>1
        <4>3. j \in 1 .. Len(to_client)
          BY <1>5, <4>1
        <4> QED
          BY <1>5, <4>2, <4>3
      <3> QED
        BY <3>1, <3>2
    <2>2. ASSUME NEW i \in DOMAIN to_client', NEW j \in DOMAIN to_client',
                 to_client'[i].type \notin Events, to_client'[j].type \notin Events,
                 to_client'[i].req = to_client'[j].req
          PROVE  i = j
      BY <1>1, <1>4, <1>5, <1>8, <2>2
    <2> QED
      BY <2>1, <2>2
  <1> QED
    BY <1>9, <1>10, <1>11, <1>12 DEF Aligned

\* Reading the head: the reply of the first pending request, or an event.
LEMMA AlignedReply ==
    ASSUME TypeOK, Phases, WaitingIsOwned, Aligned, ReceiveReply
    PROVE  Aligned'
  <1> DEFINE P == pending_replies
             S == to_server
             C == to_client
             served == Len(P) - Len(S)
  <1>1. /\ UNCHANGED <<S, wire, answer, pc>> /\ pc = "actor_loop"
        /\ C # <<>> /\ C' = Tail(C) /\ P' = Tail(P) /\ P # <<>>
    BY ReplyOutcome DEF ReceiveReply, actor, server
  <1>2. UnservedArePending /\ ServedHaveReplies /\ RepliesArePending /\ RepliesInOrder
    BY <1>1 DEF Aligned
  <1>3. /\ Len(C) \in Nat \ {0} /\ DOMAIN C = 1 .. Len(C) /\ DOMAIN C' = 1 .. Len(C) - 1
        /\ \A i \in 1 .. Len(C) - 1 : C'[i] = C[i + 1]
        /\ Len(P) \in Nat \ {0} /\ DOMAIN P = 1 .. Len(P) /\ DOMAIN P' = 1 .. Len(P) - 1
        /\ Len(P') = Len(P) - 1
        /\ \A k \in 1 .. Len(P) - 1 : P'[k] = P[k + 1]
        /\ Len(S) \in Nat /\ DOMAIN S = 1 .. Len(S)
    BY <1>1, SeqsOK
  <1>4. IsReply(1, P[1])
    <2>1. C[1] = Head(C) /\ P[1] = Head(P)
      BY <1>1, SeqsOK
    <2> QED
      BY <2>1, HeadReply DEF ReceiveReply, WaitingIsOwned
  <1>5. \A k, l \in DOMAIN P : P[k] = P[l] => k = l
    BY DEF WaitingIsOwned, Distinct
  <1>6. \A i \in DOMAIN C : IsReply(i, P[1]) => i = 1
    BY <1>2, <1>3, <1>4
  <1>7. ASSUME NEW k \in DOMAIN P, IsReply(1, P[k]) PROVE k = 1
    <2>1. P[k] = P[1] /\ 1 \in DOMAIN P
      BY <1>3, <1>4, <1>7
    <2> QED
      BY <1>5, <2>1
  <1>8. wire = "up" => served >= 1
    <2>1. PICK k \in DOMAIN P : /\ C[1].req = P[k]
                                /\ wire = "up" => k <= served
      BY <1>2, <1>3, <1>4
    <2> QED
      BY <1>3, <2>1
  <1>9. UnservedArePending'
    <2>1. ASSUME wire = "up", NEW i \in DOMAIN S PROVE S[i] = P'[served - 1 + i]
      <3>1. S[i] = P[served + i] /\ served + i \in DOMAIN P
        BY <1>2, <1>3, <2>1
      <3>2. served - 1 + i \in 1 .. Len(P) - 1 /\ (served - 1 + i) + 1 = served + i
        BY <1>3, <1>8, <2>1
      <3> QED
        BY <1>3, <3>1, <3>2
    <2> QED
      BY <1>1, <1>3, <1>8, <2>1
  <1>10. ServedHaveReplies'
    <2>1. ASSUME wire = "up", NEW k \in 1 .. served - 1
          PROVE  \E i \in DOMAIN C' : IsReply(i, P[k])'
      <3>1. k + 1 \in 1 .. served /\ k + 1 \in DOMAIN P /\ P'[k] = P[k + 1] /\ k + 1 # 1
        BY <1>3, <2>1
      <3>2. PICK i \in DOMAIN C : IsReply(i, P[k + 1])
        BY <1>2, <2>1, <3>1
      <3>3. i # 1
        BY <1>7, <3>1, <3>2
      <3>4. i - 1 \in DOMAIN C' /\ C'[i - 1] = C[i]
        BY <1>3, <3>3
      <3> QED
        BY <3>1, <3>2, <3>4
    <2> QED
      BY <1>1, <1>3, <2>1
  <1>11. RepliesArePending'
    <2>1. ASSUME NEW i \in DOMAIN C', C'[i].type \notin Events
          PROVE  /\ C'[i].type \in {ReplyType(C'[i].req), "error"}
                 /\ answer[C'[i].req] = Outcome(C'[i].type, C'[i].handle)
                 /\ \E k \in DOMAIN P' : /\ C'[i].req = P'[k]
                                         /\ wire = "up" => k <= served - 1
      <3>1. i + 1 \in DOMAIN C /\ C'[i] = C[i + 1] /\ i + 1 # 1
        BY <1>3
      <3>2. PICK k \in DOMAIN P : C[i + 1].req = P[k] /\ (wire = "up" => k <= served)
        BY <1>2, <2>1, <3>1
      <3>3. k # 1
        BY <1>6, <2>1, <3>1, <3>2
      <3>4. k - 1 \in DOMAIN P' /\ P'[k - 1] = P[k] /\ (wire = "up" => k - 1 <= served - 1)
        BY <1>3, <3>2, <3>3
      <3> QED
        BY <1>2, <2>1, <3>1, <3>2, <3>4
    <2> QED
      BY <1>1, <1>3, <2>1
  <1>12. RepliesInOrder'
    <2>1. ASSUME NEW i \in DOMAIN C', NEW k \in DOMAIN P', k > 1, IsReply(i, P[k])'
          PROVE  \E j \in 1 .. i - 1 : IsReply(j, P[k - 1])'
      <3>1. /\ i + 1 \in DOMAIN C /\ C'[i] = C[i + 1]
            /\ k + 1 \in DOMAIN P /\ P'[k] = P[k + 1] /\ k + 1 > 1 /\ (k + 1) - 1 = k
            /\ k - 1 \in DOMAIN P' /\ P'[k - 1] = P[k] /\ k \in DOMAIN P
        BY <1>3, <2>1
      <3>2. PICK j \in 1 .. (i + 1) - 1 : IsReply(j, P[k])
        BY <1>2, <2>1, <3>1
      <3>3. j # 1
        BY <1>7, <2>1, <3>1, <3>2
      <3>4. j - 1 \in 1 .. i - 1 /\ C'[j - 1] = C[j]
        BY <1>3, <3>2, <3>3
      <3> QED
        BY <3>1, <3>2, <3>4
    <2>2. ASSUME NEW i \in DOMAIN C', NEW j \in DOMAIN C',
                 C'[i].type \notin Events, C'[j].type \notin Events, C'[i].req = C'[j].req
          PROVE  i = j
      <3>1. i + 1 \in DOMAIN C /\ C'[i] = C[i + 1] /\ j + 1 \in DOMAIN C /\ C'[j] = C[j + 1]
        BY <1>3
      <3>2. i + 1 = j + 1
        BY <1>2, <2>2, <3>1
      <3> QED
        BY <1>3, <3>2
    <2> QED
      BY <2>1, <2>2
  <1> QED
    BY <1>9, <1>10, <1>11, <1>12 DEF Aligned

LEMMA AlignedWork ==
    ASSUME TypeOK, Aligned, ReceiveWork
    PROVE  Aligned'
  <1> DEFINE P == pending_replies
             S == to_server
             C == to_client
  <1>1. /\ UNCHANGED <<P, S, wire, answer, pc>> /\ pc = "actor_loop"
        /\ C # <<>> /\ C' = Tail(C) /\ Head(C).type \in Events
    BY DEF ReceiveWork, actor, server
  <1>2. UnservedArePending /\ ServedHaveReplies /\ RepliesArePending /\ RepliesInOrder
    BY <1>1 DEF Aligned
  <1>3. /\ Len(C) \in Nat \ {0} /\ DOMAIN C = 1 .. Len(C) /\ DOMAIN C' = 1 .. Len(C) - 1
        /\ \A i \in 1 .. Len(C) - 1 : C'[i] = C[i + 1]
        /\ C[1].type \in Events
    BY <1>1, SeqsOK
  <1>4. UnservedArePending'
    BY <1>1, <1>2
  <1>5. ServedHaveReplies'
    <2>1. ASSUME wire = "up", NEW k \in 1 .. Len(P) - Len(S)
          PROVE  \E i \in DOMAIN C' : IsReply(i, P[k])'
      <3>1. PICK i \in DOMAIN C : IsReply(i, P[k])
        BY <1>2, <2>1
      <3>2. i - 1 \in DOMAIN C' /\ C'[i - 1] = C[i]
        BY <1>3, <3>1
      <3> QED
        BY <1>1, <3>1, <3>2
    <2> QED
      BY <1>1, <2>1
  <1>6. RepliesArePending'
    <2>1. \A i \in DOMAIN C' : i + 1 \in DOMAIN C /\ C'[i] = C[i + 1]
      BY <1>3
    <2> QED
      BY <1>1, <1>2, <2>1
  <1>7. RepliesInOrder'
    <2>1. ASSUME NEW i \in DOMAIN C', NEW k \in DOMAIN P, k > 1, IsReply(i, P[k])'
          PROVE  \E j \in 1 .. i - 1 : IsReply(j, P[k - 1])'
      <3>1. i + 1 \in DOMAIN C /\ C'[i] = C[i + 1]
        BY <1>3
      <3>2. PICK j \in 1 .. (i + 1) - 1 : IsReply(j, P[k - 1])
        BY <1>1, <1>2, <2>1, <3>1
      <3>3. j - 1 \in 1 .. i - 1 /\ C'[j - 1] = C[j]
        BY <1>3, <3>2
      <3> QED
        BY <1>1, <3>2, <3>3
    <2>2. ASSUME NEW i \in DOMAIN C', NEW j \in DOMAIN C',
                 C'[i].type \notin Events, C'[j].type \notin Events, C'[i].req = C'[j].req
          PROVE  i = j
      <3>1. i + 1 \in DOMAIN C /\ C'[i] = C[i + 1] /\ j + 1 \in DOMAIN C /\ C'[j] = C[j + 1]
        BY <1>3
      <3>2. i + 1 = j + 1
        BY <1>2, <2>2, <3>1
      <3> QED
        BY <1>3, <3>2
    <2> QED
      BY <1>1, <2>1, <2>2
  <1> QED
    BY <1>4, <1>5, <1>6, <1>7 DEF Aligned

\* Copies of an event behind what is under way.
LEMMA AlignedEvents ==
    ASSUME TypeOK, Aligned, NEW h \in Handles, ServerWork(h)
    PROVE  Aligned'
  <1> DEFINE C == to_client
  <1>1. UNCHANGED <<pending_replies, to_server, wire, answer, pc>>
    BY DEF ServerWork, actor, queues
  <1>2. PICK event \in ServerEmits :
           \/ C' = C
           \/ C' = C \o [i \in DOMAIN registered[h] |->
                           Packet(event, registered[h][i], h, Len(log[h]) + 1)]
    BY DEF ServerWork
  <1>3. event \in Events
    BY ServerAssumption
  <1>4. registered[h] \in Seq(Requests)
    BY DEF TypeOK, ServerOK
  <1>5. /\ DOMAIN C \subseteq DOMAIN C'
        /\ \A i \in DOMAIN C : C'[i] = C[i]
        /\ \A i \in DOMAIN C' : i \notin DOMAIN C => C'[i].type \in Events
        /\ \A i \in DOMAIN C : \A j \in 1 .. i - 1 : j \in DOMAIN C
    <2> DEFINE copies == [i \in DOMAIN registered[h] |->
                            Packet(event, registered[h][i], h, Len(log[h]) + 1)]
    <2>1. /\ DOMAIN copies = 1 .. Len(registered[h]) /\ Len(registered[h]) \in Nat
          /\ \A i \in DOMAIN copies : copies[i].type = event
      BY <1>4 DEF Packet
    <2>2. copies \in Seq({copies[i] : i \in DOMAIN copies})
          /\ Len(copies) = Len(registered[h])
      BY <2>1
    <2>3. Len(C) \in Nat /\ DOMAIN C = 1 .. Len(C)
      BY SeqsOK
    <2>4. CASE C' = C
      BY <2>3, <2>4
    <2>5. CASE C' = C \o copies
      <3> HIDE DEF copies
      <3>1. /\ DOMAIN C' = 1 .. Len(C) + Len(copies)
            /\ \A i \in 1 .. Len(C) : C'[i] = C[i]
            /\ \A i \in 1 .. Len(C) + Len(copies) : i > Len(C) => C'[i] = copies[i - Len(C)]
        <4>1. /\ DOMAIN (C \o copies) = 1 .. Len(C) + Len(copies)
              /\ \A i \in 1 .. Len(C) : (C \o copies)[i] = C[i]
              /\ \A i \in 1 .. Len(C) + Len(copies) :
                   i > Len(C) => (C \o copies)[i] = copies[i - Len(C)]
          <5>1. C \in Seq(Packets)
            BY SeqsOK
          <5>2. PICK T : copies \in Seq(T)
            BY <2>2
          <5> QED
            BY <5>1, <5>2, ConcatElems
        <4> QED
          BY <2>5, <4>1
      <3> QED
        BY SMTT(30), <1>3, <2>1, <2>2, <2>3, <3>1
    <2> QED
      BY <1>2, <2>4, <2>5
  <1> SUFFICES ASSUME pc = "actor_loop" PROVE Aligned'
    BY <1>1 DEF Aligned
  <1>6. UnservedArePending /\ ServedHaveReplies /\ RepliesArePending /\ RepliesInOrder
    BY DEF Aligned
  <1>7. UnservedArePending'
    BY <1>1, <1>6
  <1>8. ServedHaveReplies'
    BY <1>1, <1>5, <1>6
  <1>9. RepliesArePending'
    BY <1>1, <1>5, <1>6
  <1>10. RepliesInOrder'
    <2>1. ASSUME NEW i \in DOMAIN C', NEW k \in DOMAIN pending_replies, k > 1,
                 IsReply(i, pending_replies[k])'
          PROVE  \E j \in 1 .. i - 1 : IsReply(j, pending_replies[k - 1])'
      <3>1. i \in DOMAIN C /\ C'[i] = C[i]
        BY <1>5, <2>1
      <3>2. PICK j \in 1 .. i - 1 : IsReply(j, pending_replies[k - 1])
        BY <1>1, <1>6, <2>1, <3>1
      <3>3. C'[j] = C[j]
        BY <1>5, <3>1, <3>2
      <3> QED
        BY <1>1, <3>2, <3>3
    <2>2. ASSUME NEW i \in DOMAIN C', NEW j \in DOMAIN C',
                 C'[i].type \notin Events, C'[j].type \notin Events, C'[i].req = C'[j].req
          PROVE  i = j
      BY <1>5, <1>6, <2>2
    <2> QED
      BY <1>1, <2>1, <2>2
  <1> QED
    BY <1>7, <1>8, <1>9, <1>10 DEF Aligned

\* Nothing is pending and nothing under way when the loop starts.
LEMMA AlignedEmpty ==
    ASSUME pending_replies' = <<>>, to_server' = <<>>, to_client' = <<>>
    PROVE  Aligned'
  BY DEF Aligned

LEMMA AlignedStep ==
    ASSUME TypeOK, WaitingIsOwned, QueuesHoldOpenCalls, Phases, Aligned, Next
    PROVE  Aligned'
  <1>1. ASSUME UNCHANGED <<pending_replies, to_server, to_client, wire, answer, pc>>
        PROVE  Aligned'
    BY <1>1 DEF Aligned
  <1>2. CASE Callers \/ PruneTick \/ \E h \in Handles : OtherClientSubmits(h)
    BY <1>1, <1>2 DEF Callers, Submit, GetStatus, Cancel, DropStream, DropClient, PruneTick,
                      OtherClientSubmits, Asks, ReturnsAtOnce, actor, queues, server
  <1>3. ASSUME pc' # "actor_loop" PROVE Aligned'
    BY <1>3 DEF Aligned
  <1>4. CASE SendFails \/ ReceiveFails \/ ClientGone
    BY <1>3, <1>4 DEF SendFails, ReceiveFails, ClientGone, LeaveLoop
  <1>5. CASE ConnectFails \/ NegotiateFails \/ MarkDisconnected \/ Wake
    BY <1>3, <1>5 DEF ConnectFails, NegotiateFails, MarkDisconnected, Wake
  <1>6. CASE Connect
    <2>1. CASE WithExceptions
      BY <1>3, <1>6, <2>1 DEF Connect
    <2>2. CASE ~WithExceptions
      <3>1. wire = "down" /\ pc = "connecting" /\ UNCHANGED <<pending_replies, to_server, to_client>>
        BY <1>6, <2>2 DEF Connect, Phases, queues
      <3>2. pending_replies = <<>> /\ to_server = <<>> /\ to_client = <<>>
        BY <3>1 DEF Phases, QueuesHoldOpenCalls
      <3> QED
        BY <3>1, <3>2, AlignedEmpty
    <2> QED
      BY <2>1, <2>2
  <1>7. CASE Negotiate
    <2>1. /\ pc = "negotiating" /\ to_client # <<>> /\ to_client' = Tail(to_client)
          /\ UNCHANGED <<pending_replies, to_server>>
      BY <1>7 DEF Negotiate, queues
    <2>2. pending_replies = <<>> /\ to_server = <<>> /\ Len(to_client) <= 1
      BY <2>1 DEF Phases, QueuesHoldOpenCalls
    <2>3. Tail(to_client) = <<>>
      BY <2>1, <2>2, SeqsOK
    <2> QED
      BY <2>1, <2>2, <2>3, AlignedEmpty
  <1>8. CASE ServeOption
    <2>1. wire = "up" /\ to_server # <<>> /\ Head(to_server) = OptionReq /\ UNCHANGED pc
      BY <1>8 DEF ServeOption, actor
    <2>2. ASSUME pc = "actor_loop" PROVE FALSE
      <3>1. 1 \in DOMAIN to_server /\ to_server[1] = OptionReq
            /\ Len(to_server) \in Nat \ {0} /\ Len(pending_replies) \in Nat
            /\ DOMAIN pending_replies = 1 .. Len(pending_replies)
        BY <2>1, SeqsOK
      <3> DEFINE k == Len(pending_replies) - Len(to_server) + 1
      <3>2. to_server[1] = pending_replies[k] /\ k \in DOMAIN pending_replies
        BY <2>1, <2>2, <3>1 DEF Aligned
      <3> HIDE DEF k
      <3>3. pending_replies[k] \in Requests
        BY <3>2, SeqsOK
      <3> QED
        BY <3>1, <3>2, <3>3, RequestAssumption DEF OptionReq
    <2> QED
      BY <1>3, <2>1, <2>2
  <1>9. CASE ServeSubmit \/ ServeStatus \/ ServeError
    <2> DEFINE r == Head(to_server)
    <2>1. /\ wire = "up" /\ to_server # <<>> /\ to_server' = Tail(to_server) /\ r # OptionReq
          /\ UNCHANGED <<wire, pending_replies, pc>>
      BY <1>9 DEF ServeSubmit, ServeStatus, ServeError, actor, queues
    <2>2. r \in Requests
      BY <2>1, SeqsOK
    <2>3. PICK type, h : Reply(r, type, h) /\ type \in {ReplyType(r), "error"}
      <3>1. CASE ServeSubmit
        <4>1. PICK h : Reply(r, "job_created", h)
          BY <3>1 DEF ServeSubmit
        <4>2. IsSubmit(r)
          BY <3>1 DEF ServeSubmit
        <4>3. ASSUME NEW q, IsSubmit(q) PROVE ReplyType(q) = "job_created"
          BY <4>3, Zenon DEF ReplyType, IsSubmit
        <4> QED
          BY <4>1, <4>2, <4>3
      <3>2. CASE ServeStatus
        BY <3>2 DEF ServeStatus
      <3>3. CASE ServeError
        BY <3>3 DEF ServeError
      <3> QED
        BY <1>9, <3>1, <3>2, <3>3
    <2>4. type \in Answers
      BY <2>2, <2>3, RequestAssumption DEF ReplyType, IsSubmit, Kinds, Answers
    <2> QED
      BY <1>3, <2>1, <2>3, <2>4, AlignedServe
  <1>10. ASSUME NEW h \in Handles, ServerWork(h) PROVE Aligned'
    BY <1>10, AlignedEvents
  <1>11. CASE Break
    <2>1. /\ wire = "up" /\ wire' = "closed" /\ to_server' = <<>>
          /\ UNCHANGED <<pending_replies, to_client, answer, pc>>
      BY <1>11 DEF Break, ServerForgets, actor, queues
    <2> QED
      BY <2>1 DEF Aligned
  <1>12. CASE SendCommand \/ ReceiveReply \/ ReceiveWork
    BY <1>12, AlignedSend, AlignedReply, AlignedWork
  <1> QED
    BY <1>2, <1>4, <1>5, <1>6, <1>7, <1>8, <1>9, <1>10, <1>11, <1>12
       DEF Next, ActorLoop, Reconnecting, Server

-----------------------------------------------------------------------------
LEMMA AttributionInit == Init => AttributionInv
  <1> SUFFICES ASSUME Init PROVE AttributionInv
    OBVIOUS
  <1>1. Elems(<<>>) = {} /\ Distinct(<<>>)
    BY DEF Elems, Distinct
  <1>2. NoOutcome.result \notin Answers
    BY DEF NoOutcome, Outcome, Answers
  <1> QED
    BY <1>1, <1>2 DEF Init, AttributionInv, WaitingIsOwned, QueuesHoldOpenCalls, NoOutcomeYet,
                      Phases, Aligned, ReplyAttribution

LEMMA AttributionNext == TypeOK /\ AttributionInv /\ [Next]_vars => AttributionInv'
  <1> SUFFICES ASSUME TypeOK, AttributionInv, [Next]_vars PROVE AttributionInv'
    OBVIOUS
  <1>1. CASE Next
    BY <1>1, OwnedStep, NoOutcomeStep, PhasesStep, AlignedStep, AttributionStep DEF AttributionInv
  <1>2. CASE UNCHANGED vars
    BY <1>2 DEF vars, calls, actor, queues, server, AttributionInv, WaitingIsOwned,
                QueuesHoldOpenCalls, NoOutcomeYet, Phases, Aligned, ReplyAttribution
  <1> QED
    BY <1>1, <1>2

\* The pending requests line up with what is under way on the connection, at
\* all times: the inductive invariant of the two theorems below.
THEOREM PendingLineUp == Spec => []AttributionInv
  BY TypeCorrect, AttributionInit, AttributionNext, PTL DEF Spec

\* What a call returns is the server's answer to that call (handle_incoming
\* pops the oldest pending reply), or a loss, never another call's answer.
THEOREM RepliesAttributed == Spec => []ReplyAttribution
  BY PendingLineUp, PTL DEF AttributionInv

=============================================================================
