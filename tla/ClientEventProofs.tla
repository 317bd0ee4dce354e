-------------------------- MODULE ClientEventProofs --------------------------
(***************************************************************************)
(* Why every stream gets its job's events, each once and in order:         *)
(* EventsInOrder and SlotsMirrorRegistrations are invariants of            *)
(* ClientActor, for any number of subscribers, jobs and events.            *)
(*                                                                         *)
(* A copy of an event does not say whom it is for, so the argument is      *)
(* about the whole way from the server to the slots: the packets under     *)
(* way, read one after the other, lead the subscribers of a handle as they *)
(* are now to the registrations the server has.  The invariant names the   *)
(* subscribers after each of those packets (`seen`) and the events that    *)
(* all of them have had by then (`had`).  The actor takes the first of     *)
(* these views away, the server appends to the last.                       *)
(***************************************************************************)
EXTENDS ClientActorProofs

-----------------------------------------------------------------------------
(* Calls, queues and history: what needs no packet.                        *)

\* What the server has not read it reads once, and it is of a call that was made.
SentOnce ==
    /\ Distinct(to_server) /\ Elems(to_server) \cap Elems(cmd_rx) = {}
    /\ \A r \in Elems(to_server) \ {OptionReq} : caller[r] # "idle"

\* The server has not answered r, nor will it before it has read it.
Unread(r) == caller[r] = "idle" \/ r \in Elems(cmd_rx) \cup Elems(to_server)

NotAnswered == \A r \in Requests : Unread(r) => answer[r] = NoOutcome

\* Events come after the reply.
NothingYet ==
    \A r \in Requests : Unread(r) \/ r \in Elems(pending_replies) => delivered[r] = <<>>

\* Only a foreground call that was made has an open stream, and cancelling it closes
\* the stream.
OpenStreams ==
    \A r \in Requests :
        stream[r] = "open" => caller[r] \in {"waiting", "done"} /\ Kind[r] = "fg"

\* The log of a job that is not done has no terminal event.
TerminalIsLast ==
    \A h \in Handles : job[h] # "done" => \A i \in DOMAIN log[h] : log[h][i] \notin Terminal

\* An event under way is in its job's log, at the place it says.
EventsAreLogged ==
    \A i \in DOMAIN to_client :
        LET p == to_client[i]
        IN  p.type \in Events => p.n \in DOMAIN log[p.handle] /\ log[p.handle][p.n] = p.type

\* Subscribers exist only while the loop runs.
SubscribersAreLocal == pc # "actor_loop" => job_events = [h \in Handles |-> Default]

-----------------------------------------------------------------------------
(* The views of a handle.                                                  *)

View == [slots : Seq(Requests), cursor : Nat]

\* What a packet does to the subscribers of h.
Joins(h, p) == p.type = "job_created" /\ p.handle = h /\ Kind[p.req] = "fg"
IsEvent(h, p) == p.type \in Events /\ p.handle = h

\* Reading p leads from the view v, whose subscribers have had n events, to w
\* and m; `start` is the events before p.req was registered. A registration and
\* a terminal event come between two events, not between two copies of one.
Reads(h, p, start, v, n, w, m) ==
    IF Joins(h, p)
    THEN /\ v.cursor = 0 /\ w = Add(v, p.req)
         /\ m = start /\ (v.slots # <<>> => m = n)
    ELSE IF IsEvent(h, p)
    THEN /\ v.slots # <<>> /\ p.n = n + 1
         /\ w = Deliver(v, p.type \in Terminal)
         /\ IF p.type \in Terminal
            THEN v.cursor = 0 /\ m = n
            ELSE m = IF w.cursor = 0 THEN n + 1 ELSE n
    ELSE w = v /\ m = n

\* The packets of queue, read in order, lead from v and n to w and m. `seen` and
\* `had` name the views and the events had after each of them.
LeadsTo(queue, start, h, v, n, w, m) ==
    \E seen \in [0 .. Len(queue) -> View], had \in [0 .. Len(queue) -> Nat] :
        /\ \A i \in DOMAIN queue :
             Reads(h, queue[i], start[queue[i].req], seen[i - 1], had[i - 1], seen[i], had[i])
        /\ seen[0] = v /\ had[0] = n
        /\ seen[Len(queue)] = w /\ had[Len(queue)] = m

\* The subscribers as they are, but for slots whose stream is closed.
Masks(h, v) ==
    /\ job_events[h].cursor = v.cursor
    /\ Len(job_events[h].slots) = Len(v.slots)
    /\ \A j \in DOMAIN v.slots :
         \/ job_events[h].slots[j] = v.slots[j]
         \/ job_events[h].slots[j] = NoRequest /\ stream[v.slots[j]] # "open"

\* The subscriber in slot j of the view v has been told of its job, and has had
\* every event from its registration on; those the cursor has passed one more.
Tracks(h, v, n, j) ==
    LET r == v.slots[j]
    IN  /\ r \notin Elems(cmd_rx) \cup Elems(pending_replies) /\ caller[r] # "idle"
        /\ Kind[r] = "fg" /\ answer[r] = Outcome("job_created", h)
        /\ stream[r] = "open" =>
             /\ since[r] + Len(delivered[r]) = IF j <= v.cursor THEN n + 1 ELSE n
             /\ caller[r] = "done" /\ outcome[r] = answer[r]

\* The subscribers now.
StartsAt(h, v, n) ==
    /\ v.cursor = 0 \/ v.cursor < Len(v.slots)
    /\ Distinct(v.slots)
    /\ Masks(h, v)
    /\ \A j \in DOMAIN v.slots : Tracks(h, v, n, j)

\* The server's registrations are what the last packet leads to, unless the job
\* ended in an exception that the client did not ask for.
EndsAt(h, v, n) ==
    wire = "up" =>
        \/ "work_exception" \in Elems(log[h]) /\ ~opted_in
        \/ /\ v = [slots |-> registered[h], cursor |-> 0]
           /\ registered[h] # <<>> => n = Len(log[h])

Followed(h) ==
    \E v \in View, n \in Nat, w \in View, m \in Nat :
        /\ LeadsTo(to_client, since, h, v, n, w, m)
        /\ StartsAt(h, v, n)
        /\ EndsAt(h, w, m)

\* The inductive invariant of both theorems.
EventInv ==
    /\ SentOnce /\ NothingYet /\ NotAnswered /\ OpenStreams
    /\ TerminalIsLast /\ EventsAreLogged /\ SubscribersAreLocal
    /\ pc = "actor_loop" => \A h \in Handles : Followed(h)
    /\ EventsInOrder

-----------------------------------------------------------------------------
(* Lemmas on views.                                                        *)

\* The parts of TypeOK the lemmas below use.
LEMMA PartsOK ==
    ASSUME TypeOK
    PROVE  /\ caller \in [Requests -> {"idle", "waiting", "done", "cancelled"}]
           /\ outcome \in [Requests -> Outcomes] /\ answer \in [Requests -> Outcomes]
           /\ stream \in [Requests -> {"none", "open", "dropped"}]
           /\ delivered \in [Requests -> Seq([handle : Handles, n : Nat])]
           /\ job_events \in [Handles -> SubsOf(Requests \cup {NoRequest})]
           /\ log \in [Handles -> Seq(Events)] /\ registered \in [Handles -> Seq(Requests)]
           /\ job \in [Handles -> {"unborn", "live", "done"}]
           /\ since \in [Requests -> Nat]
           /\ Len(to_client) \in Nat /\ DOMAIN to_client = 1 .. Len(to_client)
  <1>1. CallsOK /\ QueuesOK /\ ServerOK
    BY DEF TypeOK
  <1>2. Len(to_client) \in Nat /\ DOMAIN to_client = 1 .. Len(to_client)
    BY SeqsOK
  <1>3. job_events \in [Handles -> SubsOf(Requests \cup {NoRequest})]
    BY <1>1 DEF QueuesOK, SubsOf
  <1> QED
    BY <1>1, <1>2, <1>3 DEF CallsOK, ServerOK

\* Deliver moves the cursor on, or takes the subscriber it points to out; it is
\* a view again, with the cursor on a slot.
LEMMA DeliverView ==
    ASSUME NEW v \in View, v.cursor = 0 \/ v.cursor < Len(v.slots), v.slots # <<>>
    PROVE  /\ NextSlot(v) = v.cursor + 1 /\ v.cursor + 1 \in DOMAIN v.slots
           /\ Deliver(v, FALSE) =
                [slots |-> v.slots,
                 cursor |-> IF v.cursor + 1 = Len(v.slots) THEN 0 ELSE v.cursor + 1]
           /\ v.cursor = 0 => Deliver(v, TRUE) = [slots |-> SwapRemove(v.slots, 1), cursor |-> 0]
           /\ Deliver(v, FALSE) \in View /\ Deliver(v, TRUE) \in View
  <1>1. /\ v = [slots |-> v.slots, cursor |-> v.cursor] /\ v.cursor \in Nat
        /\ v.slots \in Seq(Requests) /\ Len(v.slots) \in Nat \ {0}
        /\ DOMAIN v.slots = 1 .. Len(v.slots)
    BY DEF View
  <1>2. NextSlot(v) = v.cursor + 1 /\ v.cursor + 1 \in DOMAIN v.slots
    BY <1>1 DEF NextSlot, InBounds
  <1>3. Deliver(v, FALSE) =
                [slots |-> v.slots,
                 cursor |-> IF v.cursor + 1 = Len(v.slots) THEN 0 ELSE v.cursor + 1]
    BY <1>1, <1>2 DEF Deliver, InBounds
  <1>4. v.cursor = 0 => Deliver(v, TRUE) = [slots |-> SwapRemove(v.slots, 1), cursor |-> 0]
    BY <1>1, <1>2 DEF Deliver, InBounds
  <1>5. SwapRemove(v.slots, v.cursor + 1) \in Seq(Requests)
    BY <1>1, <1>2, SwapRemoveType
  <1>6. Deliver(v, TRUE) \in View
    BY <1>1, <1>2, <1>5 DEF Deliver, InBounds, View
  <1>7. Deliver(v, FALSE) \in View
    <2>1. (IF v.cursor + 1 = Len(v.slots) THEN 0 ELSE v.cursor + 1) \in Nat
      BY <1>1
    <2>2. \A c \in Nat : [slots |-> v.slots, cursor |-> c] \in View
      BY <1>1 DEF View
    <2> QED
      BY <1>3, <2>1, <2>2
  <1> QED
    BY <1>2, <1>3, <1>4, <1>6, <1>7

\* Removing the first of distinct elements leaves the others.
LEMMA SwapRemoveFirst ==
    ASSUME NEW S, NEW s \in Seq(S), s # <<>>, Distinct(s)
    PROVE  LET t == SwapRemove(s, 1)
           IN  /\ DOMAIN t = 1 .. Len(s) - 1 /\ Distinct(t)
               /\ \A k \in DOMAIN t : \E j \in DOMAIN s : j # 1 /\ t[k] = s[j]
  <1> DEFINE t == SwapRemove(s, 1)
  <1>1. /\ Len(s) \in Nat \ {0} /\ DOMAIN s = 1 .. Len(s) /\ DOMAIN t = 1 .. Len(s) - 1
        /\ \A k \in DOMAIN t : t[k] = IF k = 1 THEN s[Len(s)] ELSE s[k]
    BY DEF SwapRemove
  <1> HIDE DEF t
  <1>2. \A k \in DOMAIN t : \E j \in DOMAIN s : j # 1 /\ t[k] = s[j]
    BY <1>1
  <1>3. Distinct(t)
    BY <1>1 DEF Distinct
  <1> QED
    BY <1>1, <1>2, <1>3 DEF t

-----------------------------------------------------------------------------
(* Reading a queue.                                                        *)

LEMMA LeadsNowhere ==
    ASSUME NEW start, NEW h, NEW v \in View, NEW n \in Nat
    PROVE  LeadsTo(<<>>, start, h, v, n, v, n)
  <1>1. /\ [i \in 0 .. 0 |-> v] \in [0 .. 0 -> View] /\ [i \in 0 .. 0 |-> v][0] = v
        /\ [i \in 0 .. 0 |-> n] \in [0 .. 0 -> Nat] /\ [i \in 0 .. 0 |-> n][0] = n
    OBVIOUS
  <1>2. Len(<<>>) = 0 /\ DOMAIN <<>> = {}
    OBVIOUS
  <1> QED
    BY <1>1, <1>2 DEF LeadsTo

\* A queue leads on from where another one ends.
LEMMA LeadsOn ==
    ASSUME NEW S, NEW queue \in Seq(S), NEW more \in Seq(S), NEW start, NEW h,
           NEW v, NEW n, NEW w, NEW m, NEW x, NEW k,
           LeadsTo(queue, start, h, v, n, w, m), LeadsTo(more, start, h, w, m, x, k)
    PROVE  LeadsTo(queue \o more, start, h, v, n, x, k)
  <1> DEFINE L == Len(queue)
             K == Len(more)
             q == queue \o more
  <1>1. PICK seen \in [0 .. L -> View], had \in [0 .. L -> Nat] :
             /\ \A i \in DOMAIN queue : Reads(h, queue[i], start[queue[i].req],
                                             seen[i - 1], had[i - 1], seen[i], had[i])
             /\ seen[0] = v /\ had[0] = n /\ seen[L] = w /\ had[L] = m
    BY DEF LeadsTo
  <1>2. PICK seen2 \in [0 .. K -> View], had2 \in [0 .. K -> Nat] :
             /\ \A i \in DOMAIN more : Reads(h, more[i], start[more[i].req],
                                            seen2[i - 1], had2[i - 1], seen2[i], had2[i])
             /\ seen2[0] = w /\ had2[0] = m /\ seen2[K] = x /\ had2[K] = k
    BY DEF LeadsTo
  <1>3. /\ L \in Nat /\ K \in Nat /\ DOMAIN queue = 1 .. L /\ DOMAIN more = 1 .. K
        /\ Len(q) = L + K /\ DOMAIN q = 1 .. L + K
        /\ \A i \in 1 .. L : q[i] = queue[i]
        /\ \A i \in 1 .. K : q[L + i] = more[i]
    OBVIOUS
  <1>4. PICK seen3 \in [0 .. L + K -> View], had3 \in [0 .. L + K -> Nat] :
             \A i \in 0 .. L + K : /\ seen3[i] = IF i <= L THEN seen[i] ELSE seen2[i - L]
                                  /\ had3[i] = IF i <= L THEN had[i] ELSE had2[i - L]
    <2>1. [i \in 0 .. L + K |-> IF i <= L THEN seen[i] ELSE seen2[i - L]] \in [0 .. L + K -> View]
      BY <1>3
    <2>2. [i \in 0 .. L + K |-> IF i <= L THEN had[i] ELSE had2[i - L]] \in [0 .. L + K -> Nat]
      BY <1>3
    <2> QED
      BY <2>1, <2>2, Zenon
  <1> HIDE DEF L, K, q
  <1>5. \A i \in 0 .. L : seen3[i] = seen[i] /\ had3[i] = had[i]
    <2> TAKE i \in 0 .. L
    <2>1. i \in 0 .. L + K /\ i <= L
      BY <1>3
    <2> QED
      BY <1>4, <2>1
  <1>6. \A j \in 0 .. K : seen3[L + j] = seen2[j] /\ had3[L + j] = had2[j]
    <2> TAKE j \in 0 .. K
    <2>1. CASE j = 0
      <3>1. L \in 0 .. L /\ L + j = L
        BY <1>3, <2>1
      <3> QED
        BY <1>1, <1>2, <1>5, <2>1, <3>1
    <2>2. CASE j # 0
      <3>1. L + j \in 0 .. L + K /\ ~(L + j <= L) /\ (L + j) - L = j
        BY <1>3, <2>2
      <3> QED
        BY <1>4, <3>1
    <2> QED
      BY <2>1, <2>2
  <1> DEFINE R(i) == Reads(h, q[i], start[q[i].req], seen3[i - 1], had3[i - 1], seen3[i], had3[i])
  <1>7. ASSUME NEW i \in 1 .. L PROVE R(i)
    <2>1. i - 1 \in 0 .. L /\ i \in 0 .. L /\ i \in DOMAIN queue
      BY <1>3
    <2>2. /\ seen3[i - 1] = seen[i - 1] /\ had3[i - 1] = had[i - 1]
          /\ seen3[i] = seen[i] /\ had3[i] = had[i]
      BY <1>5, <2>1
    <2>3. q[i] = queue[i]
      BY <1>3
    <2> QED
      BY <1>1, <2>1, <2>2, <2>3
  <1>8. ASSUME NEW j \in 1 .. K PROVE R(L + j)
    <2>1. /\ j - 1 \in 0 .. K /\ j \in 0 .. K /\ j \in DOMAIN more
          /\ (L + j) - 1 = L + (j - 1)
      BY <1>3
    <2>2. /\ seen3[(L + j) - 1] = seen2[j - 1] /\ had3[(L + j) - 1] = had2[j - 1]
          /\ seen3[L + j] = seen2[j] /\ had3[L + j] = had2[j]
      BY <1>6, <2>1
    <2>3. q[L + j] = more[j]
      BY <1>3
    <2> QED
      BY <1>2, <2>1, <2>2, <2>3
  <1>9. \A i \in DOMAIN q : R(i)
    <2> HIDE DEF R
    <2> TAKE i \in DOMAIN q
    <2>1. i \in 1 .. L \/ (i - L \in 1 .. K /\ i = L + (i - L))
      BY SMTT(30), <1>3
    <2> QED
      BY <1>7, <1>8, <2>1
  <1>10. /\ seen3[0] = v /\ had3[0] = n
         /\ seen3[L + K] = x /\ had3[L + K] = k
    <2>1. 0 \in 0 .. L /\ K \in 0 .. K
      BY <1>3
    <2> QED
      BY <1>1, <1>2, <1>5, <1>6, <2>1
  <1> QED
    BY <1>3, <1>9, <1>10 DEF LeadsTo, q

\* The first packet leads one step, the others the rest of the way.
LEMMA LeadsFirst ==
    ASSUME NEW S, NEW queue \in Seq(S), queue # <<>>, NEW start, NEW h,
           NEW v, NEW n, NEW w, NEW m, LeadsTo(queue, start, h, v, n, w, m)
    PROVE  \E x \in View, k \in Nat :
              /\ Reads(h, Head(queue), start[Head(queue).req], v, n, x, k)
              /\ LeadsTo(Tail(queue), start, h, x, k, w, m)
  <1> DEFINE L == Len(queue)
             q == Tail(queue)
  <1>1. PICK seen \in [0 .. L -> View], had \in [0 .. L -> Nat] :
             /\ \A i \in DOMAIN queue : Reads(h, queue[i], start[queue[i].req],
                                             seen[i - 1], had[i - 1], seen[i], had[i])
             /\ seen[0] = v /\ had[0] = n /\ seen[L] = w /\ had[L] = m
    BY DEF LeadsTo
  <1>2. /\ L \in Nat \ {0} /\ DOMAIN queue = 1 .. L /\ Head(queue) = queue[1]
        /\ Len(q) = L - 1 /\ DOMAIN q = 1 .. L - 1
        /\ \A i \in 1 .. L - 1 : q[i] = queue[i + 1]
    OBVIOUS
  <1>3. PICK seen2 \in [0 .. L - 1 -> View], had2 \in [0 .. L - 1 -> Nat] :
             \A i \in 0 .. L - 1 : seen2[i] = seen[i + 1] /\ had2[i] = had[i + 1]
    <2>1. [i \in 0 .. L - 1 |-> seen[i + 1]] \in [0 .. L - 1 -> View]
      BY <1>2
    <2>2. [i \in 0 .. L - 1 |-> had[i + 1]] \in [0 .. L - 1 -> Nat]
      BY <1>2
    <2> QED
      BY <2>1, <2>2, Zenon
  <1> HIDE DEF L, q
  <1>4. ASSUME NEW i \in 1 .. L - 1
        PROVE  Reads(h, q[i], start[q[i].req], seen2[i - 1], had2[i - 1], seen2[i], had2[i])
    <2>1. /\ i + 1 \in 1 .. L /\ (i + 1) - 1 = i /\ i \in 0 .. L - 1
          /\ i - 1 \in 0 .. L - 1 /\ (i - 1) + 1 = i
      BY <1>2
    <2>a. i + 1 \in DOMAIN queue
      BY <1>2, <2>1
    <2>2. /\ seen2[i - 1] = seen[i] /\ had2[i - 1] = had[i]
          /\ seen2[i] = seen[i + 1] /\ had2[i] = had[i + 1] /\ q[i] = queue[i + 1]
      BY <1>2, <1>3, <2>1
    <2> QED
      BY <1>1, <2>1, <2>2, <2>a
  <1>5. /\ seen2[0] = seen[1] /\ had2[0] = had[1]
        /\ seen2[L - 1] = w /\ had2[L - 1] = m
    <2>1. 0 \in 0 .. L - 1 /\ L - 1 \in 0 .. L - 1 /\ (L - 1) + 1 = L /\ 0 + 1 = 1
      BY <1>2
    <2> QED
      BY <1>1, <1>3, <2>1
  <1>6. LeadsTo(q, start, h, seen[1], had[1], w, m)
    BY <1>2, <1>4, <1>5 DEF LeadsTo
  <1>7. 1 \in DOMAIN queue /\ 1 - 1 = 0 /\ seen[1] \in View /\ had[1] \in Nat
    BY <1>2
  <1>8. Reads(h, Head(queue), start[Head(queue).req], v, n, seen[1], had[1])
    BY <1>1, <1>2, <1>7
  <1> QED
    BY <1>6, <1>7, <1>8 DEF q

\* Packets that are not about h lead nowhere.
LEMMA LeadsNot ==
    ASSUME NEW S, NEW queue \in Seq(S), NEW start, NEW h, NEW v \in View, NEW n \in Nat,
           \A i \in DOMAIN queue : ~Joins(h, queue[i]) /\ ~IsEvent(h, queue[i])
    PROVE  LeadsTo(queue, start, h, v, n, v, n)
  <1> DEFINE L == Len(queue)
  <1>1. L \in Nat /\ DOMAIN queue = 1 .. L
    OBVIOUS
  <1>2. PICK seen \in [0 .. L -> View], had \in [0 .. L -> Nat] :
             \A i \in 0 .. L : seen[i] = v /\ had[i] = n
    <2>1. [i \in 0 .. L |-> v] \in [0 .. L -> View]
      OBVIOUS
    <2>2. [i \in 0 .. L |-> n] \in [0 .. L -> Nat]
      OBVIOUS
    <2> QED
      BY <2>1, <2>2, Zenon
  <1> HIDE DEF L
  <1>3. ASSUME NEW i \in DOMAIN queue
        PROVE  Reads(h, queue[i], start[queue[i].req], seen[i - 1], had[i - 1], seen[i], had[i])
    <2>1. i \in 0 .. L /\ i - 1 \in 0 .. L
      BY <1>1
    <2>2. /\ seen[i - 1] = v /\ had[i - 1] = n /\ seen[i] = v /\ had[i] = n
      BY <1>2, <2>1
    <2> QED
      BY <2>2 DEF Reads
  <1>4. seen[0] = v /\ had[0] = n /\ seen[L] = v /\ had[L] = n
    BY <1>1, <1>2
  <1> QED
    BY <1>3, <1>4 DEF LeadsTo, L

\* What the packets lead to depends on `since` only for the requests that join.
LEMMA LeadsSame ==
    ASSUME NEW S, NEW queue \in Seq(S), NEW start, NEW start2, NEW h,
           NEW v, NEW n, NEW w, NEW m, LeadsTo(queue, start, h, v, n, w, m),
           \A i \in DOMAIN queue :
               Joins(h, queue[i]) => start2[queue[i].req] = start[queue[i].req]
    PROVE  LeadsTo(queue, start2, h, v, n, w, m)
  <1>1. PICK seen \in [0 .. Len(queue) -> View], had \in [0 .. Len(queue) -> Nat] :
             /\ \A i \in DOMAIN queue : Reads(h, queue[i], start[queue[i].req],
                                             seen[i - 1], had[i - 1], seen[i], had[i])
             /\ seen[0] = v /\ had[0] = n
             /\ seen[Len(queue)] = w /\ had[Len(queue)] = m
    BY DEF LeadsTo
  <1>2. ASSUME NEW i \in DOMAIN queue
        PROVE  Reads(h, queue[i], start2[queue[i].req], seen[i - 1], had[i - 1], seen[i], had[i])
    BY <1>1 DEF Reads
  <1> QED
    BY <1>1, <1>2 DEF LeadsTo

-----------------------------------------------------------------------------
(* Steps that leave the subscribers alone.                                 *)

\* A call that is over for the queues stays over: nothing the server or the
\* actor does for it changes any more, and its stream can only close.
KeepsTracked ==
    \A r \in Requests :
        caller[r] # "idle" /\ r \notin Elems(cmd_rx) \cup Elems(pending_replies) =>
            /\ caller'[r] # "idle" /\ r \notin Elems(cmd_rx') \cup Elems(pending_replies')
            /\ answer'[r] = answer[r] /\ since'[r] = since[r]
            /\ stream'[r] = "open" => stream[r] = "open"
            /\ caller[r] = "done" => caller'[r] = "done" /\ outcome'[r] = outcome[r]

\* While the loop runs, what the server has not read is pending.
LEMMA UnservedPend ==
    ASSUME TypeOK, AttributionInv, pc = "actor_loop"
    PROVE  /\ Elems(to_server) \subseteq Elems(pending_replies)
           /\ OptionReq \notin Elems(to_server)
           /\ to_server # <<>> => Head(to_server) \in Elems(to_server)
  <1>1. /\ to_server \in Seq(Requests \cup {OptionReq}) /\ pending_replies \in Seq(Requests)
        /\ wire \in {"down", "up", "closed"}
    BY SeqsOK
  <1>2. Phases /\ UnservedArePending
    BY DEF AttributionInv, Aligned
  <1>3. CASE to_server = <<>>
    BY <1>3 DEF Elems
  <1>4. CASE to_server # <<>>
    <2>1. wire = "up"
      BY <1>1, <1>2, <1>4 DEF Phases
    <2> DEFINE served == Len(pending_replies) - Len(to_server)
    <2>2. served >= 0 /\ \A i \in DOMAIN to_server : to_server[i] = pending_replies[served + i]
      BY <1>2, <2>1 DEF UnservedArePending
    <2>3. ASSUME NEW i \in DOMAIN to_server
          PROVE  to_server[i] \in Elems(pending_replies) /\ to_server[i] \in Requests
      <3>1. served + i \in DOMAIN pending_replies
        BY <1>1, <2>2
      <3> QED
        BY <1>1, <2>2, <3>1 DEF Elems
    <2>4. 1 \in DOMAIN to_server /\ Head(to_server) = to_server[1]
      BY <1>1, <1>4
    <2> QED
      BY <2>3, <2>4, RequestAssumption DEF Elems, OptionReq
  <1> QED
    BY <1>3, <1>4

LEMMA TrackedStep ==
    ASSUME TypeOK, AttributionInv, Next, pc = "actor_loop", pc' = "actor_loop"
    PROVE  KeepsTracked
  <1> USE DEF KeepsTracked
  <1>0. /\ cmd_rx \in Seq(Requests) /\ pending_replies \in Seq(Requests)
        /\ to_client \in Seq(Packets)
    BY SeqsOK
  <1>1. ASSUME NEW r \in Requests, Submit(r) \/ GetStatus(r) PROVE KeepsTracked
    <2>1. caller[r] = "idle" /\ UNCHANGED <<pending_replies, answer, since>>
      BY <1>1 DEF Submit, GetStatus, server
    <2>2. \/ /\ caller' = [caller EXCEPT ![r] = "done"]
             /\ \E o : outcome' = [outcome EXCEPT ![r] = o]
             /\ UNCHANGED <<stream, cmd_rx>>
          \/ /\ caller' = [caller EXCEPT ![r] = "waiting"]
             /\ \E st : stream' = [stream EXCEPT ![r] = st]
             /\ cmd_rx' = Append(cmd_rx, r)
             /\ UNCHANGED outcome
      BY <1>1 DEF Submit, GetStatus, ReturnsAtOnce, Asks
    <2>3. Elems(Append(cmd_rx, r)) = Elems(cmd_rx) \cup {r}
      BY <1>0, AppendElems
    <2> QED
      BY <2>1, <2>2, <2>3, PartsOK
  <1>2. CASE \/ \E r \in Requests : Cancel(r) \/ DropStream(r)
             \/ DropClient \/ PruneTick \/ Break
             \/ \E h \in Handles : ServerWork(h) \/ OtherClientSubmits(h)
             \/ ReceiveWork
    <2>1. ASSUME UNCHANGED <<caller, outcome, stream, cmd_rx, pending_replies, answer, since>>
          PROVE  KeepsTracked
      BY <2>1
    <2>2. CASE DropClient \/ PruneTick \/ Break \/ ReceiveWork
      BY <2>1, <2>2 DEF DropClient, PruneTick, Break, ReceiveWork, calls, queues, server
    <2>3. ASSUME NEW h \in Handles, ServerWork(h) \/ OtherClientSubmits(h) PROVE KeepsTracked
      BY <2>1, <2>3 DEF ServerWork, OtherClientSubmits, calls, queues
    <2>4. ASSUME NEW r \in Requests, Cancel(r) \/ DropStream(r) PROVE KeepsTracked
      <3>1. /\ UNCHANGED <<outcome, cmd_rx, pending_replies, answer, since>>
            /\ \A q \in Requests : stream'[q] = "open" => stream[q] = "open"
            /\ \A q \in Requests : caller[q] # "idle" => caller'[q] # "idle"
            /\ \A q \in Requests : caller[q] = "done" => caller'[q] = "done"
        BY <2>4, PartsOK DEF Cancel, DropStream, queues, server
      <3> QED
        BY <3>1
    <2> QED
      BY <1>2, <2>2, <2>3, <2>4
  <1>3. CASE SendCommand
    <2>1. /\ cmd_rx # <<>> /\ cmd_rx' = Tail(cmd_rx)
          /\ pending_replies' = Append(pending_replies, Head(cmd_rx))
          /\ UNCHANGED <<caller, outcome, stream, answer, since>>
      BY <1>3 DEF SendCommand, calls, server
    <2>2. /\ Elems(cmd_rx) = {Head(cmd_rx)} \cup Elems(Tail(cmd_rx)) /\ Head(cmd_rx) \in Requests
          /\ Elems(Append(pending_replies, Head(cmd_rx))) =
                Elems(pending_replies) \cup {Head(cmd_rx)}
      BY <1>0, <2>1, TailElems, AppendElems
    <2> QED
      BY <2>1, <2>2
  <1>4. CASE ReceiveReply
    <2> DEFINE r == Head(pending_replies)
    <2>1. /\ r \in Requests /\ pending_replies # <<>> /\ pending_replies' = Tail(pending_replies)
          /\ \A q \in Requests \ {r} : outcome'[q] = outcome[q] /\ caller'[q] = caller[q]
      BY <1>4, ReplyOutcome DEF AttributionInv
    <2>2. Elems(pending_replies) = {r} \cup Elems(Tail(pending_replies))
      BY <1>0, <2>1, TailElems
    <2>3. UNCHANGED <<stream, cmd_rx, answer, since>>
      BY <1>4 DEF ReceiveReply, server
    <2> QED
      BY <2>1, <2>2, <2>3
  <1>5. CASE ServeOption \/ ServeSubmit \/ ServeStatus \/ ServeError
    <2> DEFINE r == Head(to_server)
    <2>1. /\ UNCHANGED <<caller, outcome, stream, cmd_rx, pending_replies>>
          /\ to_server # <<>>
          /\ \A q \in Requests \ {r} : answer'[q] = answer[q] /\ since'[q] = since[q]
      BY <1>5, PartsOK DEF ServeOption, ServeSubmit, ServeStatus, ServeError, Reply, calls, queues
    <2>2. r \in Elems(pending_replies)
      BY <2>1, UnservedPend
    <2> QED
      BY <2>1, <2>2
  <1>6. ~(SendFails \/ ReceiveFails \/ ClientGone \/ Reconnecting)
    BY DEF SendFails, ReceiveFails, ClientGone, LeaveLoop, Reconnecting, Connect, ConnectFails,
           Negotiate, NegotiateFails, MarkDisconnected, Wake
  <1> QED
    BY <1>1, <1>2, <1>3, <1>4, <1>5, <1>6 DEF Next, Callers, ActorLoop, Server

\* Slots that no step touches stay tracked.
LEMMA StartsStable ==
    ASSUME KeepsTracked, NEW h \in Handles, NEW v \in View, NEW n \in Nat, StartsAt(h, v, n),
           Masks(h, v) => Masks(h, v)',
           \A j \in DOMAIN v.slots :
               stream[v.slots[j]] = "open" => delivered'[v.slots[j]] = delivered[v.slots[j]]
    PROVE  StartsAt(h, v, n)'
  <1>1. ASSUME NEW j \in DOMAIN v.slots PROVE Tracks(h, v, n, j)'
    <2>1. Tracks(h, v, n, j) /\ v.slots[j] \in Requests
      BY DEF StartsAt, View
    <2> QED
      BY <2>1 DEF Tracks, KeepsTracked, Elems
  <1> QED
    BY <1>1 DEF StartsAt

\* A stream that closes is still masked.
LEMMA MasksStable ==
    ASSUME KeepsTracked, NEW h \in Handles, NEW v \in View, NEW n \in Nat, StartsAt(h, v, n),
           job_events'[h] = job_events[h]
    PROVE  Masks(h, v)'
  <1>1. ASSUME NEW j \in DOMAIN v.slots
        PROVE  stream'[v.slots[j]] = "open" => stream[v.slots[j]] = "open"
    <2>1. Tracks(h, v, n, j) /\ v.slots[j] \in Requests
      BY DEF StartsAt, View
    <2> QED
      BY <2>1 DEF Tracks, KeepsTracked
  <1> QED
    BY <1>1 DEF StartsAt, Masks

LEMMA FollowedQuiet ==
    ASSUME KeepsTracked, NEW h \in Handles, Followed(h),
           UNCHANGED <<to_client, since, delivered>>,
           \A v \in View, n \in Nat : StartsAt(h, v, n) => Masks(h, v)',
           \A w \in View, m \in Nat : EndsAt(h, w, m) => EndsAt(h, w, m)'
    PROVE  Followed(h)'
  <1>1. PICK v \in View, n \in Nat, w \in View, m \in Nat :
           /\ LeadsTo(to_client, since, h, v, n, w, m)
           /\ StartsAt(h, v, n) /\ EndsAt(h, w, m)
    BY DEF Followed
  <1>2. StartsAt(h, v, n)'
    BY <1>1, StartsStable
  <1> QED
    BY <1>1, <1>2 DEF Followed

\* The server's packets lead on from what it had registered.
LEMMA FollowedMore ==
    ASSUME TypeOK, KeepsTracked, UNCHANGED <<job_events, delivered>>,
           NEW more \in Seq(Packets), to_client' = to_client \o more,
           NEW h \in Handles,
           \A i \in DOMAIN to_client :
               Joins(h, to_client[i]) => since'[to_client[i].req] = since[to_client[i].req],
           NEW v \in View, NEW n \in Nat, NEW w \in View, NEW m \in Nat,
           LeadsTo(to_client, since, h, v, n, w, m), StartsAt(h, v, n),
           NEW x \in View, NEW k \in Nat,
           LeadsTo(more, since', h, w, m, x, k), EndsAt(h, x, k)'
    PROVE  Followed(h)'
  <1>1. StartsAt(h, v, n)'
    BY StartsStable, MasksStable
  <1>2. LeadsTo(to_client, since', h, v, n, w, m)
    BY SeqsOK, LeadsSame
  <1>3. LeadsTo(to_client', since', h, v, n, x, k)
    BY SeqsOK, <1>2, LeadsOn
  <1> QED
    BY <1>1, <1>3 DEF Followed

\* The replies under way answer other requests than the one the server reads next.
LEMMA SinceStable ==
    ASSUME TypeOK, AttributionInv, pc = "actor_loop", wire = "up", to_server # <<>>,
           \A q \in Requests \ {Head(to_server)} : since'[q] = since[q],
           NEW i \in DOMAIN to_client, to_client[i].type \notin Events
    PROVE  since'[to_client[i].req] = since[to_client[i].req]
  <1> DEFINE served == Len(pending_replies) - Len(to_server)
  <1>1. /\ to_server \in Seq(Requests \cup {OptionReq}) /\ pending_replies \in Seq(Requests)
        /\ 1 \in DOMAIN to_server /\ Head(to_server) = to_server[1] /\ Len(to_server) >= 1
    BY SeqsOK
  <1>2. UnservedArePending /\ RepliesArePending /\ Distinct(pending_replies)
    BY DEF AttributionInv, Aligned, WaitingIsOwned
  <1>3. PICK k \in DOMAIN pending_replies :
           to_client[i].req = pending_replies[k] /\ k <= served
    BY <1>2 DEF RepliesArePending
  <1>4. served >= 0 /\ Head(to_server) = pending_replies[served + 1]
    BY <1>1, <1>2 DEF UnservedArePending
  <1>5. served + 1 \in DOMAIN pending_replies /\ k # served + 1 /\ pending_replies[k] \in Requests
    BY <1>1, <1>3, <1>4
  <1>6. pending_replies[k] # pending_replies[served + 1]
    BY <1>2, <1>5 DEF Distinct
  <1> QED
    BY <1>3, <1>4, <1>5, <1>6

-----------------------------------------------------------------------------
(* The steps of the loop and the server.                                   *)

\* Callers, the prune tick and what happens elsewhere.
LEMMA FollowedElsewhere ==
    ASSUME TypeOK, AttributionInv, KeepsTracked, pc = "actor_loop",
           \/ Callers \/ SendCommand \/ PruneTick \/ Break
           \/ \E g \in Handles : OtherClientSubmits(g),
           NEW h \in Handles, Followed(h)
    PROVE  Followed(h)'
  <1>1. UNCHANGED <<to_client, since, delivered>>
    BY DEF Callers, Submit, GetStatus, Cancel, DropStream, DropClient, SendCommand, PruneTick,
           Break, OtherClientSubmits, calls, server
  <1>2. \A w \in View, m \in Nat : EndsAt(h, w, m) => EndsAt(h, w, m)'
    <2>1. wire' = "closed" \/ UNCHANGED <<wire, log, opted_in, registered>>
      BY DEF Callers, Submit, GetStatus, Cancel, DropStream, DropClient, SendCommand, PruneTick,
             Break, OtherClientSubmits, server
    <2> QED
      BY <2>1 DEF EndsAt
  <1>3. ASSUME NEW v \in View, NEW n \in Nat, StartsAt(h, v, n) PROVE Masks(h, v)'
    <2>1. CASE ~PruneTick
      <3>1. UNCHANGED job_events
        BY <2>1 DEF Callers, Submit, GetStatus, Cancel, DropStream, DropClient, SendCommand,
                    Break, OtherClientSubmits, queues
      <3> QED
        BY <1>3, <3>1, MasksStable
    <2>2. CASE PruneTick
      <3> DEFINE closed == {r \in Requests : stream[r] = "dropped"}
                 s == job_events[h].slots
      <3>1. /\ UNCHANGED stream
            /\ job_events'[h] = Prune(job_events[h], closed)
        BY <2>2 DEF PruneTick, calls
      <3>2. /\ job_events[h] \in SubsOf(Requests \cup {NoRequest})
            /\ job_events[h] = [slots |-> s, cursor |-> job_events[h].cursor]
            /\ DOMAIN s = 1 .. Len(s) /\ Len(s) \in Nat
        BY PartsOK DEF SubsOf
      <3> DEFINE t == [k \in DOMAIN s |-> IF s[k] \in closed THEN NoRequest ELSE s[k]]
      <3>3. job_events'[h] = [slots |-> t, cursor |-> job_events[h].cursor]
        BY <3>1, <3>2 DEF Prune
      <3>4. Len(t) = Len(s) /\ DOMAIN t = DOMAIN s
        BY <3>2
      <3>5. Masks(h, v) /\ DOMAIN v.slots = DOMAIN s
        BY <1>3, <3>2 DEF StartsAt, Masks, View
      <3>6. ASSUME NEW j \in DOMAIN v.slots
            PROVE  \/ t[j] = v.slots[j]
                   \/ t[j] = NoRequest /\ stream[v.slots[j]] # "open"
        BY <3>5 DEF Masks
      <3> HIDE DEF t, s
      <3>7. job_events'[h].slots = t /\ job_events'[h].cursor = job_events[h].cursor
        BY <3>3
      <3> QED
        BY <3>1, <3>4, <3>5, <3>6, <3>7 DEF Masks, s
    <2> QED
      BY <2>1, <2>2
  <1> QED
    BY <1>1, <1>2, <1>3, FollowedQuiet

LEMMA LeadsOne ==
    ASSUME NEW p, NEW start, NEW h, NEW v \in View, NEW n \in Nat, NEW w \in View, NEW m \in Nat,
           Reads(h, p, start[p.req], v, n, w, m)
    PROVE  LeadsTo(<<p>>, start, h, v, n, w, m)
  <1>1. PICK seen \in [0 .. 1 -> View], had \in [0 .. 1 -> Nat] :
           seen[0] = v /\ seen[1] = w /\ had[0] = n /\ had[1] = m
    <2> DEFINE seen == [i \in 0 .. 1 |-> IF i = 0 THEN v ELSE w]
               had == [i \in 0 .. 1 |-> IF i = 0 THEN n ELSE m]
    <2>1. seen \in [0 .. 1 -> View] /\ seen[0] = v /\ seen[1] = w
      OBVIOUS
    <2>2. had \in [0 .. 1 -> Nat] /\ had[0] = n /\ had[1] = m
      OBVIOUS
    <2> HIDE DEF seen, had
    <2> QED
      BY <2>1, <2>2
  <1>2. Len(<<p>>) = 1 /\ DOMAIN <<p>> = {1} /\ <<p>>[1] = p /\ 1 - 1 = 0
    OBVIOUS
  <1>3. \A i \in DOMAIN <<p>> : Reads(h, <<p>>[i], start[<<p>>[i].req],
                                      seen[i - 1], had[i - 1], seen[i], had[i])
    BY <1>1, <1>2
  <1> QED
    BY <1>1, <1>2, <1>3 DEF LeadsTo

\* A copy of an event for each of the registrations s.
Copies(type, s, h, n) == [i \in DOMAIN s |-> Packet(type, s[i], h, n)]

LEMMA CopiesType ==
    ASSUME NEW type \in Events, NEW s \in Seq(Requests), NEW h \in Handles, NEW n \in Nat
    PROVE  /\ Copies(type, s, h, n) \in Seq(Packets)
           /\ Len(Copies(type, s, h, n)) = Len(s)
           /\ \A i \in DOMAIN s : /\ Copies(type, s, h, n)[i].type = type
                                  /\ Copies(type, s, h, n)[i].handle = h
                                  /\ Copies(type, s, h, n)[i].n = n
  <1>1. DOMAIN s = 1 .. Len(s) /\ Len(s) \in Nat
    OBVIOUS
  <1>2. ASSUME NEW i \in DOMAIN s PROVE Packet(type, s[i], h, n) \in Packets
    BY DEF Packet, Packets
  <1> QED
    BY <1>1, <1>2 DEF Copies, Packet

\* A progress event goes round all slots; each has had one more then.
LEMMA ProgressGoesRound ==
    ASSUME NEW s \in Seq(Requests), s # <<>>, NEW h \in Handles, NEW n \in Nat, NEW start,
           NEW type \in Progress
    PROVE  LET v == [slots |-> s, cursor |-> 0]
           IN  LeadsTo(Copies(type, s, h, n + 1), start, h, v, n, v, n + 1)
  <1> DEFINE K == Len(s)
             q == Copies(type, s, h, n + 1)
             View_(i) == [slots |-> s, cursor |-> IF i = K THEN 0 ELSE i]
  <1>1. K \in Nat \ {0} /\ DOMAIN s = 1 .. K
    OBVIOUS
  <1>2. /\ Len(q) = K /\ DOMAIN q = 1 .. K
        /\ \A i \in 1 .. K : q[i].type = type /\ q[i].handle = h /\ q[i].n = n + 1
    <2>1. type \in Events /\ n + 1 \in Nat
      BY DEF Events
    <2>2. q \in Seq(Packets) /\ Len(q) = K
      BY <2>1, CopiesType
    <2>3. \A i \in DOMAIN s : q[i].type = type /\ q[i].handle = h /\ q[i].n = n + 1
      BY <2>1, CopiesType
    <2> HIDE DEF K, q
    <2> QED
      BY <1>1, <2>2, <2>3
  <1>3. \A i \in 0 .. K : View_(i) \in View
    <2>1. \A c \in Nat : [slots |-> s, cursor |-> c] \in View
      BY DEF View
    <2>2. ASSUME NEW i \in 0 .. K PROVE (IF i = K THEN 0 ELSE i) \in Nat
      <3>1. i \in Nat
        BY <1>1
      <3> QED
        BY <3>1
    <2> QED
      BY <2>1, <2>2
  <1>4. PICK seen \in [0 .. K -> View], had \in [0 .. K -> Nat] :
           \A i \in 0 .. K : seen[i] = View_(i) /\ had[i] = IF i = K THEN n + 1 ELSE n
    <2> HIDE DEF View_
    <2>1. [i \in 0 .. K |-> View_(i)] \in [0 .. K -> View]
      BY <1>3
    <2>2. [i \in 0 .. K |-> IF i = K THEN n + 1 ELSE n] \in [0 .. K -> Nat]
      BY <1>1
    <2> QED
      BY <2>1, <2>2, Zenon
  <1> HIDE DEF K, q
  <1>5. ASSUME NEW i \in 1 .. K
        PROVE  Reads(h, q[i], start[q[i].req], seen[i - 1], had[i - 1], seen[i], had[i])
    <2>1. i - 1 \in 0 .. K /\ i \in 0 .. K /\ i - 1 # K /\ (i - 1) + 1 = i /\ i - 1 < K
      BY <1>1
    <2>2. /\ seen[i - 1] = [slots |-> s, cursor |-> i - 1] /\ had[i - 1] = n
          /\ seen[i] = [slots |-> s, cursor |-> IF i = K THEN 0 ELSE i]
          /\ had[i] = IF i = K THEN n + 1 ELSE n
      BY <1>4, <2>1
    <2>3. Deliver(seen[i - 1], FALSE) = seen[i]
      <3>1. /\ seen[i - 1] \in View /\ seen[i - 1].slots = s /\ seen[i - 1].cursor = i - 1
            /\ seen[i - 1].cursor < Len(seen[i - 1].slots)
        BY <2>1, <2>2 DEF K
      <3>2. Deliver(seen[i - 1], FALSE) =
              [slots |-> s, cursor |-> IF (i - 1) + 1 = Len(s) THEN 0 ELSE (i - 1) + 1]
        BY <3>1, DeliverView
      <3> QED
        BY <2>1, <2>2, <3>2 DEF K
    <2>4. ~Joins(h, q[i]) /\ IsEvent(h, q[i]) /\ (q[i].type \in Terminal) = FALSE
          /\ q[i].n = n + 1
      BY <1>2 DEF Joins, IsEvent, Events, Progress, Terminal
    <2>5. seen[i].cursor = 0 <=> i = K
      BY <1>1, <2>2
    <2>6. seen[i - 1].slots = s
      BY <2>2
    <2> QED
      BY <2>2, <2>3, <2>4, <2>5, <2>6 DEF Reads
  <1>6. /\ seen[0] = [slots |-> s, cursor |-> 0] /\ had[0] = n
        /\ seen[K] = [slots |-> s, cursor |-> 0] /\ had[K] = n + 1
    BY <1>1, <1>4
  <1> QED
    BY <1>2, <1>5, <1>6 DEF LeadsTo, q

\* What is left of s when its first slot was removed i times.
Left(s, i) ==
    [k \in 1 .. Len(s) - i |-> IF k = 1 /\ i > 0 THEN s[Len(s) - i + 1] ELSE s[k]]

LEMMA LeftStep ==
    ASSUME NEW s \in Seq(Requests), NEW i \in 0 .. Len(s)
    PROVE  /\ Left(s, i) \in Seq(Requests) /\ Len(Left(s, i)) = Len(s) - i
           /\ i = 0 => Left(s, i) = s
           /\ i > 0 => SwapRemove(Left(s, i - 1), 1) = Left(s, i)
           /\ i = Len(s) => Left(s, i) = <<>>
  <1>1. Len(s) \in Nat /\ DOMAIN s = 1 .. Len(s) /\ Len(s) - i \in Nat
    OBVIOUS
  <1>2. Left(s, i) \in Seq(Requests) /\ Len(Left(s, i)) = Len(s) - i
    BY <1>1 DEF Left
  <1>3. i = 0 => Left(s, i) = s
    BY <1>1 DEF Left
  <1>4. ASSUME i > 0 PROVE SwapRemove(Left(s, i - 1), 1) = Left(s, i)
    <2> DEFINE t == Left(s, i - 1)
    <2>1. /\ Len(t) = Len(s) - i + 1 /\ Len(t) - 1 = Len(s) - i
          /\ \A k \in 1 .. Len(s) - i + 1 :
               t[k] = IF k = 1 /\ i - 1 > 0 THEN s[Len(s) - (i - 1) + 1] ELSE s[k]
      BY <1>1, <1>4 DEF Left
    <2> HIDE DEF t
    <2>2. ASSUME NEW k \in 1 .. Len(s) - i
          PROVE  (IF k = 1 THEN t[Len(t)] ELSE t[k]) = IF k = 1 THEN s[Len(s) - i + 1] ELSE s[k]
      BY <1>1, <1>4, <2>1
    <2>3. SwapRemove(t, 1) = [k \in 1 .. Len(s) - i |-> IF k = 1 THEN s[Len(s) - i + 1] ELSE s[k]]
      BY <2>1, <2>2 DEF SwapRemove
    <2>4. Left(s, i) = [k \in 1 .. Len(s) - i |-> IF k = 1 THEN s[Len(s) - i + 1] ELSE s[k]]
      BY <1>4 DEF Left
    <2> QED
      BY <2>3, <2>4 DEF t
  <1>5. i = Len(s) => Left(s, i) = <<>>
    BY <1>1, <1>2
  <1> QED
    BY <1>2, <1>3, <1>4, <1>5

\* A terminal event takes all slots out, first to last.
LEMMA TerminalTakesAll ==
    ASSUME NEW s \in Seq(Requests), s # <<>>, NEW h \in Handles, NEW n \in Nat, NEW start,
           NEW type \in Terminal
    PROVE  LeadsTo(Copies(type, s, h, n + 1), start, h,
                   [slots |-> s, cursor |-> 0], n, [slots |-> <<>>, cursor |-> 0], n)
  <1> DEFINE K == Len(s)
             q == Copies(type, s, h, n + 1)
             View_(i) == [slots |-> Left(s, i), cursor |-> 0]
  <1>1. K \in Nat \ {0} /\ DOMAIN s = 1 .. K
    OBVIOUS
  <1>2. /\ Len(q) = K /\ DOMAIN q = 1 .. K
        /\ \A i \in 1 .. K : q[i].type = type /\ q[i].handle = h /\ q[i].n = n + 1
    <2>1. type \in Events /\ n + 1 \in Nat
      BY DEF Events
    <2>2. q \in Seq(Packets) /\ Len(q) = K
      BY <2>1, CopiesType
    <2>3. \A i \in DOMAIN s : q[i].type = type /\ q[i].handle = h /\ q[i].n = n + 1
      BY <2>1, CopiesType
    <2> HIDE DEF K, q
    <2> QED
      BY <1>1, <2>2, <2>3
  <1>3. \A i \in 0 .. K : View_(i) \in View
    BY <1>1, LeftStep DEF View
  <1>4. PICK seen \in [0 .. K -> View], had \in [0 .. K -> Nat] :
           \A i \in 0 .. K : seen[i] = View_(i) /\ had[i] = n
    <2> HIDE DEF View_
    <2>1. [i \in 0 .. K |-> View_(i)] \in [0 .. K -> View]
      BY <1>3
    <2>2. [i \in 0 .. K |-> n] \in [0 .. K -> Nat]
      BY <1>1
    <2> QED
      BY <2>1, <2>2, Zenon
  <1>5. ASSUME NEW i \in 1 .. K
        PROVE  Reads(h, q[i], start[q[i].req], seen[i - 1], had[i - 1], seen[i], had[i])
    <2>1. i - 1 \in 0 .. K /\ i \in 0 .. K /\ i > 0 /\ K - (i - 1) > 0
      BY <1>1
    <2>2. /\ seen[i - 1] = [slots |-> Left(s, i - 1), cursor |-> 0] /\ had[i - 1] = n
          /\ seen[i] = [slots |-> Left(s, i), cursor |-> 0] /\ had[i] = n
      BY <1>4, <2>1
    <2>3. Left(s, i - 1) # <<>> /\ SwapRemove(Left(s, i - 1), 1) = Left(s, i)
      BY <2>1, LeftStep
    <2>4. Deliver(seen[i - 1], TRUE) = seen[i]
      <3>1. seen[i - 1] \in View /\ seen[i - 1].slots = Left(s, i - 1) /\ seen[i - 1].cursor = 0
        BY <2>1, <2>2
      <3> QED
        BY <2>2, <2>3, <3>1, DeliverView
    <2>5. /\ ~Joins(h, q[i]) /\ IsEvent(h, q[i]) /\ (q[i].type \in Terminal) = TRUE
          /\ q[i].n = n + 1
      BY <1>2 DEF Joins, IsEvent, Events, Progress, Terminal
    <2>6. seen[i - 1].slots # <<>> /\ seen[i - 1].cursor = 0
      BY <2>2, <2>3
    <2> HIDE DEF q
    <2> QED
      BY <2>2, <2>4, <2>5, <2>6 DEF Reads
  <1>6. /\ seen[0] = [slots |-> s, cursor |-> 0] /\ had[0] = n
        /\ seen[K] = [slots |-> <<>>, cursor |-> 0] /\ had[K] = n
    <2>1. 0 \in 0 .. K /\ K \in 0 .. K /\ Left(s, 0) = s /\ Left(s, K) = <<>>
      BY <1>1, LeftStep
    <2> QED
      BY <1>4, <2>1
  <1> HIDE DEF K, q
  <1> QED
    BY <1>2, <1>5, <1>6 DEF LeadsTo, q

\* The server answers a request; a foreground submission it accepts joins the
\* registrations, and its JOB_CREATED the packets under way.
LEMMA FollowedServe ==
    ASSUME TypeOK, AttributionInv, TerminalIsLast, KeepsTracked, pc = "actor_loop",
           ServeSubmit \/ ServeStatus \/ ServeError,
           NEW h \in Handles, Followed(h)
    PROVE  Followed(h)'
  <1> DEFINE r == Head(to_server)
  <1>1. PICK v \in View, n \in Nat, w \in View, m \in Nat :
           /\ LeadsTo(to_client, since, h, v, n, w, m)
           /\ StartsAt(h, v, n) /\ EndsAt(h, w, m)
    BY DEF Followed
  <1>2. /\ wire = "up" /\ to_server # <<>> /\ r \in Requests
        /\ UNCHANGED <<wire, log, opted_in, job_events, delivered>>
    BY HeadType DEF ServeSubmit, ServeStatus, ServeError, calls, queues
  <1>3. \A q \in Requests \ {r} : since'[q] = since[q]
    BY PartsOK DEF ServeSubmit, ServeStatus, ServeError
  <1>4. ASSUME NEW i \in DOMAIN to_client, Joins(h, to_client[i])
        PROVE  since'[to_client[i].req] = since[to_client[i].req]
    BY <1>2, <1>3, <1>4, SinceStable DEF Joins, Events, Progress, Terminal
  <1>5. ASSUME NEW p \in Packets, to_client' = Append(to_client, p),
               ~Joins(h, p), ~IsEvent(h, p), registered'[h] = registered[h]
        PROVE  Followed(h)'
    <2>1. to_client' = to_client \o <<p>> /\ <<p>> \in Seq(Packets)
      BY <1>5, SeqsOK
    <2>2. LeadsTo(<<p>>, since', h, w, m, w, m)
      <3>1. Reads(h, p, since'[p.req], w, m, w, m)
        BY <1>5 DEF Reads
      <3> QED
        BY <3>1, LeadsOne
    <2>3. EndsAt(h, w, m)'
      BY <1>1, <1>2, <1>5 DEF EndsAt
    <2> QED
      BY <1>1, <1>2, <1>4, <2>1, <2>2, <2>3, FollowedMore
  <1>6. CASE ServeStatus \/ ServeError
    <2>1. PICK type \in {"status_res", "status_res_unique", "error"},
               g \in Handles \cup {NoHandle} : to_client' = Append(to_client, Packet(type, r, g, 0))
      <3>1. CASE ServeError
        BY <3>1 DEF ServeError, Reply
      <3>2. CASE ServeStatus
        <4>1. ~IsSubmit(r) /\ Reply(r, ReplyType(r), outcome[About[r]].handle)
          BY <3>2 DEF ServeStatus
        <4>2. ReplyType(r) \in {"status_res", "status_res_unique"}
          BY <1>2, <4>1, RequestAssumption DEF ReplyType, IsSubmit, Kinds
        <4>3. About[r] \in Requests
          BY <1>2, <4>1, RequestAssumption
        <4>4. outcome[About[r]].handle \in Handles \cup {NoHandle}
          BY <4>3, PartsOK DEF Outcomes
        <4> QED
          BY <4>1, <4>2, <4>4 DEF Reply
      <3> QED
        BY <1>6, <3>1, <3>2
    <2>2. Packet(type, r, g, 0) \in Packets
      BY <1>2 DEF Packet, Packets, Answers, Events, Progress, Terminal
    <2>3. UNCHANGED registered
      BY <1>6 DEF ServeStatus, ServeError
    <2>4. ~Joins(h, Packet(type, r, g, 0)) /\ ~IsEvent(h, Packet(type, r, g, 0))
      BY DEF Packet, Joins, IsEvent, Events, Progress, Terminal
    <2> QED
      BY <1>5, <2>1, <2>2, <2>3, <2>4
  <1>7. CASE ServeSubmit
    <2>1. PICK g \in JobFor(r) :
             /\ to_client' = Append(to_client, Packet("job_created", r, g, 0))
             /\ IF Kind[r] = "fg"
                THEN /\ registered' = [registered EXCEPT ![g] = Append(@, r)]
                     /\ since' = [since EXCEPT ![r] = Len(log[g])]
                ELSE UNCHANGED <<registered, since>>
      BY <1>7 DEF ServeSubmit, Reply
    <2> DEFINE p == Packet("job_created", r, g, 0)
    <2>2. g \in Handles /\ job[g] # "done" /\ p \in Packets
      BY <1>2, <2>1 DEF JobFor, Packet, Packets, Answers, Events, Progress, Terminal
    <2>3. ~IsEvent(h, p) /\ p.req = r /\ p.handle = g /\ p.type = "job_created"
      BY DEF Packet, IsEvent, Events, Progress, Terminal
    <2>4. CASE ~(g = h /\ Kind[r] = "fg")
      <3>1. registered'[h] = registered[h] /\ ~Joins(h, p)
        BY <2>1, <2>2, <2>3, <2>4, PartsOK DEF Joins
      <3> QED
        BY <1>5, <2>1, <2>2, <2>3, <3>1
    <2>5. CASE g = h /\ Kind[r] = "fg"
      <3>1. w = [slots |-> registered[h], cursor |-> 0] /\ (registered[h] # <<>> => m = Len(log[h]))
        <4>1. "work_exception" \notin Elems(log[h])
          BY <2>2, <2>5, PartsOK DEF TerminalIsLast, Elems, Terminal
        <4> QED
          BY <1>1, <1>2, <4>1 DEF EndsAt
      <3>2. PICK x \in View, k \in Nat :
               x = [slots |-> Append(registered[h], r), cursor |-> 0] /\ k = Len(log[h])
        <4>1. Append(registered[h], r) \in Seq(Requests) /\ Len(log[h]) \in Nat
          BY <1>2, PartsOK
        <4>2. [slots |-> Append(registered[h], r), cursor |-> 0] \in View
          BY <4>1 DEF View
        <4> QED
          BY <4>1, <4>2
      <3>3. x = Add(w, r)
        <4>1. ASSUME NEW t
              PROVE  Add([slots |-> t, cursor |-> 0], r) = [slots |-> Append(t, r), cursor |-> 0]
          BY SMTT(30) DEF Add
        <4> QED
          BY <3>1, <3>2, <4>1
      <3>4. since'[r] = k /\ registered'[h] = Append(registered[h], r)
        BY <1>2, <2>1, <2>5, <3>2, PartsOK
      <3>5. Reads(h, p, since'[p.req], w, m, x, k)
        <4>1. Joins(h, p)
          BY <2>3, <2>5 DEF Joins
        <4>2. w.cursor = 0 /\ w.slots = registered[h]
          BY <3>1
        <4> HIDE DEF p
        <4> QED
          BY <2>3, <3>1, <3>2, <3>3, <3>4, <4>1, <4>2 DEF Reads
      <3>6. LeadsTo(<<p>>, since', h, w, m, x, k)
        BY <2>3, <3>5, LeadsOne
      <3>7. EndsAt(h, x, k)'
        BY <1>2, <3>2, <3>4 DEF EndsAt
      <3>8. to_client' = to_client \o <<p>> /\ <<p>> \in Seq(Packets)
        BY <2>1, <2>2, SeqsOK
      <3> HIDE DEF p
      <3> QED
        BY <1>1, <1>2, <1>4, <3>6, <3>7, <3>8, FollowedMore
    <2> QED
      BY <2>4, <2>5
  <1> QED
    BY <1>6, <1>7

\* A worker reports an event: its copies go to the registrations, in order.
LEMMA FollowedWork ==
    ASSUME TypeOK, AttributionInv, TerminalIsLast, KeepsTracked, pc = "actor_loop",
           NEW g \in Handles, ServerWork(g),
           NEW h \in Handles, Followed(h)
    PROVE  Followed(h)'
  <1>1. PICK v \in View, n \in Nat, w \in View, m \in Nat :
           /\ LeadsTo(to_client, since, h, v, n, w, m)
           /\ StartsAt(h, v, n) /\ EndsAt(h, w, m)
    BY DEF Followed
  <1> DEFINE s == registered[g]
             N == Len(log[g])
  <1>2. PICK event \in ServerEmits :
           /\ log' = [log EXCEPT ![g] = Append(@, event)]
           /\ to_client' = IF event = "work_exception" /\ ~opted_in THEN to_client
                           ELSE to_client \o Copies(event, s, g, N + 1)
           /\ IF event \in Terminal
              THEN registered' = [registered EXCEPT ![g] = <<>>]
              ELSE UNCHANGED registered
    BY DEF ServerWork, Copies
  <1>3. event \in Events /\ s \in Seq(Requests) /\ N \in Nat /\ log[g] \in Seq(Events)
    BY ServerAssumption, PartsOK
  <1>4. /\ UNCHANGED <<since, delivered, job_events, wire, opted_in>>
        /\ job[g] # "done"
    BY DEF ServerWork, calls, queues
  <1>5. /\ log'[g] = Append(log[g], event) /\ Len(log'[g]) = N + 1
        /\ Elems(log'[g]) = Elems(log[g]) \cup {event}
        /\ registered'[g] = IF event \in Terminal THEN <<>> ELSE s
        /\ \A f \in Handles \ {g} : log'[f] = log[f] /\ registered'[f] = registered[f]
    BY <1>2, <1>3, PartsOK, AppendElems
  <1>6. "work_exception" \notin Elems(log[g])
    BY <1>4, PartsOK DEF TerminalIsLast, Elems, Terminal
  <1>7. ASSUME UNCHANGED to_client, EndsAt(h, w, m)' PROVE Followed(h)'
    <2>1. StartsAt(h, v, n)'
      BY <1>1, <1>4, StartsStable, MasksStable
    <2> QED
      BY <1>1, <1>4, <1>7, <2>1 DEF Followed
  <1>8. CASE h # g
    <2>1. EndsAt(h, w, m)'
      BY <1>1, <1>4, <1>5, <1>8 DEF EndsAt
    <2>2. CASE to_client' = to_client
      BY <1>7, <2>1, <2>2
    <2>3. CASE to_client' = to_client \o Copies(event, s, g, N + 1)
      <3> DEFINE q == Copies(event, s, g, N + 1)
      <3>1. q \in Seq(Packets) /\ \A i \in DOMAIN q : q[i].handle = g /\ q[i].type = event
        <4>1. q \in Seq(Packets) /\ \A i \in DOMAIN s : q[i].handle = g /\ q[i].type = event
          BY <1>3, CopiesType
        <4>2. DOMAIN q = DOMAIN s
          BY DEF Copies
        <4> QED
          BY <4>1, <4>2
      <3>2. \A i \in DOMAIN q : ~Joins(h, q[i]) /\ ~IsEvent(h, q[i])
        BY <1>8, <3>1 DEF Joins, IsEvent
      <3> HIDE DEF q
      <3>3. LeadsTo(q, since', h, w, m, w, m)
        BY <3>1, <3>2, LeadsNot
      <3> QED
        BY <1>1, <1>4, <2>1, <2>3, <3>1, <3>3, FollowedMore DEF q
    <2> QED
      BY <1>2, <2>2, <2>3
  <1>9. CASE h = g
    <2>1. CASE event = "work_exception" /\ ~opted_in
      <3>1. EndsAt(h, w, m)'
        BY <1>4, <1>5, <1>9, <2>1 DEF EndsAt
      <3> QED
        BY <1>2, <1>7, <2>1, <3>1
    <2>2. CASE ~(event = "work_exception" /\ ~opted_in) /\ s = <<>>
      <3>1. to_client' = to_client
        BY <2>2, NoCopies
      <3>2. EndsAt(h, w, m)'
        BY <1>1, <1>4, <1>5, <1>6, <1>9, <2>2 DEF EndsAt
      <3> QED
        BY <1>7, <3>1, <3>2
    <2>3. CASE ~(event = "work_exception" /\ ~opted_in) /\ s # <<>>
      <3>1. wire = "up"
        BY <2>3, PartsOK DEF AttributionInv, Phases
      <3>2. w = [slots |-> s, cursor |-> 0] /\ m = N
        BY <1>1, <1>6, <1>9, <2>3, <3>1 DEF EndsAt
      <3> DEFINE q == Copies(event, s, g, N + 1)
      <3>3. to_client' = to_client \o q /\ q \in Seq(Packets)
        BY <1>2, <1>3, <2>3, CopiesType
      <3>4. PICK x \in View, k \in Nat : LeadsTo(q, since', h, w, m, x, k) /\ EndsAt(h, x, k)'
        <4>1. CASE event \in Terminal
          <5>1. LeadsTo(q, since', h, w, m, [slots |-> <<>>, cursor |-> 0], m)
            BY <1>3, <1>9, <2>3, <3>2, <4>1, TerminalTakesAll
          <5>2. [slots |-> <<>>, cursor |-> 0] \in View
            BY DEF View
          <5>3. EndsAt(h, [slots |-> <<>>, cursor |-> 0], m)'
            BY <1>5, <1>9, <4>1 DEF EndsAt
          <5> QED
            BY <5>1, <5>2, <5>3
        <4>2. CASE event \in Progress
          <5>1. LeadsTo(q, since', h, w, m, w, m + 1)
            BY <1>3, <1>9, <2>3, <3>2, <4>2, ProgressGoesRound
          <5>2. registered'[h] = s
            BY <1>5, <1>9, <4>2 DEF Progress, Terminal
          <5>3. EndsAt(h, w, m + 1)'
            BY <1>5, <1>9, <3>2, <5>2 DEF EndsAt
          <5> QED
            BY <5>1, <5>3
        <4> QED
          BY <1>3, <4>1, <4>2 DEF Events
      <3> HIDE DEF q
      <3> QED
        BY <1>1, <1>4, <3>3, <3>4, FollowedMore
    <2> QED
      BY <2>1, <2>2, <2>3
  <1> QED
    BY <1>8, <1>9

\* The next packet is a reply: it takes the oldest pending request into the
\* subscribers of its job, or leaves them alone.
LEMMA FollowedReply ==
    ASSUME TypeOK, AttributionInv, NothingYet, OpenStreams, KeepsTracked, ReceiveReply,
           NEW h \in Handles, Followed(h)
    PROVE  Followed(h)'
  <1> DEFINE p == Head(to_client)
             r == Head(pending_replies)
  <1>1. PICK v \in View, n \in Nat, w \in View, m \in Nat :
           /\ LeadsTo(to_client, since, h, v, n, w, m)
           /\ StartsAt(h, v, n) /\ EndsAt(h, w, m)
    BY DEF Followed
  <1>2. /\ pc = "actor_loop" /\ to_client # <<>> /\ p.type \notin Events
        /\ to_client' = Tail(to_client)
        /\ UNCHANGED <<stream, delivered, since, answer, wire, log, opted_in, registered, cmd_rx>>
    BY DEF ReceiveReply, server
  <1>3. /\ pending_replies # <<>> /\ r \in Requests /\ p.req = r
        /\ p.type \in {ReplyType(r), "error"}
        /\ answer[r] = Outcome(p.type, p.handle)
    BY <1>2, HeadReply DEF AttributionInv, WaitingIsOwned
  <1>4. p.type \in Answers /\ p \in Packets
    <2>1. ReplyType(r) \in {"job_created", "status_res", "status_res_unique"}
      BY <1>3, RequestAssumption DEF ReplyType, IsSubmit, Kinds
    <2> QED
      BY <1>2, <1>3, <2>1, SeqsOK, TailElems DEF Answers
  <1>5. /\ pending_replies' = Tail(pending_replies)
        /\ Resolve([q \in {r} |-> Outcome(p.type, p.handle)])
        /\ job_events' = IF p.type = "job_created" /\ Kind[r] = "fg"
                         THEN [job_events EXCEPT ![p.handle] = Add(@, r)]
                         ELSE job_events
    BY <1>3, <1>4 DEF ReceiveReply
  <1>6. PICK x \in View, k \in Nat :
           /\ Reads(h, p, since[r], v, n, x, k)
           /\ LeadsTo(Tail(to_client), since, h, x, k, w, m)
    BY <1>1, <1>2, <1>3, SeqsOK, LeadsFirst
  <1>7. EndsAt(h, w, m)'
    BY <1>1, <1>2 DEF EndsAt
  <1>8. ASSUME StartsAt(h, x, k)' PROVE Followed(h)'
    BY <1>2, <1>6, <1>7, <1>8 DEF Followed
  <1>9. ~IsEvent(h, p)
    BY <1>2 DEF IsEvent
  <1>10. CASE ~Joins(h, p)
    <2>1. x = v /\ k = n
      BY <1>6, <1>9, <1>10 DEF Reads
    <2>2. job_events'[h] = job_events[h]
      <3>1. p.type = "job_created" /\ Kind[r] = "fg" => p.handle # h /\ p.handle \in Handles
        BY <1>3, <1>4, <1>10 DEF Joins, Packets
      <3> QED
        BY <1>5, <3>1, PartsOK
    <2>3. StartsAt(h, v, n)'
      BY <1>1, <1>2, <2>2, StartsStable, MasksStable
    <2> QED
      BY <1>8, <2>1, <2>3
  <1>11. CASE Joins(h, p)
    <2>1. /\ v.cursor = 0 /\ x = Add(v, r) /\ k = since[r] /\ (v.slots # <<>> => k = n)
          /\ p.type = "job_created" /\ p.handle = h /\ Kind[r] = "fg"
      BY <1>3, <1>6, <1>11 DEF Reads, Joins
    <2> DEFINE s == job_events[h].slots
               K == Len(v.slots)
    <2>2. /\ v.slots \in Seq(Requests) /\ K \in Nat /\ DOMAIN v.slots = 1 .. K
          /\ s \in Seq(Requests \cup {NoRequest}) /\ Len(s) = K /\ DOMAIN s = 1 .. K
          /\ job_events[h] = [slots |-> s, cursor |-> 0]
      BY <1>1, <2>1, PartsOK DEF View, SubsOf, StartsAt, Masks
    <2>3. /\ x.slots = Append(v.slots, r) /\ x.cursor = 0 /\ Len(x.slots) = K + 1
          /\ DOMAIN x.slots = 1 .. K + 1 /\ x.slots[K + 1] = r
          /\ \A j \in 1 .. K : x.slots[j] = v.slots[j]
      BY <2>1, <2>2 DEF Add, View
    <2>4. /\ job_events'[h].slots = Append(s, r) /\ job_events'[h].cursor = 0
          /\ Len(job_events'[h].slots) = K + 1 /\ job_events'[h].slots[K + 1] = r
          /\ \A j \in 1 .. K : job_events'[h].slots[j] = s[j]
      <3>1. job_events'[h] = [slots |-> Append(s, r), cursor |-> 0]
        <4>1. job_events'[h] = Add(job_events[h], r)
          BY <1>5, <2>1, PartsOK
        <4>2. ASSUME NEW t
              PROVE  Add([slots |-> t, cursor |-> 0], r) = [slots |-> Append(t, r), cursor |-> 0]
          BY DEF Add
        <4> HIDE DEF s
        <4> QED
          BY <2>2, <4>1, <4>2
      <3> QED
        BY <1>3, <2>2, <3>1
    <2>5. r \in Elems(pending_replies) /\ r \notin Elems(Tail(pending_replies)) /\ r \notin Elems(cmd_rx)
      BY <1>3, SeqsOK, TailElems DEF AttributionInv, WaitingIsOwned
    <2>6. \A j \in 1 .. K : Tracks(h, v, n, j) /\ v.slots[j] \in Requests /\ v.slots[j] # r
      BY <1>1, <2>2, <2>5 DEF StartsAt, Tracks
    <2>7. Distinct(x.slots)
      <3>1. r \notin Elems(v.slots)
        BY <2>2, <2>6 DEF Elems
      <3> QED
        BY <1>1, <1>3, <2>2, <2>3, <3>1, AppendElems DEF StartsAt
    <2>8. Masks(h, x)'
      <3>1. \A j \in 1 .. K : \/ s[j] = v.slots[j]
                              \/ s[j] = NoRequest /\ stream[v.slots[j]] # "open"
        BY <1>1, <2>2 DEF StartsAt, Masks
      <3>2. ASSUME NEW j \in 1 .. K + 1
            PROVE  \/ job_events'[h].slots[j] = x.slots[j]
                   \/ job_events'[h].slots[j] = NoRequest /\ stream'[x.slots[j]] # "open"
        <4>1. CASE j = K + 1
          BY <2>3, <2>4, <4>1
        <4>2. CASE j # K + 1
          <5>1. j \in 1 .. K
            BY <2>2, <4>2
          <5> QED
            BY <1>2, <2>3, <2>4, <3>1, <5>1
        <4> QED
          BY <4>1, <4>2
      <3> QED
        BY <2>3, <2>4, <3>2 DEF Masks
    <2>9. ASSUME NEW j \in 1 .. K PROVE Tracks(h, x, k, j)'
      <3>1. v.slots # <<>> /\ n = k
        BY <2>1, <2>2
      <3>2. KeepsTracked /\ Tracks(h, v, n, j) /\ v.slots[j] \in Requests
        BY <2>6
      <3>3. x.slots[j] = v.slots[j] /\ x.cursor = 0 /\ v.cursor = 0
        BY <2>1, <2>3
      <3>4. Tracks(h, v, n, j)'
        BY <1>2, <3>2 DEF Tracks, KeepsTracked, Elems
      <3> QED
        BY <3>1, <3>3, <3>4 DEF Tracks
    <2>10. Tracks(h, x, k, K + 1)'
      <3>1. /\ caller[r] \in {"waiting", "cancelled"} /\ delivered[r] = <<>>
            /\ stream[r] = "open" => caller[r] = "waiting"
        BY <1>3, <2>5 DEF AttributionInv, QueuesHoldOpenCalls, NothingYet, OpenStreams
      <3>2. /\ caller'[r] # "idle"
            /\ caller[r] = "waiting" => caller'[r] = "done" /\ outcome'[r] = answer[r]
        BY <1>3, <1>5, <3>1, PartsOK DEF Resolve
      <3>3. r \notin Elems(cmd_rx') /\ r \notin Elems(pending_replies')
        BY <1>2, <1>5, <2>5
      <3>4. answer'[r] = Outcome("job_created", h)
        BY <1>2, <1>3, <2>1
      <3>5. stream'[r] = "open" => since'[r] + Len(delivered'[r]) = k
        <4>1. Len(<<>>) = 0 /\ since[r] \in Nat
          BY <1>3, PartsOK
        <4> QED
          BY <1>2, <2>1, <3>1, <4>1
      <3>6. K + 1 > 0 /\ ~(K + 1 <= 0)
        BY <2>2
      <3> QED
        BY <1>2, <2>1, <2>3, <3>1, <3>2, <3>3, <3>4, <3>5, <3>6 DEF Tracks, Elems
    <2>11. \A j \in DOMAIN x.slots : Tracks(h, x, k, j)'
      BY <2>2, <2>3, <2>9, <2>10
    <2>12. StartsAt(h, x, k)'
      BY <2>3, <2>7, <2>8, <2>11 DEF StartsAt
    <2> QED
      BY <1>8, <2>12
  <1> QED
    BY <1>10, <1>11

\* The next packet is a copy of an event: it goes to the subscriber whose turn it
\* is, if that one still listens.
LEMMA Delivery ==
    ASSUME TypeOK, ReceiveWork, NEW h \in Handles, Head(to_client).handle = h,
           NEW v \in View, NEW n \in Nat, StartsAt(h, v, n), v.slots # <<>>
    PROVE  LET p == Head(to_client)
               q == v.slots[v.cursor + 1]
           IN  /\ v.cursor + 1 \in DOMAIN v.slots /\ q \in Requests
               /\ job_events'[h] = Deliver(job_events[h], p.type \in Terminal)
               /\ NextSlot(job_events[h]) = v.cursor + 1
               /\ stream[q] = "open" => Receiver(job_events[h]) = q
               /\ delivered' = IF stream[q] = "open"
                               THEN [delivered EXCEPT ![q] = Append(@, [handle |-> h, n |-> p.n])]
                               ELSE delivered
  <1> DEFINE p == Head(to_client)
             q == v.slots[v.cursor + 1]
             r == Receiver(job_events[h])
  <1>1. v.cursor + 1 \in DOMAIN v.slots /\ q \in Requests /\ v.slots \in Seq(Requests)
        /\ NextSlot(v) = v.cursor + 1
    <2>1. v.cursor = 0 \/ v.cursor < Len(v.slots)
      BY DEF StartsAt
    <2>2. v.cursor + 1 \in DOMAIN v.slots /\ NextSlot(v) = v.cursor + 1
      BY <2>1, DeliverView
    <2> QED
      BY <2>2 DEF View
  <1>2. /\ job_events'[h] = Deliver(job_events[h], p.type \in Terminal)
        /\ delivered' = IF r # NoRequest /\ stream[r] = "open"
                        THEN [delivered EXCEPT ![r] = Append(@, [handle |-> h, n |-> p.n])]
                        ELSE delivered
    BY PartsOK DEF ReceiveWork
  <1>3. /\ Masks(h, v) /\ job_events[h] \in SubsOf(Requests \cup {NoRequest})
    BY PartsOK DEF StartsAt
  <1>4. NextSlot(job_events[h]) = v.cursor + 1
    BY <1>1, <1>3 DEF Masks, NextSlot, InBounds
  <1>5. job_events[h].slots # <<>>
    BY <1>1, <1>3 DEF Masks, SubsOf
  <1>6. r = job_events[h].slots[v.cursor + 1]
    BY <1>4, <1>5 DEF Receiver
  <1>7. r = q \/ (r = NoRequest /\ stream[q] # "open")
    BY <1>1, <1>3, <1>6 DEF Masks
  <1>8. q # NoRequest
    BY <1>1, RequestAssumption
  <1> HIDE DEF q, r
  <1> QED
    BY <1>1, <1>2, <1>4, <1>7, <1>8 DEF q, r

\* A copy that is for another handle.
LEMMA FollowedReadElsewhere ==
    ASSUME TypeOK, AttributionInv, KeepsTracked, ReceiveWork,
           \A g \in Handles : Followed(g),
           NEW h \in Handles, Head(to_client).handle # h
    PROVE  Followed(h)'
  <1> DEFINE p == Head(to_client)
             g == p.handle
  <1>1. PICK v \in View, n \in Nat, w \in View, m \in Nat :
           /\ LeadsTo(to_client, since, h, v, n, w, m)
           /\ StartsAt(h, v, n) /\ EndsAt(h, w, m)
    BY DEF Followed
  <1>2. /\ to_client # <<>> /\ to_client' = Tail(to_client) /\ p.type \in Events
        /\ UNCHANGED <<stream, since, answer, wire, log, opted_in, registered>>
    BY DEF ReceiveWork, server
  <1>3. g \in Handles /\ job_events'[h] = job_events[h]
    <2>1. p \in Packets
      BY <1>2, SeqsOK, TailElems
    <2> QED
      BY <1>2, <2>1, PartsOK DEF Packets, ReceiveWork
  <1>4. PICK x \in View, k \in Nat :
           /\ Reads(h, p, since[p.req], v, n, x, k)
           /\ LeadsTo(Tail(to_client), since, h, x, k, w, m)
    BY <1>1, <1>2, SeqsOK, LeadsFirst
  <1>5. x = v /\ k = n
    BY <1>4 DEF Reads, Joins, IsEvent
  <1>6. ASSUME NEW j \in DOMAIN v.slots, stream[v.slots[j]] = "open"
        PROVE  delivered'[v.slots[j]] = delivered[v.slots[j]]
    <2> DEFINE r == v.slots[j]
    <2>1. r \in Requests /\ answer[r] = Outcome("job_created", h)
      BY <1>1 DEF StartsAt, Tracks, View
    <2>2. PICK v2 \in View, n2 \in Nat, w2 \in View, m2 \in Nat :
             LeadsTo(to_client, since, g, v2, n2, w2, m2) /\ StartsAt(g, v2, n2)
      BY <1>3 DEF Followed
    <2>3. v2.slots # <<>>
      <3>1. PICK x2 \in View, k2 \in Nat : Reads(g, p, since[p.req], v2, n2, x2, k2)
        BY <1>2, <2>2, SeqsOK, LeadsFirst
      <3>2. ~Joins(g, p) /\ IsEvent(g, p)
        BY <1>2 DEF Joins, IsEvent, Events, Progress, Terminal
      <3> QED
        BY <3>1, <3>2 DEF Reads
    <2> DEFINE q == v2.slots[v2.cursor + 1]
    <2>4. /\ q \in Requests /\ v2.cursor + 1 \in DOMAIN v2.slots
          /\ delivered' = IF stream[q] = "open"
                          THEN [delivered EXCEPT ![q] = Append(@, [handle |-> g, n |-> p.n])]
                          ELSE delivered
      BY <1>3, <2>2, <2>3, Delivery
    <2>5. answer[q] = Outcome("job_created", g)
      BY <2>2, <2>4 DEF StartsAt, Tracks
    <2>6. q # r
      BY <2>1, <2>5 DEF Outcome
    <2> HIDE DEF q, r
    <2> QED
      BY <2>1, <2>4, <2>6, PartsOK DEF r
  <1>7. StartsAt(h, v, n)'
    BY <1>1, <1>3, <1>6, StartsStable, MasksStable
  <1>8. EndsAt(h, w, m)'
    BY <1>1, <1>2 DEF EndsAt
  <1> QED
    BY <1>2, <1>4, <1>5, <1>7, <1>8 DEF Followed

\* A copy that is for h itself.
LEMMA FollowedRead ==
    ASSUME TypeOK, AttributionInv, KeepsTracked, ReceiveWork,
           NEW h \in Handles, Followed(h), Head(to_client).handle = h
    PROVE  Followed(h)'
  <1> DEFINE p == Head(to_client)
  <1>1. PICK v \in View, n \in Nat, w \in View, m \in Nat :
           /\ LeadsTo(to_client, since, h, v, n, w, m)
           /\ StartsAt(h, v, n) /\ EndsAt(h, w, m)
    BY DEF Followed
  <1>2. /\ to_client # <<>> /\ to_client' = Tail(to_client) /\ p.type \in Events
        /\ UNCHANGED <<stream, since, answer, wire, log, opted_in, registered, caller, outcome>>
    BY DEF ReceiveWork, server
  <1>3. PICK x \in View, k \in Nat :
           /\ Reads(h, p, since[p.req], v, n, x, k)
           /\ LeadsTo(Tail(to_client), since, h, x, k, w, m)
    BY <1>1, <1>2, SeqsOK, LeadsFirst
  <1> DEFINE terminal == p.type \in Terminal
             c == v.cursor
             q == v.slots[c + 1]
             s == job_events[h].slots
             K == Len(v.slots)
  <1>4. /\ v.slots # <<>> /\ p.n = n + 1 /\ x = Deliver(v, terminal)
        /\ IF terminal THEN c = 0 /\ k = n ELSE k = IF x.cursor = 0 THEN n + 1 ELSE n
    <2>1. ~Joins(h, p) /\ IsEvent(h, p)
      BY <1>2 DEF Joins, IsEvent, Events, Progress, Terminal
    <2> QED
      BY <1>3, <2>1 DEF Reads
  <1>5. /\ c + 1 \in DOMAIN v.slots /\ q \in Requests
        /\ job_events'[h] = Deliver(job_events[h], terminal)
        /\ NextSlot(job_events[h]) = c + 1
        /\ delivered' = IF stream[q] = "open"
                        THEN [delivered EXCEPT ![q] = Append(@, [handle |-> h, n |-> p.n])]
                        ELSE delivered
    BY <1>1, <1>4, Delivery
  <1>6. /\ v = [slots |-> v.slots, cursor |-> c]
        /\ v.slots \in Seq(Requests) /\ K \in Nat \ {0} /\ DOMAIN v.slots = 1 .. K
        /\ c \in Nat /\ c < K
        /\ s \in Seq(Requests \cup {NoRequest}) /\ Len(s) = K /\ DOMAIN s = 1 .. K
        /\ job_events[h] = [slots |-> s, cursor |-> c]
        /\ \A j \in 1 .. K : s[j] = v.slots[j] \/ (s[j] = NoRequest /\ stream[v.slots[j]] # "open")
    <2>1. v.slots \in Seq(Requests) /\ K \in Nat \ {0} /\ DOMAIN v.slots = 1 .. K /\ c \in Nat
          /\ v = [slots |-> v.slots, cursor |-> c]
      BY <1>4 DEF View
    <2>2. job_events[h] \in SubsOf(Requests \cup {NoRequest}) /\ Masks(h, v)
      BY <1>1, PartsOK DEF StartsAt
    <2> QED
      BY <1>1, <2>1, <2>2 DEF StartsAt, Masks, SubsOf
  <1>7. \A j \in 1 .. K : Tracks(h, v, n, j) /\ v.slots[j] \in Requests
    BY <1>1, <1>6 DEF StartsAt
  <1>8. \A i, j \in 1 .. K : v.slots[i] = v.slots[j] => i = j
    BY <1>1, <1>6 DEF StartsAt, Distinct
  \* The subscriber at the cursor has had one more, the others have not.
  <1>9. ASSUME NEW j \in 1 .. K, stream[v.slots[j]] = "open"
        PROVE  since[v.slots[j]] + Len(delivered'[v.slots[j]]) =
                   IF j <= c + 1 THEN n + 1 ELSE n
    <2> DEFINE r == v.slots[j]
    <2>1. since[r] + Len(delivered[r]) = IF j <= c THEN n + 1 ELSE n
      BY <1>7, <1>9 DEF Tracks
    <2>2. r \in Requests /\ delivered[r] \in Seq([handle : Handles, n : Nat]) /\ since[r] \in Nat
      BY <1>7, PartsOK
    <2>3. CASE j = c + 1
      <3>1. delivered'[r] = Append(delivered[r], [handle |-> h, n |-> p.n])
        BY <1>5, <1>9, <2>2, <2>3, PartsOK
      <3>2. Len(delivered'[r]) = Len(delivered[r]) + 1 /\ Len(delivered[r]) \in Nat
        BY <2>2, <3>1
      <3> HIDE DEF r
      <3> QED
        BY SMTT(30), <1>6, <2>1, <2>2, <2>3, <3>2 DEF r
    <2>4. CASE j # c + 1
      <3>1. r # q
        BY <1>5, <1>6, <1>8, <2>4
      <3>2. delivered'[r] = delivered[r]
        BY <1>5, <2>2, <3>1, PartsOK
      <3> QED
        BY <1>6, <2>1, <2>4, <3>2
    <2> QED
      BY <2>3, <2>4
  <1>10. EndsAt(h, w, m)'
    BY <1>1, <1>2 DEF EndsAt
  <1>11. ASSUME StartsAt(h, x, k)' PROVE Followed(h)'
    BY <1>2, <1>3, <1>10, <1>11 DEF Followed
  \* What Tracks says of a subscriber besides the events it has had.
  <1>12. ASSUME NEW j \in 1 .. K, NEW i, x.slots[i] = v.slots[j],
                stream[v.slots[j]] = "open" =>
                   since[v.slots[j]] + Len(delivered'[v.slots[j]]) =
                       IF i <= x.cursor THEN k + 1 ELSE k
         PROVE  Tracks(h, x, k, i)'
    BY <1>2, <1>7, <1>12 DEF Tracks, KeepsTracked, Elems
  <1>13. CASE ~terminal
    <2>1. x = [slots |-> v.slots, cursor |-> IF c + 1 = K THEN 0 ELSE c + 1]
      <3>1. (v.cursor = 0 \/ v.cursor < Len(v.slots)) /\ (p.type \in Terminal) = FALSE
        BY <1>1, <1>13 DEF StartsAt
      <3> QED
        BY <1>4, <3>1, DeliverView
    <2>2. job_events'[h] = [slots |-> s, cursor |-> IF c + 1 = K THEN 0 ELSE c + 1]
      <3>1. s # <<>> /\ InBounds(c + 1, s) = IF c + 1 = K THEN 0 ELSE c + 1
        BY <1>6 DEF InBounds
      <3> QED
        BY <1>5, <1>6, <1>13, <3>1 DEF Deliver
    <2>3. x.cursor = 0 \/ x.cursor < Len(x.slots)
      BY <1>6, <2>1
    <2>4. Masks(h, x)'
      <3>1. /\ x.slots = v.slots /\ job_events'[h].slots = s
            /\ job_events'[h].cursor = x.cursor
        BY <2>1, <2>2
      <3> HIDE DEF s
      <3> QED
        BY <1>2, <1>6, <3>1 DEF Masks
    <2>5. ASSUME NEW j \in 1 .. K PROVE Tracks(h, x, k, j)'
      <3>1. (IF j <= x.cursor THEN k + 1 ELSE k) = IF j <= c + 1 THEN n + 1 ELSE n
        <4>1. CASE c + 1 = K
          <5>1. x.cursor = 0 /\ k = n + 1 /\ j <= c + 1 /\ ~(j <= 0)
            BY <1>4, <1>6, <1>13, <2>1, <4>1
          <5> QED
            BY <5>1
        <4>2. CASE c + 1 # K
          <5>1. x.cursor = c + 1 /\ x.cursor # 0
            BY <1>6, <2>1, <4>2
          <5>2. k = n
            BY <1>4, <1>13, <5>1
          <5> QED
            BY <5>1, <5>2
        <4> QED
          BY <4>1, <4>2
      <3>2. x.slots[j] = v.slots[j]
        BY <2>1
      <3> QED
        BY <1>9, <1>12, <3>1, <3>2
    <2>6. StartsAt(h, x, k)'
      <3>1. DOMAIN x.slots = 1 .. K /\ Distinct(x.slots)
        BY <1>1, <1>6, <2>1 DEF StartsAt
      <3> QED
        BY <2>3, <2>4, <2>5, <3>1 DEF StartsAt
    <2> QED
      BY <1>11, <2>6
  <1>14. CASE terminal
    <2>1. c = 0 /\ k = n
      BY <1>4, <1>14
    <2>2. x = [slots |-> SwapRemove(v.slots, 1), cursor |-> 0]
      BY <1>1, <1>4, <1>14, <2>1, DeliverView DEF StartsAt
    <2>3. job_events'[h] = [slots |-> SwapRemove(s, 1), cursor |-> 0]
      <3>1. s # <<>> /\ \A t : InBounds(0, t) = 0
        BY <1>6 DEF InBounds
      <3> QED
        BY <1>5, <1>6, <1>14, <2>1, <3>1 DEF Deliver
    <2> DEFINE t == SwapRemove(v.slots, 1)
               u == SwapRemove(s, 1)
    <2>4. /\ DOMAIN t = 1 .. K - 1 /\ Distinct(t) /\ Len(t) = K - 1
          /\ \A i \in DOMAIN t : \E j \in DOMAIN v.slots : j # 1 /\ t[i] = v.slots[j]
      <3>1. Distinct(v.slots)
        BY <1>1 DEF StartsAt
      <3>2. 1 \in 1 .. K /\ Len(t) = K - 1
        BY <1>6, SwapRemoveType
      <3> QED
        BY <1>4, <1>6, <3>1, <3>2, SwapRemoveFirst
    <2>5. /\ Len(u) = K - 1
          /\ \A i \in 1 .. K - 1 : /\ u[i] = IF i = 1 THEN s[K] ELSE s[i]
                                   /\ t[i] = IF i = 1 THEN v.slots[K] ELSE v.slots[i]
      BY <1>6 DEF SwapRemove
    <2> HIDE DEF t, u
    <2>6. Masks(h, x)'
      <3>1. ASSUME NEW i \in 1 .. K - 1
            PROVE  u[i] = t[i] \/ (u[i] = NoRequest /\ stream[t[i]] # "open")
        <4>1. PICK j \in 1 .. K : u[i] = s[j] /\ t[i] = v.slots[j]
          BY <1>6, <2>5
        <4> QED
          BY <1>6, <4>1
      <3>2. x.slots = t /\ x.cursor = 0 /\ job_events'[h].slots = u /\ job_events'[h].cursor = 0
        BY <2>2, <2>3 DEF t, u
      <3> QED
        BY <1>2, <2>4, <2>5, <3>1, <3>2 DEF Masks
    <2>7. ASSUME NEW i \in 1 .. K - 1 PROVE Tracks(h, x, k, i)'
      <3>1. PICK j \in 1 .. K : j # 1 /\ t[i] = v.slots[j]
        BY <1>6, <2>4
      <3>2. x.slots[i] = v.slots[j] /\ x.cursor = 0
        BY <2>2, <3>1 DEF t
      <3>3. ~(j <= c + 1) /\ ~(i <= x.cursor)
        BY <1>6, <2>1, <3>1, <3>2
      <3> QED
        BY <1>9, <1>12, <2>1, <3>2, <3>3
    <2>8. StartsAt(h, x, k)'
      <3>1. x.slots = t /\ x.cursor = 0
        BY SMTT(30), <2>2 DEF t
      <3> QED
        BY <2>4, <2>6, <2>7, <3>1 DEF StartsAt
    <2> QED
      BY <1>11, <2>8
  <1> QED
    BY <1>13, <1>14

-----------------------------------------------------------------------------
(* The other parts of the invariant.                                       *)

\* What a step does to the server's queue.
LEMMA ServerQueueStep ==
    ASSUME TypeOK, Next
    PROVE  \/ UNCHANGED to_server
           \/ to_server' = <<>>
           \/ to_server' = <<OptionReq>> /\ UNCHANGED <<cmd_rx, caller, pending_replies>>
           \/ to_server # <<>> /\ to_server' = Tail(to_server)
              /\ UNCHANGED <<cmd_rx, caller, pending_replies>>
           \/ SendCommand /\ to_server' = Append(to_server, Head(cmd_rx))
  BY DEF Next, Callers, Submit, GetStatus, Cancel, DropStream, DropClient,
         ActorLoop, SendCommand, SendFails, ReceiveReply, ReceiveWork, ReceiveFails, PruneTick,
         ClientGone, Reconnecting, Connect, ConnectFails, Negotiate, NegotiateFails,
         MarkDisconnected, Wake, CloseWire, ServerForgets, BecomeReady, Server, ServeOption,
         ServeSubmit, ServeStatus, ServeError, ServerWork, OtherClientSubmits, Break,
         calls, queues

\* What a step does to the command queue and the calls: a call that is made goes
\* to the queue, and none becomes idle again.
LEMMA CommandsStep ==
    ASSUME TypeOK, Next
    PROVE  /\ \/ UNCHANGED cmd_rx
              \/ cmd_rx # <<>> /\ cmd_rx' = Tail(cmd_rx)
              \/ \E r \in Requests : caller[r] = "idle" /\ cmd_rx' = Append(cmd_rx, r)
           /\ \A r \in Requests : caller[r] # "idle" => caller'[r] # "idle"
  <1> USE PartsOK
  <1>1. ASSUME NEW r \in Requests, Submit(r) \/ GetStatus(r)
        PROVE  /\ UNCHANGED cmd_rx \/ cmd_rx' = Append(cmd_rx, r)
               /\ caller[r] = "idle"
               /\ \A q \in Requests : caller[q] # "idle" => caller'[q] # "idle"
    BY <1>1 DEF Submit, GetStatus, ReturnsAtOnce, Asks
  <1>2. ASSUME NEW r \in Requests, Cancel(r) \/ DropStream(r)
        PROVE  /\ UNCHANGED cmd_rx
               /\ \A q \in Requests : caller[q] # "idle" => caller'[q] # "idle"
    BY <1>2 DEF Cancel, DropStream, queues
  <1>3. CASE ActorLoop
    <2>1. UNCHANGED cmd_rx \/ (cmd_rx # <<>> /\ cmd_rx' = Tail(cmd_rx))
      BY SMTT(30), <1>3 DEF ActorLoop, SendCommand, SendFails, ReceiveReply, ReceiveWork, ReceiveFails,
                  PruneTick, ClientGone
    <2>2. \/ UNCHANGED caller
          \/ \E result : Resolve(result)
      BY <1>3 DEF ActorLoop, SendCommand, SendFails, ReceiveReply, ReceiveWork, ReceiveFails,
                  PruneTick, ClientGone, LeaveLoop, calls
    <2>3. \A q \in Requests : caller[q] # "idle" => caller'[q] # "idle"
      BY <2>2 DEF Resolve
    <2> QED
      BY <2>1, <2>3
  <1>4. CASE DropClient \/ Reconnecting \/ Server
    <2>1. UNCHANGED <<cmd_rx, caller>>
      BY <1>4 DEF DropClient, Reconnecting, Connect, ConnectFails, Negotiate, NegotiateFails,
                  MarkDisconnected, Wake, Server, ServeOption, ServeSubmit, ServeStatus,
                  ServeError, ServerWork, OtherClientSubmits, Break, calls, queues
    <2> QED
      BY <2>1
  <1> QED
    BY <1>1, <1>2, <1>3, <1>4 DEF Next, Callers

LEMMA CommandsElems ==
    ASSUME TypeOK, Next, NEW r \in Elems(cmd_rx')
    PROVE  r \in Elems(cmd_rx) \/ (r \in Requests /\ caller[r] = "idle")
  <1>1. cmd_rx \in Seq(Requests)
    BY SeqsOK
  <1>2. CASE UNCHANGED cmd_rx
    BY <1>2
  <1>3. CASE cmd_rx # <<>> /\ cmd_rx' = Tail(cmd_rx)
    <2>1. Elems(cmd_rx) = {Head(cmd_rx)} \cup Elems(Tail(cmd_rx))
      BY <1>1, <1>3, TailElems
    <2> QED
      BY <1>3, <2>1
  <1>4. ASSUME NEW q \in Requests, caller[q] = "idle", cmd_rx' = Append(cmd_rx, q)
        PROVE  r \in Elems(cmd_rx) \/ (r \in Requests /\ caller[r] = "idle")
    <2>1. Elems(Append(cmd_rx, q)) = Elems(cmd_rx) \cup {q}
      BY <1>1, AppendElems
    <2> QED
      BY <1>4, <2>1
  <1> QED
    BY <1>2, <1>3, <1>4, CommandsStep

LEMMA SentOnceStep ==
    ASSUME TypeOK, WaitingIsOwned, SentOnce, QueuesHoldOpenCalls, Next
    PROVE  SentOnce'
  <1>1. /\ cmd_rx \in Seq(Requests) /\ to_server \in Seq(Requests \cup {OptionReq})
        /\ OptionReq \notin Requests
    BY SeqsOK, RequestAssumption DEF OptionReq
  <1>2. \A r \in Requests : caller[r] # "idle" => caller'[r] # "idle"
    BY CommandsStep
  <1>3. \A r \in Elems(cmd_rx') : r \in Elems(cmd_rx) \/ (r \in Requests /\ caller[r] = "idle")
    BY CommandsElems
  <1>4. Elems(to_server) \subseteq Requests \cup {OptionReq} /\ Elems(cmd_rx) \subseteq Requests
    BY <1>1 DEF Elems
  <1>5. ASSUME NEW q \in Seq(Requests \cup {OptionReq}), to_server' = q, Distinct(q),
               Elems(q) \subseteq Elems(to_server)
        PROVE  SentOnce'
    <2>1. \A r \in Elems(q) \ {OptionReq} : caller[r] # "idle" /\ r \in Requests
      BY <1>4, <1>5 DEF SentOnce
    <2>2. Elems(q) \cap Elems(cmd_rx') = {}
      BY <1>1, <1>3, <1>4, <1>5, <2>1 DEF SentOnce
    <2>3. Elems(to_server)' = Elems(q) /\ Distinct(to_server)' /\ Elems(cmd_rx)' = Elems(cmd_rx')
      BY <1>5 DEF Elems, Distinct
    <2> QED
      BY <1>2, <2>1, <2>2, <2>3 DEF SentOnce
  <1>6. CASE UNCHANGED to_server
    <2>1. to_server' = to_server
      BY <1>6
    <2> QED
      BY <1>1, <1>5, <2>1 DEF SentOnce
  <1>7. CASE to_server' = <<>>
    <2>1. /\ Elems(<<>>) = {} /\ Distinct(<<>>) /\ <<>> \in Seq(Requests \cup {OptionReq})
      BY DEF Elems, Distinct
    <2> QED
      BY <1>5, <1>7, <2>1
  <1>8. CASE to_server' = <<OptionReq>> /\ UNCHANGED <<cmd_rx, caller, pending_replies>>
    <2>1. /\ Elems(<<OptionReq>>) = {OptionReq} /\ Distinct(<<OptionReq>>)
      BY DEF Elems, Distinct
    <2>2. Elems(to_server)' = {OptionReq} /\ Distinct(to_server)' /\ Elems(cmd_rx)' = Elems(cmd_rx)
      BY <1>8, <2>1 DEF Elems, Distinct
    <2> QED
      BY <1>1, <1>4, <2>2 DEF SentOnce
  <1>9. CASE to_server # <<>> /\ to_server' = Tail(to_server)
    BY <1>1, <1>5, <1>9, TailElems DEF SentOnce
  <1>10. CASE SendCommand /\ to_server' = Append(to_server, Head(cmd_rx))
    <2> DEFINE r == Head(cmd_rx)
    <2>1. /\ cmd_rx # <<>> /\ cmd_rx' = Tail(cmd_rx) /\ UNCHANGED caller
      BY <1>10 DEF SendCommand, calls
    <2>2. /\ r \in Requests /\ Elems(cmd_rx) = {r} \cup Elems(Tail(cmd_rx))
          /\ r \notin Elems(Tail(cmd_rx))
      BY <1>1, <2>1, TailElems DEF WaitingIsOwned
    <2>3. /\ Elems(Append(to_server, r)) = Elems(to_server) \cup {r}
          /\ Distinct(Append(to_server, r))
      BY <1>1, <2>2, AppendElems DEF SentOnce
    <2>4. /\ Elems(to_server)' = Elems(Append(to_server, r))
          /\ Distinct(to_server)'
          /\ Elems(cmd_rx)' = Elems(Tail(cmd_rx))
      BY <1>10, <2>1, <2>3 DEF Elems, Distinct
    <2>5. caller[r] # "idle"
      BY <2>2 DEF QueuesHoldOpenCalls
    <2> QED
      BY <2>1, <2>2, <2>3, <2>4, <2>5 DEF SentOnce
  <1> QED
    BY <1>6, <1>7, <1>8, <1>9, <1>10, ServerQueueStep

\* No request goes back to a queue it has left.
LEMMA UnreadStep ==
    ASSUME TypeOK, Next, NEW r \in Requests
    PROVE  /\ Unread(r)' => Unread(r)
           /\ r \in Elems(pending_replies)' => Unread(r) \/ r \in Elems(pending_replies)
  <1>1. /\ cmd_rx \in Seq(Requests) /\ to_server \in Seq(Requests \cup {OptionReq})
        /\ pending_replies \in Seq(Requests) /\ OptionReq \notin Requests
    BY SeqsOK, RequestAssumption DEF OptionReq
  <1>2. r \in Elems(cmd_rx') => Unread(r)
    BY CommandsElems DEF Unread
  <1>3. r \in Elems(to_server') => Unread(r)
    <2>1. Elems(<<OptionReq>>) = {OptionReq} /\ Elems(<<>>) = {}
      BY DEF Elems
    <2>2. CASE SendCommand /\ to_server' = Append(to_server, Head(cmd_rx))
      <3>1. cmd_rx # <<>>
        BY <2>2 DEF SendCommand
      <3> QED
        BY <1>1, <2>2, <3>1, TailElems, AppendElems DEF Unread
    <2>3. CASE to_server # <<>> /\ to_server' = Tail(to_server)
      <3>1. Elems(to_server) = {Head(to_server)} \cup Elems(Tail(to_server))
        BY <1>1, <2>3, TailElems
      <3> QED
        BY <2>3, <3>1 DEF Unread
    <2>4. CASE to_server' \in {to_server, <<>>, <<OptionReq>>}
      BY <1>1, <2>1, <2>4 DEF Unread
    <2> QED
      BY <2>2, <2>3, <2>4, ServerQueueStep
  <1>4. Unread(r)' => Unread(r)
    <2>1. Elems(cmd_rx)' = Elems(cmd_rx') /\ Elems(to_server)' = Elems(to_server')
      BY DEF Elems
    <2> QED
      BY <1>2, <1>3, <2>1, CommandsStep DEF Unread
  <1>5. r \in Elems(pending_replies') => Unread(r) \/ r \in Elems(pending_replies)
    <2>1. CASE SendCommand
      <3>1. cmd_rx # <<>> /\ pending_replies' = Append(pending_replies, Head(cmd_rx))
        BY <2>1 DEF SendCommand
      <3> QED
        BY <1>1, <3>1, TailElems, AppendElems DEF Unread
    <2>2. CASE ~SendCommand
      <3>1. \/ UNCHANGED pending_replies
            \/ pending_replies' = <<>>
            \/ pending_replies # <<>> /\ pending_replies' = Tail(pending_replies)
        BY <2>2 DEF Next, Callers, Submit, GetStatus, Cancel, DropStream, DropClient,
              ActorLoop, SendFails, ReceiveReply, ReceiveWork, ReceiveFails, PruneTick,
              ClientGone, LeaveLoop, Reconnecting, Connect, ConnectFails, Negotiate, NegotiateFails,
              MarkDisconnected, Wake, Server, ServeOption, ServeSubmit, ServeStatus, ServeError,
              ServerWork, OtherClientSubmits, Break, queues
      <3>2. Elems(<<>>) = {}
        BY DEF Elems
      <3>3. pending_replies # <<>> =>
              Elems(pending_replies) = {Head(pending_replies)} \cup Elems(Tail(pending_replies))
        BY <1>1, TailElems
      <3> QED
        BY <3>1, <3>2, <3>3
    <2> QED
      BY <2>1, <2>2
  <1>6. Elems(pending_replies)' = Elems(pending_replies')
    BY DEF Elems
  <1> QED
    BY <1>4, <1>5, <1>6

\* The server answers the request it reads, which is none of those it has not read.
LEMMA AnswerStep ==
    ASSUME TypeOK, SentOnce, Next
    PROVE  \/ UNCHANGED <<answer, since>>
           \/ \E r \in Requests :
                /\ r = Head(to_server) /\ to_server # <<>> /\ wire = "up"
                /\ Unread(r) /\ ~Unread(r)'
                /\ \A q \in Requests \ {r} : answer'[q] = answer[q] /\ since'[q] = since[q]
  <1>1. CASE ServeSubmit \/ ServeStatus \/ ServeError
    <2>1. PICK r \in Requests : r = Head(to_server)
      BY <1>1, HeadType DEF ServeSubmit, ServeStatus, ServeError
    <2>2. /\ wire = "up" /\ to_server # <<>> /\ to_server' = Tail(to_server)
          /\ UNCHANGED <<caller, cmd_rx>>
      BY <1>1 DEF ServeSubmit, ServeStatus, ServeError, calls, queues
    <2>3. \A q \in Requests \ {r} : answer'[q] = answer[q] /\ since'[q] = since[q]
      BY <1>1, <2>1, PartsOK DEF ServeSubmit, ServeStatus, ServeError, Reply
    <2>4. /\ Elems(to_server) = {r} \cup Elems(Tail(to_server)) /\ r \notin Elems(Tail(to_server))
      BY <2>1, <2>2, SeqsOK, TailElems DEF SentOnce
    <2>5. Elems(to_server)' = Elems(Tail(to_server)) /\ Elems(cmd_rx)' = Elems(cmd_rx)
      BY <2>2 DEF Elems
    <2>6. r # OptionReq /\ caller[r] # "idle" /\ r \notin Elems(cmd_rx)
      BY <2>4, RequestAssumption DEF SentOnce, OptionReq
    <2>7. Unread(r) /\ ~Unread(r)'
      BY SMTT(30), <2>2, <2>4, <2>5, <2>6 DEF Unread
    <2> QED
      BY <2>1, <2>2, <2>3, <2>7
  <1>2. CASE ~(ServeSubmit \/ ServeStatus \/ ServeError)
    BY <1>2 DEF Next, Callers, Submit, GetStatus, Cancel, DropStream, DropClient,
              ActorLoop, SendCommand, SendFails, ReceiveReply, ReceiveWork, ReceiveFails, PruneTick,
              ClientGone, Reconnecting, Connect, ConnectFails, Negotiate, NegotiateFails,
              MarkDisconnected, Wake, Server, ServeOption,
              ServerWork, OtherClientSubmits, Break, server
  <1> QED
    BY <1>1, <1>2

LEMMA NotAnsweredStep == ASSUME TypeOK, SentOnce, NotAnswered, Next PROVE NotAnswered'
  <1>1. ASSUME NEW r \in Requests, Unread(r)' PROVE answer'[r] = NoOutcome
    <2>1. Unread(r) /\ answer[r] = NoOutcome
      BY <1>1, UnreadStep DEF NotAnswered
    <2>2. answer'[r] = answer[r]
      BY <1>1, AnswerStep
    <2> QED
      BY <2>1, <2>2
  <1> QED
    BY <1>1 DEF NotAnswered, NoOutcome, Outcome

LEMMA OpenStreamsStep ==
    ASSUME TypeOK, QueuesHoldOpenCalls, OpenStreams, Next PROVE OpenStreams'
  <1> USE PartsOK DEF OpenStreams
  <1>1. ASSUME NEW r \in Requests, Submit(r) \/ GetStatus(r) PROVE OpenStreams'
    BY <1>1 DEF Submit, GetStatus, ReturnsAtOnce, Asks
  <1>2. ASSUME NEW r \in Requests, Cancel(r) \/ DropStream(r) PROVE OpenStreams'
    BY <1>2 DEF Cancel, DropStream
  <1>3. ASSUME UNCHANGED stream, UNCHANGED caller \/ \E result : Resolve(result)
        PROVE  OpenStreams'
    BY SMTT(30), <1>3 DEF Resolve
  <1>4. CASE DropClient \/ ActorLoop \/ Reconnecting \/ Server
    BY <1>3, <1>4 DEF DropClient, ActorLoop, SendCommand, SendFails, ReceiveReply, ReceiveWork,
          ReceiveFails, PruneTick, ClientGone, LeaveLoop, Reconnecting, Connect, ConnectFails,
          Negotiate, NegotiateFails, MarkDisconnected, Wake, Server, ServeOption, ServeSubmit,
          ServeStatus, ServeError, ServerWork, OtherClientSubmits, Break, calls
  <1> QED
    BY <1>1, <1>2, <1>4 DEF Next, Callers

\* An event goes to a subscriber that was told of its job, and it is the next one for it.
LEMMA NextEvent ==
    ASSUME TypeOK, AttributionInv, ReceiveWork, \A g \in Handles : Followed(g)
    PROVE  \/ UNCHANGED delivered
           \/ \E h \in Handles, n \in Nat, q \in Requests :
                /\ delivered' = [delivered EXCEPT ![q] = Append(@, [handle |-> h, n |-> n + 1])]
                /\ ~Unread(q) /\ q \notin Elems(pending_replies)
                /\ answer[q].handle = h /\ since[q] + Len(delivered[q]) = n
  <1>1. PICK h \in Handles : h = Head(to_client).handle
    <2>1. Head(to_client) \in Packets /\ Head(to_client).type \in Events
      BY SeqsOK, TailElems DEF ReceiveWork
    <2> QED
      BY <2>1 DEF Packets
  <1>2. PICK v \in View, n \in Nat, w \in View, m \in Nat :
           LeadsTo(to_client, since, h, v, n, w, m) /\ StartsAt(h, v, n)
    BY <1>1 DEF Followed
  <1> DEFINE p == Head(to_client)
             c == v.cursor
             q == v.slots[c + 1]
  <1>3. to_client # <<>> /\ p.type \in Events /\ pc = "actor_loop"
    BY DEF ReceiveWork
  <1>4. PICK x \in View, k \in Nat : Reads(h, p, since[p.req], v, n, x, k)
    BY <1>2, <1>3, SeqsOK, LeadsFirst
  <1>5. v.slots # <<>> /\ p.n = n + 1
    BY <1>1, <1>3, <1>4 DEF Reads, IsEvent, Joins, Events, Progress, Terminal
  <1>6. /\ c + 1 \in DOMAIN v.slots /\ q \in Requests
        /\ delivered' = IF stream[q] = "open"
                        THEN [delivered EXCEPT ![q] = Append(@, [handle |-> h, n |-> p.n])]
                        ELSE delivered
    BY <1>1, <1>2, <1>5, Delivery
  <1>7. Tracks(h, v, n, c + 1)
    BY <1>2, <1>6 DEF StartsAt
  <1>8. c \in Nat /\ ~(c + 1 <= c)
    BY <1>2 DEF View
  <1>9. CASE stream[q] = "open"
    <2>1. /\ q \notin Elems(cmd_rx) \cup Elems(pending_replies) /\ caller[q] # "idle"
          /\ answer[q] = Outcome("job_created", h)
          /\ since[q] + Len(delivered[q]) = n
      BY <1>7, <1>8, <1>9 DEF Tracks
    <2>2. ~Unread(q)
      BY <1>3, <2>1, UnservedPend DEF Unread
    <2>3. answer[q].handle = h
      BY <2>1 DEF Outcome
    <2>4. delivered' = [delivered EXCEPT ![q] = Append(@, [handle |-> h, n |-> n + 1])]
      BY <1>5, <1>6, <1>9
    <2> HIDE DEF q
    <2> QED
      BY <1>6, <2>1, <2>2, <2>3, <2>4
  <1>10. CASE stream[q] # "open"
    BY <1>6, <1>10
  <1> QED
    BY <1>9, <1>10

LEMMA OnlyWorkDelivers ==
    ASSUME Next PROVE UNCHANGED delivered \/ ReceiveWork
  BY DEF Next, Callers, Submit, GetStatus, Cancel, DropStream, DropClient,
         ActorLoop, SendCommand, SendFails, ReceiveReply, ReceiveFails, PruneTick,
         ClientGone, Reconnecting, Connect, ConnectFails, Negotiate, NegotiateFails,
         MarkDisconnected, Wake, Server, ServeOption, ServeSubmit, ServeStatus, ServeError,
         ServerWork, OtherClientSubmits, Break, calls

LEMMA NothingYetStep ==
    ASSUME TypeOK, AttributionInv, NothingYet, Next,
           pc = "actor_loop" => \A g \in Handles : Followed(g)
    PROVE  NothingYet'
  <1>1. ASSUME NEW r \in Requests, Unread(r)' \/ r \in Elems(pending_replies)'
        PROVE  delivered'[r] = <<>>
    <2>1. Unread(r) \/ r \in Elems(pending_replies)
      BY <1>1, UnreadStep
    <2>2. delivered[r] = <<>>
      BY <2>1 DEF NothingYet
    <2>3. CASE UNCHANGED delivered
      BY <2>2, <2>3
    <2>4. CASE ReceiveWork
      <3>1. \/ UNCHANGED delivered
            \/ \E q \in Requests : \E e :
                 /\ delivered' = [delivered EXCEPT ![q] = e]
                 /\ ~Unread(q) /\ q \notin Elems(pending_replies)
        BY <2>4, NextEvent DEF ReceiveWork
      <3> QED
        BY SMTT(30), <2>1, <2>2, <3>1, PartsOK
    <2> QED
      BY <2>3, <2>4, OnlyWorkDelivers
  <1> QED
    BY <1>1 DEF NothingYet

LEMMA TerminalIsLastStep ==
    ASSUME TypeOK, TerminalIsLast, Next PROVE TerminalIsLast'
  <1> USE PartsOK DEF TerminalIsLast
  <1>1. ASSUME NEW h \in Handles, ServerWork(h) PROVE TerminalIsLast'
    <2>1. PICK event \in ServerEmits :
             /\ log' = [log EXCEPT ![h] = Append(@, event)]
             /\ IF event \in Terminal THEN job' = [job EXCEPT ![h] = "done"] ELSE UNCHANGED job
      BY <1>1 DEF ServerWork
    <2>2. job[h] = "live"
      BY <1>1 DEF ServerWork
    <2>3. event \in Events /\ log[h] \in Seq(Events)
      BY ServerAssumption
    <2>4. ASSUME event \notin Terminal, NEW i \in DOMAIN Append(log[h], event)
          PROVE  Append(log[h], event)[i] \notin Terminal
      <3> DEFINE s == log[h]
      <3>1. (i \in DOMAIN s /\ Append(s, event)[i] = s[i]) \/ Append(s, event)[i] = event
        <4> HIDE DEF s
        <4> QED
          BY <2>3, <2>4 DEF s
      <3>2. \A k \in DOMAIN s : s[k] \notin Terminal
        BY <2>2
      <3> HIDE DEF s
      <3>3. Append(s, event)[i] \notin Terminal
        BY <2>4, <3>1, <3>2
      <3> QED
        BY <3>3 DEF s
    <2>5. ASSUME NEW g \in Handles, job'[g] # "done" PROVE \A i \in DOMAIN log'[g] : log'[g][i] \notin Terminal
      <3>1. CASE g = h
        <4>1. event \notin Terminal
          BY <2>1, <2>5, <3>1
        <4> QED
          BY <2>1, <2>4, <3>1, <4>1
      <3>2. CASE g # h
        BY <2>1, <2>5, <3>2
      <3> QED
        BY <3>1, <3>2
    <2> QED
      BY <2>5
  <1>2. ASSUME UNCHANGED log, \A g \in Handles : job'[g] # "done" => job[g] # "done"
        PROVE  TerminalIsLast'
    BY <1>2
  <1>3. CASE ServeSubmit
    <2>1. \E h \in Handles : job' = [job EXCEPT ![h] = "live"] /\ job[h] # "done"
      BY <1>3 DEF ServeSubmit, JobFor
    <2> QED
      BY <1>2, <1>3, <2>1 DEF ServeSubmit
  <1>4. ASSUME NEW h \in Handles, OtherClientSubmits(h) PROVE TerminalIsLast'
    BY <1>2, <1>4 DEF OtherClientSubmits
  <1>5. CASE \/ Callers \/ ActorLoop \/ Reconnecting
             \/ ServeOption \/ ServeStatus \/ ServeError \/ Break
    <2>1. UNCHANGED <<log, job>>
      BY <1>5 DEF Callers, Submit, GetStatus, Cancel, DropStream, DropClient,
         ActorLoop, SendCommand, SendFails, ReceiveReply, ReceiveWork, ReceiveFails, PruneTick,
         ClientGone, Reconnecting, Connect, ConnectFails, Negotiate, NegotiateFails,
         MarkDisconnected, Wake, ServeOption, ServeStatus, ServeError, Break, server
    <2> QED
      BY SMTT(30), <1>2, <2>1
  <1> QED
    BY <1>1, <1>3, <1>4, <1>5 DEF Next, Server

\* What a step does to the packets under way to the client.
LEMMA ClientQueueStep ==
    ASSUME TypeOK, Next
    PROVE  \/ UNCHANGED to_client
           \/ to_client' = <<>>
           \/ to_client # <<>> /\ to_client' = Tail(to_client)
           \/ \E p \in Packets : p.type \notin Events /\ to_client' = Append(to_client, p)
           \/ \E h \in Handles : ServerWork(h)
  <1>1. CASE Callers \/ ActorLoop \/ Reconnecting \/ Break \/ \E h \in Handles : OtherClientSubmits(h)
    BY <1>1 DEF Callers, Submit, GetStatus, Cancel, DropStream, DropClient,
         ActorLoop, SendCommand, SendFails, ReceiveReply, ReceiveWork, ReceiveFails, PruneTick,
         ClientGone, Reconnecting, Connect, ConnectFails, Negotiate, NegotiateFails,
         MarkDisconnected, Wake, CloseWire, OtherClientSubmits, Break
  <1>2. CASE ServeOption
    <2>1. \E type \in {"option_res", "error"} :
             to_client' = Append(to_client, Packet(type, NoRequest, NoHandle, 0))
      BY <1>2 DEF ServeOption
    <2>2. \A type \in {"option_res", "error"} :
             /\ Packet(type, NoRequest, NoHandle, 0) \in Packets
             /\ Packet(type, NoRequest, NoHandle, 0).type \notin Events
      BY DEF Packet, Packets, Answers, Events, Progress, Terminal
    <2> QED
      BY <2>1, <2>2
  <1>3. CASE ServeSubmit \/ ServeStatus \/ ServeError
    <2>1. PICK r \in Requests : r = Head(to_server)
      BY <1>3, HeadType DEF ServeSubmit, ServeStatus, ServeError
    <2>2. \E type \in Answers, h \in Handles \cup {NoHandle} :
             /\ to_client' = Append(to_client, Packet(type, r, h, 0))
             /\ type = "job_created" => h \in Handles
      <3>1. CASE ServeSubmit
        <4>1. \E h \in Handles : to_client' = Append(to_client, Packet("job_created", r, h, 0))
          BY <2>1, <3>1 DEF ServeSubmit, Reply, JobFor
        <4> QED
          BY <4>1 DEF Answers
      <3>2. CASE ServeStatus
        <4>1. /\ to_client' = Append(to_client, Packet(ReplyType(r), r, outcome[About[r]].handle, 0))
              /\ ~IsSubmit(r)
          BY <2>1, <3>2 DEF ServeStatus, Reply
        <4>2. ReplyType(r) \in {"status_res", "status_res_unique"}
          BY <4>1, RequestAssumption DEF ReplyType, IsSubmit, Kinds
        <4>3. outcome[About[r]].handle \in Handles \cup {NoHandle}
          BY <4>1, RequestAssumption, PartsOK DEF Outcomes
        <4> QED
          BY <4>1, <4>2, <4>3 DEF Answers
      <3>3. CASE ServeError
        BY <2>1, <3>3 DEF ServeError, Reply, Answers
      <3> QED
        BY <1>3, <3>1, <3>2, <3>3
    <2>3. ASSUME NEW type \in Answers, NEW h \in Handles \cup {NoHandle},
                 type = "job_created" => h \in Handles
          PROVE  Packet(type, r, h, 0) \in Packets /\ Packet(type, r, h, 0).type \notin Events
      BY <2>3 DEF Packet, Packets, Answers, Events, Progress, Terminal
    <2> QED
      BY <2>2, <2>3
  <1> QED
    BY SMTT(30), <1>1, <1>2, <1>3 DEF Next, Server

\* The log of a job only grows, at its end, by the step that copies the event.
LEMMA LogStep ==
    ASSUME TypeOK, Next
    PROVE  \/ UNCHANGED log /\ ~\E h \in Handles : ServerWork(h)
           \/ \E h \in Handles, event \in Events :
                /\ ServerWork(h) /\ log' = [log EXCEPT ![h] = Append(@, event)]
                /\ \/ UNCHANGED to_client
                   \/ to_client' = to_client \o Copies(event, registered[h], h, Len(log[h]) + 1)
  <1>1. ASSUME NEW h \in Handles, ServerWork(h)
        PROVE  \E event \in Events :
                /\ log' = [log EXCEPT ![h] = Append(@, event)]
                /\ \/ UNCHANGED to_client
                   \/ to_client' = to_client \o Copies(event, registered[h], h, Len(log[h]) + 1)
    BY <1>1, ServerAssumption DEF ServerWork, Copies
  <1>2. CASE ~\E h \in Handles : ServerWork(h)
    BY <1>2 DEF Next, Callers, Submit, GetStatus, Cancel, DropStream, DropClient,
         ActorLoop, SendCommand, SendFails, ReceiveReply, ReceiveWork, ReceiveFails, PruneTick,
         ClientGone, Reconnecting, Connect, ConnectFails, Negotiate, NegotiateFails,
         MarkDisconnected, Wake, Server, ServeOption, ServeSubmit, ServeStatus, ServeError,
         OtherClientSubmits, Break, server
  <1> QED
    BY <1>1, <1>2

LEMMA EventsAreLoggedStep ==
    ASSUME TypeOK, EventsAreLogged, Next PROVE EventsAreLogged'
  <1> DEFINE Logged(p, l) == p.type \in Events => p.n \in DOMAIN l[p.handle]
                                                  /\ l[p.handle][p.n] = p.type
  <1>1. to_client \in Seq(Packets) /\ log \in [Handles -> Seq(Events)]
    BY SeqsOK, PartsOK
  <1>2. \A i \in DOMAIN to_client : to_client[i] \in Packets /\ Logged(to_client[i], log)
    BY <1>1 DEF EventsAreLogged
  <1>3. \A h \in Handles : /\ DOMAIN log[h] \subseteq DOMAIN log'[h]
                           /\ \A n \in DOMAIN log[h] : log'[h][n] = log[h][n]
    <2>1. ASSUME NEW h \in Handles, NEW event \in Events, log' = [log EXCEPT ![h] = Append(@, event)],
                 NEW g \in Handles
          PROVE  /\ DOMAIN log[g] \subseteq DOMAIN log'[g]
                 /\ \A n \in DOMAIN log[g] : log'[g][n] = log[g][n]
      <3>1. log[h] \in Seq(Events)
        BY <1>1
      <3>2. /\ DOMAIN log[h] \subseteq DOMAIN Append(log[h], event)
            /\ \A n \in DOMAIN log[h] : Append(log[h], event)[n] = log[h][n]
        BY <3>1
      <3>3. log'[g] = IF g = h THEN Append(log[h], event) ELSE log[g]
        BY <1>1, <2>1
      <3> QED
        BY <3>2, <3>3
    <2> QED
      BY <2>1, LogStep
  <1>4. \A p \in Packets : Logged(p, log) => Logged(p, log')
    BY <1>3 DEF Packets
  <1>5. ASSUME NEW i \in DOMAIN to_client' PROVE Logged(to_client'[i], log')
    <2>1. CASE UNCHANGED to_client
      BY <1>2, <1>4, <2>1
    <2>2. CASE to_client # <<>> /\ to_client' = Tail(to_client)
      <3>1. i + 1 \in DOMAIN to_client /\ to_client'[i] = to_client[i + 1]
        BY <1>1, <2>2
      <3> QED
        BY <1>2, <1>4, <3>1
    <2>3. CASE to_client' = <<>>
      BY <2>3
    <2>4. ASSUME NEW p \in Packets, p.type \notin Events, to_client' = Append(to_client, p)
          PROVE  Logged(to_client'[i], log')
      <3>1. to_client'[i] = p \/ (i \in DOMAIN to_client /\ to_client'[i] = to_client[i])
        BY <1>1, <2>4
      <3> QED
        BY <1>2, <1>4, <2>4, <3>1
    <2>5. ASSUME NEW h \in Handles, NEW event \in Events,
                 log' = [log EXCEPT ![h] = Append(@, event)],
                 to_client' = to_client \o Copies(event, registered[h], h, Len(log[h]) + 1)
          PROVE  Logged(to_client'[i], log')
      <3> DEFINE N == Len(log[h]) + 1
                 q == Copies(event, registered[h], h, N)
      <3>1. log[h] \in Seq(Events) /\ registered[h] \in Seq(Requests) /\ N \in Nat
        BY <1>1, PartsOK
      <3>2. /\ q \in Seq(Packets) /\ Len(q) = Len(registered[h])
            /\ \A k \in DOMAIN registered[h] : /\ q[k].type = event /\ q[k].handle = h
                                               /\ q[k].n = N
        BY <3>1, CopiesType
      <3>3. log'[h] = Append(log[h], event) /\ N \in DOMAIN log'[h] /\ log'[h][N] = event
        BY <1>1, <2>5, <3>1
      <3>4. ASSUME NEW k \in DOMAIN registered[h], NEW p, p = q[k] PROVE Logged(p, log')
        BY <3>2, <3>3, <3>4
      <3> HIDE DEF q, N
      <3>5. \/ i \in DOMAIN to_client /\ to_client'[i] = to_client[i]
            \/ \E k \in DOMAIN registered[h] : to_client'[i] = q[k]
        BY <1>1, <2>5, <3>1, <3>2, ConcatElems DEF q, N
      <3> QED
        BY <1>2, <1>4, <3>4, <3>5
    <2> QED
      BY <2>1, <2>2, <2>3, <2>4, <2>5, LogStep, ClientQueueStep, Zenon
  <1> QED
    BY <1>5 DEF EventsAreLogged

LEMMA SubscribersAreLocalStep ==
    ASSUME SubscribersAreLocal, Next PROVE SubscribersAreLocal'
  <1>1. CASE \/ Callers \/ Reconnecting \/ Server
    <2>1. UNCHANGED job_events
      BY <1>1 DEF Callers, Submit, GetStatus, Cancel, DropStream, DropClient, Reconnecting,
         Connect, ConnectFails, Negotiate, NegotiateFails, MarkDisconnected, Wake, Server,
         ServeOption, ServeSubmit, ServeStatus, ServeError, ServerWork, OtherClientSubmits,
         Break, queues
    <2>2. UNCHANGED pc \/ pc # "actor_loop"
      BY <1>1 DEF Callers, Submit, GetStatus, Cancel, DropStream, DropClient, Reconnecting,
         Connect, ConnectFails, Negotiate, NegotiateFails, MarkDisconnected, Wake, Server,
         ServeOption, ServeSubmit, ServeStatus, ServeError, ServerWork, OtherClientSubmits,
         Break, actor
    <2> QED
      BY <2>1, <2>2 DEF SubscribersAreLocal
  <1>2. CASE ActorLoop
    <2>1. \/ pc' = "actor_loop"
          \/ job_events' = [h \in Handles |-> Default]
      BY <1>2 DEF ActorLoop, SendCommand, SendFails, ReceiveReply, ReceiveWork, ReceiveFails,
         PruneTick, ClientGone, LeaveLoop, actor
    <2> QED
      BY <2>1 DEF SubscribersAreLocal
  <1> QED
    BY <1>1, <1>2 DEF Next

\* When the loop starts nothing is under way, and neither side has a subscriber.
LEMMA FollowedStart ==
    ASSUME TypeOK, AttributionInv, SubscribersAreLocal, Next,
           pc # "actor_loop", pc' = "actor_loop", NEW h \in Handles
    PROVE  Followed(h)'
  <1>1. Connect \/ Negotiate
    BY DEF Next, Callers, Submit, GetStatus, Cancel, DropStream, DropClient,
         ActorLoop, SendCommand, SendFails, ReceiveReply, ReceiveWork, ReceiveFails, PruneTick,
         ClientGone, Reconnecting, ConnectFails, NegotiateFails,
         MarkDisconnected, Wake, Server, ServeOption, ServeSubmit, ServeStatus, ServeError,
         ServerWork, OtherClientSubmits, Break, actor
  <1>2. /\ to_client' = <<>> /\ registered'[h] = <<>>
        /\ job_events'[h] = [slots |-> <<>>, cursor |-> 0]
    <2>1. UNCHANGED <<registered, job_events>>
      BY <1>1 DEF Connect, Negotiate, queues, server
    <2>2. job_events[h] = [slots |-> <<>>, cursor |-> 0]
      BY DEF SubscribersAreLocal, Default
    <2>3. CASE Connect
      BY <2>1, <2>2, <2>3 DEF Connect, AttributionInv, Phases
    <2>4. CASE Negotiate
      <3>1. /\ pc = "negotiating" /\ to_client # <<>> /\ to_client' = Tail(to_client)
            /\ Len(to_client) <= 1 /\ registered[h] = <<>>
        BY <2>4 DEF Negotiate, AttributionInv, Phases
      <3>2. Len(Tail(to_client)) = 0 /\ Tail(to_client) \in Seq(Packets)
        <4>1. to_client \in Seq(Packets)
          BY SeqsOK
        <4>2. to_client # <<>> /\ Len(to_client) <= 1
          BY <3>1
        <4>3. Len(to_client) \in Nat \ {0} /\ Len(Tail(to_client)) = Len(to_client) - 1
          BY <4>1, <4>2
        <4>4. Tail(to_client) \in Seq(Packets)
          BY <4>1, <4>2
        <4> QED
          BY <4>2, <4>3, <4>4
      <3> QED
        BY <2>1, <2>2, <3>1, <3>2
    <2> QED
      BY <1>1, <2>3, <2>4
  <1>3. PICK v \in View : v = [slots |-> <<>>, cursor |-> 0]
    <2>1. [slots |-> <<>>, cursor |-> 0] \in View
      BY DEF View
    <2> QED
      BY <2>1
  <1>4. LeadsTo(to_client', since', h, v, 0, v, 0)
    BY <1>2, LeadsNowhere
  <1>5. StartsAt(h, v, 0)'
    BY <1>2, <1>3 DEF StartsAt, Distinct, Masks
  <1>6. EndsAt(h, v, 0)'
    BY <1>2, <1>3 DEF EndsAt
  <1> QED
    BY SMTT(30), <1>4, <1>5, <1>6 DEF Followed

LEMMA FollowedStep ==
    ASSUME TypeOK, AttributionInv, EventInv, Next, pc' = "actor_loop", NEW h \in Handles
    PROVE  Followed(h)'
  <1>1. CASE pc # "actor_loop"
    BY <1>1, FollowedStart DEF EventInv
  <1>2. CASE pc = "actor_loop"
    <2> USE <1>2
    <2>1. KeepsTracked /\ \A g \in Handles : Followed(g)
      BY TrackedStep DEF EventInv
    <2>2. CASE \/ Callers \/ SendCommand \/ PruneTick \/ Break
               \/ \E g \in Handles : OtherClientSubmits(g)
      BY <2>1, <2>2, FollowedElsewhere
    <2>3. CASE ServeSubmit \/ ServeStatus \/ ServeError
      BY <2>1, <2>3, FollowedServe DEF EventInv
    <2>4. CASE \E g \in Handles : ServerWork(g)
      BY <2>1, <2>4, FollowedWork DEF EventInv
    <2>5. CASE ReceiveReply
      BY <2>1, <2>5, FollowedReply DEF EventInv
    <2>6. CASE ReceiveWork
      BY <2>1, <2>6, FollowedRead, FollowedReadElsewhere
    <2>7. ~(SendFails \/ ReceiveFails \/ ClientGone \/ Reconnecting \/ ServeOption)
      BY UnservedPend DEF SendFails, ReceiveFails, ClientGone, LeaveLoop, Reconnecting, Connect,
           ConnectFails, Negotiate, NegotiateFails, MarkDisconnected, Wake, ServeOption
    <2> QED
      BY <2>2, <2>3, <2>4, <2>5, <2>6, <2>7 DEF Next, ActorLoop, Server
  <1> QED
    BY <1>1, <1>2

\* What is delivered next is the next event, and what was delivered was so for good.
LEMMA EventsInOrderStep ==
    ASSUME TypeOK, AttributionInv, EventInv, Next PROVE EventsInOrder'
  <1>1. /\ EventsInOrder /\ NothingYet /\ SentOnce
        /\ pc = "actor_loop" => \A g \in Handles : Followed(g)
    BY DEF EventInv
  <1>2. CASE ReceiveWork
    <2>1. /\ UNCHANGED <<answer, since>> /\ pc = "actor_loop"
      BY <1>2 DEF ReceiveWork, server
    <2>2. CASE UNCHANGED delivered
      BY <1>1, <2>1, <2>2 DEF EventsInOrder
    <2>3. ASSUME NEW h \in Handles, NEW n \in Nat, NEW q \in Requests,
                 delivered' = [delivered EXCEPT ![q] = Append(@, [handle |-> h, n |-> n + 1])],
                 answer[q].handle = h, since[q] + Len(delivered[q]) = n
          PROVE  EventsInOrder'
      <3> DEFINE e == [handle |-> h, n |-> n + 1]
                 d == delivered[q]
      <3>1. d \in Seq([handle : Handles, n : Nat]) /\ since[q] \in Nat
        BY PartsOK
      <3>2. \A i \in DOMAIN d : d[i] = [handle |-> h, n |-> since[q] + i]
        BY <1>1, <2>3 DEF EventsInOrder
      <3>3. since[q] + (Len(d) + 1) = n + 1
        BY <2>3, <3>1
      <3>4. /\ DOMAIN Append(d, e) = 1 .. Len(d) + 1 /\ Append(d, e)[Len(d) + 1] = e
            /\ \A i \in 1 .. Len(d) : Append(d, e)[i] = d[i] /\ i \in DOMAIN d
        BY <3>1
      <3> HIDE DEF d
      <3>5. ASSUME NEW i \in 1 .. Len(d) + 1
            PROVE  Append(d, e)[i] = [handle |-> h, n |-> since[q] + i]
        <4>1. CASE i = Len(d) + 1
          BY <3>3, <3>4, <4>1
        <4>2. CASE i \in 1 .. Len(d)
          BY <3>2, <3>4, <4>2
        <4> QED
          BY <3>1, <4>1, <4>2
      <3>6. delivered'[q] = Append(d, e) /\ \A r \in Requests \ {q} : delivered'[r] = delivered[r]
        BY <2>3, PartsOK DEF d
      <3> HIDE DEF e
      <3> QED
        BY <1>1, <2>1, <2>3, <3>4, <3>5, <3>6 DEF EventsInOrder
    <2> QED
      BY <1>1, <1>2, <2>1, <2>2, <2>3, NextEvent
  <1>3. CASE UNCHANGED delivered
    <2>1. ASSUME NEW r \in Requests, Unread(r) PROVE delivered[r] = <<>>
      BY <1>1, <2>1 DEF NothingYet
    <2>2. ASSUME NEW r \in Requests, delivered[r] # <<>>
          PROVE  answer'[r] = answer[r] /\ since'[r] = since[r]
      BY <1>1, <2>1, <2>2, AnswerStep
    <2>3. DOMAIN <<>> = {}
      OBVIOUS
    <2> QED
      BY <1>1, <1>3, <2>2, <2>3 DEF EventsInOrder
  <1> QED
    BY <1>2, <1>3, OnlyWorkDelivers

LEMMA EventInit == Init => EventInv
  <1> SUFFICES ASSUME Init PROVE EventInv
    OBVIOUS
  <1>1. Elems(<<>>) = {} /\ Distinct(<<>>) /\ DOMAIN <<>> = {}
    BY DEF Elems, Distinct
  <1> QED
    BY <1>1 DEF Init, EventInv, SentOnce, NothingYet, NotAnswered, OpenStreams, TerminalIsLast,
                EventsAreLogged, SubscribersAreLocal, EventsInOrder

LEMMA EventNext == TypeOK /\ AttributionInv /\ EventInv /\ [Next]_vars => EventInv'
  <1> SUFFICES ASSUME TypeOK, AttributionInv, EventInv, [Next]_vars PROVE EventInv'
    OBVIOUS
  <1>1. CASE Next
    <2>1. /\ SentOnce /\ NothingYet /\ NotAnswered /\ OpenStreams
          /\ TerminalIsLast /\ EventsAreLogged /\ SubscribersAreLocal
          /\ pc = "actor_loop" => \A h \in Handles : Followed(h)
          /\ WaitingIsOwned /\ QueuesHoldOpenCalls
      BY DEF EventInv, AttributionInv
    <2>2. SentOnce' /\ NothingYet' /\ NotAnswered' /\ OpenStreams'
      BY <1>1, <2>1, SentOnceStep, NothingYetStep, NotAnsweredStep, OpenStreamsStep
    <2>3. TerminalIsLast' /\ EventsAreLogged' /\ SubscribersAreLocal'
      BY <1>1, <2>1, TerminalIsLastStep, EventsAreLoggedStep, SubscribersAreLocalStep
    <2>4. pc' = "actor_loop" => \A h \in Handles : Followed(h)'
      BY <1>1, FollowedStep
    <2>5. EventsInOrder'
      BY <1>1, EventsInOrderStep
    <2> QED
      BY <2>2, <2>3, <2>4, <2>5 DEF EventInv
  <1>2. CASE UNCHANGED vars
    BY <1>2 DEF vars, calls, actor, queues, server, EventInv, SentOnce, NothingYet, NotAnswered,
                OpenStreams, TerminalIsLast, EventsAreLogged, SubscribersAreLocal, EventsInOrder,
                Unread, Followed, StartsAt, EndsAt, Masks, Tracks
  <1> QED
    BY <1>1, <1>2

-----------------------------------------------------------------------------
(* The theorems.                                                           *)

\* The packets under way lead from the subscribers of every handle to the
\* server's registrations: the inductive invariant of the theorems below.
THEOREM PacketsLeadOn == Spec => []EventInv
  BY TypeCorrect, PendingLineUp, EventInit, EventNext, PTL DEF Spec

\* Every stream has its job's events, from its registration on, each once and in
\* order (comment of HandleSubscribers), for any number of subscribers, jobs and
\* events, and whoever joins, cancels or is pruned meanwhile.
THEOREM EventsArriveInOrder == Spec => []EventsInOrder
  BY PacketsLeadOn, PTL DEF EventInv

\* With nothing under way the slots are gearmand's registrations, one for one and
\* in order, with the cursor at 0 (comment of HandleSubscribers).
THEOREM SlotsMirror == Spec => []SlotsMirrorRegistrations
  <1>1. TypeOK /\ EventInv => SlotsMirrorRegistrations
    <2> SUFFICES ASSUME TypeOK, EventInv, pc = "actor_loop", wire = "up", to_client = <<>>,
                        NEW h \in Handles, ~("work_exception" \in Elems(log[h]) /\ ~opted_in)
                 PROVE  /\ job_events[h].cursor = 0
                        /\ Len(job_events[h].slots) = Len(registered[h])
                        /\ \A i \in DOMAIN registered[h] :
                             job_events[h].slots[i] \in {registered[h][i], NoRequest}
      BY DEF SlotsMirrorRegistrations
    <2>1. PICK v \in View, n \in Nat, w \in View, m \in Nat :
             LeadsTo(to_client, since, h, v, n, w, m) /\ StartsAt(h, v, n) /\ EndsAt(h, w, m)
      BY DEF EventInv, Followed
    <2>2. v = w
      <3>1. Len(to_client) = 0
        OBVIOUS
      <3> QED
        BY <2>1, <3>1 DEF LeadsTo
    <2>3. v.slots = registered[h] /\ v.cursor = 0
      BY <2>1, <2>2 DEF EndsAt
    <2> QED
      BY <2>1, <2>3 DEF StartsAt, Masks
  <1> QED
    BY <1>1, TypeCorrect, PacketsLeadOn, PTL

-----------------------------------------------------------------------------
(***************************************************************************)
(* ClientActor implements JobStreams: every step of the actor, its callers *)
(* and the server is a step of what the client promises, or changes        *)
(* nothing a caller can see.  The mapping is the one of ClientActor: the   *)
(* abstract `listening` is Listening, the other variables stand for        *)
(* themselves.                                                             *)
(***************************************************************************)
-----------------------------------------------------------------------------
(* Who listens.                                                            *)

\* A slot of subs, the value of job_events, holds the sender of r.
Subscribes(subs, r) == \E h \in Handles : \E j \in DOMAIN subs[h].slots : subs[h].slots[j] = r

LEMMA ListeningIs ==
    /\ \A r : r \in Listening <=>
         /\ r \in Requests /\ stream[r] = "open"
         /\ r \in Elems(cmd_rx) \/ r \in Elems(pending_replies) \/ Subscribes(job_events, r)
    /\ \A r : r \in Listening' <=>
         /\ r \in Requests /\ stream'[r] = "open"
         /\ r \in Elems(cmd_rx') \/ r \in Elems(pending_replies') \/ Subscribes(job_events', r)
  <1>1. \A r \in Requests : Held(r) <=>
          r \in Elems(cmd_rx) \/ r \in Elems(pending_replies) \/ Subscribes(job_events, r)
    BY RequestAssumption DEF Held, Subscribed, Subscribes, Elems
  <1>2. \A r \in Requests : Held(r)' <=>
          r \in Elems(cmd_rx') \/ r \in Elems(pending_replies') \/ Subscribes(job_events', r)
    BY RequestAssumption DEF Held, Subscribed, Subscribes, Elems
  <1> QED
    BY <1>1, <1>2 DEF Listening

\* A step that changes nothing a caller can see.
LEMMA Invisible ==
    ASSUME UNCHANGED <<caller, outcome, answer, since, log, delivered>>,
           \A r \in Requests : r \in Listening <=> r \in Listening'
    PROVE  UNCHANGED Promise!vars
  <1>1. Listening' = Listening
    BY DEF Listening
  <1> QED
    BY <1>1 DEF Promise!vars

LEMMA UnseenQueues ==
    ASSUME UNCHANGED <<caller, outcome, answer, since, log, delivered,
                       stream, cmd_rx, pending_replies, job_events>>
    PROVE  UNCHANGED Promise!vars
  <1>1. \A r \in Requests : r \in Listening <=> r \in Listening'
    <2>1. /\ cmd_rx' = cmd_rx /\ pending_replies' = pending_replies
          /\ job_events' = job_events /\ stream' = stream
      OBVIOUS
    <2> QED
      BY <2>1, ListeningIs
  <1> QED
    BY <1>1, Invisible

\* A subscriber that listens was told of the job, and has one slot.
LEMMA SubscribedOnce ==
    ASSUME TypeOK, pc = "actor_loop", \A g \in Handles : Followed(g),
           NEW h \in Handles, NEW j \in DOMAIN job_events[h].slots,
           NEW r \in Requests, job_events[h].slots[j] = r
    PROVE  /\ r \notin Elems(cmd_rx) \cup Elems(pending_replies)
           /\ \A g \in Handles : \A i \in DOMAIN job_events[g].slots :
                job_events[g].slots[i] = r => g = h /\ i = j
  <1>1. ASSUME NEW g \in Handles, NEW i \in DOMAIN job_events[g].slots, job_events[g].slots[i] = r
        PROVE  /\ r \notin Elems(cmd_rx) \cup Elems(pending_replies)
               /\ answer[r].handle = g
               /\ \A k \in DOMAIN job_events[g].slots : job_events[g].slots[k] = r => k = i
    <2>1. PICK v \in View, n \in Nat : StartsAt(g, v, n)
      BY DEF Followed
    <2>2. DOMAIN v.slots = DOMAIN job_events[g].slots
      BY <2>1, PartsOK DEF StartsAt, Masks, View, SubsOf
    <2>3. \A k \in DOMAIN v.slots : job_events[g].slots[k] = r => v.slots[k] = r
      BY <2>1, RequestAssumption DEF StartsAt, Masks
    <2>4. v.slots[i] = r /\ Tracks(g, v, n, i)
      BY <1>1, <2>1, <2>2, <2>3 DEF StartsAt
    <2>5. \A k \in DOMAIN v.slots : v.slots[k] = r => k = i
      BY <1>1, <2>1, <2>2, <2>4 DEF StartsAt, Distinct
    <2> QED
      BY <2>2, <2>3, <2>4, <2>5 DEF Tracks, Outcome
  <1> QED
    BY <1>1

-----------------------------------------------------------------------------
(* The callers.                                                            *)

LEMMA AsksIsCall ==
    ASSUME TypeOK, OpenStreams, NEW r \in Requests, caller[r] = "idle", Asks(r),
           UNCHANGED <<answer, since, log, delivered, pending_replies, job_events>>
    PROVE  Promise!Call(r)
  <1>1. Elems(cmd_rx') = Elems(cmd_rx) \cup {r}
    BY SeqsOK, AppendElems DEF Asks
  <1>2. /\ \A q \in Requests \ {r} : stream'[q] = stream[q]
        /\ stream'[r] = "open" <=> Kind[r] = "fg"
        /\ stream[r] # "open"
    BY PartsOK DEF Asks, OpenStreams
  <1>3. Listening' = Listening \cup ({r} \cap {q \in Requests : Kind[q] = "fg"})
    <2>1. pending_replies' = pending_replies /\ job_events' = job_events
      OBVIOUS
    <2>2. ASSUME NEW q
          PROVE  q \in Listening' <=>
                    q \in Listening \/ (q = r /\ Kind[q] = "fg")
      BY <1>1, <1>2, <2>1, ListeningIs
    <2> QED
      BY <2>2
  <1> QED
    BY <1>3 DEF Promise!Call, Asks

LEMMA ReturnsAtOnceIsRefuse ==
    ASSUME NEW r \in Requests, caller[r] = "idle",
           NEW result \in {"no_servers_available", "no_unique_id"}, ReturnsAtOnce(r, result),
           UNCHANGED <<answer, since, log, delivered, pending_replies, job_events>>
    PROVE  Promise!Refuse(r)
  <1>1. Listening' = Listening
    <2>1. \A q \in Requests : Held(q)' = Held(q)
      BY DEF Held, ReturnsAtOnce, Subscribed, Elems
    <2> QED
      BY <2>1 DEF ReturnsAtOnce, Listening
  <1>2. Outcome(result, NoHandle) \in Promise!Refusals
    BY DEF Outcome, Promise!Refusals, Promise!Outcome
  <1> QED
    BY <1>1, <1>2 DEF Promise!Refuse, ReturnsAtOnce

\* A stream that a caller gives up is no longer listened to.
LEMMA StreamCloses ==
    ASSUME TypeOK, NEW r \in Requests,
           \A q \in Requests : stream'[q] = IF q = r /\ stream[q] = "open" THEN "dropped"
                                            ELSE stream[q],
           UNCHANGED <<cmd_rx, pending_replies, job_events>>
    PROVE  Listening' = Listening \ {r}
  <1>1. /\ cmd_rx' = cmd_rx /\ pending_replies' = pending_replies /\ job_events' = job_events
    OBVIOUS
  <1>2. ASSUME NEW q PROVE q \in Listening' <=> q \in Listening /\ q # r
    BY <1>1, ListeningIs
  <1> QED
    BY <1>2

LEMMA CallersPromise ==
    ASSUME TypeOK, OpenStreams, Callers
    PROVE  Promise!Next \/ UNCHANGED Promise!vars
  <1>1. ASSUME NEW r \in Requests, Submit(r) \/ GetStatus(r) PROVE Promise!Next
    <2>1. /\ caller[r] = "idle"
          /\ UNCHANGED <<answer, since, log, delivered, pending_replies, job_events>>
          /\ \/ Asks(r)
             \/ \E result \in {"no_servers_available", "no_unique_id"} : ReturnsAtOnce(r, result)
      BY <1>1 DEF Submit, GetStatus, server
    <2> QED
      BY <2>1, AsksIsCall, ReturnsAtOnceIsRefuse DEF Promise!Next
  <1>2. ASSUME NEW r \in Requests, Cancel(r) PROVE Promise!Next
    <2>1. \A q \in Requests : stream'[q] = IF q = r /\ stream[q] = "open" THEN "dropped"
                                            ELSE stream[q]
      BY <1>2, PartsOK DEF Cancel
    <2>2. Listening' = Listening \ {r}
      BY <1>2, <2>1, StreamCloses DEF Cancel, queues
    <2>3. Promise!Cancel(r)
      BY <1>2, <2>2 DEF Promise!Cancel, Cancel, server
    <2> QED
      BY <2>3 DEF Promise!Next
  <1>3. ASSUME NEW r \in Requests, DropStream(r) PROVE Promise!Next \/ UNCHANGED Promise!vars
    <2>1. \A q \in Requests : stream'[q] = IF q = r /\ stream[q] = "open" THEN "dropped"
                                            ELSE stream[q]
      BY <1>3, PartsOK DEF DropStream
    <2>2. Listening' = Listening \ {r}
      BY <1>3, <2>1, StreamCloses DEF DropStream, queues
    <2>3. CASE r \in Listening
      <3>1. Promise!DropStream(r)
        BY <1>3, <2>2, <2>3 DEF Promise!DropStream, DropStream, server
      <3> QED
        BY <3>1 DEF Promise!Next
    <2>4. CASE r \notin Listening
      BY <1>3, <2>2, <2>4 DEF Promise!vars, DropStream, server
    <2> QED
      BY <2>3, <2>4
  <1>4. CASE DropClient
    BY <1>4, UnseenQueues DEF DropClient, queues, server
  <1> QED
    BY <1>1, <1>2, <1>3, <1>4 DEF Callers

-----------------------------------------------------------------------------
(* The actor.                                                              *)

\* A loop that ends loses the connection: whoever is pending or refused is told,
\* and only the streams of calls still in the command queue stay open.
LEMMA LeavingIsLose ==
    ASSUME TypeOK, WaitingIsOwned, QueuesHoldOpenCalls, OpenStreams,
           NEW next, NEW refused \in SUBSET Requests, LeaveLoop(next, refused),
           Elems(cmd_rx) = refused \cup Elems(cmd_rx'), refused \cap Elems(cmd_rx') = {},
           UNCHANGED <<answer, since, log, delivered, stream>>
    PROVE  Promise!Lose
  <1> DEFINE D == Elems(pending_replies) \cup refused
             Loss(r) == IF r \in refused THEN Outcome("send_failed", NoHandle) ELSE Closed
             told == {r \in D : caller[r] = "waiting"}
             loss == [r \in told |-> Loss(r)]
  <1>1. /\ pending_replies' = <<>> /\ job_events' = [h \in Handles |-> Default]
        /\ Resolve([r \in D |-> Loss(r)])
    BY DEF LeaveLoop
  <1>2. D \subseteq Requests /\ Elems(cmd_rx') \subseteq Requests
    BY SeqsOK DEF Elems
  <1> HIDE DEF D
  <1>3. /\ caller' = [r \in Requests |-> IF r \in told THEN "done" ELSE caller[r]]
        /\ outcome' = [r \in Requests |-> IF r \in told THEN loss[r] ELSE outcome[r]]
    BY <1>1, <1>2 DEF Resolve
  <1>4. told \in SUBSET {r \in Requests : caller[r] = "waiting"} /\ loss \in [told -> Promise!Losses]
    BY <1>2 DEF Promise!Losses, Promise!Outcome, Outcome, Closed
  <1>5. ASSUME NEW r PROVE r \in Listening' <=> r \in Listening /\ caller'[r] = "waiting"
    <2>1. r \in Listening' <=> r \in Requests /\ stream[r] = "open" /\ r \in Elems(cmd_rx')
      <3>1. Elems(<<>>) = {}
        BY DEF Elems
      <3>2. ~Subscribes(job_events', r)
        BY <1>1 DEF Subscribes, Default
      <3> QED
        BY <1>1, <3>1, <3>2, ListeningIs
    <2>2. ASSUME r \in Requests, stream[r] = "open", r \in Elems(cmd_rx')
          PROVE  r \in Listening /\ caller'[r] = "waiting"
      <3>1. r \in Elems(cmd_rx) /\ r \notin refused
        BY <2>2
      <3>2. caller[r] = "waiting" /\ r \notin Elems(pending_replies)
        BY <2>2, <3>1 DEF QueuesHoldOpenCalls, OpenStreams, WaitingIsOwned
      <3> QED
        BY <1>3, <2>2, <3>1, <3>2, ListeningIs DEF D
    <2>3. ASSUME r \in Listening, caller'[r] = "waiting"
          PROVE  r \in Requests /\ stream[r] = "open" /\ r \in Elems(cmd_rx')
      <3>1. r \in Requests /\ stream[r] = "open"
        BY <2>3, ListeningIs
      <3>2. caller[r] = "waiting" /\ r \notin told
        BY <1>3, <2>3, <3>1
      <3>3. r \in Elems(cmd_rx) \cup Elems(pending_replies)
        BY <3>1, <3>2 DEF WaitingIsOwned
      <3> QED
        BY <3>1, <3>2, <3>3 DEF D
    <2> QED
      BY <2>1, <2>2, <2>3
  <1>6. Listening' = {r \in Listening : caller'[r] = "waiting"}
    BY <1>5
  <1> HIDE DEF told, loss
  <1> QED
    BY <1>3, <1>4, <1>6 DEF Promise!Lose

LEMMA LeavingPromise ==
    ASSUME TypeOK, AttributionInv, OpenStreams, SendFails \/ ReceiveFails \/ ClientGone
    PROVE  Promise!Next
  <1>1. /\ cmd_rx \in Seq(Requests) /\ WaitingIsOwned /\ QueuesHoldOpenCalls
        /\ UNCHANGED <<answer, since, log, delivered, stream>>
    BY SeqsOK DEF AttributionInv, SendFails, ReceiveFails, ClientGone, server
  <1>2. CASE SendFails
    <2>1. /\ cmd_rx # <<>> /\ cmd_rx' = Tail(cmd_rx)
          /\ LeaveLoop("connection_lost", {Head(cmd_rx)})
      BY <1>2 DEF SendFails
    <2>2. /\ Head(cmd_rx) \in Requests
          /\ Elems(cmd_rx) = {Head(cmd_rx)} \cup Elems(Tail(cmd_rx))
          /\ Head(cmd_rx) \notin Elems(Tail(cmd_rx))
      BY <1>1, <2>1, TailElems DEF WaitingIsOwned
    <2>3. Promise!Lose
      BY <1>1, <2>1, <2>2, LeavingIsLose
    <2> QED
      BY <2>3 DEF Promise!Next
  <1>3. CASE ReceiveFails \/ ClientGone
    <2>1. /\ cmd_rx' = cmd_rx
          /\ \E next : LeaveLoop(next, {})
      BY <1>3 DEF ReceiveFails, ClientGone
    <2>2. Promise!Lose
      BY <1>1, <2>1, LeavingIsLose
    <2> QED
      BY <2>2 DEF Promise!Next
  <1> QED
    BY <1>2, <1>3

LEMMA SendPromise ==
    ASSUME TypeOK, SendCommand PROVE UNCHANGED Promise!vars
  <1>1. /\ cmd_rx # <<>> /\ cmd_rx' = Tail(cmd_rx)
        /\ pending_replies' = Append(pending_replies, Head(cmd_rx))
        /\ UNCHANGED <<caller, outcome, answer, since, log, delivered>>
        /\ stream' = stream /\ job_events' = job_events
    BY DEF SendCommand, calls, server
  <1>2. /\ Elems(cmd_rx) = {Head(cmd_rx)} \cup Elems(Tail(cmd_rx)) /\ Head(cmd_rx) \in Requests
        /\ Elems(Append(pending_replies, Head(cmd_rx))) = Elems(pending_replies) \cup {Head(cmd_rx)}
    BY <1>1, SeqsOK, TailElems, AppendElems
  <1>3. \A r \in Requests : r \in Listening <=> r \in Listening'
    BY <1>1, <1>2, ListeningIs
  <1> QED
    BY <1>1, <1>3, Invisible

\* Pruning releases the senders of closed streams only.
LEMMA PrunePromise ==
    ASSUME TypeOK, PruneTick PROVE UNCHANGED Promise!vars
  <1> DEFINE closed == {r \in Requests : stream[r] = "dropped"}
  <1>1. /\ UNCHANGED <<caller, outcome, answer, since, log, delivered>>
        /\ stream' = stream /\ cmd_rx' = cmd_rx /\ pending_replies' = pending_replies
        /\ job_events' = [h \in Handles |-> Prune(job_events[h], closed)]
    BY DEF PruneTick, calls, server
  <1>2. ASSUME NEW h \in Handles
        PROVE  /\ DOMAIN job_events'[h].slots = DOMAIN job_events[h].slots
               /\ \A k \in DOMAIN job_events[h].slots :
                    job_events'[h].slots[k] = IF job_events[h].slots[k] \in closed THEN NoRequest
                                              ELSE job_events[h].slots[k]
    <2>1. job_events[h] \in SubsOf(Requests \cup {NoRequest})
      BY PartsOK
    <2> QED
      BY <1>1, <2>1 DEF Prune, SubsOf
  <1>3. ASSUME NEW r \in Requests, stream[r] = "open"
        PROVE  Subscribes(job_events, r) <=> Subscribes(job_events', r)
    BY <1>2, <1>3, RequestAssumption DEF Subscribes
  <1>4. \A r \in Requests : r \in Listening <=> r \in Listening'
    BY <1>1, <1>3, ListeningIs
  <1> QED
    BY <1>1, <1>4, Invisible

\* The reply that is due is the answer to the oldest pending request. An error
\* ends its stream; accepted, a foreground submission becomes a subscriber.
LEMMA ReplyPromise ==
    ASSUME TypeOK, AttributionInv, OpenStreams, ReceiveReply,
           \A g \in Handles : Followed(g)
    PROVE  Promise!Next \/ UNCHANGED Promise!vars
  <1>1. PICK r \in Requests :
           /\ r = Head(pending_replies) /\ pending_replies # <<>>
           /\ pending_replies' = Tail(pending_replies)
           /\ \A q \in Requests \ {r} : outcome'[q] = outcome[q] /\ caller'[q] = caller[q]
    BY ReplyOutcome DEF AttributionInv
  <1>2. PICK p \in Packets :
           /\ p = Head(to_client) /\ p.type \notin Events /\ to_client # <<>> /\ pc = "actor_loop"
    BY SeqsOK, TailElems DEF ReceiveReply
  <1>3. /\ p.type \in {ReplyType(r), "error"} /\ answer[r] = Outcome(p.type, p.handle)
        /\ p.type \in Answers
    <2>1. p.type \in {ReplyType(r), "error"} /\ answer[r] = Outcome(p.type, p.handle)
      BY <1>1, <1>2, HeadReply DEF AttributionInv, WaitingIsOwned
    <2> QED
      BY <2>1, RequestAssumption DEF ReplyType, IsSubmit, Kinds, Answers
  <1>4. /\ Resolve([q \in {r} |-> Outcome(p.type, p.handle)])
        /\ job_events' = IF p.type = "job_created" /\ Kind[r] = "fg"
                         THEN [job_events EXCEPT ![p.handle] = Add(@, r)]
                         ELSE job_events
        /\ stream' = stream /\ cmd_rx' = cmd_rx
        /\ UNCHANGED <<answer, since, log, delivered>>
    BY <1>1, <1>2, <1>3 DEF ReceiveReply, server
  <1>5. /\ caller' = IF caller[r] = "waiting" THEN [caller EXCEPT ![r] = "done"] ELSE caller
        /\ outcome' = IF caller[r] = "waiting" THEN [outcome EXCEPT ![r] = answer[r]] ELSE outcome
    BY <1>3, <1>4, PartsOK DEF Resolve
  <1>6. /\ Elems(pending_replies) = {r} \cup Elems(pending_replies')
        /\ r \notin Elems(pending_replies') /\ r \notin Elems(cmd_rx)
    <2>1. /\ Elems(pending_replies) = {r} \cup Elems(Tail(pending_replies))
          /\ r \notin Elems(Tail(pending_replies))
      BY <1>1, SeqsOK, TailElems DEF AttributionInv, WaitingIsOwned
    <2> QED
      BY <1>1, <2>1 DEF AttributionInv, WaitingIsOwned
  <1>7. ~Subscribes(job_events, r)
    BY <1>2, <1>6, SubscribedOnce DEF Subscribes
  <1>8. \A q \in Requests :
          Subscribes(job_events', q) <=>
             Subscribes(job_events, q) \/ (q = r /\ p.type = "job_created" /\ Kind[r] = "fg")
    <2>1. CASE ~(p.type = "job_created" /\ Kind[r] = "fg")
      <3>1. job_events' = job_events
        BY <1>4, <2>1
      <3> QED
        BY <2>1, <3>1
    <2>2. CASE p.type = "job_created" /\ Kind[r] = "fg"
      <3>1. PICK h \in Handles : h = p.handle
        BY <2>2 DEF Packets
      <3>2. /\ \A g \in Handles \ {h} : job_events'[g] = job_events[g]
            /\ job_events'[h] = Add(job_events[h], r)
        BY <1>4, <2>2, <3>1, PartsOK
      <3> DEFINE s == job_events[h].slots
      <3>3. s \in Seq(Requests \cup {NoRequest}) /\ Add(job_events[h], r).slots = Append(s, r)
        BY PartsOK DEF SubsOf, Add
      <3>4. /\ DOMAIN s \subseteq DOMAIN Append(s, r) /\ \A j \in DOMAIN s : Append(s, r)[j] = s[j]
            /\ \A j \in DOMAIN Append(s, r) : j \in DOMAIN s \/ Append(s, r)[j] = r
            /\ Len(s) + 1 \in DOMAIN Append(s, r) /\ Append(s, r)[Len(s) + 1] = r
        <4> HIDE DEF s
        <4> QED
          BY <3>3
      <3>5. job_events'[h].slots = Append(s, r)
        BY <3>2, <3>3
      <3> HIDE DEF s
      <3>6. ASSUME NEW q \in Requests
            PROVE  (\E j \in DOMAIN Append(s, r) : Append(s, r)[j] = q)
                      <=> (\E j \in DOMAIN s : s[j] = q) \/ q = r
        BY <3>4
      <3>7. ASSUME NEW q \in Requests
            PROVE  Subscribes(job_events', q) <=> Subscribes(job_events, q) \/ q = r
        <4>1. \A g \in Handles : (\E j \in DOMAIN job_events'[g].slots : job_events'[g].slots[j] = q)
                  <=> (\E j \in DOMAIN job_events[g].slots : job_events[g].slots[j] = q)
                      \/ (g = h /\ q = r)
          <5>1. ASSUME NEW g \in Handles, g # h
                PROVE  job_events'[g] = job_events[g]
            BY <3>2, <5>1
          <5> QED
            BY ZenonT(30), <3>5, <3>6, <5>1 DEF s
        <4> QED
          BY <4>1 DEF Subscribes
      <3> QED
        BY <2>2, <3>7
    <2> QED
      BY <2>1, <2>2
  <1>9. \A q \in Requests :
          q \in Listening' <=> q \in Listening /\ (q = r => p.type = "job_created" /\ Kind[r] = "fg")
    BY <1>4, <1>6, <1>7, <1>8, ListeningIs
  <1>10. r \in Listening => caller[r] = "waiting" /\ Kind[r] = "fg"
    <2>1. caller[r] \in {"waiting", "cancelled"}
      BY <1>6 DEF AttributionInv, QueuesHoldOpenCalls
    <2> QED
      BY <2>1, ListeningIs DEF OpenStreams
  <1>11. CASE caller[r] # "waiting"
    BY <1>4, <1>5, <1>9, <1>10, <1>11, Invisible
  <1>12. CASE caller[r] = "waiting"
    <2>1. Kind[r] = "fg" => p.type \in {"job_created", "error"}
      BY <1>3 DEF ReplyType, IsSubmit
    <2>2. ASSUME NEW q
          PROVE  q \in Listening' <=> q \in Listening /\ (answer[r].result = "error" => q # r)
      <3>1. answer[r].result = p.type
        BY <1>3 DEF Outcome
      <3>2. q \in Listening' \/ q \in Listening => q \in Requests
        BY ListeningIs
      <3> QED
        BY <1>9, <1>10, <2>1, <3>1, <3>2
    <2>3. Listening' = IF answer[r].result = "error" THEN Listening \ {r} ELSE Listening
      BY <2>2
    <2>4. answer[r] # Promise!None
      BY <1>3 DEF Promise!None, Promise!Outcome, Outcome, Answers
    <2>5. Promise!Return(r)
      BY <1>4, <1>5, <1>12, <2>3, <2>4 DEF Promise!Return
    <2> QED
      BY <2>5 DEF Promise!Next
  <1> QED
    BY <1>11, <1>12

\* Taking the slot at i out leaves the senders of the others.
LEMMA RemovedSlots ==
    ASSUME NEW S, NEW s \in Seq(S), NEW i \in DOMAIN s
    PROVE  \A x : (\E j \in DOMAIN SwapRemove(s, i) : SwapRemove(s, i)[j] = x)
                     <=> \E j \in DOMAIN s : j # i /\ s[j] = x
  <1> DEFINE t == SwapRemove(s, i)
  <1>1. /\ Len(s) \in Nat \ {0} /\ DOMAIN s = 1 .. Len(s) /\ DOMAIN t = 1 .. Len(s) - 1
        /\ \A k \in DOMAIN t : t[k] = IF k = i THEN s[Len(s)] ELSE s[k]
    BY DEF SwapRemove
  <1> HIDE DEF t
  <1>2. ASSUME NEW k \in DOMAIN t PROVE \E j \in DOMAIN s : j # i /\ s[j] = t[k]
    <2>1. CASE k = i
      <3>1. Len(s) \in DOMAIN s /\ Len(s) # i /\ t[k] = s[Len(s)]
        BY <1>1, <2>1
      <3> QED
        BY <3>1
    <2>2. CASE k # i
      <3>1. k \in DOMAIN s /\ t[k] = s[k]
        BY <1>1, <2>2
      <3> QED
        BY <2>2, <3>1
    <2> QED
      BY <2>1, <2>2
  <1>3. ASSUME NEW j \in DOMAIN s, j # i PROVE \E k \in DOMAIN t : t[k] = s[j]
    <2>1. CASE j = Len(s)
      <3>1. i \in DOMAIN t /\ t[i] = s[j]
        BY <1>1, <1>3, <2>1
      <3> QED
        BY <3>1
    <2>2. CASE j # Len(s)
      <3>1. j \in DOMAIN t /\ t[j] = s[j]
        BY <1>1, <1>3, <2>2
      <3> QED
        BY <3>1
    <2> QED
      BY <2>1, <2>2
  <1> QED
    BY <1>2, <1>3 DEF t

\* The slot a copy of an event goes to: its subscriber listens and has the event
\* next, or there is nobody to tell.
LEMMA NextCopy ==
    ASSUME TypeOK, AttributionInv, EventsAreLogged, ReceiveWork, \A g \in Handles : Followed(g)
    PROVE  \E h \in Handles, type \in Events :
             LET s == job_events[h].slots
                 at == NextSlot(job_events[h])
             IN  /\ at \in DOMAIN s
                 /\ job_events' = [job_events EXCEPT ![h] = Deliver(@, type \in Terminal)]
                 /\ \/ UNCHANGED delivered /\ (s[at] = NoRequest \/ stream[s[at]] # "open")
                    \/ \E r \in Requests, n \in DOMAIN log[h] :
                         /\ s[at] = r /\ stream[r] = "open"
                         /\ n = since[r] + Len(delivered[r]) + 1 /\ log[h][n] = type
                         /\ delivered' = [delivered EXCEPT ![r] = Append(@, [handle |-> h, n |-> n])]
                         /\ caller[r] = "done" /\ outcome[r] = Outcome("job_created", h)
  <1>1. PICK p \in Packets : p = Head(to_client) /\ p.type \in Events /\ to_client # <<>>
    BY SeqsOK, TailElems DEF ReceiveWork
  <1>2. PICK h \in Handles : h = p.handle
    BY <1>1 DEF Packets
  <1>3. PICK v \in View, n \in Nat, w \in View, m \in Nat :
           LeadsTo(to_client, since, h, v, n, w, m) /\ StartsAt(h, v, n)
    BY DEF Followed
  <1>4. PICK x \in View, k \in Nat : Reads(h, p, since[p.req], v, n, x, k)
    BY <1>1, <1>3, SeqsOK, LeadsFirst
  <1>5. v.slots # <<>> /\ p.n = n + 1
    BY <1>1, <1>2, <1>4 DEF Reads, IsEvent, Joins, Events, Progress, Terminal
  <1> DEFINE c == v.cursor
             q == v.slots[c + 1]
             s == job_events[h].slots
             at == NextSlot(job_events[h])
  <1>6. /\ c + 1 \in DOMAIN v.slots /\ q \in Requests /\ at = c + 1
        /\ job_events'[h] = Deliver(job_events[h], p.type \in Terminal)
        /\ stream[q] = "open" => Receiver(job_events[h]) = q
        /\ delivered' = IF stream[q] = "open"
                        THEN [delivered EXCEPT ![q] = Append(@, [handle |-> h, n |-> p.n])]
                        ELSE delivered
    BY <1>1, <1>2, <1>3, <1>5, Delivery
  <1>7. /\ DOMAIN s = DOMAIN v.slots /\ s # <<>>
        /\ s[c + 1] = q \/ (s[c + 1] = NoRequest /\ stream[q] # "open")
    <2>1. DOMAIN s = DOMAIN v.slots /\ s # <<>>
      BY SMTT(30), <1>3, <1>5, PartsOK DEF StartsAt, Masks, View, SubsOf
    <2> QED
      BY <1>3, <1>6, <2>1 DEF StartsAt, Masks
  <1>8. job_events' = [job_events EXCEPT ![h] = Deliver(@, p.type \in Terminal)]
    BY <1>1, <1>2 DEF ReceiveWork
  <1>9. Tracks(h, v, n, c + 1) /\ c \in Nat /\ ~(c + 1 <= c)
    BY <1>3, <1>6 DEF StartsAt, View
  <1>10. p.n \in DOMAIN log[h] /\ log[h][p.n] = p.type
    <2>1. 1 \in DOMAIN to_client /\ p = to_client[1]
      BY <1>1, SeqsOK
    <2> QED
      BY <1>1, <1>2, <2>1 DEF EventsAreLogged
  <1>11. CASE stream[q] = "open"
    <2>1. /\ answer[q] = Outcome("job_created", h)
          /\ since[q] + Len(delivered[q]) = n
          /\ caller[q] = "done" /\ outcome[q] = answer[q]
      BY <1>9, <1>11 DEF Tracks
    <2>2. p.n = since[q] + Len(delivered[q]) + 1
      BY <1>5, <2>1
    <2>3. s[at] = q /\ at \in DOMAIN s
      BY <1>6, <1>7, <1>11
    <2> HIDE DEF q, s, at
    <2> QED
      BY <1>1, <1>6, <1>8, <1>10, <1>11, <2>1, <2>2, <2>3 DEF s, at
  <1>12. CASE stream[q] # "open"
    <2>1. at \in DOMAIN s /\ (s[at] = NoRequest \/ stream[s[at]] # "open") /\ UNCHANGED delivered
      BY <1>6, <1>7, <1>12
    <2> QED
      BY <1>1, <1>8, <2>1
  <1> QED
    BY <1>11, <1>12

LEMMA WorkPromise ==
    ASSUME TypeOK, AttributionInv, EventsAreLogged, ReceiveWork, \A g \in Handles : Followed(g)
    PROVE  Promise!Next \/ UNCHANGED Promise!vars
  <1>1. PICK h \in Handles, type \in Events :
             LET s == job_events[h].slots
                 at == NextSlot(job_events[h])
             IN  /\ at \in DOMAIN s
                 /\ job_events' = [job_events EXCEPT ![h] = Deliver(@, type \in Terminal)]
                 /\ \/ UNCHANGED delivered /\ (s[at] = NoRequest \/ stream[s[at]] # "open")
                    \/ \E r \in Requests, n \in DOMAIN log[h] :
                         /\ s[at] = r /\ stream[r] = "open"
                         /\ n = since[r] + Len(delivered[r]) + 1 /\ log[h][n] = type
                         /\ delivered' = [delivered EXCEPT ![r] = Append(@, [handle |-> h, n |-> n])]
                         /\ caller[r] = "done" /\ outcome[r] = Outcome("job_created", h)
    BY NextCopy
  <1> DEFINE s == job_events[h].slots
             at == NextSlot(job_events[h])
  <1>2. /\ UNCHANGED <<caller, outcome, answer, since, log>> /\ pc = "actor_loop"
        /\ stream' = stream /\ cmd_rx' = cmd_rx /\ pending_replies' = pending_replies
    BY DEF ReceiveWork, server
  <1>3. /\ s \in Seq(Requests \cup {NoRequest}) /\ at \in DOMAIN s /\ s # <<>>
        /\ \A g \in Handles \ {h} : job_events'[g] = job_events[g]
        /\ job_events'[h] = Deliver(job_events[h], type \in Terminal)
    <2>1. s \in Seq(Requests \cup {NoRequest}) /\ at \in DOMAIN s
      BY <1>1, PartsOK DEF SubsOf
    <2>2. s # <<>>
      <3> HIDE DEF s, at
      <3> QED
        BY <2>1
    <2> QED
      BY <1>1, <2>1, <2>2, PartsOK
  <1>4. job_events'[h].slots = IF type \in Terminal THEN SwapRemove(s, at) ELSE s
    BY <1>3 DEF Deliver
  \* The subscribers but for the slot a terminal event takes out.
  <1>5. ASSUME NEW q
        PROVE  Subscribes(job_events', q) <=>
                 \E g \in Handles : \E j \in DOMAIN job_events[g].slots :
                    /\ job_events[g].slots[j] = q
                    /\ type \in Terminal => ~(g = h /\ j = at)
    <2>1. ASSUME NEW g \in Handles
          PROVE  (\E j \in DOMAIN job_events'[g].slots : job_events'[g].slots[j] = q)
                    <=> \E j \in DOMAIN job_events[g].slots :
                          /\ job_events[g].slots[j] = q
                          /\ type \in Terminal => ~(g = h /\ j = at)
      <3>1. CASE g # h
        BY <1>3, <3>1
      <3>2. CASE g = h /\ type \notin Terminal
        BY <1>4, <3>2
      <3>3. CASE g = h /\ type \in Terminal
        <4>1. job_events'[g].slots = SwapRemove(s, at)
          BY <1>4, <3>3
        <4>2. (\E j \in DOMAIN SwapRemove(s, at) : SwapRemove(s, at)[j] = q)
                 <=> \E j \in DOMAIN s : j # at /\ s[j] = q
          <5>1. s \in Seq(Requests \cup {NoRequest}) /\ at \in DOMAIN s
            BY <1>3
          <5> HIDE DEF s, at
          <5>2. \A x : (\E j \in DOMAIN SwapRemove(s, at) : SwapRemove(s, at)[j] = x)
                          <=> \E j \in DOMAIN s : j # at /\ s[j] = x
            BY ZenonT(30), <5>1, RemovedSlots
          <5> QED
            BY <5>2
        <4> QED
          BY <3>3, <4>1, <4>2
      <3> QED
        BY <3>1, <3>2, <3>3
    <2> QED
      BY <2>1 DEF Subscribes
  <1>6. CASE UNCHANGED delivered /\ (s[at] = NoRequest \/ stream[s[at]] # "open")
    <2>1. ASSUME NEW q \in Requests, stream[q] = "open"
          PROVE  Subscribes(job_events', q) <=> Subscribes(job_events, q)
      <3>1. s[at] # q
        BY <1>6, <2>1, RequestAssumption
      <3> QED
        BY <1>5, <3>1 DEF Subscribes
    <2>2. \A q \in Requests : q \in Listening <=> q \in Listening'
      BY <1>2, <2>1, ListeningIs
    <2> QED
      BY <1>2, <1>6, <2>2, Invisible
  <1>7. ASSUME NEW r \in Requests, NEW n \in DOMAIN log[h],
               s[at] = r, stream[r] = "open",
               n = since[r] + Len(delivered[r]) + 1, log[h][n] = type,
               delivered' = [delivered EXCEPT ![r] = Append(@, [handle |-> h, n |-> n])],
               caller[r] = "done", outcome[r] = Outcome("job_created", h)
        PROVE  Promise!Deliver(r)
    <2>1. /\ r \notin Elems(cmd_rx) \cup Elems(pending_replies)
          /\ \A g \in Handles : \A i \in DOMAIN job_events[g].slots :
                job_events[g].slots[i] = r => g = h /\ i = at
      BY <1>2, <1>3, <1>7, SubscribedOnce
    <2>2. Subscribes(job_events, r) /\ r \in Listening
      <3>1. Subscribes(job_events, r)
        BY <1>3, <1>7 DEF Subscribes
      <3> QED
        BY <1>7, <3>1, ListeningIs
    <2>3. Subscribes(job_events', r) <=> type \notin Terminal
      BY <1>3, <1>5, <1>7, <2>1
    <2>4. \A q : q # r => (Subscribes(job_events', q) <=> Subscribes(job_events, q))
      BY <1>5, <1>7 DEF Subscribes
    <2>5. Listening' = IF type \in Terminal THEN Listening \ {r} ELSE Listening
      <3>1. \A q : q \in Listening' <=> q \in Listening /\ (type \in Terminal => q # r)
        BY <1>2, <2>1, <2>2, <2>3, <2>4, ListeningIs
      <3> QED
        BY <3>1
    <2>6. outcome[r].result = "job_created" /\ outcome[r].handle = h
      BY <1>7 DEF Outcome
    <2> QED
      BY <1>2, <1>3, <1>7, <2>2, <2>5, <2>6 DEF Promise!Deliver
  <1> QED
    BY <1>1, <1>6, <1>7 DEF Promise!Next

-----------------------------------------------------------------------------
(* The server, and what is left.                                           *)

\* The server answers a call that was made, once, with the events its job has had.
LEMMA ServePromise ==
    ASSUME TypeOK, SentOnce, NotAnswered, ServeSubmit \/ ServeStatus \/ ServeError
    PROVE  Promise!Next
  <1>1. PICK r \in Requests : r = Head(to_server) /\ to_server # <<>>
    BY HeadType DEF ServeSubmit, ServeStatus, ServeError
  <1>2. r \in Elems(to_server) /\ r # OptionReq
    BY <1>1, SeqsOK, TailElems, RequestAssumption DEF OptionReq
  <1>3. caller[r] # "idle" /\ answer[r] = Promise!None
    BY <1>2 DEF SentOnce, NotAnswered, Unread, NoOutcome, Outcome, Promise!None, Promise!Outcome
  <1>4. /\ UNCHANGED <<caller, outcome, log, delivered>>
        /\ Listening' = Listening
    <2>1. UNCHANGED <<caller, outcome, log, delivered, stream, cmd_rx, pending_replies, job_events>>
      BY DEF ServeSubmit, ServeStatus, ServeError, calls, queues
    <2>2. \A q : q \in Listening' <=> q \in Listening
      <3>1. /\ cmd_rx' = cmd_rx /\ pending_replies' = pending_replies
            /\ job_events' = job_events /\ stream' = stream
        BY <2>1
      <3> QED
        BY <3>1, ListeningIs
    <2> QED
      BY <2>1, <2>2
  <1>5. ASSUME NEW type \in {"job_created", "status_res", "status_res_unique", "error"},
               NEW h \in Handles \cup {NoHandle}, answer' = [answer EXCEPT ![r] = Outcome(type, h)],
               \/ since' = since
               \/ /\ Kind[r] = "fg" /\ type = "job_created" /\ h \in Handles
                  /\ since' = [since EXCEPT ![r] = Len(log[h])]
        PROVE  Promise!Next
    <2>1. /\ Outcome(type, h) \in Promise!Answers
          /\ Outcome(type, h).result = type /\ Outcome(type, h).handle = h
      BY DEF Outcome, Promise!Answers
    <2>2. Promise!Answer(r)
      BY <1>3, <1>4, <1>5, <2>1 DEF Promise!Answer
    <2> QED
      BY <2>2 DEF Promise!Next
  <1>6. CASE ServeSubmit
    <2>1. PICK h \in Handles :
             /\ answer' = [answer EXCEPT ![r] = Outcome("job_created", h)]
             /\ IF Kind[r] = "fg" THEN since' = [since EXCEPT ![r] = Len(log[h])]
                                  ELSE UNCHANGED since
      BY <1>1, <1>6 DEF ServeSubmit, JobFor, Reply
    <2> QED
      BY <1>5, <2>1
  <1>7. CASE ServeStatus
    <2>1. /\ answer' = [answer EXCEPT ![r] = Outcome(ReplyType(r), outcome[About[r]].handle)]
          /\ ~IsSubmit(r) /\ since' = since
      BY <1>1, <1>7 DEF ServeStatus, Reply
    <2>2. ReplyType(r) \in {"status_res", "status_res_unique"}
      BY <2>1, RequestAssumption DEF ReplyType, IsSubmit, Kinds
    <2>3. outcome[About[r]].handle \in Handles \cup {NoHandle}
      BY <2>1, RequestAssumption, PartsOK DEF Outcomes
    <2> QED
      BY <1>5, <2>1, <2>2, <2>3
  <1>8. CASE ServeError
    BY <1>1, <1>5, <1>8 DEF ServeError, Reply
  <1> QED
    BY <1>6, <1>7, <1>8

LEMMA EmitPromise ==
    ASSUME TypeOK, TerminalIsLast, NEW h \in Handles, ServerWork(h)
    PROVE  Promise!Next
  <1>1. PICK event \in Events : log' = [log EXCEPT ![h] = Append(@, event)]
    BY ServerAssumption DEF ServerWork
  <1>2. \A i \in DOMAIN log[h] : log[h][i] \notin Terminal
    BY DEF ServerWork, TerminalIsLast
  <1>3. /\ UNCHANGED <<caller, outcome, answer, since, delivered>>
        /\ Listening' = Listening
    <2>1. UNCHANGED <<caller, outcome, answer, since, delivered, stream,
                      cmd_rx, pending_replies, job_events>>
      BY DEF ServerWork, calls, queues
    <2>2. \A q : q \in Listening' <=> q \in Listening
      <3>1. /\ cmd_rx' = cmd_rx /\ pending_replies' = pending_replies
            /\ job_events' = job_events /\ stream' = stream
        BY <2>1
      <3> QED
        BY <3>1, ListeningIs
    <2> QED
      BY <2>1, <2>2
  <1>4. Promise!Emit(h)
    BY <1>1, <1>2, <1>3 DEF Promise!Emit
  <1> QED
    BY <1>4 DEF Promise!Next

LEMMA PromiseInit == Init => Promise!Init
  <1> SUFFICES ASSUME Init PROVE Promise!Init
    OBVIOUS
  <1>1. Listening = {}
    BY DEF Init, Listening
  <1> QED
    BY <1>1 DEF Init, Promise!Init, Promise!None, Promise!Outcome, NoOutcome, Outcome

LEMMA PromiseNext ==
    TypeOK /\ AttributionInv /\ EventInv /\ [Next]_vars => [Promise!Next]_Promise!vars
  <1> SUFFICES ASSUME TypeOK, AttributionInv, EventInv, [Next]_vars
               PROVE  Promise!Next \/ UNCHANGED Promise!vars
    OBVIOUS
  <1>1. /\ OpenStreams /\ SentOnce /\ NotAnswered /\ TerminalIsLast /\ EventsAreLogged
        /\ pc = "actor_loop" => \A g \in Handles : Followed(g)
    BY DEF EventInv
  <1>2. CASE Callers
    BY <1>1, <1>2, CallersPromise
  <1>3. CASE SendCommand \/ PruneTick
    BY <1>3, SendPromise, PrunePromise
  <1>4. CASE SendFails \/ ReceiveFails \/ ClientGone
    BY <1>1, <1>4, LeavingPromise
  <1>5. CASE ReceiveReply
    BY <1>1, <1>5, ReplyPromise DEF ReceiveReply
  <1>6. CASE ReceiveWork
    BY <1>1, <1>6, WorkPromise DEF ReceiveWork
  <1>7. CASE ServeSubmit \/ ServeStatus \/ ServeError
    BY <1>1, <1>7, ServePromise
  <1>8. CASE \E h \in Handles : ServerWork(h)
    BY <1>1, <1>8, EmitPromise
  <1>9. CASE Reconnecting \/ ServeOption \/ Break \/ \E h \in Handles : OtherClientSubmits(h)
    BY <1>9, UnseenQueues DEF Reconnecting, Connect, ConnectFails, Negotiate, NegotiateFails,
         MarkDisconnected, Wake, ServeOption, Break, OtherClientSubmits, calls, queues, server
  <1>10. CASE UNCHANGED vars
    BY <1>10, UnseenQueues DEF vars, calls, queues, server
  <1> QED
    BY <1>2, <1>3, <1>4, <1>5, <1>6, <1>7, <1>8, <1>9, <1>10 DEF Next, ActorLoop, Server

-----------------------------------------------------------------------------
\* The actor, with its queues, subscribers and packets, does what the client
\* promises (doc comments of Client, SubmittedJob and JobEventStream): a stream
\* yields its job's events and ends with the terminal one, or with all the others.
THEOREM PromiseKept == Spec => KeepsPromise
  <1>1. Init => Promise!Init
    BY PromiseInit
  <1>2. TypeOK /\ AttributionInv /\ EventInv /\ [Next]_vars => [Promise!Next]_Promise!vars
    BY PromiseNext
  <1> QED
    BY <1>1, <1>2, TypeCorrect, PendingLineUp, PacketsLeadOn, PTL
       DEF Spec, KeepsPromise, Promise!Spec

\* What holds of every implementation of the promise, of which the client is one.
Streams == INSTANCE JobStreamsProofs WITH
    Foreground <- {r \in Requests : Kind[r] = "fg"},
    listening <- Listening

\* What a user of JobEventStream relies on, of the actor: a stream yields the
\* events of the job its submission was given, from the first one after it joined,
\* in order, none made up, and nothing after the terminal one.
THEOREM ClientStreamsYieldTheirJobs == Spec => []Streams!YieldsItsJob
  <1>1. Promise!Init => Streams!Init
    BY DEF Promise!Init, Streams!Init, Promise!None, Streams!None, Promise!Outcome, Streams!Outcome
  <1>2. [Promise!Next]_Promise!vars => [Streams!Next]_Streams!vars
    <2>1. ASSUME NEW r \in Requests
          PROVE  /\ Promise!Call(r) => Streams!Call(r)
                 /\ Promise!Cancel(r) => Streams!Cancel(r)
                 /\ Promise!DropStream(r) => Streams!DropStream(r)
                 /\ Promise!Return(r) => Streams!Return(r)
                 /\ Promise!Deliver(r) => Streams!Deliver(r)
      BY DEF Promise!Call, Streams!Call, Promise!Cancel, Streams!Cancel, Promise!DropStream,
             Streams!DropStream, Promise!Return, Streams!Return, Promise!Deliver,
             Streams!Deliver, Promise!None, Streams!None, Promise!Outcome, Streams!Outcome
    <2>2. ASSUME NEW r \in Requests, Promise!Refuse(r) PROVE Streams!Refuse(r)
      BY <2>2 DEF Promise!Refuse, Streams!Refuse, Promise!Refusals, Streams!Refusals,
                  Promise!Outcome, Streams!Outcome
    <2>3. ASSUME NEW r \in Requests, Promise!Answer(r) PROVE Streams!Answer(r)
      BY <2>3 DEF Promise!Answer, Streams!Answer, Promise!Answers, Streams!Answers,
                  Promise!None, Streams!None, Promise!Outcome, Streams!Outcome
    <2>4. ASSUME NEW h \in Handles, Promise!Emit(h) PROVE Streams!Emit(h)
      BY <2>4 DEF Promise!Emit, Streams!Emit
    <2>5. ASSUME Promise!Lose PROVE Streams!Lose
      BY <2>5 DEF Promise!Lose, Streams!Lose, Promise!Losses, Streams!Losses,
                  Promise!Outcome, Streams!Outcome
    <2>6. ASSUME UNCHANGED Promise!vars PROVE UNCHANGED Streams!vars
      BY <2>6 DEF Promise!vars, Streams!vars
    <2> QED
      BY <2>1, <2>2, <2>3, <2>4, <2>5, <2>6 DEF Promise!Next, Streams!Next
  <1> QED
    BY <1>1, <1>2, PromiseKept, Streams!StreamsYieldTheirJobs, PTL
       DEF KeepsPromise, Promise!Spec, Streams!Spec

=============================================================================
