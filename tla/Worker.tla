------------------------------- MODULE Worker -------------------------------
(***************************************************************************)
(* The worker (src/worker/mod.rs): the calls of `Worker`, the tasks that   *)
(* each own one connection (`run_worker_connection`, `run_grab_loop`,      *)
(* `dispatch_job`) and, as an external part, the job handlers and the job  *)
(* server, whose queue all connections draw from.                          *)
(*                                                                         *)
(* The registry's RwLock is tokio's: first come, first served.  It is held *)
(* for reading across `register_functions`, which sends while it holds it, *)
(* and by each side for a moment to look a function up or to remove one.   *)
(***************************************************************************)
EXTENDS Naturals, Sequences, FiniteSets, Functions

CONSTANTS
    Conns,        \* the tasks of one server: `concurrency` of them
    Functions,    \* the functions registered with the builder
    Timed,        \* those registered with a timeout
    Jobs,
    FunctionOf,   \* [Jobs -> Functions]
    Oversized,    \* jobs whose result the codec refuses to encode
    NoJob,
    Capacity,     \* of the unregister channel (16 in the code)
    Window,       \* packets a connection takes before a send has to wait
    MayPanic,     \* handlers may panic
    MayReport,    \* handlers may report progress
    MayClone,     \* handlers may leave a clone of their Reporter behind
    MaxCalls,     \* bound: calls of unregister
    MaxBreaks     \* bound: connections the network breaks

ASSUME WorkerAssumption ==
    /\ Timed \subseteq Functions
    /\ FunctionOf \in [Jobs -> Functions]
    /\ Oversized \subseteq Jobs
    /\ NoJob \notin Jobs \cup Conns
    /\ Conns \cap Functions = {}
    /\ Capacity \in Nat \ {0}
    /\ Window \in Nat \ {0}
    /\ MayPanic \in BOOLEAN /\ MayReport \in BOOLEAN /\ MayClone \in BOOLEAN
    /\ MaxCalls \in Nat /\ MaxBreaks \in Nat

VARIABLES
    \* the Worker
    worker,       \* "running", "stopping" (shutdown was called) or "dropped"
    registry,     \* the functions registered
    waiting,      \* who waits for the registry's lock, in order
    unregister,   \* [Functions -> where a call of `unregister` is]
    notices,      \* the functions broadcast on unregister_tx
    \* the task of a connection
    pc,           \* where it is
    unsent,       \* the functions it still has to register
    seen,         \* the notices its receiver is past
    current,      \* the job it dispatches
    \* the connection
    clones,       \* the jobs whose Reporter a task the handler spawned holds a clone of
    link,         \* "down", "up", "lost" by the network, or "shut" by the worker
    to_server, to_worker,
    \* the server
    can_do,       \* the functions a connection advertised
    sleeping,     \* the connections that sent PRE_SLEEP
    job,          \* "unborn", "queued", "assigned" or "done"
    owner,        \* the connection a job is assigned to
    breaks,
    \* what the properties look at
    skipped       \* the notices a task discarded or was too late for

api == <<worker, registry, waiting, unregister, notices>>
task == <<pc, unsent, seen, current>>
wires == <<link, to_server, to_worker>>
server == <<can_do, sleeping, job, owner, breaks>>
kept == <<clones, skipped>>
vars == <<api, task, wires, server, kept>>

Nobody == NoJob   \* the owner of a job that is not assigned
Terminal == {"work_complete", "work_fail", "work_exception"}
Work == Terminal \cup {"work_data"}

Packet(type, about) == [type |-> type, about |-> about]

-----------------------------------------------------------------------------
Init ==
    /\ worker = "running"
    /\ registry = Functions
    /\ waiting = <<>>
    /\ unregister = [f \in Functions |-> "none"]
    /\ notices = <<>>
    /\ pc = [c \in Conns |-> "start"]
    /\ unsent = [c \in Conns |-> {}]
    /\ seen = [c \in Conns |-> 0]
    /\ current = [c \in Conns |-> NoJob]
    /\ link = [c \in Conns |-> "down"]
    /\ to_server = [c \in Conns |-> <<>>]
    /\ to_worker = [c \in Conns |-> <<>>]
    /\ can_do = [c \in Conns |-> {}]
    /\ sleeping = {}
    /\ job = [j \in Jobs |-> "unborn"]
    /\ owner = [j \in Jobs |-> Nobody]
    /\ breaks = 0
    /\ skipped = [c \in Conns |-> {}]
    /\ clones = [c \in Conns |-> {}]

-----------------------------------------------------------------------------
(* The registry's lock.  A task asks for it while it reads or waits; a       *)
(* writer removes its function in the step in which it gets the lock.        *)

\* Mutated form of Readers: register_functions reads a snapshot of the registry.
Readers_Snapshot == {}

\* Mutated form of Readers: the guard lives as long as the connection.
Readers_WholeLoop ==
    {c \in Conns : pc[c] \notin {"start", "connecting", "connected", "backoff", "done"}}

Readers == {c \in Conns : pc[c] = "registering"}

MayRead(c) == waiting # <<>> => Head(waiting) = c
ReadsRegistry(c) ==
    /\ MayRead(c)
    /\ waiting' = IF waiting = <<>> THEN waiting ELSE Tail(waiting)

\* The lock is asked for, and somebody is before the task.
Queue(c) ==
    /\ pc[c] \in {"connected", "dispatching"}
    /\ ~MayRead(c) /\ c \notin Range(waiting)
    /\ waiting' = Append(waiting, c)
    /\ UNCHANGED <<worker, registry, unregister, notices, task, wires, server, kept>>

-----------------------------------------------------------------------------
(* The calls of Worker. `unregister` borrows it and `shutdown` consumes it.  *)

Calling == {f \in Functions : unregister[f] \in {"waiting", "removed"}}

Unregister(f) ==
    /\ worker = "running" /\ f \notin Calling
    /\ Len(notices) + Cardinality(Calling) < MaxCalls
    /\ waiting' = Append(waiting, f)
    /\ unregister' = [unregister EXCEPT ![f] = "waiting"]
    /\ UNCHANGED <<worker, registry, notices, task, wires, server, kept>>

\* unregister: the function leaves the registry, and then the connections are
\* told, whether it was there or not.
Remove(f) ==
    /\ unregister[f] = "waiting"
    /\ Readers = {} /\ Head(waiting) = f
    /\ waiting' = Tail(waiting)
    /\ registry' = registry \ {f}
    /\ unregister' = [unregister EXCEPT ![f] = "removed"]
    /\ UNCHANGED <<worker, notices, task, wires, server, kept>>

Broadcast(f) ==
    /\ unregister[f] = "removed"
    /\ notices' = Append(notices, f)
    /\ unregister' = [unregister EXCEPT ![f] = "done"]
    /\ UNCHANGED <<worker, registry, waiting, task, wires, server, kept>>

\* The caller drops the future of unregister while it waits.
GiveUp(f) ==
    /\ unregister[f] = "waiting"
    /\ \E i \in DOMAIN waiting :
          /\ waiting[i] = f
          /\ waiting' = SubSeq(waiting, 1, i - 1) \o SubSeq(waiting, i + 1, Len(waiting))
    /\ unregister' = [unregister EXCEPT ![f] = "none"]
    /\ UNCHANGED <<worker, registry, notices, task, wires, server, kept>>

Shutdown ==
    /\ worker = "running"
    /\ Calling = {}
    /\ worker' = "stopping"
    /\ UNCHANGED <<registry, waiting, unregister, notices, task, wires, server, kept>>

\* The tasks C end and drop their connections; what was written is delivered. A
\* connection that lives is closed with the last clone of a Reporter, no sooner.
Ends(C) ==
    /\ pc' = [c \in Conns |-> IF c \in C THEN "done" ELSE pc[c]]
    /\ current' = [c \in Conns |-> IF c \in C THEN NoJob ELSE current[c]]
    /\ unsent' = [c \in Conns |-> IF c \in C THEN {} ELSE unsent[c]]
    /\ clones' = [c \in Conns |-> IF c \in C /\ link[c] # "up" THEN {} ELSE clones[c]]
    /\ link' = [c \in Conns |-> CASE c \notin C                          -> link[c]
                                  [] c \in C /\ link[c] # "up"           -> "down"
                                  [] c \in C /\ link[c] = "up"
                                     /\ clones[c] = {}                   -> "shut"
                                  [] c \in C /\ link[c] = "up"
                                     /\ clones[c] # {}                   -> "up"]
    /\ to_worker' = [c \in Conns |-> IF c \in C THEN <<>> ELSE to_worker[c]]

\* The Worker, or the future of `shutdown`, is dropped: the JoinSet aborts every
\* task, and as no call of unregister is open nobody waits for the lock any more.
Drop ==
    /\ worker # "dropped"
    /\ Calling = {}
    /\ worker' = "dropped"
    /\ Ends({c \in Conns : pc[c] # "done"})
    /\ waiting' = <<>>
    /\ UNCHANGED <<registry, unregister, notices, seen, to_server, server, skipped>>

-----------------------------------------------------------------------------
(* run_worker_connection.                                                  *)

Goto(c, next) == pc' = [pc EXCEPT ![c] = next]

\* A send waits while the connection takes no more. A packet written to one
\* that is lost goes nowhere.
Sends(c, packets) ==
    /\ link[c] = "up" => Len(to_server[c]) < Window
    /\ to_server' = [to_server EXCEPT ![c] = IF link[c] = "up" THEN @ \o packets ELSE @]

Start(c) ==
    /\ pc[c] = "start"
    /\ Goto(c, IF worker = "running" THEN "connecting" ELSE "done")
    /\ UNCHANGED <<api, unsent, seen, current, wires, server, kept>>

Connect(c) ==
    /\ pc[c] = "connecting"
    /\ link' = [link EXCEPT ![c] = "up"]
    /\ can_do' = [can_do EXCEPT ![c] = {}]
    /\ Goto(c, "connected")
    /\ UNCHANGED <<api, unsent, seen, current, to_server, to_worker, sleeping, job, owner, breaks, kept>>

ConnectFails(c) ==
    /\ pc[c] = "connecting"
    /\ Goto(c, "backoff")
    /\ UNCHANGED <<api, unsent, seen, current, wires, server, kept>>

\* register_functions: the functions registered, in the order of a HashMap,
\* while the lock is held.
Lock(c) ==
    /\ pc[c] = "connected"
    /\ ReadsRegistry(c)
    /\ unsent' = [unsent EXCEPT ![c] = registry]
    /\ Goto(c, IF registry = {} THEN "discarding" ELSE "registering")
    /\ UNCHANGED <<worker, registry, unregister, notices, seen, current, wires, server, kept>>

Register(c) ==
    /\ pc[c] = "registering"
    /\ \E f \in unsent[c] :
          /\ Sends(c, <<Packet("can_do", {f})>>)
          /\ unsent' = [unsent EXCEPT ![c] = @ \ {f}]
          /\ Goto(c, IF unsent[c] = {f} THEN "discarding" ELSE "registering")
    /\ UNCHANGED <<api, seen, current, link, to_worker, server, kept>>

\* Receiver::try_recv on a full channel: the notices that were overwritten are
\* skipped, and the call says so instead of returning one.
Lagged(c) == Len(notices) - seen[c] > Capacity
Oldest == Len(notices) - Capacity

Skips(c, next) ==
    /\ seen' = [seen EXCEPT ![c] = next]
    /\ skipped' = [skipped EXCEPT ![c] = @ \cup (seen[c] + 1 .. next)]

\* The notices so far are discarded; a Lagged stops the discarding.
Discard(c) ==
    /\ pc[c] = "discarding"
    /\ LET next == IF Lagged(c) THEN Oldest ELSE Len(notices)
       IN  Skips(c, next)
    /\ Goto(c, "loop")
    /\ UNCHANGED <<api, unsent, current, wires, server, clones>>

\* A send or a receive fails. The connection stays open in the backoff, and while
\* there are clones of Reporters, to no effect.
LosesConnection(c) ==
    /\ pc[c] \in {"registering", "flushing", "grabbing", "awaiting", "pre_sleep", "asleep"}
    /\ link[c] = "lost"
    /\ link' = [link EXCEPT ![c] = "down"]
    /\ to_worker' = [to_worker EXCEPT ![c] = <<>>]
    /\ unsent' = [unsent EXCEPT ![c] = {}]
    /\ clones' = [clones EXCEPT ![c] = {}]
    /\ Goto(c, "backoff")
    /\ UNCHANGED <<api, seen, current, to_server, server, skipped>>

\* interruptible_backoff.
Backoff(c) ==
    /\ pc[c] = "backoff"
    /\ \/ Goto(c, "start")
       \/ worker # "running" /\ Goto(c, "done")
    /\ UNCHANGED <<api, unsent, seen, current, wires, server, kept>>

-----------------------------------------------------------------------------
(* run_grab_loop.                                                          *)

CheckShutdown(c) ==
    /\ pc[c] = "loop"
    /\ IF worker = "running"
       THEN Goto(c, "flushing") /\ UNCHANGED <<unsent, current, link, to_worker, clones>>
       ELSE Ends({c})
    /\ UNCHANGED <<api, seen, to_server, server, skipped>>

\* Mutated form of Flush: the notices are discarded here too.
Flush_Drops(c) ==
    /\ pc[c] = "flushing"
    /\ seen' = [seen EXCEPT ![c] = Len(notices)]
    /\ Goto(c, "grabbing")
    /\ UNCHANGED <<api, unsent, current, wires, server, kept>>

\* flush_unregistrations: CANT_DO for the next notice, or none is left.
Flush(c) ==
    /\ pc[c] = "flushing"
    /\ \/ /\ Lagged(c)
          /\ Skips(c, Oldest)
          /\ UNCHANGED <<pc, to_server>>
       \/ /\ ~Lagged(c) /\ seen[c] < Len(notices)
          /\ seen' = [seen EXCEPT ![c] = @ + 1]
          /\ Sends(c, <<Packet("cant_do", {notices[seen[c] + 1]})>>)
          /\ UNCHANGED <<pc, skipped>>
       \/ /\ seen[c] = Len(notices)
          /\ Goto(c, "grabbing")
          /\ UNCHANGED <<seen, to_server, skipped>>
    /\ UNCHANGED <<api, unsent, current, link, to_worker, server, clones>>

\* GRAB_JOB. Shutdown may have been called since the check.
Grab(c) ==
    /\ pc[c] = "grabbing"
    /\ Sends(c, <<Packet("grab", NoJob)>>)
    /\ Goto(c, "awaiting")
    /\ UNCHANGED <<api, unsent, seen, current, link, to_worker, server, kept>>

\* The answer to GRAB_JOB, or what is taken for it: anything else sends the
\* loop round to grab again.
Receive(c) ==
    /\ pc[c] = "awaiting" /\ to_worker[c] # <<>>
    /\ LET p == Head(to_worker[c])
       IN  \/ /\ p.type = "job_assign"
              /\ Goto(c, "dispatching")
              /\ current' = [current EXCEPT ![c] = p.about]
           \/ /\ p.type = "no_job"
              /\ Goto(c, "pre_sleep")
              /\ UNCHANGED current
           \/ /\ p.type \notin {"job_assign", "no_job"}
              /\ Goto(c, "loop")
              /\ UNCHANGED current
    /\ to_worker' = [to_worker EXCEPT ![c] = Tail(@)]
    /\ UNCHANGED <<api, unsent, seen, link, to_server, server, kept>>

\* Mutated form of PreSleep: the loop goes round without waiting for the NOOP.
PreSleep_NoWait(c) ==
    /\ pc[c] = "pre_sleep"
    /\ Sends(c, <<Packet("pre_sleep", NoJob)>>)
    /\ Goto(c, "loop")
    /\ UNCHANGED <<api, unsent, seen, current, link, to_worker, server, kept>>

PreSleep(c) ==
    /\ pc[c] = "pre_sleep"
    /\ Sends(c, <<Packet("pre_sleep", NoJob)>>)
    /\ Goto(c, "asleep")
    /\ UNCHANGED <<api, unsent, seen, current, link, to_worker, server, kept>>

\* Mutated form of WakeUp: the packet is read and the task sleeps on.
WakeUp_SleepsOn(c) ==
    /\ pc[c] = "asleep" /\ to_worker[c] # <<>>
    /\ to_worker' = [to_worker EXCEPT ![c] = Tail(@)]
    /\ UNCHANGED <<api, task, link, to_server, server, kept>>

\* Any packet ends the sleep, NOOP or not.
WakeUp(c) ==
    /\ pc[c] = "asleep" /\ to_worker[c] # <<>>
    /\ to_worker' = [to_worker EXCEPT ![c] = Tail(@)]
    /\ Goto(c, "loop")
    /\ UNCHANGED <<api, unsent, seen, current, link, to_server, server, kept>>

\* Mutated form of StopAsleep: the sleep is not interrupted.
StopAsleep_OnWake(c) ==
    /\ pc[c] = "asleep" /\ worker # "running" /\ to_worker[c] # <<>>
    /\ Ends({c})
    /\ UNCHANGED <<api, seen, to_server, server, skipped>>

\* Mutated form of StopAsleep: shutdown interrupts the wait for GRAB_JOB's answer too.
StopAsleep_AnyRecv(c) ==
    /\ pc[c] \in {"asleep", "awaiting"} /\ worker # "running"
    /\ Ends({c})
    /\ UNCHANGED <<api, seen, to_server, server, skipped>>

StopAsleep(c) ==
    /\ pc[c] = "asleep" /\ worker # "running"
    /\ Ends({c})
    /\ UNCHANGED <<api, seen, to_server, server, skipped>>

-----------------------------------------------------------------------------
(* dispatch_job and the handler (external, but for its end).               *)

\* Mutated form of Answers: the job stays in hand.
Answers_KeepsJob(c, type) ==
    /\ Sends(c, <<Packet(type, current[c])>>)
    /\ Goto(c, "loop")
    /\ UNCHANGED current

Answers(c, type) ==
    /\ Sends(c, <<Packet(type, current[c])>>)
    /\ current' = [current EXCEPT ![c] = NoJob]
    /\ Goto(c, "loop")

\* The lookup. A job for a function that is not registered is failed back.
Dispatch(c) ==
    /\ pc[c] = "dispatching"
    /\ ReadsRegistry(c)
    /\ Goto(c, IF FunctionOf[current[c]] \in registry THEN "running" ELSE "refusing")
    /\ UNCHANGED <<worker, registry, unregister, notices, unsent, seen, current, wires, server, kept>>

Refuse(c) ==
    /\ pc[c] = "refusing"
    /\ Answers(c, "work_fail")
    /\ UNCHANGED <<api, unsent, seen, link, to_worker, server, kept>>

\* Reporter is Clone: the handler hands one to a task it spawns, which may
\* outlive the handler, the dispatch and the task of the connection.
CloneReporter(c) ==
    /\ MayClone
    /\ pc[c] = "running"
    /\ clones' = [clones EXCEPT ![c] = @ \cup {current[c]}]
    /\ UNCHANGED <<api, task, wires, server, skipped>>

\* The last clones are dropped, and with them the connection of a task that ended.
DropClones(c) ==
    /\ clones[c] # {}
    /\ clones' = [clones EXCEPT ![c] = {}]
    /\ link' = [link EXCEPT ![c] = CASE pc[c] = "done" /\ @ = "up"   -> "shut"
                                     [] pc[c] = "done" /\ @ = "lost" -> "down"
                                     [] OTHER                       -> @]
    /\ UNCHANGED <<api, task, to_server, to_worker, server, skipped>>

\* Bound: the next report of a job is sent once the server has read the last,
\* and an ERROR for it, if any, is read as well.
Reported(c, j) ==
    \/ Packet("work_data", j) \in Range(to_server[c])
    \/ Packet("error", NoJob) \in Range(to_worker[c])

\* Reporter: progress of the job in hand, or of one a clone is left of. A clone
\* waits for the mutex while a packet is received under it; as it may have asked
\* first, its report goes out between the GRAB_JOB or PRE_SLEEP and that wait.
Report(c) ==
    /\ MayReport
    /\ \E j \in clones[c] \cup {current[k] : k \in {c} \cap {d \in Conns : pc[d] = "running"}} :
          /\ ~Reported(c, j)
          /\ Sends(c, <<Packet("work_data", j)>>)
    /\ UNCHANGED <<api, task, link, to_worker, server, kept>>

\* Mutated form of Finish: a failed job is not answered.
Finish_Silent(c) ==
    /\ pc[c] = "running"
    /\ \/ Answers(c, "work_complete")
       \/ /\ current' = [current EXCEPT ![c] = NoJob]
          /\ Goto(c, "loop")
          /\ UNCHANGED to_server
    /\ UNCHANGED <<api, unsent, seen, link, to_worker, server, kept>>

\* The handler returns. A send that fails is ignored, one that fails because
\* the result cannot be encoded as well: then nothing is sent.
Finish(c) ==
    /\ pc[c] = "running"
    /\ IF current[c] \in Oversized
       THEN /\ current' = [current EXCEPT ![c] = NoJob]
            /\ Goto(c, "loop")
            /\ UNCHANGED to_server
       ELSE \E type \in Terminal : Answers(c, type)
    /\ UNCHANGED <<api, unsent, seen, link, to_worker, server, kept>>

\* The handler panics, and takes the task with it: it is not started again.
Panic(c) ==
    /\ MayPanic
    /\ pc[c] = "running"
    /\ Ends({c})
    /\ UNCHANGED <<api, seen, to_server, server, skipped>>

-----------------------------------------------------------------------------
(* The job server and the network (external).                              *)

\* Jobs of the functions F are queued: a NOOP for some sleeping connection
\* that can do one, if there is any among C.
Rouse(F, C) ==
    LET able == {c \in C : c \in sleeping /\ can_do[c] \cap F # {}}
    IN  \E woken \in SUBSET able :
          /\ able # {} => woken # {}
          /\ sleeping' = (sleeping \cap C) \ woken
          /\ to_worker' = [c \in Conns |-> IF c \in woken
                                           THEN Append(to_worker[c], Packet("noop", NoJob))
                                           ELSE to_worker[c]]

Submit(j) ==
    /\ job[j] = "unborn"
    /\ job' = [job EXCEPT ![j] = "queued"]
    /\ Rouse({FunctionOf[j]}, Conns)
    /\ UNCHANGED <<api, task, link, to_server, can_do, owner, breaks, kept>>

\* The server's end of connection c is gone: its jobs go back to the queue.
Requeue(c) ==
    LET jobs == {j \in Jobs : owner[j] = c}
    IN  /\ job' = [j \in Jobs |-> IF j \in jobs THEN "queued" ELSE job[j]]
        /\ owner' = [j \in Jobs |-> IF j \in jobs THEN Nobody ELSE owner[j]]
        /\ can_do' = [can_do EXCEPT ![c] = {}]
        /\ Rouse({FunctionOf[j] : j \in jobs}, Conns \ {c})

Break(c) ==
    /\ link[c] = "up" /\ breaks < MaxBreaks
    /\ breaks' = breaks + 1
    /\ link' = [link EXCEPT ![c] = "lost"]
    /\ to_server' = [to_server EXCEPT ![c] = <<>>]
    /\ Requeue(c)
    /\ UNCHANGED <<api, task, kept>>

\* The worker closed the connection and the server has read what it had sent.
Hangup(c) ==
    /\ link[c] = "shut" /\ to_server[c] = <<>>
    /\ link' = [link EXCEPT ![c] = "down"]
    /\ Requeue(c)
    /\ UNCHANGED <<api, task, to_server, breaks, kept>>

\* The server reads a packet of one of these types.
Reads(c, types) ==
    /\ link[c] \in {"up", "shut"}
    /\ to_server[c] # <<>> /\ Head(to_server[c]).type \in types
    /\ to_server' = [to_server EXCEPT ![c] = Tail(@)]

\* The server sends a packet, to no effect if the worker has gone.
Replies(c, type, about) ==
    to_worker' = [to_worker EXCEPT ![c] =
                    IF link[c] = "up" THEN Append(@, Packet(type, about)) ELSE @]

ReadFunctions(c) ==
    /\ Reads(c, {"can_do", "cant_do"})
    /\ LET p == Head(to_server[c])
       IN  can_do' = [can_do EXCEPT ![c] = IF p.type = "can_do" THEN @ \cup p.about
                                                               ELSE @ \ p.about]
    /\ UNCHANGED <<api, task, link, to_worker, sleeping, job, owner, breaks, kept>>

Queued(c) == {j \in Jobs : job[j] = "queued" /\ FunctionOf[j] \in can_do[c]}

ReadGrab(c) ==
    /\ Reads(c, {"grab"})
    /\ sleeping' = sleeping \ {c}
    /\ \/ \E j \in Queued(c) :
            /\ job' = [job EXCEPT ![j] = "assigned"]
            /\ owner' = [owner EXCEPT ![j] = c]
            /\ Replies(c, "job_assign", j)
       \/ /\ Queued(c) = {}
          /\ Replies(c, "no_job", NoJob)
          /\ UNCHANGED <<job, owner>>
    /\ UNCHANGED <<api, task, link, can_do, breaks, kept>>

\* A job queued since NO_JOB was sent ends the sleep at once.
ReadPreSleep(c) ==
    /\ Reads(c, {"pre_sleep"})
    /\ IF Queued(c) = {}
       THEN sleeping' = sleeping \cup {c} /\ UNCHANGED to_worker
       ELSE Replies(c, "noop", NoJob) /\ UNCHANGED sleeping
    /\ UNCHANGED <<api, task, link, can_do, job, owner, breaks, kept>>

\* A WORK_* packet of the job's owner, progress or the result; an ERROR for a
\* job that was failed back meanwhile.
ReadWork(c) ==
    /\ Reads(c, Work)
    /\ LET p == Head(to_server[c])
       IN  IF owner[p.about] = c
           THEN /\ IF p.type \in Terminal
                   THEN /\ job' = [job EXCEPT ![p.about] = "done"]
                        /\ owner' = [owner EXCEPT ![p.about] = Nobody]
                   ELSE UNCHANGED <<job, owner>>
                /\ UNCHANGED to_worker
           ELSE Replies(c, "error", NoJob) /\ UNCHANGED <<job, owner>>
    /\ UNCHANGED <<api, task, link, can_do, sleeping, breaks, kept>>

\* CAN_DO_TIMEOUT: the server fails a job back that takes too long.
TimeOut(j) ==
    /\ job[j] = "assigned" /\ FunctionOf[j] \in Timed
    /\ job' = [job EXCEPT ![j] = "done"]
    /\ owner' = [owner EXCEPT ![j] = Nobody]
    /\ UNCHANGED <<api, task, wires, can_do, sleeping, breaks, kept>>

-----------------------------------------------------------------------------
Calls == \/ \E f \in Functions : Unregister(f) \/ Remove(f) \/ Broadcast(f) \/ GiveUp(f)
         \/ Shutdown \/ Drop

Connecting(c) == \/ Start(c) \/ ConnectFails(c) \/ Connect(c) \/ Backoff(c)
                 \/ Lock(c) \/ Register(c) \/ Discard(c)

GrabLoop(c) == \/ CheckShutdown(c) \/ Flush(c) \/ Grab(c) \/ Receive(c)
               \/ PreSleep(c) \/ WakeUp(c) \/ StopAsleep(c)
               \/ Dispatch(c) \/ Refuse(c) \/ Report(c) \/ Finish(c) \/ Panic(c)
               \/ CloneReporter(c) \/ DropClones(c)

ServerReads(c) == ReadFunctions(c) \/ ReadGrab(c) \/ ReadPreSleep(c) \/ ReadWork(c) \/ Hangup(c)

Next == \/ Calls
        \/ \E c \in Conns : Connecting(c) \/ Queue(c) \/ GrabLoop(c) \/ LosesConnection(c)
                             \/ ServerReads(c) \/ Break(c)
        \/ \E j \in Jobs : Submit(j) \/ TimeOut(j)

Spec == Init /\ [][Next]_vars

\* What is assumed to go on: the runtime polls the tasks, connecting is not
\* refused for ever, handlers return, and the server reads what it is sent and
\* fails a job with a timeout back ("the server fails the job back if it isn't
\* completed within `timeout`", WorkerBuilder::register_with_timeout).
\* Nothing is assumed of the callers, but that a call of unregister is polled
\* when the lock is free.
Runs(c) == \/ Start(c) \/ Queue(c) \/ Lock(c) \/ Register(c) \/ Discard(c)
           \/ LosesConnection(c) \/ Backoff(c)
           \/ CheckShutdown(c) \/ Flush(c) \/ Grab(c) \/ Receive(c)
           \/ PreSleep(c) \/ WakeUp(c) \/ StopAsleep(c)
           \/ Dispatch(c) \/ Refuse(c) \/ Finish(c)

Fairness ==
    /\ \A c \in Conns : WF_vars(Runs(c)) /\ SF_vars(Connect(c)) /\ WF_vars(ServerReads(c))
    /\ \A f \in Functions : WF_vars(Remove(f)) /\ WF_vars(Broadcast(f))
    /\ \A j \in Jobs : WF_vars(TimeOut(j))

FairSpec == Spec /\ Fairness

-----------------------------------------------------------------------------
(* Correctness.                                                            *)

InLoop == {"loop", "flushing", "grabbing", "awaiting", "pre_sleep", "asleep",
           "dispatching", "refusing", "running"}

ToServer == [type : {"can_do", "cant_do"}, about : SUBSET Functions]
            \cup [type : {"grab", "pre_sleep"}, about : {NoJob}]
            \cup [type : Work, about : Jobs]
ToWorker == [type : {"job_assign"}, about : Jobs]
            \cup [type : {"no_job", "noop", "error"}, about : {NoJob}]

LockOK ==
    /\ worker \in {"running", "stopping", "dropped"}
    /\ registry \subseteq Functions
    /\ unregister \in [Functions -> {"none", "waiting", "removed", "done"}]
    /\ waiting \in Seq(Conns \cup Functions)
    /\ IsInjective(waiting)
    /\ Range(waiting) \cap Functions = {f \in Functions : unregister[f] = "waiting"}
    /\ notices \in Seq(Functions)

TasksOK ==
    /\ pc \in [Conns -> InLoop \cup {"start", "connecting", "connected", "registering", "discarding",
                                      "backoff", "done"}]
    /\ unsent \in [Conns -> SUBSET Functions]
    /\ current \in [Conns -> Jobs \cup {NoJob}]
    /\ \A c \in Conns : pc[c] \in {"dispatching", "refusing", "running"} <=> current[c] # NoJob

\* Only a task that has come to its loop leaves clones behind.
ClonesOK ==
    /\ clones \in [Conns -> SUBSET Jobs]
    /\ \A c \in Conns : clones[c] # {} => MayClone /\ pc[c] \in InLoop \cup {"done"}

ReceiversOK ==
    /\ seen \in [Conns -> Nat]
    /\ skipped \in [Conns -> SUBSET (Nat \ {0})]
    /\ \A c \in Conns : seen[c] <= Len(notices) /\ skipped[c] \subseteq 1 .. seen[c]

WiresOK ==
    /\ link \in [Conns -> {"down", "up", "lost", "shut"}]
    /\ to_server \in [Conns -> Seq(ToServer)]
    /\ to_worker \in [Conns -> Seq(ToWorker)]

ServerOK ==
    /\ can_do \in [Conns -> SUBSET Functions]
    /\ sleeping \subseteq Conns
    /\ job \in [Jobs -> {"unborn", "queued", "assigned", "done"}]
    /\ owner \in [Jobs -> Conns \cup {Nobody}]
    /\ \A j \in Jobs : job[j] = "assigned" <=> owner[j] # Nobody
    /\ breaks \in 0 .. MaxBreaks

\* Every variable holds a value of its kind, a task has a job exactly while it
\* dispatches one, and an assigned job is assigned to somebody.
TypeOK == LockOK /\ TasksOK /\ ClonesOK /\ ReceiversOK /\ WiresOK /\ ServerOK

\* The packets of some types in a queue, by position.
Places(queue, types) == {i \in DOMAIN queue : queue[i].type \in types}

\* One GRAB_JOB is outstanding while its answer is awaited, and none otherwise
\* ("Gearman allows only one job in flight per GRAB_JOB cycle on a connection",
\* WorkerBuilder::concurrency): else a JOB_ASSIGN meets a task that sleeps.
\* It fails with functions that have a timeout and with clones of Reporters: the
\* ERROR for a late result or report is taken for the answer.
OneGrabOutstanding ==
    \A c \in Conns : link[c] = "up" =>
        Cardinality(Places(to_server[c], {"grab"}))
        + Cardinality(Places(to_worker[c], {"job_assign", "no_job"}))
        = IF pc[c] = "awaiting" THEN 1 ELSE 0

\* A job the server has assigned to a live connection is in exactly one place
\* there: on its way to the task that awaits it, dispatched, or answered by a
\* packet under way. And nothing is dispatched or answered that is not assigned,
\* but for a job with a timeout, which the server fails back. A clone of a
\* Reporter breaks it: it keeps the connection of a task that ended.
AssignedIsInHand ==
    \A c \in Conns, j \in Jobs : link[c] = "up" =>
        LET coming == {i \in Places(to_worker[c], {"job_assign"}) : to_worker[c][i].about = j}
            answered == {i \in Places(to_server[c], Terminal) : to_server[c][i].about = j}
            inHand == {k \in {0} : current[c] = j}
        IN  Cardinality(coming) + Cardinality(inHand) + Cardinality(answered)
            = IF owner[j] = c THEN 1 ELSE 0

\* What the packets of a type in a queue are about, taken together.
About(queue, type) == UNION {queue[i].about : i \in Places(queue, {type})}

\* The functions the server offers connection c for, once it has read its packets.
Offered(c) == (can_do[c] \cup About(to_server[c], "can_do")) \ About(to_server[c], "cant_do")

\* What a connection has advertised, or is about to, is what is registered: all
\* of it and, until the registration is over, no more. unregister cannot come
\* between the functions of one registration (register_functions).
AdvertisesRegistry ==
    \A c \in Conns : link[c] = "up" =>
        /\ pc[c] = "registering" => Offered(c) \cup unsent[c] = registry
        /\ pc[c] \in InLoop \cup {"discarding"} => registry \subseteq Offered(c)

\* Each notice the task has read became a CANT_DO, on this connection or in the
\* registry that a later one advertised (flush_unregistrations).
Withdrawn ==
    \A c \in Conns : link[c] = "up" /\ pc[c] \in InLoop =>
        \A i \in (1 .. seen[c]) \ skipped[c] : notices[i] \notin Offered(c)

\* A task that has read all its notices offers no function that was
\* unregistered ("notifies every live grab-loop connection to send CANT_DO").
UnregisterReachesAll ==
    \A c \in Conns : link[c] = "up" /\ pc[c] \in InLoop /\ seen[c] = Len(notices) =>
        \A f \in Functions : unregister[f] = "done" => f \notin Offered(c)

\* shutdown lets a task end only when it owes the server nothing: every job that
\* is assigned to its connection, one on its way too, is answered first, but where
\* the handler panics ("stop once its current job (if any) finishes", Worker::shutdown).
ShutdownAbandonsNoJob ==
    [][\A c \in Conns :
         /\ worker' = "stopping" /\ link[c] = "up"
         /\ pc[c] # "done" /\ pc'[c] = "done" /\ ~Panic(c)
         => \A j \in Jobs : owner[j] = c =>
               \E i \in Places(to_server[c], Terminal) : to_server[c][i].about = j]_vars

\* Nothing is grabbed once shutdown was called ("without grabbing another",
\* Worker::shutdown).
NoLateGrab == [][\A c \in Conns : Grab(c) => worker = "running"]_vars

\* shutdown returns: every task ends, whatever it is doing.
ShutdownReturns == worker = "stopping" ~> \A c \in Conns : pc[c] = "done"

\* unregister returns: it gets the lock however many connections register and
\* dispatch, each of which holds it no longer than it has functions to send.
UnregisterReturns == \A f \in Functions : f \in Calling ~> f \notin Calling

\* A queued job is done in the end, by a worker or failed back by its timeout,
\* unless its function is unregistered or the worker stops: no NOOP is missed,
\* whatever late results and reports the server answers with an ERROR that is
\* taken for the answer to a GRAB_JOB or for the NOOP.
JobsGetDone ==
    \A j \in Jobs :
        job[j] = "queued" ~>
            job[j] = "done" \/ FunctionOf[j] \notin registry \/ worker # "running"

=============================================================================
