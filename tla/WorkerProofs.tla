---------------------------- MODULE WorkerProofs ----------------------------
(***************************************************************************)
(* Type correctness of Worker, for any number of tasks, functions and jobs *)
(* and for every channel capacity; what its connections advertise, and     *)
(* what becomes of the jobs it is given.                                   *)
(***************************************************************************)
EXTENDS Worker, FiniteSetTheorems, SequenceTheorems, TLAPS

-----------------------------------------------------------------------------
(* Queues: one element appended, the head taken, one element taken out.    *)

LEMMA AppendIsInjective ==
    ASSUME NEW S, NEW s \in Seq(S), NEW x \in S
    PROVE  /\ Append(s, x) \in Seq(S)
           /\ Range(Append(s, x)) = Range(s) \cup {x}
           /\ IsInjective(s) /\ x \notin Range(s) => IsInjective(Append(s, x))
  <1> DEFINE t == Append(s, x)
  <1>1. /\ DOMAIN s = 1 .. Len(s) /\ Len(s) \in Nat
        /\ DOMAIN t = 1 .. Len(s) + 1 /\ t \in Seq(S)
        /\ \A i \in 1 .. Len(s) : t[i] = s[i]
        /\ t[Len(s) + 1] = x
    OBVIOUS
  <1> HIDE DEF t
  <1>2. Range(t) = Range(s) \cup {x}
    BY <1>1 DEF Range
  <1>3. ASSUME IsInjective(s), x \notin Range(s) PROVE IsInjective(t)
    BY <1>1, <1>3 DEF Range, IsInjective
  <1> QED
    BY <1>1, <1>2, <1>3 DEF t

LEMMA TailIsInjective ==
    ASSUME NEW S, NEW s \in Seq(S), s # <<>>
    PROVE  /\ Head(s) \in S /\ Tail(s) \in Seq(S)
           /\ Range(s) = {Head(s)} \cup Range(Tail(s))
           /\ IsInjective(s) => IsInjective(Tail(s)) /\ Head(s) \notin Range(Tail(s))
  <1>1. /\ Head(s) = s[1] /\ Tail(s) \in Seq(S) /\ Len(Tail(s)) = Len(s) - 1
        /\ DOMAIN s = 1 .. Len(s) /\ Len(s) \in Nat \ {0} /\ s[1] \in S
        /\ DOMAIN Tail(s) = 1 .. Len(s) - 1
        /\ \A i \in 1 .. Len(s) - 1 : Tail(s)[i] = s[i + 1]
    OBVIOUS
  <1>2. \A i \in DOMAIN s : s[i] \in {Head(s)} \cup Range(Tail(s))
    <2> SUFFICES ASSUME NEW i \in DOMAIN s, i # 1 PROVE s[i] \in Range(Tail(s))
      BY <1>1
    <2>1. i - 1 \in DOMAIN Tail(s) /\ Tail(s)[i - 1] = s[i]
      BY <1>1
    <2> QED
      BY <2>1 DEF Range
  <1>3. \A i \in DOMAIN Tail(s) : Tail(s)[i] \in Range(s)
    BY <1>1 DEF Range
  <1>4. Head(s) \in Range(s)
    BY <1>1 DEF Range
  <1>5. Range(s) = {Head(s)} \cup Range(Tail(s))
    BY <1>2, <1>3, <1>4 DEF Range
  <1>6. ASSUME IsInjective(s) PROVE IsInjective(Tail(s)) /\ Head(s) \notin Range(Tail(s))
    BY <1>1, <1>6 DEF Range, IsInjective
  <1> QED
    BY <1>1, <1>5, <1>6

LEMMA RemovedElems ==
    ASSUME NEW S, NEW s \in Seq(S), NEW i \in 1 .. Len(s)
    PROVE  LET t == SubSeq(s, 1, i - 1) \o SubSeq(s, i + 1, Len(s))
           IN  /\ t \in Seq(S) /\ Len(t) = Len(s) - 1
               /\ \A k \in 1 .. Len(s) - 1 : t[k] = IF k < i THEN s[k] ELSE s[k + 1]
  <1> DEFINE a == SubSeq(s, 1, i - 1)
             b == SubSeq(s, i + 1, Len(s))
  <1>1. a \in Seq(S) /\ Len(a) = i - 1 /\ \A k \in 1 .. i - 1 : a[k] = s[k]
    OBVIOUS
  <1>2. b \in Seq(S) /\ Len(b) = Len(s) - i /\ \A k \in 1 .. Len(s) - i : b[k] = s[k + i]
    OBVIOUS
  <1> HIDE DEF a, b
  <1>3. /\ a \o b \in Seq(S) /\ Len(a \o b) = Len(s) - 1
        /\ \A k \in 1 .. Len(s) - 1 : (a \o b)[k] = IF k <= i - 1 THEN a[k] ELSE b[k - (i - 1)]
    <2>1. Len(a) + Len(b) = Len(s) - 1
      BY <1>1, <1>2
    <2>2. /\ a \o b \in Seq(S) /\ Len(a \o b) = Len(a) + Len(b)
          /\ \A k \in 1 .. Len(a) + Len(b) :
                (a \o b)[k] = IF k <= Len(a) THEN a[k] ELSE b[k - Len(a)]
      BY <1>1, <1>2, ConcatProperties, Zenon
    <2> QED
      BY <1>1, <2>1, <2>2
  <1>4. ASSUME NEW k \in 1 .. Len(s) - 1
        PROVE  (a \o b)[k] = IF k < i THEN s[k] ELSE s[k + 1]
    <2>1. CASE k < i
      BY <1>1, <1>3, <2>1
    <2>2. CASE ~(k < i)
      <3>1. k - (i - 1) \in 1 .. Len(s) - i /\ k - (i - 1) + i = k + 1 /\ ~(k <= i - 1)
        BY <2>2
      <3> QED
        BY <1>2, <1>3, <2>2, <3>1
    <2> QED
      BY <2>1, <2>2
  <1> QED
    BY <1>3, <1>4 DEF a, b

LEMMA RemovedIsInjective ==
    ASSUME NEW S, NEW s \in Seq(S), NEW i \in 1 .. Len(s), IsInjective(s)
    PROVE  LET t == SubSeq(s, 1, i - 1) \o SubSeq(s, i + 1, Len(s))
           IN  /\ t \in Seq(S) /\ IsInjective(t)
               /\ Range(t) = Range(s) \ {s[i]}
  <1> DEFINE t == SubSeq(s, 1, i - 1) \o SubSeq(s, i + 1, Len(s))
             at(k) == IF k < i THEN k ELSE k + 1
  <1>1. /\ t \in Seq(S) /\ Len(t) = Len(s) - 1
        /\ \A k \in 1 .. Len(s) - 1 : t[k] = s[at(k)]
    BY RemovedElems
  <1> HIDE DEF t
  <1>2. DOMAIN t = 1 .. Len(s) - 1 /\ DOMAIN s = 1 .. Len(s)
    BY <1>1
  <1>3. ASSUME NEW k \in 1 .. Len(s) - 1 PROVE at(k) \in 1 .. Len(s) /\ at(k) # i
    OBVIOUS
  <1>4. ASSUME NEW k \in 1 .. Len(s) - 1, NEW l \in 1 .. Len(s) - 1, at(k) = at(l) PROVE k = l
    BY <1>4
  <1>5. ASSUME NEW k \in 1 .. Len(s), k # i PROVE \E l \in 1 .. Len(s) - 1 : at(l) = k
    <2>1. CASE k < i
      BY <2>1
    <2>2. CASE k > i
      <3>1. k - 1 \in 1 .. Len(s) - 1 /\ at(k - 1) = k
        BY <2>2
      <3> QED
        BY <3>1
    <2> QED
      BY <1>5, <2>1, <2>2
  <1> HIDE DEF at
  <1>6. IsInjective(t)
    BY SMTT(30), <1>1, <1>2, <1>3, <1>4 DEF IsInjective
  <1>7. \A k \in DOMAIN t : t[k] \in Range(s) \ {s[i]}
    BY SMTT(30), <1>1, <1>2, <1>3 DEF Range, IsInjective
  <1>8. ASSUME NEW k \in 1 .. Len(s), k # i PROVE s[k] \in Range(t)
    BY <1>1, <1>2, <1>5, <1>8 DEF Range
  <1>9. Range(t) = Range(s) \ {s[i]}
    BY <1>2, <1>7, <1>8 DEF Range
  <1> QED
    BY <1>1, <1>6, <1>9 DEF t

-----------------------------------------------------------------------------
(* The calls and the lock.                                                 *)

\* What a step does to the lock's queue when it asks, when it is given the
\* lock, and when it gives up.
LEMMA LockOKByCalls ==
    ASSUME LockOK, Calls
    PROVE  LockOK'
  <1> USE WorkerAssumption DEF LockOK
  <1>1. ASSUME NEW f \in Functions, Unregister(f) PROVE LockOK'
    <2>1. f \notin Range(waiting)
      BY <1>1 DEF Unregister, Calling
    <2>2. /\ waiting' \in Seq(Conns \cup Functions) /\ IsInjective(waiting')
          /\ Range(waiting') = Range(waiting) \cup {f}
      BY <1>1, <2>1, AppendIsInjective DEF Unregister
    <2> QED
      BY <1>1, <2>2 DEF Unregister
  <1>2. ASSUME NEW f \in Functions, Remove(f) PROVE LockOK'
    <2>1. f \in Range(waiting)
      BY <1>2 DEF Remove
    <2>2. waiting # <<>>
      BY <2>1 DEF Range
    <2>3. /\ Tail(waiting) \in Seq(Conns \cup Functions) /\ IsInjective(Tail(waiting))
          /\ Range(waiting) = {f} \cup Range(Tail(waiting)) /\ f \notin Range(Tail(waiting))
      BY <1>2, <2>2, TailIsInjective DEF Remove
    <2> QED
      BY <1>2, <2>3 DEF Remove
  <1>3. ASSUME NEW f \in Functions, Broadcast(f) PROVE LockOK'
    BY <1>3 DEF Broadcast
  <1>4. ASSUME NEW f \in Functions, GiveUp(f) PROVE LockOK'
    <2>1. PICK i \in 1 .. Len(waiting) :
             /\ waiting[i] = f
             /\ waiting' = SubSeq(waiting, 1, i - 1) \o SubSeq(waiting, i + 1, Len(waiting))
      <3>1. DOMAIN waiting = 1 .. Len(waiting)
        OBVIOUS
      <3> QED
        BY <1>4, <3>1, Zenon DEF GiveUp
    <2>2. /\ waiting' \in Seq(Conns \cup Functions) /\ IsInjective(waiting')
          /\ Range(waiting') = Range(waiting) \ {f}
      BY <2>1, RemovedIsInjective
    <2> QED
      BY <1>4, <2>2 DEF GiveUp
  <1>5. CASE Shutdown
    BY <1>5 DEF Shutdown
  <1>6. CASE Drop
    <2>1. Range(waiting') = {} /\ IsInjective(waiting')
      BY <1>6 DEF Drop, Range, IsInjective
    <2> QED
      BY <1>6, <2>1 DEF Drop, Calling
  <1> QED
    BY <1>1, <1>2, <1>3, <1>4, <1>5, <1>6 DEF Calls

LEMMA LockOKByReaders ==
    ASSUME LockOK, NEW c \in Conns, Queue(c) \/ Lock(c) \/ Dispatch(c)
    PROVE  LockOK'
  <1> USE WorkerAssumption DEF LockOK
  <1>1. UNCHANGED <<worker, registry, unregister, notices>>
    BY DEF Queue, Lock, Dispatch
  <1>2. CASE Queue(c)
    <2>1. /\ waiting' \in Seq(Conns \cup Functions) /\ IsInjective(waiting')
          /\ Range(waiting') = Range(waiting) \cup {c}
      BY <1>2, AppendIsInjective DEF Queue
    <2> QED
      BY <1>1, <2>1
  <1>3. CASE ReadsRegistry(c)
    <2>1. CASE waiting = <<>>
      BY <1>1, <1>3, <2>1 DEF ReadsRegistry
    <2>2. CASE waiting # <<>>
      <3>1. Head(waiting) = c /\ waiting' = Tail(waiting)
        BY <1>3, <2>2 DEF ReadsRegistry, MayRead
      <3>2. /\ Tail(waiting) \in Seq(Conns \cup Functions) /\ IsInjective(Tail(waiting))
            /\ Range(waiting) = {c} \cup Range(Tail(waiting))
        BY <2>2, <3>1, TailIsInjective
      <3> QED
        BY <1>1, <3>1, <3>2
    <2> QED
      BY <2>1, <2>2
  <1> QED
    BY <1>2, <1>3 DEF Lock, Dispatch

\* Only the calls and the readers touch the lock and what it guards.
LEMMA ApiIsKept ==
    ASSUME Next, ~Calls
    PROVE  \/ \E c \in Conns : Queue(c) \/ Lock(c) \/ Dispatch(c)
           \/ UNCHANGED api
  <1>1. ASSUME NEW c \in Conns, Connecting(c)
        PROVE  Lock(c) \/ UNCHANGED api
    BY <1>1 DEF Connecting, Start, ConnectFails, Connect, Backoff, Register, Discard
  <1>2. ASSUME NEW c \in Conns, GrabLoop(c)
        PROVE  Dispatch(c) \/ UNCHANGED api
    BY <1>2 DEF GrabLoop, CheckShutdown, Flush, Grab, Receive, PreSleep, WakeUp, StopAsleep,
                Refuse, Report, Finish, Panic, CloneReporter, DropClones
  <1>3. ASSUME NEW c \in Conns, LosesConnection(c) \/ ServerReads(c) \/ Break(c)
        PROVE  UNCHANGED api
    BY <1>3 DEF LosesConnection, ServerReads, ReadFunctions, ReadGrab, ReadPreSleep, ReadWork,
                Hangup, Break
  <1>4. ASSUME NEW j \in Jobs, Submit(j) \/ TimeOut(j)
        PROVE  UNCHANGED api
    BY <1>4 DEF Submit, TimeOut
  <1> QED
    BY <1>1, <1>2, <1>3, <1>4 DEF Next

LEMMA LockOKStep ==
    ASSUME LockOK, [Next]_vars
    PROVE  LockOK'
  <1>1. CASE UNCHANGED api
    BY <1>1 DEF LockOK, api
  <1> QED
    BY <1>1, LockOKByCalls, LockOKByReaders, ApiIsKept DEF vars

-----------------------------------------------------------------------------
(* The tasks.                                                              *)

LEMMA EndsKeepsTasksOK ==
    ASSUME TasksOK, NEW C \in SUBSET Conns, Ends(C)
    PROVE  TasksOK'
  BY WorkerAssumption DEF TasksOK, Ends, InLoop

LEMMA TasksOKByConnecting ==
    ASSUME TypeOK, NEW c \in Conns, Connecting(c) \/ Queue(c) \/ LosesConnection(c)
    PROVE  TasksOK'
  <1> USE WorkerAssumption DEF TasksOK, InLoop
  <1>0. TasksOK /\ registry \subseteq Functions
    BY DEF TypeOK, LockOK
  <1>1. CASE Start(c) \/ ConnectFails(c) \/ Connect(c) \/ Backoff(c)
    BY <1>0, <1>1 DEF Start, ConnectFails, Connect, Backoff, Goto, kept
  <1>2. CASE Lock(c)
    BY <1>0, <1>2 DEF Lock, Goto, kept
  <1>3. CASE Register(c)
    BY <1>0, <1>3 DEF Register, Goto, kept
  <1>4. CASE Discard(c)
    BY <1>0, <1>4 DEF Discard, Goto
  <1>5. CASE Queue(c)
    BY <1>0, <1>5 DEF Queue, task, kept
  <1>6. CASE LosesConnection(c)
    BY <1>0, <1>6 DEF LosesConnection, Goto, kept
  <1> QED
    BY <1>1, <1>2, <1>3, <1>4, <1>5, <1>6 DEF Connecting

LEMMA TasksOKByGrabLoop ==
    ASSUME TypeOK, NEW c \in Conns, GrabLoop(c)
    PROVE  TasksOK'
  <1> USE WorkerAssumption DEF TasksOK, InLoop
  <1>0. TasksOK /\ to_worker \in [Conns -> Seq(ToWorker)]
    BY DEF TypeOK, WiresOK
  <1>1. ASSUME Ends({c}) PROVE TasksOK'
    BY <1>0, <1>1, EndsKeepsTasksOK
  <1>2. CASE CheckShutdown(c) /\ worker = "running"
    BY <1>0, <1>2 DEF CheckShutdown, Goto
  <1>3. CASE Flush(c)
    BY <1>0, <1>3 DEF Flush, Goto
  <1>4. CASE Grab(c)
    BY <1>0, <1>4 DEF Grab, Goto
  <1>5. CASE Receive(c)
    <2>1. Head(to_worker[c]) \in ToWorker
      BY <1>0, <1>5 DEF Receive
    <2>2. Head(to_worker[c]).type = "job_assign" => Head(to_worker[c]).about \in Jobs
      BY <2>1 DEF ToWorker
    <2> QED
      BY ZenonT(30), <1>0, <1>5, <2>2 DEF Receive, Goto, kept
  <1>6. CASE PreSleep(c) \/ WakeUp(c)
    BY <1>0, <1>6 DEF PreSleep, WakeUp, Goto, kept
  <1>7. CASE Dispatch(c)
    BY <1>0, <1>7 DEF Dispatch, Goto, kept
  <1>8. CASE Refuse(c) \/ Finish(c)
    BY ZenonT(30), <1>0, <1>8 DEF Refuse, Finish, Answers, Goto, kept
  <1>9. CASE Report(c) \/ CloneReporter(c) \/ DropClones(c)
    BY <1>0, <1>9 DEF Report, CloneReporter, DropClones, task
  <1> QED
    BY <1>1, <1>2, <1>3, <1>4, <1>5, <1>6, <1>7, <1>8, <1>9
    DEF GrabLoop, CheckShutdown, StopAsleep, Panic

\* The callers, but for Drop, and the server leave the tasks alone.
LEMMA TasksAreKept ==
    ASSUME Next
    PROVE  \/ \E c \in Conns : Connecting(c) \/ Queue(c) \/ LosesConnection(c) \/ GrabLoop(c)
           \/ Drop
           \/ UNCHANGED <<task, kept>>
  <1>1. ASSUME Calls PROVE Drop \/ UNCHANGED <<task, kept>>
    BY <1>1 DEF Calls, Unregister, Remove, Broadcast, GiveUp, Shutdown
  <1>2. ASSUME NEW c \in Conns, ServerReads(c) \/ Break(c)
        PROVE  UNCHANGED <<task, kept>>
    BY <1>2 DEF ServerReads, ReadFunctions, ReadGrab, ReadPreSleep, ReadWork, Hangup, Break
  <1>3. ASSUME NEW j \in Jobs, Submit(j) \/ TimeOut(j)
        PROVE  UNCHANGED <<task, kept>>
    BY <1>3 DEF Submit, TimeOut
  <1> QED
    BY <1>1, <1>2, <1>3 DEF Next

LEMMA TasksOKStep ==
    ASSUME TypeOK, [Next]_vars
    PROVE  TasksOK'
  <1>1. CASE Drop
    BY <1>1, EndsKeepsTasksOK DEF Drop, TypeOK
  <1>2. CASE UNCHANGED <<task, kept>>
    BY <1>2 DEF TypeOK, TasksOK, task, kept
  <1> QED
    BY <1>1, <1>2, TasksAreKept, TasksOKByConnecting, TasksOKByGrabLoop DEF vars

-----------------------------------------------------------------------------
(* The clones of Reporters.                                                *)

LEMMA ClonesOKStep ==
    ASSUME TypeOK, [Next]_vars
    PROVE  ClonesOK'
  <1> USE DEF ClonesOK
  <1>0. ClonesOK /\ TasksOK
    BY DEF TypeOK
  <1>1. CASE UNCHANGED <<pc, clones>>
    BY <1>0, <1>1
  <1>2. ASSUME NEW C \in SUBSET Conns, Ends(C) PROVE ClonesOK'
    BY <1>0, <1>2 DEF Ends
  <1>3. ASSUME NEW c \in Conns, UNCHANGED clones, \A d \in Conns \ {c} : pc'[d] = pc[d],
               pc[c] \in InLoop \cup {"done"} => pc'[c] \in InLoop \cup {"done"}
        PROVE  ClonesOK'
    BY <1>0, <1>3
  <1>4. ASSUME NEW c \in Conns, Connecting(c) \/ Queue(c) PROVE ClonesOK'
    <2>1. Connecting(c) => /\ UNCHANGED clones /\ pc[c] \notin InLoop \cup {"done"}
                           /\ \A d \in Conns \ {c} : pc'[d] = pc[d]
      BY <1>0 DEF Connecting, Start, ConnectFails, Connect, Backoff, Lock, Register, Discard, Goto,
                  TasksOK, InLoop, kept
    <2>2. Queue(c) => UNCHANGED <<pc, clones>>
      BY DEF Queue, task, kept
    <2> QED
      BY <1>1, <1>3, <1>4, <2>1, <2>2
  <1>5. ASSUME NEW c \in Conns, LosesConnection(c) PROVE ClonesOK'
    <2>1. /\ clones' = [clones EXCEPT ![c] = {}]
          /\ \A d \in Conns \ {c} : pc'[d] = pc[d]
      BY <1>0, <1>5 DEF LosesConnection, Goto, TasksOK
    <2> QED
      BY <1>0, <2>1
  <1>6. ASSUME NEW c \in Conns, Flush(c) \/ Grab(c) \/ Receive(c) \/ PreSleep(c) \/ WakeUp(c)
                                 \/ Dispatch(c) \/ Refuse(c) \/ Finish(c)
                                 \/ (CheckShutdown(c) /\ worker = "running")
        PROVE  ClonesOK'
    <2>1. UNCHANGED clones
      BY <1>6 DEF Flush, Grab, Receive, PreSleep, WakeUp, Dispatch, Refuse, Finish, CheckShutdown, kept
    <2>2. pc'[c] \in InLoop /\ \A d \in Conns \ {c} : pc'[d] = pc[d]
      BY ZenonT(30), <1>0, <1>6 DEF Flush, Grab, Receive, PreSleep, WakeUp, Dispatch, Refuse, Finish,
            CheckShutdown, Answers, Goto, TasksOK, InLoop
    <2> QED
      BY <1>3, <2>1, <2>2
  <1>7. ASSUME NEW c \in Conns, CloneReporter(c) PROVE ClonesOK'
    <2>1. current[c] \in Jobs /\ pc[c] \in InLoop
      BY <1>0, <1>7 DEF CloneReporter, TasksOK, InLoop
    <2> QED
      BY <1>0, <1>7, <2>1 DEF CloneReporter, task
  <1>8. ASSUME NEW c \in Conns, DropClones(c) PROVE ClonesOK'
    BY <1>0, <1>8 DEF DropClones, task
  <1>9. ASSUME NEW c \in Conns, Report(c) PROVE ClonesOK'
    BY <1>1, <1>9 DEF Report, task, kept
  <1>10. ASSUME NEW c \in Conns, CheckShutdown(c) \/ StopAsleep(c) \/ Panic(c) PROVE ClonesOK'
    BY <1>2, <1>6, <1>10 DEF CheckShutdown, StopAsleep, Panic
  <1>11. ASSUME NEW c \in Conns, GrabLoop(c) PROVE ClonesOK'
    BY <1>6, <1>7, <1>8, <1>9, <1>10, <1>11 DEF GrabLoop
  <1>12. CASE UNCHANGED <<task, kept>>
    BY <1>1, <1>12 DEF task, kept
  <1>13. CASE Drop
    BY <1>2, <1>13 DEF Drop
  <1> QED
    BY <1>4, <1>5, <1>11, <1>12, <1>13, TasksAreKept DEF vars

-----------------------------------------------------------------------------
(* The receivers of notices.                                               *)

\* A step that skips to next, no further than the notices go.
LEMMA SkipsKeepsReceiversOK ==
    ASSUME ReceiversOK, notices \in Seq(Functions), notices' = notices,
           NEW c \in Conns, NEW next \in Nat, seen[c] <= next, next <= Len(notices), Skips(c, next)
    PROVE  ReceiversOK'
  <1>1. ASSUME NEW d \in Conns
        PROVE  seen'[d] <= Len(notices') /\ skipped'[d] \subseteq 1 .. seen'[d]
    <2>1. CASE d # c
      BY <2>1 DEF ReceiversOK, Skips
    <2>2. CASE d = c
      <3>1. seen'[c] = next /\ skipped'[c] = skipped[c] \cup (seen[c] + 1 .. next)
        BY DEF ReceiversOK, Skips
      <3>2. skipped[c] \subseteq 1 .. seen[c] /\ seen[c] \in Nat
        BY DEF ReceiversOK
      <3> QED
        BY <2>2, <3>1, <3>2
    <2> QED
      BY <2>1, <2>2
  <1>2. (seen[c] + 1 .. next) \subseteq Nat \ {0}
    BY DEF ReceiversOK
  <1> QED
    BY <1>1, <1>2 DEF ReceiversOK, Skips

LEMMA ReceiversOKStep ==
    ASSUME TypeOK, [Next]_vars
    PROVE  ReceiversOK'
  <1>0. /\ ReceiversOK /\ notices \in Seq(Functions) /\ Len(notices) \in Nat
        /\ Capacity \in Nat \ {0}
    BY WorkerAssumption DEF TypeOK, LockOK
  <1>1. CASE UNCHANGED <<notices, seen, skipped>>
    BY <1>0, <1>1 DEF ReceiversOK
  <1>2. ASSUME NEW f \in Functions, Broadcast(f) PROVE ReceiversOK'
    <2>1. Len(notices') = Len(notices) + 1 /\ UNCHANGED <<seen, skipped>>
      BY <1>0, <1>2 DEF Broadcast, task, kept
    <2> QED
      BY <1>0, <2>1 DEF ReceiversOK
  <1>3. ASSUME NEW c \in Conns, Discard(c) PROVE ReceiversOK'
    <2>1. PICK next \in Nat : seen[c] <= next /\ next <= Len(notices) /\ Skips(c, next)
      <3>1. CASE Lagged(c)
        BY <1>0, <1>3, <3>1 DEF Discard, Lagged, Oldest, ReceiversOK
      <3>2. CASE ~Lagged(c)
        BY <1>0, <1>3, <3>2 DEF Discard, Lagged, Oldest, ReceiversOK
      <3> QED
        BY <3>1, <3>2
    <2> QED
      BY <1>0, <1>3, <2>1, SkipsKeepsReceiversOK DEF Discard, api
  <1>4. ASSUME NEW c \in Conns, Flush(c) PROVE ReceiversOK'
    <2>1. CASE Lagged(c) /\ Skips(c, Oldest)
      <3>1. Oldest \in Nat /\ seen[c] <= Oldest /\ Oldest <= Len(notices)
        BY <1>0, <2>1 DEF Lagged, Oldest, ReceiversOK
      <3> QED
        BY <1>0, <1>4, <2>1, <3>1, SkipsKeepsReceiversOK DEF Flush, api
    <2>2. CASE seen[c] < Len(notices) /\ seen' = [seen EXCEPT ![c] = @ + 1] /\ UNCHANGED skipped
      <3>1. /\ seen'[c] = seen[c] + 1 /\ \A d \in Conns \ {c} : seen'[d] = seen[d]
            /\ seen[c] \in Nat /\ seen' \in [Conns -> Nat] /\ UNCHANGED <<notices, skipped>>
        BY <1>0, <1>4, <2>2 DEF ReceiversOK, Flush, api
      <3>2. ASSUME NEW d \in Conns
            PROVE  seen'[d] <= Len(notices') /\ skipped'[d] \subseteq 1 .. seen'[d]
        <4>1. CASE d = c
          BY <1>0, <2>2, <3>1, <4>1 DEF ReceiversOK
        <4>2. CASE d # c
          BY <1>0, <3>1, <4>2 DEF ReceiversOK
        <4> QED
          BY <4>1, <4>2
      <3> QED
        BY <1>0, <3>1, <3>2 DEF ReceiversOK
    <2>3. CASE UNCHANGED <<seen, skipped>>
      BY <1>1, <1>4, <2>3 DEF Flush, api
    <2> QED
      BY <1>4, <2>1, <2>2, <2>3 DEF Flush
  <1>5. ASSUME Calls, \A f \in Functions : ~Broadcast(f)
        PROVE  UNCHANGED <<notices, seen, skipped>>
    BY <1>5 DEF Calls, Unregister, Remove, GiveUp, Shutdown, Drop, task, kept
  <1>6. ASSUME NEW c \in Conns, Connecting(c) \/ Queue(c) \/ LosesConnection(c), ~Discard(c)
        PROVE  UNCHANGED <<notices, seen, skipped>>
    BY <1>6 DEF Connecting, Start, ConnectFails, Connect, Backoff, Lock, Register, Queue,
                LosesConnection, api, task, kept
  <1>7. ASSUME NEW c \in Conns, GrabLoop(c), ~Flush(c)
        PROVE  UNCHANGED <<notices, seen, skipped>>
    BY <1>7 DEF GrabLoop, CheckShutdown, Grab, Receive, PreSleep, WakeUp, StopAsleep, Dispatch,
                Refuse, Report, Finish, Panic, CloneReporter, DropClones, api, task, kept
  <1>8. ASSUME NEW c \in Conns, ServerReads(c) \/ Break(c)
        PROVE  UNCHANGED <<notices, seen, skipped>>
    BY <1>8 DEF ServerReads, ReadFunctions, ReadGrab, ReadPreSleep, ReadWork, Hangup, Break,
                api, task, kept
  <1>9. ASSUME NEW j \in Jobs, Submit(j) \/ TimeOut(j)
        PROVE  UNCHANGED <<notices, seen, skipped>>
    BY <1>9 DEF Submit, TimeOut, api, task, kept
  <1>10. CASE UNCHANGED vars
    BY <1>1, <1>10 DEF vars, api, task, kept
  <1> QED
    BY <1>1, <1>2, <1>3, <1>4, <1>5, <1>6, <1>7, <1>8, <1>9, <1>10 DEF Next, Calls, Connecting, GrabLoop

-----------------------------------------------------------------------------
(* The connections and the server.                                         *)

LEMMA PacketsAreTyped ==
    /\ \A F \in SUBSET Functions : /\ Packet("can_do", F) \in ToServer
                                   /\ Packet("cant_do", F) \in ToServer
    /\ Packet("grab", NoJob) \in ToServer /\ Packet("pre_sleep", NoJob) \in ToServer
    /\ \A j \in Jobs, type \in Work : Packet(type, j) \in ToServer
    /\ \A j \in Jobs : Packet("job_assign", j) \in ToWorker
    /\ \A type \in {"no_job", "noop", "error"} : Packet(type, NoJob) \in ToWorker
  BY DEF Packet, ToServer, ToWorker, Work

LEMMA SendsKeepsType ==
    ASSUME WiresOK, NEW c \in Conns, NEW p \in ToServer, Sends(c, <<p>>)
    PROVE  to_server' \in [Conns -> Seq(ToServer)]
  <1>1. to_server[c] \o <<p>> \in Seq(ToServer)
    BY DEF WiresOK
  <1> QED
    BY <1>1 DEF WiresOK, Sends

LEMMA EndsKeepsWiresOK ==
    ASSUME WiresOK, NEW C \in SUBSET Conns, Ends(C), to_server' = to_server
    PROVE  WiresOK'
  BY DEF WiresOK, Ends

LEMMA RouseKeepsType ==
    ASSUME WiresOK, ServerOK, NEW F, NEW C, Rouse(F, C)
    PROVE  to_worker' \in [Conns -> Seq(ToWorker)] /\ sleeping' \subseteq Conns
  <1>1. \A c \in Conns : Append(to_worker[c], Packet("noop", NoJob)) \in Seq(ToWorker)
    BY PacketsAreTyped DEF WiresOK
  <1> QED
    BY <1>1 DEF WiresOK, ServerOK, Rouse

LEMMA RepliesKeepsType ==
    ASSUME WiresOK, NEW c \in Conns, NEW type, NEW about, Packet(type, about) \in ToWorker,
           Replies(c, type, about)
    PROVE  to_worker' \in [Conns -> Seq(ToWorker)]
  <1>1. Append(to_worker[c], Packet(type, about)) \in Seq(ToWorker)
    BY DEF WiresOK
  <1> QED
    BY <1>1 DEF WiresOK, Replies

\* A report is about the job in hand, or about one that a clone is left of.
LEMMA ReportedJob ==
    ASSUME TypeOK, NEW c \in Conns, Report(c)
    PROVE  \E j \in Jobs : /\ j \in clones[c] \/ (pc[c] = "running" /\ j = current[c])
                           /\ Sends(c, <<Packet("work_data", j)>>)
  <1>1. PICK j \in clones[c] \cup {current[k] : k \in {c} \cap {d \in Conns : pc[d] = "running"}} :
           Sends(c, <<Packet("work_data", j)>>)
    BY DEF Report
  <1>2. j \in Jobs /\ (j \in clones[c] \/ (pc[c] = "running" /\ j = current[c]))
    BY DEF TypeOK, TasksOK, ClonesOK
  <1> QED
    BY <1>1, <1>2

LEMMA TasksKeepWiresOK ==
    ASSUME TypeOK, NEW c \in Conns,
           Connecting(c) \/ Queue(c) \/ LosesConnection(c) \/ GrabLoop(c)
    PROVE  WiresOK'
  <1>0. /\ WiresOK /\ unsent \in [Conns -> SUBSET Functions] /\ notices \in Seq(Functions)
        /\ current \in [Conns -> Jobs \cup {NoJob}] /\ seen \in [Conns -> Nat]
        /\ pc[c] \in {"refusing", "running"} => current[c] \in Jobs
    BY DEF TypeOK, LockOK, TasksOK, ReceiversOK
  <1>1. CASE UNCHANGED wires
    BY <1>0, <1>1 DEF WiresOK, wires
  <1>2. CASE Connect(c) \/ LosesConnection(c)
    <2>1. CASE Connect(c)
      BY <1>0, <2>1 DEF WiresOK, Connect
    <2>2. CASE LosesConnection(c)
      <3>1. <<>> \in Seq(ToWorker)
        OBVIOUS
      <3>2. to_worker' \in [Conns -> Seq(ToWorker)]
        BY <1>0, <2>2, <3>1, Zenon DEF WiresOK, LosesConnection
      <3> QED
        BY <1>0, <2>2, <3>2 DEF WiresOK, LosesConnection
    <2> QED
      BY <1>2, <2>1, <2>2
  <1>3. CASE Register(c)
    <2>1. PICK f \in unsent[c] : Sends(c, <<Packet("can_do", {f})>>)
      BY <1>3 DEF Register
    <2>2. Packet("can_do", {f}) \in ToServer
      BY <1>0, PacketsAreTyped
    <2> QED
      BY <1>0, <1>3, <2>1, <2>2, SendsKeepsType DEF Register, WiresOK
  <1>4. ASSUME Ends({c}), to_server' = to_server PROVE WiresOK'
    BY <1>0, <1>4, EndsKeepsWiresOK
  <1>5. CASE Flush(c)
    <2>1. CASE Sends(c, <<Packet("cant_do", {notices[seen[c] + 1]})>>) /\ seen[c] < Len(notices)
      <3>1. notices[seen[c] + 1] \in Functions
        BY <1>0, <2>1
      <3>2. Packet("cant_do", {notices[seen[c] + 1]}) \in ToServer
        BY <3>1, PacketsAreTyped
      <3> QED
        BY <1>0, <1>5, <2>1, <3>2, SendsKeepsType DEF Flush, WiresOK
    <2>2. CASE UNCHANGED to_server
      BY <1>0, <1>5, <2>2 DEF Flush, WiresOK
    <2> QED
      BY <1>5, <2>1, <2>2 DEF Flush
  <1>6. CASE Grab(c) \/ PreSleep(c)
    BY <1>0, <1>6, SendsKeepsType, PacketsAreTyped DEF Grab, PreSleep, WiresOK
  <1>7. CASE Receive(c) \/ WakeUp(c)
    <2>1. to_worker[c] # <<>> /\ to_worker' = [to_worker EXCEPT ![c] = Tail(@)]
          /\ UNCHANGED <<link, to_server>>
      BY <1>7 DEF Receive, WakeUp
    <2>2. Tail(to_worker[c]) \in Seq(ToWorker)
      BY <1>0, <2>1 DEF WiresOK
    <2> QED
      BY <1>0, <2>1, <2>2 DEF WiresOK
  <1>8. ASSUME NEW type \in Work, NEW j \in Jobs,
               Sends(c, <<Packet(type, j)>>), UNCHANGED <<link, to_worker>>
        PROVE  WiresOK'
    BY <1>0, <1>8, SendsKeepsType, PacketsAreTyped DEF WiresOK
  <1>9. CASE Refuse(c) \/ Finish(c)
    <2>1. current[c] \in Jobs /\ UNCHANGED <<link, to_worker>>
      BY <1>0, <1>9 DEF Refuse, Finish
    <2>2. CASE Refuse(c)
      BY <1>8, <2>1, <2>2 DEF Refuse, Answers, Work, Terminal
    <2>4. CASE Finish(c)
      <3>1. CASE UNCHANGED to_server
        BY <1>1, <2>1, <3>1 DEF wires
      <3>2. ASSUME NEW type \in Terminal, Answers(c, type) PROVE WiresOK'
        BY <1>8, <2>1, <3>2 DEF Answers, Work
      <3> QED
        BY <2>4, <3>1, <3>2 DEF Finish
    <2> QED
      BY <1>9, <2>2, <2>4
  <1>10. Connecting(c) => \/ Connect(c) \/ Register(c) \/ UNCHANGED wires
    BY DEF Connecting, Start, ConnectFails, Backoff, Lock, Discard
  <1>11. CASE CheckShutdown(c) \/ StopAsleep(c) \/ Panic(c)
    BY <1>1, <1>4, <1>11 DEF CheckShutdown, StopAsleep, Panic, wires
  <1>12. Queue(c) \/ Dispatch(c) \/ CloneReporter(c) => UNCHANGED wires
    BY DEF Queue, Dispatch, CloneReporter
  <1>13. CASE Report(c)
    <2>1. PICK j \in Jobs : Sends(c, <<Packet("work_data", j)>>)
      BY <1>13, ReportedJob
    <2> QED
      BY <1>8, <1>13, <2>1 DEF Report, Work
  <1>14. CASE DropClones(c)
    BY <1>0, <1>14 DEF DropClones, WiresOK
  <1> QED
    BY <1>1, <1>2, <1>3, <1>5, <1>6, <1>7, <1>9, <1>10, <1>11, <1>12, <1>13, <1>14 DEF GrabLoop

LEMMA TasksKeepServerOK ==
    ASSUME ServerOK, NEW c \in Conns,
           Connecting(c) \/ Queue(c) \/ LosesConnection(c) \/ GrabLoop(c)
    PROVE  ServerOK'
  <1>1. CASE Connect(c)
    BY <1>1 DEF Connect, ServerOK
  <1>2. Connect(c) \/ UNCHANGED server
    BY DEF Connecting, Start, ConnectFails, Backoff, Lock, Register, Discard, Queue, LosesConnection,
           GrabLoop, CheckShutdown, Flush, Grab, Receive, PreSleep, WakeUp, StopAsleep, Dispatch,
           Refuse, Report, Finish, Panic, CloneReporter, DropClones
  <1> QED
    BY <1>1, <1>2 DEF server, ServerOK

LEMMA RequeueKeepsType ==
    ASSUME WiresOK, ServerOK, NEW c \in Conns, Requeue(c)
    PROVE  /\ to_worker' \in [Conns -> Seq(ToWorker)]
           /\ can_do' \in [Conns -> SUBSET Functions]
           /\ sleeping' \subseteq Conns
           /\ job' \in [Jobs -> {"unborn", "queued", "assigned", "done"}]
           /\ owner' \in [Jobs -> Conns \cup {Nobody}]
           /\ \A j \in Jobs : job'[j] = "assigned" <=> owner'[j] # Nobody
  <1>1. to_worker' \in [Conns -> Seq(ToWorker)] /\ sleeping' \subseteq Conns
    BY RouseKeepsType DEF Requeue
  <1>2. can_do' \in [Conns -> SUBSET Functions]
    BY DEF ServerOK, Requeue
  <1>3. /\ job' \in [Jobs -> {"unborn", "queued", "assigned", "done"}]
        /\ owner' \in [Jobs -> Conns \cup {Nobody}]
        /\ \A j \in Jobs : job'[j] = "assigned" <=> owner'[j] # Nobody
    BY DEF ServerOK, Requeue
  <1> QED
    BY <1>1, <1>2, <1>3

LEMMA ServerKeepsItsType ==
    ASSUME TypeOK, NEW c \in Conns, ServerReads(c) \/ Break(c)
    PROVE  WiresOK' /\ ServerOK'
  <1>0. WiresOK /\ ServerOK
    BY DEF TypeOK
  <1>1. CASE Break(c)
    <2>1. breaks' \in 0 .. MaxBreaks
      BY <1>0, <1>1, WorkerAssumption DEF Break, ServerOK
    <2> QED
      BY <1>0, <1>1, <2>1, RequeueKeepsType DEF Break, WiresOK, ServerOK
  <1>2. CASE Hangup(c)
    BY <1>0, <1>2, RequeueKeepsType DEF Hangup, WiresOK, ServerOK
  <1>3. ASSUME NEW types, Reads(c, types)
        PROVE  /\ to_server' \in [Conns -> Seq(ToServer)]
               /\ Head(to_server[c]) \in ToServer /\ Head(to_server[c]).type \in types
    <2>1. Tail(to_server[c]) \in Seq(ToServer) /\ Head(to_server[c]) \in ToServer
      BY <1>0, <1>3 DEF Reads, WiresOK
    <2> QED
      BY <1>0, <1>3, <2>1 DEF Reads, WiresOK
  <1>4. CASE ReadFunctions(c)
    <2>1. /\ to_server' \in [Conns -> Seq(ToServer)]
          /\ Head(to_server[c]).about \subseteq Functions
      BY <1>3, <1>4 DEF ReadFunctions, ToServer, Work, Terminal
    <2>2. can_do' \in [Conns -> SUBSET Functions]
      BY <1>0, <1>4, <2>1 DEF ReadFunctions, ServerOK
    <2> QED
      BY <1>0, <1>4, <2>1, <2>2 DEF ReadFunctions, WiresOK, ServerOK
  <1>5. CASE ReadGrab(c)
    <2>1. to_server' \in [Conns -> Seq(ToServer)] /\ UNCHANGED <<link, can_do, breaks>>
      BY <1>3, <1>5 DEF ReadGrab
    <2>2. CASE \E j \in Queued(c) : /\ job' = [job EXCEPT ![j] = "assigned"]
                                    /\ owner' = [owner EXCEPT ![j] = c]
                                    /\ Replies(c, "job_assign", j)
      <3>1. PICK j \in Jobs : /\ job' = [job EXCEPT ![j] = "assigned"]
                              /\ owner' = [owner EXCEPT ![j] = c]
                              /\ Replies(c, "job_assign", j)
        BY <2>2 DEF Queued
      <3>2. to_worker' \in [Conns -> Seq(ToWorker)]
        BY <1>0, <3>1, PacketsAreTyped, RepliesKeepsType
      <3>3. c # Nobody
        BY WorkerAssumption DEF Nobody
      <3> QED
        BY <1>0, <1>5, <2>1, <3>1, <3>2, <3>3 DEF ReadGrab, WiresOK, ServerOK
    <2>3. CASE Replies(c, "no_job", NoJob) /\ UNCHANGED <<job, owner>>
      <3>1. to_worker' \in [Conns -> Seq(ToWorker)]
        BY <1>0, <2>3, PacketsAreTyped, RepliesKeepsType
      <3> QED
        BY <1>0, <1>5, <2>1, <2>3, <3>1 DEF ReadGrab, WiresOK, ServerOK
    <2> QED
      BY <1>5, <2>2, <2>3 DEF ReadGrab
  <1>6. CASE ReadPreSleep(c)
    <2>1. to_server' \in [Conns -> Seq(ToServer)] /\ UNCHANGED <<link, can_do, job, owner, breaks>>
      BY <1>3, <1>6 DEF ReadPreSleep
    <2>2. Replies(c, "noop", NoJob) => to_worker' \in [Conns -> Seq(ToWorker)]
      BY <1>0, PacketsAreTyped, RepliesKeepsType
    <2> QED
      BY <1>0, <1>6, <2>1, <2>2 DEF ReadPreSleep, WiresOK, ServerOK
  <1>7. CASE ReadWork(c)
    <2>1. /\ to_server' \in [Conns -> Seq(ToServer)] /\ UNCHANGED <<link, can_do, sleeping, breaks>>
          /\ Head(to_server[c]).about \in Jobs
      BY <1>3, <1>7 DEF ReadWork, ToServer, Work, Terminal
    <2>2. Replies(c, "error", NoJob) => to_worker' \in [Conns -> Seq(ToWorker)]
      BY <1>0, PacketsAreTyped, RepliesKeepsType
    <2> QED
      BY ZenonT(30), <1>0, <1>7, <2>1, <2>2 DEF ReadWork, WiresOK, ServerOK
  <1> QED
    BY <1>1, <1>2, <1>4, <1>5, <1>6, <1>7 DEF ServerReads

LEMMA WiresAndServerOKStep ==
    ASSUME TypeOK, [Next]_vars
    PROVE  WiresOK' /\ ServerOK'
  <1>0. WiresOK /\ ServerOK
    BY DEF TypeOK
  <1>1. CASE UNCHANGED <<wires, server>>
    BY <1>0, <1>1 DEF wires, server, WiresOK, ServerOK
  <1>2. ASSUME Calls PROVE WiresOK' /\ ServerOK'
    <2>1. CASE Drop
      BY <1>0, <2>1, EndsKeepsWiresOK DEF Drop, server, ServerOK
    <2> QED
      BY <1>1, <1>2, <2>1 DEF Calls, Unregister, Remove, Broadcast, GiveUp, Shutdown
  <1>3. ASSUME NEW j \in Jobs, Submit(j) PROVE WiresOK' /\ ServerOK'
    <2>1. to_worker' \in [Conns -> Seq(ToWorker)] /\ sleeping' \subseteq Conns
      BY <1>0, <1>3, RouseKeepsType DEF Submit
    <2> QED
      BY <1>0, <1>3, <2>1 DEF Submit, WiresOK, ServerOK
  <1>4. ASSUME NEW j \in Jobs, TimeOut(j) PROVE WiresOK' /\ ServerOK'
    BY <1>0, <1>4 DEF TimeOut, WiresOK, ServerOK, wires
  <1> QED
    BY <1>1, <1>2, <1>3, <1>4, TasksKeepWiresOK, TasksKeepServerOK, ServerKeepsItsType, <1>0
    DEF Next, vars

-----------------------------------------------------------------------------
LEMMA TypeOKInit ==
    ASSUME Init
    PROVE  TypeOK
  <1>1. Range(waiting) = {} /\ IsInjective(waiting)
    BY DEF Init, Range, IsInjective
  <1> QED
    BY <1>1, WorkerAssumption
    DEF Init, TypeOK, LockOK, TasksOK, ClonesOK, ReceiversOK, WiresOK, ServerOK, Nobody, InLoop

LEMMA TypeOKStep ==
    ASSUME TypeOK, [Next]_vars
    PROVE  TypeOK'
  BY LockOKStep, TasksOKStep, ClonesOKStep, ReceiversOKStep, WiresAndServerOKStep DEF TypeOK

\* Type correctness, for any tasks, functions, jobs, capacity and bounds. It
\* includes that nobody waits for the lock twice, and a call of unregister
\* exactly while it has not removed its function; that a task has a job
\* exactly while it dispatches one; that no clone of a Reporter is left before a
\* task has come to its loop; that a receiver is never past the notices sent;
\* and that the server's assigned jobs are those that have an owner.
THEOREM TypeCorrect == Spec => []TypeOK
  <1>1. Init => TypeOK
    BY TypeOKInit
  <1>2. TypeOK /\ [Next]_vars => TypeOK'
    BY TypeOKStep
  <1> QED
    BY <1>1, <1>2, PTL DEF Spec

-----------------------------------------------------------------------------
(***************************************************************************)
(* What the connections of a worker advertise, against its registry:       *)
(* AdvertisesRegistry and Withdrawn are invariants of Worker.              *)
(*                                                                         *)
(* The argument: a registration holds the registry's lock, so nothing is   *)
(* removed while it sends; a function is announced only after it has left  *)
(* the registry, for good, so a CANT_DO is never about a function that is  *)
(* registered; and the CAN_DOs of a connection precede whatever else it    *)
(* sends, so the server reads no CAN_DO after a CANT_DO.                   *)
(***************************************************************************)

-----------------------------------------------------------------------------
\* A function that was removed is not in the registry again, nor is one that
\* the connections are told of.
RemovedForGood ==
    /\ \A f \in Functions : unregister[f] = "removed" => f \notin registry
    /\ \A i \in DOMAIN notices : notices[i] \notin registry

\* A connection is up only while its task uses it or, when the task has ended,
\* clones of Reporters do; and one that is down or lost holds nothing back for
\* the server.
LinkFollowsTask(c) ==
    /\ link[c] = "up" => pc[c] \in InLoop \cup {"connected", "registering", "discarding", "done"}
    /\ link[c] = "shut" => pc[c] = "done"
    /\ pc[c] \in {"start", "connecting", "backoff"} => link[c] = "down"
    /\ link[c] \in {"down", "lost"} => to_server[c] = <<>>
    /\ pc[c] = "connected" => to_server[c] = <<>> /\ can_do[c] = {}

OnlyCanDos(queue) == \A i \in DOMAIN queue : queue[i].type = "can_do"
CanDosFirst(queue) ==
    \A i \in DOMAIN queue : queue[i].type = "can_do" => \A k \in 1 .. i : queue[k].type = "can_do"

\* The CAN_DOs come before everything else, and nothing else is sent before the
\* registration is over.
FunctionsFirst(c) ==
    /\ CanDosFirst(to_server[c])
    /\ pc[c] \in {"connected", "registering", "discarding"} => OnlyCanDos(to_server[c])

WithdrawsRemoved(c) == About(to_server[c], "cant_do") \cap registry = {}

Advertises(c) ==
    link[c] = "up" =>
        /\ pc[c] = "registering" => Offered(c) \cup unsent[c] = registry
        /\ pc[c] \in InLoop \cup {"discarding"} => registry \subseteq Offered(c)

\* Withdrawn, from the end of the registration on.
WithdrawnSince(c) ==
    link[c] = "up" /\ pc[c] \in InLoop \cup {"discarding"} =>
        \A i \in (1 .. seen[c]) \ skipped[c] : notices[i] \notin Offered(c)

TellsTheServer(c) ==
    /\ LinkFollowsTask(c)
    /\ FunctionsFirst(c)
    /\ WithdrawsRemoved(c)
    /\ Advertises(c)
    /\ WithdrawnSince(c)

RegistryInv == RemovedForGood /\ \A c \in Conns : TellsTheServer(c)

-----------------------------------------------------------------------------
(* Queues of packets.                                                      *)

LEMMA AboutAppend ==
    ASSUME NEW q \in Seq(ToServer), NEW p \in ToServer, NEW type
    PROVE  About(q \o <<p>>, type) = About(q, type) \cup (IF p.type = type THEN p.about ELSE {})
  <1> DEFINE t == q \o <<p>>
  <1>1. /\ DOMAIN q = 1 .. Len(q) /\ Len(q) \in Nat
        /\ DOMAIN t = 1 .. Len(q) + 1
        /\ \A i \in 1 .. Len(q) : t[i] = q[i]
        /\ t[Len(q) + 1] = p
    OBVIOUS
  <1> HIDE DEF t
  <1>2. ASSUME NEW x \in About(t, type)
        PROVE  x \in About(q, type) \/ (p.type = type /\ x \in p.about)
    <2>1. PICK i \in DOMAIN t : t[i].type = type /\ x \in t[i].about
      BY <1>2 DEF About, Places
    <2>2. CASE i = Len(q) + 1
      BY <1>1, <2>1, <2>2
    <2>3. CASE i \in 1 .. Len(q)
      <3>1. i \in DOMAIN q /\ q[i].type = type /\ x \in q[i].about
        BY <1>1, <2>1, <2>3
      <3> QED
        BY <3>1 DEF About, Places
    <2> QED
      BY <1>1, <2>1, <2>2, <2>3
  <1>3. ASSUME NEW x \in About(q, type) PROVE x \in About(t, type)
    <2>1. PICK i \in DOMAIN q : q[i].type = type /\ x \in q[i].about
      BY <1>3 DEF About, Places
    <2>2. i \in DOMAIN t /\ t[i] = q[i]
      BY <1>1
    <2> QED
      BY <2>1, <2>2 DEF About, Places
  <1>4. ASSUME p.type = type, NEW x \in p.about PROVE x \in About(t, type)
    <2>1. Len(q) + 1 \in DOMAIN t
      BY <1>1
    <2> QED
      BY <1>1, <1>4, <2>1 DEF About, Places
  <1> QED
    BY <1>2, <1>3, <1>4 DEF t

LEMMA AboutTail ==
    ASSUME NEW q \in Seq(ToServer), q # <<>>, NEW type
    PROVE  About(q, type) = (IF Head(q).type = type THEN Head(q).about ELSE {})
                            \cup About(Tail(q), type)
  <1> DEFINE t == Tail(q)
  <1>1. /\ DOMAIN q = 1 .. Len(q) /\ Len(q) \in Nat \ {0} /\ Head(q) = q[1]
        /\ DOMAIN t = 1 .. Len(q) - 1
        /\ \A i \in 1 .. Len(q) - 1 : t[i] = q[i + 1]
    OBVIOUS
  <1> HIDE DEF t
  <1>2. ASSUME NEW x \in About(q, type)
        PROVE  x \in About(t, type) \/ (Head(q).type = type /\ x \in Head(q).about)
    <2>1. PICK i \in DOMAIN q : q[i].type = type /\ x \in q[i].about
      BY <1>2 DEF About, Places
    <2>2. CASE i = 1
      BY <1>1, <2>1, <2>2
    <2>3. CASE i # 1
      <3>1. i - 1 \in DOMAIN t /\ t[i - 1] = q[i]
        BY <1>1, <2>3
      <3> QED
        BY <2>1, <3>1 DEF About, Places
    <2> QED
      BY <2>2, <2>3
  <1>3. ASSUME NEW x \in About(t, type) PROVE x \in About(q, type)
    <2>1. PICK i \in DOMAIN t : t[i].type = type /\ x \in t[i].about
      BY <1>3 DEF About, Places
    <2>2. i + 1 \in DOMAIN q /\ q[i + 1] = t[i]
      BY <1>1
    <2> QED
      BY <2>1, <2>2 DEF About, Places
  <1>4. ASSUME Head(q).type = type, NEW x \in Head(q).about PROVE x \in About(q, type)
    BY <1>1, <1>4 DEF About, Places
  <1> QED
    BY <1>2, <1>3, <1>4 DEF t

LEMMA AboutEmpty ==
    ASSUME NEW q, NEW type, \A i \in DOMAIN q : q[i].type # type
    PROVE  About(q, type) = {}
  BY DEF About, Places

LEMMA FirstAppend ==
    ASSUME NEW q \in Seq(ToServer), NEW p \in ToServer
    PROVE  /\ OnlyCanDos(q) /\ p.type = "can_do" => OnlyCanDos(q \o <<p>>)
           /\ CanDosFirst(q) /\ p.type # "can_do" => CanDosFirst(q \o <<p>>)
           /\ OnlyCanDos(q) => CanDosFirst(q)
  <1> DEFINE t == q \o <<p>>
  <1>1. /\ DOMAIN q = 1 .. Len(q) /\ Len(q) \in Nat
        /\ DOMAIN t = 1 .. Len(q) + 1
        /\ \A i \in 1 .. Len(q) : t[i] = q[i]
        /\ t[Len(q) + 1] = p
    OBVIOUS
  <1> HIDE DEF t
  <1> QED
    BY <1>1 DEF OnlyCanDos, CanDosFirst, t

LEMMA FirstTail ==
    ASSUME NEW q \in Seq(ToServer), q # <<>>
    PROVE  /\ OnlyCanDos(q) => OnlyCanDos(Tail(q))
           /\ CanDosFirst(q) => CanDosFirst(Tail(q))
           /\ CanDosFirst(q) /\ Head(q).type # "can_do" => About(Tail(q), "can_do") = {}
  <1> DEFINE t == Tail(q)
  <1>1. /\ DOMAIN q = 1 .. Len(q) /\ Len(q) \in Nat \ {0} /\ Head(q) = q[1]
        /\ DOMAIN t = 1 .. Len(q) - 1
        /\ \A i \in 1 .. Len(q) - 1 : t[i] = q[i + 1]
    OBVIOUS
  <1> HIDE DEF t
  <1>2. OnlyCanDos(q) => OnlyCanDos(t)
    BY <1>1 DEF OnlyCanDos
  <1>3. ASSUME CanDosFirst(q), NEW i \in 1 .. Len(q) - 1, t[i].type = "can_do", NEW k \in 1 .. i
        PROVE  t[k].type = "can_do"
    <2>1. i + 1 \in DOMAIN q /\ k + 1 \in 1 .. i + 1 /\ k \in 1 .. Len(q) - 1
      BY <1>1
    <2> QED
      BY <1>1, <1>3, <2>1 DEF CanDosFirst
  <1>4. ASSUME CanDosFirst(q), Head(q).type # "can_do", NEW i \in DOMAIN t
        PROVE  t[i].type # "can_do"
    <2>1. i + 1 \in DOMAIN q /\ 1 \in 1 .. i + 1 /\ t[i] = q[i + 1]
      BY <1>1
    <2> QED
      BY <1>1, <1>4, <2>1 DEF CanDosFirst
  <1> QED
    BY <1>1, <1>2, <1>3, <1>4, AboutEmpty DEF t, CanDosFirst

-----------------------------------------------------------------------------
(* Steps, seen from one connection.                                        *)

\* Nothing the connection's part of the invariant speaks of changes.
Still(c) ==
    /\ pc'[c] = pc[c] /\ unsent'[c] = unsent[c] /\ seen'[c] = seen[c] /\ skipped'[c] = skipped[c]
    /\ link'[c] = link[c] /\ to_server'[c] = to_server[c] /\ can_do'[c] = can_do[c]

LEMMA StillTells ==
    ASSUME NEW c \in Conns, TellsTheServer(c), Still(c), registry' = registry, notices' = notices
    PROVE  TellsTheServer(c)'
  BY DEF Still, TellsTheServer, LinkFollowsTask, FunctionsFirst, WithdrawsRemoved, Advertises,
         WithdrawnSince, Offered

\* The connection is not up, or no longer: what it offered does not matter.
LEMMA DownTells ==
    ASSUME NEW c \in Conns, TellsTheServer(c), registry' = registry,
           link'[c] # "up", LinkFollowsTask(c)',
           to_server'[c] \in {to_server[c], <<>>},
           pc'[c] \in {"connected", "registering", "discarding"} =>
               pc[c] \in {"connected", "registering", "discarding"}
    PROVE  TellsTheServer(c)'
  <1>1. FunctionsFirst(c)'
    BY DEF TellsTheServer, FunctionsFirst, CanDosFirst, OnlyCanDos
  <1>2. WithdrawsRemoved(c)'
    <2>1. About(<<>>, "cant_do") = {}
      BY AboutEmpty
    <2> QED
      BY <2>1 DEF TellsTheServer, WithdrawsRemoved
  <1> QED
    BY <1>1, <1>2 DEF TellsTheServer, Advertises, WithdrawnSince

\* The task goes on in the grab loop or is left by clones of Reporters only, and
\* what is sent, if anything, is not about its functions.
LEMMA LoopTells ==
    ASSUME TypeOK, NEW c \in Conns, TellsTheServer(c), registry' = registry, notices' = notices,
           pc[c] \in InLoop \cup {"done"}, pc'[c] \in InLoop \cup {"done"},
           pc'[c] \in InLoop => pc[c] \in InLoop,
           link'[c] = link[c], can_do'[c] = can_do[c],
           (1 .. seen'[c]) \ skipped'[c] \subseteq (1 .. seen[c]) \ skipped[c],
           \/ to_server'[c] = to_server[c]
           \/ link[c] = "up" /\ \E p \in ToServer : /\ p.type \notin {"can_do", "cant_do"}
                                                   /\ to_server'[c] = to_server[c] \o <<p>>
    PROVE  TellsTheServer(c)'
  <1>1. to_server[c] \in Seq(ToServer)
    BY DEF TypeOK, WiresOK
  <1>2. /\ About(to_server'[c], "can_do") = About(to_server[c], "can_do")
        /\ About(to_server'[c], "cant_do") = About(to_server[c], "cant_do")
        /\ CanDosFirst(to_server'[c])
        /\ link[c] # "up" => to_server'[c] = to_server[c]
    <2>1. CASE to_server'[c] = to_server[c]
      BY <2>1 DEF TellsTheServer, FunctionsFirst
    <2>2. ASSUME link[c] = "up", NEW p \in ToServer, p.type \notin {"can_do", "cant_do"},
                 to_server'[c] = to_server[c] \o <<p>>
          PROVE  /\ About(to_server'[c], "can_do") = About(to_server[c], "can_do")
                 /\ About(to_server'[c], "cant_do") = About(to_server[c], "cant_do")
                 /\ CanDosFirst(to_server'[c])
      <3>1. \A type : About(to_server'[c], type)
                        = About(to_server[c], type) \cup (IF p.type = type THEN p.about ELSE {})
        BY <1>1, <2>2, AboutAppend
      <3>2. CanDosFirst(to_server'[c])
        BY <1>1, <2>2, FirstAppend DEF TellsTheServer, FunctionsFirst
      <3>3. ASSUME NEW type \in {"can_do", "cant_do"}
            PROVE  About(to_server'[c], type) = About(to_server[c], type)
        <4>1. p.type # type
          BY <2>2
        <4> QED
          BY <3>1, <4>1, Zenon
      <3> QED
        BY <3>2, <3>3
    <2> QED
      BY <2>1, <2>2
  <1>3. Offered(c)' = Offered(c)
    BY <1>2 DEF Offered
  <1>4. pc'[c] \notin {"start", "connecting", "backoff", "connected", "registering", "discarding"}
        /\ pc[c] \notin {"start", "connecting", "backoff", "connected", "registering", "discarding"}
        /\ "done" \notin InLoop
    BY DEF InLoop
  <1>5. LinkFollowsTask(c)'
    BY <1>2, <1>4 DEF TellsTheServer, LinkFollowsTask
  <1>6. FunctionsFirst(c)' /\ WithdrawsRemoved(c)'
    BY <1>2, <1>4 DEF TellsTheServer, FunctionsFirst, WithdrawsRemoved
  <1>7. Advertises(c)' /\ WithdrawnSince(c)'
    BY <1>3, <1>4 DEF TellsTheServer, Advertises, WithdrawnSince
  <1> QED
    BY <1>5, <1>6, <1>7 DEF TellsTheServer

\* The server reads a packet: what it offers in the end stays the same.
LEMMA ReadTells ==
    ASSUME TypeOK, NEW c \in Conns, TellsTheServer(c), registry' = registry, notices' = notices,
           pc'[c] = pc[c], unsent'[c] = unsent[c], seen'[c] = seen[c], skipped'[c] = skipped[c],
           link'[c] = link[c],
           to_server[c] # <<>>, to_server'[c] = Tail(to_server[c]),
           can_do'[c] = CASE Head(to_server[c]).type = "can_do" -> can_do[c] \cup Head(to_server[c]).about
                          [] Head(to_server[c]).type = "cant_do" -> can_do[c] \ Head(to_server[c]).about
                          [] OTHER -> can_do[c]
    PROVE  TellsTheServer(c)'
  <1> DEFINE q == to_server[c]
  <1>1. q \in Seq(ToServer)
    BY DEF TypeOK, WiresOK
  <1>2. /\ About(q, "can_do") = (IF Head(q).type = "can_do" THEN Head(q).about ELSE {})
                                \cup About(Tail(q), "can_do")
        /\ About(q, "cant_do") = (IF Head(q).type = "cant_do" THEN Head(q).about ELSE {})
                                 \cup About(Tail(q), "cant_do")
    BY <1>1, AboutTail
  <1>3. /\ CanDosFirst(Tail(q))
        /\ OnlyCanDos(q) => OnlyCanDos(Tail(q))
        /\ Head(q).type # "can_do" => About(Tail(q), "can_do") = {}
    BY <1>1, FirstTail DEF TellsTheServer, FunctionsFirst
  <1>4. Offered(c)' = Offered(c)
    <2>1. CASE Head(q).type = "can_do"
      BY <1>2, <2>1 DEF Offered
    <2>2. CASE Head(q).type = "cant_do"
      BY <1>2, <1>3, <2>2 DEF Offered
    <2>3. CASE Head(q).type \notin {"can_do", "cant_do"}
      BY <1>2, <2>3 DEF Offered
    <2> QED
      BY <2>1, <2>2, <2>3
  <1>5. LinkFollowsTask(c)'
    BY DEF TellsTheServer, LinkFollowsTask
  <1>6. FunctionsFirst(c)' /\ WithdrawsRemoved(c)'
    BY <1>2, <1>3 DEF TellsTheServer, FunctionsFirst, WithdrawsRemoved
  <1>7. Advertises(c)' /\ WithdrawnSince(c)'
    BY <1>4 DEF TellsTheServer, Advertises, WithdrawnSince
  <1> QED
    BY <1>5, <1>6, <1>7 DEF TellsTheServer

-----------------------------------------------------------------------------
(* The tasks' steps.                                                       *)

LEMMA SentByTask ==
    ASSUME TypeOK, NEW c \in Conns, NEW p \in ToServer, Sends(c, <<p>>)
    PROVE  /\ to_server'[c] = IF link[c] = "up" THEN to_server[c] \o <<p>> ELSE to_server[c]
           /\ \A d \in Conns \ {c} : to_server'[d] = to_server[d]
  BY DEF TypeOK, WiresOK, Sends

\* A step of one task leaves the others' connections alone.
LEMMA OthersStill ==
    ASSUME TypeOK, NEW c \in Conns, NEW d \in Conns \ {c},
           Connecting(c) \/ Queue(c) \/ LosesConnection(c) \/ GrabLoop(c)
    PROVE  Still(d)
  <1> USE DEF Still
  <1>0. TypeOK /\ TasksOK /\ ReceiversOK /\ WiresOK /\ ServerOK
    BY DEF TypeOK
  <1>1. CASE Connecting(c)
    BY ZenonT(30), <1>0, <1>1 DEF Connecting, Start, ConnectFails, Connect, Backoff, Lock, Register, Discard, Skips,
                      Sends, Goto, TasksOK, ReceiversOK, WiresOK, ServerOK, api, task, wires, server, kept
  <1>2. CASE Queue(c) \/ LosesConnection(c)
    BY <1>0, <1>2 DEF Queue, LosesConnection, Goto, TasksOK, WiresOK, api, task, wires, server, kept
  <1>3. CASE CheckShutdown(c) \/ StopAsleep(c) \/ Panic(c)
    BY <1>0, <1>3 DEF CheckShutdown, StopAsleep, Panic, Ends, Goto, TasksOK, WiresOK, api, server, kept
  <1>4. CASE Flush(c)
    BY <1>0, <1>4 DEF Flush, Skips, Sends, Goto, TasksOK, ReceiversOK, WiresOK, api, server
  <1>5. CASE Grab(c) \/ PreSleep(c) \/ Receive(c) \/ WakeUp(c) \/ Dispatch(c)
    BY <1>0, <1>5 DEF Grab, PreSleep, Receive, WakeUp, Dispatch, Sends, Goto, TasksOK, WiresOK,
                      api, wires, server, kept
  <1>6. CASE Refuse(c) \/ Report(c) \/ Finish(c)
    BY <1>0, <1>6 DEF Refuse, Report, Finish, Answers, Sends, Goto, TasksOK, WiresOK,
                      api, task, server, kept
  <1>7. CASE CloneReporter(c) \/ DropClones(c)
    BY <1>0, <1>7 DEF CloneReporter, DropClones, WiresOK, api, task, wires, server
  <1> QED
    BY <1>1, <1>2, <1>3, <1>4, <1>5, <1>6, <1>7 DEF GrabLoop

LEMMA ConnectingTells ==
    ASSUME TypeOK, RemovedForGood, NEW c \in Conns, TellsTheServer(c),
           Connecting(c) \/ Queue(c) \/ LosesConnection(c)
    PROVE  TellsTheServer(c)'
  <1>0. /\ TasksOK /\ ReceiversOK /\ WiresOK /\ ServerOK
        /\ registry \subseteq Functions /\ notices \in Seq(Functions)
        /\ LinkFollowsTask(c) /\ FunctionsFirst(c)
    BY DEF TypeOK, LockOK, TellsTheServer
  <1>1. UNCHANGED <<registry, notices>>
    BY DEF Connecting, Start, ConnectFails, Connect, Backoff, Lock, Register, Discard, Queue,
           LosesConnection, api
  <1>2. CASE Start(c) \/ ConnectFails(c) \/ Backoff(c)
    <2>1. /\ pc[c] \in {"start", "connecting", "backoff"}
          /\ pc'[c] \in {"start", "connecting", "backoff", "done"}
          /\ UNCHANGED <<link, to_server>>
      BY <1>0, <1>2 DEF Start, ConnectFails, Backoff, Goto, TasksOK, wires
    <2>2. link'[c] = "down" /\ LinkFollowsTask(c)'
      BY <1>0, <2>1 DEF LinkFollowsTask
    <2> QED
      BY <1>1, <2>1, <2>2, DownTells
  <1>3. CASE Connect(c)
    <2>1. /\ pc[c] = "connecting" /\ pc'[c] = "connected" /\ link'[c] = "up"
          /\ can_do'[c] = {} /\ to_server' = to_server
      BY <1>0, <1>3 DEF Connect, Goto, TasksOK, WiresOK, ServerOK
    <2>2. to_server'[c] = <<>>
      BY <1>0, <2>1 DEF LinkFollowsTask
    <2>3. LinkFollowsTask(c)' /\ FunctionsFirst(c)'
      BY <2>1, <2>2 DEF LinkFollowsTask, FunctionsFirst, CanDosFirst, OnlyCanDos
    <2>4. Advertises(c)' /\ WithdrawnSince(c)' /\ WithdrawsRemoved(c)'
      BY <1>1, <2>1 DEF Advertises, WithdrawnSince, InLoop, TellsTheServer, WithdrawsRemoved
    <2> QED
      BY <2>3, <2>4 DEF TellsTheServer
  <1>4. CASE Lock(c)
    <2>1. /\ pc[c] = "connected" /\ pc'[c] = IF registry = {} THEN "discarding" ELSE "registering"
          /\ unsent'[c] = registry /\ UNCHANGED <<link, to_server, can_do, seen, skipped>>
      BY <1>0, <1>4 DEF Lock, Goto, TasksOK, wires, server, kept
    <2>2. to_server[c] = <<>> /\ can_do[c] = {}
      BY <1>0, <2>1 DEF LinkFollowsTask
    <2>3. Offered(c)' = {}
      BY <2>1, <2>2, AboutEmpty DEF Offered
    <2>4. LinkFollowsTask(c)' /\ FunctionsFirst(c)' /\ WithdrawsRemoved(c)'
      BY <1>0, <1>1, <2>1 DEF LinkFollowsTask, FunctionsFirst, WithdrawsRemoved, TellsTheServer
    <2>5. Advertises(c)' /\ WithdrawnSince(c)'
      BY <1>1, <2>1, <2>3 DEF Advertises, WithdrawnSince, InLoop
    <2> QED
      BY <2>4, <2>5 DEF TellsTheServer
  <1>5. CASE Register(c)
    <2>1. PICK f \in unsent[c] :
            /\ Sends(c, <<Packet("can_do", {f})>>)
            /\ unsent'[c] = unsent[c] \ {f}
            /\ pc'[c] = IF unsent[c] = {f} THEN "discarding" ELSE "registering"
      BY <1>0, <1>5 DEF Register, Goto, TasksOK
    <2>2. pc[c] = "registering" /\ UNCHANGED <<seen, skipped, link, can_do>>
      BY <1>5 DEF Register, server, kept
    <2> DEFINE p == Packet("can_do", {f})
               q == to_server[c]
    <2>3. p \in ToServer /\ p.type = "can_do" /\ p.about = {f}
      BY <1>0, PacketsAreTyped DEF Packet, TasksOK
    <2> HIDE DEF p
    <2>4. q \in Seq(ToServer) /\ OnlyCanDos(q) /\ About(q, "cant_do") = {}
      BY <1>0, <2>2, AboutEmpty DEF FunctionsFirst, OnlyCanDos, WiresOK
    <2>5. to_server'[c] = IF link[c] = "up" THEN q \o <<p>> ELSE q
      BY <2>1, <2>3, SentByTask DEF p
    <2>6. LinkFollowsTask(c)'
      BY <1>0, <2>1, <2>2, <2>5 DEF LinkFollowsTask
    <2>7. CASE link[c] # "up"
      BY <1>1, <2>1, <2>2, <2>5, <2>6, <2>7, DownTells
    <2>8. CASE link[c] = "up"
      <3>1. /\ \A type : About(q \o <<p>>, type) = About(q, type) \cup (IF p.type = type THEN p.about ELSE {})
            /\ OnlyCanDos(q \o <<p>>) /\ CanDosFirst(q \o <<p>>)
        <4>1. q \o <<p>> \in Seq(ToServer)
          BY <2>3, <2>4
        <4>2. OnlyCanDos(q \o <<p>>)
          BY <2>3, <2>4, FirstAppend
        <4> QED
          BY <2>3, <2>4, <4>1, <4>2, AboutAppend, FirstAppend
      <3>2. About(q \o <<p>>, "can_do") = About(q, "can_do") \cup {f} /\ About(q \o <<p>>, "cant_do") = {}
        BY <2>3, <2>4, <3>1
      <3>3. Offered(c)' = Offered(c) \cup {f}
        BY <2>2, <2>4, <2>5, <2>8, <3>2 DEF Offered
      <3>4. Offered(c)' \cup unsent'[c] = registry
        BY <2>1, <2>2, <2>8, <3>3 DEF TellsTheServer, Advertises
      <3>5. FunctionsFirst(c)' /\ WithdrawsRemoved(c)'
        BY <2>5, <2>8, <3>1, <3>2 DEF FunctionsFirst, WithdrawsRemoved
      <3>6. Advertises(c)'
        <4>1. pc'[c] = "discarding" => unsent'[c] = {}
          BY <2>1
        <4> QED
          BY <1>1, <2>1, <3>4, <4>1 DEF Advertises, InLoop
      <3>7. WithdrawnSince(c)'
        <4>1. Offered(c)' \subseteq registry
          BY <3>4
        <4>2. \A i \in 1 .. seen[c] : notices[i] \notin registry
          BY <1>0 DEF RemovedForGood, ReceiversOK
        <4> QED
          BY <1>1, <2>2, <4>1, <4>2 DEF WithdrawnSince
      <3> QED
        BY <2>6, <3>5, <3>6, <3>7 DEF TellsTheServer
    <2> QED
      BY <2>7, <2>8
  <1>6. CASE Discard(c)
    <2>1. /\ pc[c] = "discarding" /\ pc'[c] = "loop" /\ UNCHANGED <<link, to_server, can_do>>
          /\ \E next : Skips(c, next)
      BY <1>0, <1>6 DEF Discard, Goto, TasksOK, wires, server
    <2>2. (1 .. seen'[c]) \ skipped'[c] \subseteq (1 .. seen[c]) \ skipped[c]
      <3>1. PICK next : seen'[c] = next /\ skipped'[c] = skipped[c] \cup (seen[c] + 1 .. next)
        BY <1>0, <2>1 DEF Skips, ReceiversOK
      <3> QED
        BY <1>0, <3>1 DEF ReceiversOK
    <2>3. Offered(c)' = Offered(c)
      BY <2>1 DEF Offered
    <2>4. LinkFollowsTask(c)' /\ FunctionsFirst(c)' /\ WithdrawsRemoved(c)'
      BY <1>0, <1>1, <2>1 DEF LinkFollowsTask, FunctionsFirst, WithdrawsRemoved, TellsTheServer, InLoop
    <2>5. Advertises(c)' /\ WithdrawnSince(c)'
      BY <1>1, <2>1, <2>2, <2>3 DEF Advertises, WithdrawnSince, TellsTheServer, InLoop
    <2> QED
      BY <2>4, <2>5 DEF TellsTheServer
  <1>7. CASE Queue(c)
    BY <1>1, <1>7, StillTells DEF Queue, Still, task, wires, server, kept
  <1>8. CASE LosesConnection(c)
    <2>1. /\ pc'[c] = "backoff" /\ link[c] = "lost" /\ link'[c] = "down" /\ to_server' = to_server
      BY <1>0, <1>8 DEF LosesConnection, Goto, TasksOK, WiresOK
    <2>2. LinkFollowsTask(c)'
      BY <1>0, <2>1 DEF LinkFollowsTask
    <2> QED
      BY <1>1, <2>1, <2>2, DownTells
  <1> QED
    BY <1>2, <1>3, <1>4, <1>5, <1>6, <1>7, <1>8 DEF Connecting

LEMMA EndsTells ==
    ASSUME TypeOK, NEW C \in SUBSET Conns, Ends(C), registry' = registry, notices' = notices,
           UNCHANGED <<seen, to_server, can_do, skipped>>,
           NEW c \in Conns, TellsTheServer(c), c \in C => pc[c] # "done"
    PROVE  TellsTheServer(c)'
  <1>1. CASE c \notin C
    BY <1>1, StillTells DEF Ends, Still
  <1>2. CASE c \in C
    <2>1. /\ pc'[c] = "done" /\ to_server'[c] = to_server[c]
          /\ link'[c] = IF link[c] # "up" THEN "down"
                        ELSE IF clones[c] = {} THEN "shut" ELSE "up"
      BY <1>2 DEF Ends
    <2>2. CASE link[c] = "up" /\ clones[c] # {}
      <3>1. pc[c] \in InLoop /\ link'[c] = link[c]
        BY <1>2, <2>1, <2>2 DEF TypeOK, ClonesOK
      <3>2. /\ can_do'[c] = can_do[c] /\ seen'[c] = seen[c] /\ skipped'[c] = skipped[c]
        OBVIOUS
      <3> QED
        BY <2>1, <3>1, <3>2, LoopTells
    <2>3. CASE ~(link[c] = "up" /\ clones[c] # {})
      <3>1. LinkFollowsTask(c)' /\ link'[c] # "up"
        BY <1>2, <2>1, <2>3 DEF LinkFollowsTask, TellsTheServer, TypeOK, WiresOK, InLoop
      <3> QED
        BY <2>1, <3>1, DownTells
    <2> QED
      BY <2>2, <2>3
  <1> QED
    BY <1>1, <1>2

LEMMA FlushTells ==
    ASSUME TypeOK, RemovedForGood, NEW c \in Conns, TellsTheServer(c), Flush(c)
    PROVE  TellsTheServer(c)'
  <1>0. /\ TasksOK /\ ReceiversOK /\ WiresOK /\ ServerOK
        /\ registry \subseteq Functions /\ notices \in Seq(Functions)
        /\ pc[c] = "flushing" /\ pc'[c] \in {"flushing", "grabbing"}
        /\ UNCHANGED <<registry, notices, unsent, link, can_do>>
    BY DEF TypeOK, LockOK, TasksOK, Flush, Goto, api, server
  <1>1. pc[c] \in InLoop /\ pc'[c] \in InLoop
    BY <1>0 DEF InLoop
  <1>2. CASE Skips(c, Oldest) /\ UNCHANGED to_server
    <2>1. (1 .. seen'[c]) \ skipped'[c] \subseteq (1 .. seen[c]) \ skipped[c]
      <3>1. seen'[c] = Oldest /\ skipped'[c] = skipped[c] \cup (seen[c] + 1 .. Oldest)
        BY <1>0, <1>2 DEF Skips, ReceiversOK
      <3> QED
        BY <1>0, <3>1 DEF ReceiversOK
    <2> QED
      BY <1>0, <1>1, <1>2, <2>1, LoopTells
  <1>3. CASE UNCHANGED <<seen, to_server, skipped>>
    BY <1>0, <1>1, <1>3, LoopTells
  <1>4. ASSUME seen[c] < Len(notices), seen' = [seen EXCEPT ![c] = @ + 1],
               Sends(c, <<Packet("cant_do", {notices[seen[c] + 1]})>>), UNCHANGED <<pc, skipped>>
        PROVE  TellsTheServer(c)'
    <2> DEFINE f == notices[seen[c] + 1]
               p == Packet("cant_do", {f})
               q == to_server[c]
    <2>1. f \in Functions /\ f \notin registry
      BY <1>0, <1>4 DEF RemovedForGood, ReceiversOK
    <2>2. p \in ToServer /\ p.type = "cant_do" /\ p.about = {f}
      BY <2>1, PacketsAreTyped DEF Packet
    <2>3. to_server'[c] = IF link[c] = "up" THEN q \o <<p>> ELSE q
      BY <1>4, <2>2, SentByTask
    <2> HIDE DEF p
    <2>4. q \in Seq(ToServer) /\ CanDosFirst(q)
      BY <1>0 DEF TellsTheServer, FunctionsFirst, WiresOK
    <2>5. /\ About(q \o <<p>>, "can_do") = About(q, "can_do")
          /\ About(q \o <<p>>, "cant_do") = About(q, "cant_do") \cup {f}
          /\ CanDosFirst(q \o <<p>>)
      <3>1. \A type : About(q \o <<p>>, type) = About(q, type) \cup (IF p.type = type THEN p.about ELSE {})
        BY <2>2, <2>4, AboutAppend
      <3>2. CanDosFirst(q \o <<p>>)
        BY <2>2, <2>4, FirstAppend
      <3> QED
        BY <2>2, <3>1, <3>2
    <2>6. seen'[c] = seen[c] + 1 /\ seen[c] \in Nat
      BY <1>0, <1>4 DEF ReceiversOK
    <2>7. LinkFollowsTask(c)'
      BY <1>0, <1>4, <2>3 DEF TellsTheServer, LinkFollowsTask
    <2>8. CASE link[c] # "up"
      BY <1>0, <1>4, <2>3, <2>7, <2>8, DownTells
    <2>9. CASE link[c] = "up"
      <3>1. Offered(c)' = Offered(c) \ {f}
        BY <1>0, <2>3, <2>5, <2>9 DEF Offered
      <3>2. FunctionsFirst(c)' /\ WithdrawsRemoved(c)'
        BY <1>0, <1>4, <2>1, <2>3, <2>5, <2>9 DEF FunctionsFirst, WithdrawsRemoved, TellsTheServer
      <3>3. Advertises(c)'
        BY <1>0, <1>4, <2>1, <2>9, <3>1, <1>1 DEF Advertises, TellsTheServer
      <3>4. WithdrawnSince(c)'
        BY <1>0, <1>1, <1>4, <2>6, <2>9, <3>1 DEF WithdrawnSince, TellsTheServer
      <3> QED
        BY <2>7, <3>2, <3>3, <3>4 DEF TellsTheServer
    <2> QED
      BY <2>8, <2>9
  <1> QED
    BY <1>2, <1>3, <1>4 DEF Flush

LEMMA GrabLoopTells ==
    ASSUME TypeOK, RemovedForGood, NEW c \in Conns, TellsTheServer(c), GrabLoop(c)
    PROVE  TellsTheServer(c)'
  <1>0. TasksOK /\ WiresOK
    BY DEF TypeOK
  <1>1. CASE CheckShutdown(c) \/ StopAsleep(c) \/ Panic(c)
    <2>1. /\ pc[c] \in {"loop", "asleep", "running"}
          /\ UNCHANGED <<registry, notices, seen, to_server, can_do, skipped>>
      BY <1>1 DEF CheckShutdown, StopAsleep, Panic, api, server
    <2>2. ASSUME Ends({c}) PROVE TellsTheServer(c)'
      BY <2>1, <2>2, EndsTells
    <2>3. ASSUME CheckShutdown(c), worker = "running" PROVE TellsTheServer(c)'
      <3>1. pc[c] \in InLoop /\ pc'[c] \in InLoop /\ UNCHANGED link
        BY <1>0, <2>3 DEF CheckShutdown, Goto, TasksOK, InLoop
      <3> QED
        BY <2>1, <3>1, LoopTells
    <2> QED
      BY <1>1, <2>2, <2>3 DEF CheckShutdown, StopAsleep, Panic
  <1>2. CASE Flush(c)
    BY <1>2, FlushTells
  <1>3. CASE Receive(c) \/ WakeUp(c) \/ Dispatch(c)
    <2>1. /\ pc[c] \in InLoop /\ pc'[c] \in InLoop
          /\ UNCHANGED <<registry, notices, seen, skipped, link, can_do, to_server>>
      BY <1>0, <1>3 DEF Receive, WakeUp, Dispatch, Goto, TasksOK, InLoop, api, wires, server, kept
    <2> QED
      BY <2>1, LoopTells
  <1>4. ASSUME NEW p \in ToServer, p.type \notin {"can_do", "cant_do"}, Sends(c, <<p>>),
               pc[c] \in InLoop \cup {"done"}, pc'[c] \in InLoop \cup {"done"},
               pc'[c] \in InLoop => pc[c] \in InLoop,
               UNCHANGED <<registry, notices, seen, skipped, link, can_do>>
        PROVE  TellsTheServer(c)'
    <2>1. to_server'[c] = IF link[c] = "up" THEN to_server[c] \o <<p>> ELSE to_server[c]
      BY <1>4, SentByTask
    <2> QED
      BY <1>4, <2>1, LoopTells
  <1>5. CASE Grab(c) \/ PreSleep(c)
    <2>1. /\ pc[c] \in InLoop /\ pc'[c] \in InLoop
          /\ UNCHANGED <<registry, notices, seen, skipped, link, can_do>>
      BY <1>0, <1>5 DEF Grab, PreSleep, Goto, TasksOK, InLoop, api, server, kept
    <2> QED
      BY <1>4, <1>5, <2>1, PacketsAreTyped DEF Grab, PreSleep, Packet
  <1>6. ASSUME NEW type \in Work, Sends(c, <<Packet(type, current[c])>>),
               pc[c] \in {"refusing", "running"}, pc'[c] \in InLoop,
               UNCHANGED <<registry, notices, seen, skipped, link, can_do>>
        PROVE  TellsTheServer(c)'
    <2>1. /\ Packet(type, current[c]) \in ToServer
          /\ Packet(type, current[c]).type \notin {"can_do", "cant_do"}
      BY <1>0, <1>6, PacketsAreTyped DEF TasksOK, Packet, Work, Terminal
    <2>2. pc[c] \in InLoop
      BY <1>6 DEF InLoop
    <2> QED
      BY <1>4, <1>6, <2>1, <2>2
  <1>7. CASE Refuse(c) \/ Finish(c)
    <2>1. /\ pc[c] \in {"refusing", "running"} /\ pc[c] \in InLoop /\ pc'[c] \in InLoop
          /\ UNCHANGED <<registry, notices, seen, skipped, link, can_do>>
      BY <1>0, <1>7 DEF Refuse, Finish, Answers, Goto, TasksOK, InLoop, api, server, kept
    <2>2. \/ UNCHANGED to_server
          \/ \E type \in Work : Sends(c, <<Packet(type, current[c])>>)
      BY <1>7 DEF Refuse, Finish, Answers, Work, Terminal
    <2> QED
      BY <1>6, <2>1, <2>2, LoopTells
  <1>8. CASE Report(c)
    <2>1. PICK j \in Jobs : /\ j \in clones[c] \/ pc[c] = "running"
                            /\ Sends(c, <<Packet("work_data", j)>>)
      BY <1>8, ReportedJob
    <2>2. pc[c] \in InLoop \cup {"done"}
      BY <2>1 DEF TypeOK, ClonesOK, InLoop
    <2>3. /\ Packet("work_data", j) \in ToServer
          /\ Packet("work_data", j).type \notin {"can_do", "cant_do"}
      BY PacketsAreTyped DEF Packet, Work
    <2>4. UNCHANGED <<registry, notices, pc, seen, skipped, link, can_do>>
      BY <1>8 DEF Report, api, task, server, kept
    <2> QED
      BY <1>4, <2>1, <2>2, <2>3, <2>4
  <1>9. CASE CloneReporter(c)
    BY <1>9, StillTells DEF CloneReporter, Still, api, task, wires, server
  <1>10. CASE DropClones(c)
    <2>1. UNCHANGED <<registry, notices, pc, unsent, seen, skipped, to_server, can_do>>
      BY <1>10 DEF DropClones, api, task, server
    <2>2. CASE link'[c] = link[c]
      BY <2>1, <2>2, StillTells DEF Still
    <2>3. CASE link'[c] # link[c]
      <3>1. /\ pc[c] = "done" /\ link[c] \in {"up", "lost"} /\ link'[c] \in {"shut", "down"}
            /\ link[c] = "up" => link'[c] = "shut"
        BY <1>0, <1>10, <2>3 DEF DropClones, WiresOK
      <3>2. LinkFollowsTask(c)'
        BY <2>1, <3>1 DEF TellsTheServer, LinkFollowsTask
      <3> QED
        BY <2>1, <3>1, <3>2, DownTells
    <2> QED
      BY <2>2, <2>3
  <1> QED
    BY <1>1, <1>2, <1>3, <1>5, <1>7, <1>8, <1>9, <1>10 DEF GrabLoop

-----------------------------------------------------------------------------
(* The server's steps and the calls.                                       *)

LEMMA ServerTells ==
    ASSUME TypeOK, \A d \in Conns : TellsTheServer(d), NEW c \in Conns, ServerReads(c) \/ Break(c)
    PROVE  \A d \in Conns : TellsTheServer(d)'
  <1>0. TasksOK /\ WiresOK /\ ServerOK /\ TellsTheServer(c)
    BY DEF TypeOK
  <1>1. UNCHANGED <<registry, notices, pc, unsent, seen, skipped>>
    BY DEF ServerReads, ReadFunctions, ReadGrab, ReadPreSleep, ReadWork, Hangup, Break, api, task, kept
  <1>2. ASSUME NEW d \in Conns \ {c} PROVE TellsTheServer(d)'
    <2>1. link'[d] = link[d] /\ to_server'[d] = to_server[d] /\ can_do'[d] = can_do[d]
      BY <1>0 DEF ServerReads, ReadFunctions, ReadGrab, ReadPreSleep, ReadWork, Reads, Hangup, Break,
                  Requeue, WiresOK, ServerOK
    <2> QED
      BY <1>1, <2>1, StillTells DEF Still
  <1>3. ASSUME ReadFunctions(c) PROVE TellsTheServer(c)'
    <2>1. /\ to_server[c] # <<>> /\ to_server'[c] = Tail(to_server[c]) /\ link'[c] = link[c]
          /\ Head(to_server[c]).type \in {"can_do", "cant_do"}
          /\ can_do'[c] = IF Head(to_server[c]).type = "can_do"
                          THEN can_do[c] \cup Head(to_server[c]).about
                          ELSE can_do[c] \ Head(to_server[c]).about
      BY <1>0, <1>3 DEF ReadFunctions, Reads, WiresOK, ServerOK
    <2> QED
      BY <1>0, <1>1, <2>1, ReadTells
  <1>4. ASSUME ReadGrab(c) \/ ReadPreSleep(c) \/ ReadWork(c) PROVE TellsTheServer(c)'
    <2>1. /\ to_server[c] # <<>> /\ to_server'[c] = Tail(to_server[c]) /\ link'[c] = link[c]
          /\ Head(to_server[c]).type \notin {"can_do", "cant_do"} /\ can_do'[c] = can_do[c]
      BY <1>0, <1>4 DEF ReadGrab, ReadPreSleep, ReadWork, Reads, WiresOK, Work, Terminal
    <2> QED
      BY <1>0, <1>1, <2>1, ReadTells
  <1>5. ASSUME Hangup(c) PROVE TellsTheServer(c)'
    <2>1. link[c] = "shut" /\ link'[c] = "down" /\ to_server'[c] = <<>> /\ to_server[c] = <<>>
      BY <1>0, <1>5 DEF Hangup, WiresOK
    <2>2. pc[c] = "done"
      BY <1>0, <2>1 DEF TellsTheServer, LinkFollowsTask
    <2>3. LinkFollowsTask(c)'
      BY <1>1, <2>1, <2>2 DEF LinkFollowsTask
    <2> QED
      BY <1>0, <1>1, <2>1, <2>3, DownTells
  <1>6. ASSUME Break(c) PROVE TellsTheServer(c)'
    <2>1. link[c] = "up" /\ link'[c] = "lost" /\ to_server'[c] = <<>> /\ can_do'[c] = {}
      BY <1>0, <1>6 DEF Break, Requeue, WiresOK, ServerOK
    <2>2. LinkFollowsTask(c)'
      BY <1>0, <1>1, <2>1 DEF LinkFollowsTask, TellsTheServer
    <2> QED
      BY <1>0, <1>1, <2>1, <2>2, DownTells
  <1> QED
    BY <1>2, <1>3, <1>4, <1>5, <1>6 DEF ServerReads

\* The removal finds no registration going on: this is what the lock is for.
LEMMA RemoveTells ==
    ASSUME TypeOK, NEW f \in Functions, Remove(f), NEW c \in Conns, TellsTheServer(c)
    PROVE  TellsTheServer(c)'
  <1>1. /\ registry' = registry \ {f} /\ notices' = notices
        /\ UNCHANGED <<pc, unsent, seen, skipped, link, to_server, can_do>>
    BY DEF Remove, task, wires, server, kept
  <1>2. pc[c] # "registering"
    BY DEF Remove, Readers
  <1>3. Offered(c)' = Offered(c)
    BY <1>1 DEF Offered
  <1>4. LinkFollowsTask(c)' /\ FunctionsFirst(c)' /\ WithdrawsRemoved(c)'
    BY <1>1 DEF TellsTheServer, LinkFollowsTask, FunctionsFirst, WithdrawsRemoved
  <1>5. Advertises(c)' /\ WithdrawnSince(c)'
    BY <1>1, <1>2, <1>3 DEF TellsTheServer, Advertises, WithdrawnSince
  <1> QED
    BY <1>4, <1>5 DEF TellsTheServer

LEMMA BroadcastTells ==
    ASSUME TypeOK, NEW f \in Functions, Broadcast(f), NEW c \in Conns, TellsTheServer(c)
    PROVE  TellsTheServer(c)'
  <1>1. /\ registry' = registry /\ notices' = Append(notices, f)
        /\ UNCHANGED <<pc, unsent, seen, skipped, link, to_server, can_do>>
    BY DEF Broadcast, task, wires, server, kept
  <1>2. \A i \in 1 .. seen[c] : notices'[i] = notices[i]
    BY <1>1 DEF TypeOK, LockOK, ReceiversOK
  <1>3. Offered(c)' = Offered(c)
    BY <1>1 DEF Offered
  <1>4. LinkFollowsTask(c)' /\ FunctionsFirst(c)' /\ WithdrawsRemoved(c)'
    BY <1>1 DEF TellsTheServer, LinkFollowsTask, FunctionsFirst, WithdrawsRemoved
  <1>5. Advertises(c)' /\ WithdrawnSince(c)'
    BY <1>1, <1>2, <1>3 DEF TellsTheServer, Advertises, WithdrawnSince
  <1> QED
    BY <1>4, <1>5 DEF TellsTheServer

LEMMA CallsTell ==
    ASSUME TypeOK, Calls, NEW c \in Conns, TellsTheServer(c)
    PROVE  TellsTheServer(c)'
  <1>1. ASSUME NEW f \in Functions, Unregister(f) \/ GiveUp(f) PROVE TellsTheServer(c)'
    BY <1>1, StillTells DEF Unregister, GiveUp, Still, task, wires, server, kept
  <1>2. CASE Shutdown
    BY <1>2, StillTells DEF Shutdown, Still, task, wires, server, kept
  <1>3. CASE Drop
    BY <1>3, EndsTells DEF Drop, server
  <1> QED
    BY <1>1, <1>2, <1>3, RemoveTells, BroadcastTells DEF Calls

LEMMA RemovedForGoodStep ==
    ASSUME TypeOK, RemovedForGood, Next
    PROVE  RemovedForGood'
  <1> USE DEF RemovedForGood
  <1>0. LockOK
    BY DEF TypeOK
  <1>1. CASE UNCHANGED <<registry, unregister, notices>>
    BY <1>1
  <1>2. ASSUME NEW f \in Functions, Unregister(f) \/ GiveUp(f) PROVE RemovedForGood'
    BY <1>0, <1>2 DEF Unregister, GiveUp, LockOK
  <1>3. ASSUME NEW f \in Functions, Remove(f) PROVE RemovedForGood'
    BY <1>0, <1>3 DEF Remove, LockOK
  <1>4. ASSUME NEW f \in Functions, Broadcast(f) PROVE RemovedForGood'
    <2>1. /\ \A g \in Functions : unregister'[g] = "removed" => unregister[g] = "removed"
          /\ notices' = Append(notices, f) /\ f \notin registry /\ registry' = registry
      BY <1>0, <1>4 DEF Broadcast, LockOK
    <2>2. \A i \in DOMAIN notices' : notices'[i] \in {f} \/ (i \in DOMAIN notices /\ notices'[i] = notices[i])
      BY <1>0, <2>1 DEF LockOK
    <2> QED
      BY <2>1, <2>2
  <1>5. CASE Shutdown \/ Drop
    BY <1>1, <1>5 DEF Shutdown, Drop
  <1>6. ASSUME NEW c \in Conns, Queue(c) \/ Lock(c) \/ Dispatch(c) PROVE RemovedForGood'
    BY <1>1, <1>6 DEF Queue, Lock, Dispatch
  <1> QED
    BY <1>1, <1>2, <1>3, <1>4, <1>5, <1>6, ApiIsKept DEF Calls, api

LEMMA RegistryInvStep ==
    ASSUME TypeOK, RegistryInv, [Next]_vars
    PROVE  RegistryInv'
  <1>1. CASE Next
    <2>1. RemovedForGood'
      BY <1>1, RemovedForGoodStep DEF RegistryInv
    <2>2. CASE Calls
      BY <2>1, <2>2, CallsTell DEF RegistryInv
    <2>3. ASSUME NEW c \in Conns, Connecting(c) \/ Queue(c) \/ LosesConnection(c) \/ GrabLoop(c)
          PROVE  RegistryInv'
      <3>1. UNCHANGED <<registry, notices>>
        BY <2>3 DEF Connecting, Start, ConnectFails, Connect, Backoff, Lock, Register, Discard, Queue,
                    LosesConnection, GrabLoop, CheckShutdown, Flush, Grab, Receive, PreSleep, WakeUp,
                    StopAsleep, Dispatch, Refuse, Report, Finish, Panic, CloneReporter, DropClones, api
      <3>2. TellsTheServer(c)'
        BY <2>3, ConnectingTells, GrabLoopTells DEF RegistryInv
      <3>3. \A d \in Conns \ {c} : TellsTheServer(d)'
        BY <2>3, <3>1, OthersStill, StillTells DEF RegistryInv
      <3> QED
        BY <2>1, <3>2, <3>3 DEF RegistryInv
    <2>4. ASSUME NEW c \in Conns, ServerReads(c) \/ Break(c) PROVE RegistryInv'
      BY <2>1, <2>4, ServerTells DEF RegistryInv
    <2>5. ASSUME NEW j \in Jobs, Submit(j) \/ TimeOut(j) PROVE RegistryInv'
      <3>1. \A c \in Conns : Still(c) /\ registry' = registry /\ notices' = notices
        BY <2>5 DEF Submit, TimeOut, Still, api, task, wires, kept
      <3> QED
        BY <2>1, <3>1, StillTells DEF RegistryInv
    <2> QED
      BY <1>1, <2>2, <2>3, <2>4, <2>5 DEF Next
  <1>2. CASE UNCHANGED vars
    <2>1. \A c \in Conns : Still(c) /\ registry' = registry /\ notices' = notices
      BY <1>2 DEF vars, api, task, wires, server, kept, Still
    <2>2. RemovedForGood'
      BY <1>2 DEF vars, api, RegistryInv, RemovedForGood
    <2> QED
      BY <2>1, <2>2, StillTells DEF RegistryInv
  <1> QED
    BY <1>1, <1>2

-----------------------------------------------------------------------------
\* The inductive invariant of the registry: what was removed stays removed, and
\* every connection tells the server of its functions in the order registered,
\* withdrawn (register_functions, flush_unregistrations).
THEOREM RegistryInvariant == Spec => [](TypeOK /\ RegistryInv)
  <1>1. Init => RegistryInv
    BY DEF Init, RegistryInv, RemovedForGood, TellsTheServer, LinkFollowsTask, FunctionsFirst, CanDosFirst,
           OnlyCanDos, WithdrawsRemoved, About, Places, Advertises, WithdrawnSince, InLoop
  <1>2. TypeOK /\ RegistryInv /\ [Next]_vars => RegistryInv'
    BY RegistryInvStep
  <1> QED
    BY <1>1, <1>2, TypeCorrect, PTL DEF Spec

\* No call of unregister comes between the functions of one registration, and
\* nothing that is registered is ever withdrawn from a live connection: for any
\* number of connections and functions, in any order of calls.
THEOREM RegistryIsAdvertised == Spec => []AdvertisesRegistry
  <1>1. RegistryInv => AdvertisesRegistry
    BY DEF RegistryInv, TellsTheServer, Advertises, AdvertisesRegistry
  <1> QED
    BY <1>1, RegistryInvariant, PTL

\* A notice a task has read is never lost on the way to the server: the function
\* is not offered by this connection any more, nor by one that replaces it.
THEOREM NoticesAreActedOn == Spec => []Withdrawn
  <1>1. RegistryInv => Withdrawn
    BY DEF RegistryInv, TellsTheServer, WithdrawnSince, Withdrawn
  <1> QED
    BY <1>1, RegistryInvariant, PTL

-----------------------------------------------------------------------------
(***************************************************************************)
(* What becomes of a job the server assigns: OneGrabOutstanding,           *)
(* AssignedIsInHand are invariants of Worker, and shutdown abandons no job *)
(* (ShutdownAbandonsNoJob).                                                *)
(*                                                                         *)
(* The argument: packets carry no request id, so a task takes the next     *)
(* packet for the answer to what it sent last.  That is right because one  *)
(* question at a time is under way on a connection: a GRAB_JOB or its      *)
(* answer while the task awaits one, a PRE_SLEEP, the server's note of it  *)
(* or the NOOP while it sleeps, and never an ERROR.  There is none because *)
(* every result and every report on its way is about a job the server      *)
(* still has assigned to that connection, which needs that it never fails  *)
(* a job back by itself: no function has a timeout.  And a report never    *)
(* waits behind the result of its job: the task stays with the job until   *)
(* its handler has ended, and no handler leaves a clone of its Reporter    *)
(* behind.                                                                 *)
(***************************************************************************)
-----------------------------------------------------------------------------
\* How many packets of S a queue holds.
Count(queue, S) == Cardinality({i \in DOMAIN queue : queue[i] \in S})
One(b) == IF b THEN 1 ELSE 0

Grabs == {p \in ToServer : p.type = "grab"}
PreSleeps == {p \in ToServer : p.type = "pre_sleep"}
Results(j) == {p \in ToServer : p.type \in Terminal /\ p.about = j}
Grants == {p \in ToWorker : p.type \in {"job_assign", "no_job"}}
Assigns(j) == {p \in ToWorker : p.type = "job_assign" /\ p.about = j}
Noops == {p \in ToWorker : p.type = "noop"}
Errors == {p \in ToWorker : p.type = "error"}

\* One question at a time.
OneQuestion(c) ==
    link[c] = "up" =>
        /\ Count(to_server[c], Grabs) + Count(to_worker[c], Grants) = One(pc[c] = "awaiting")
        /\ Count(to_server[c], PreSleeps) + One(c \in sleeping) + Count(to_worker[c], Noops)
             = One(pc[c] = "asleep")
        /\ Count(to_worker[c], Errors) = 0

\* A job of the connection is in one place there at the most, and in exactly
\* one unless its result was dropped because it could not be encoded.
InOnePlace(c, j) ==
    link[c] = "up" =>
        LET places == Count(to_worker[c], Assigns(j)) + One(current[c] = j) + Count(to_server[c], Results(j))
        IN  /\ places <= One(owner[j] = c)
            /\ j \notin Oversized => places = One(owner[j] = c)

\* The reports in a queue are about jobs of a set, and none is behind its job's result.
ReportsFirst(queue, jobs) ==
    \A i \in DOMAIN queue : queue[i].type = "work_data" =>
        /\ queue[i].about \in jobs
        /\ \A k \in 1 .. i : queue[k] \notin Results(queue[i].about)

OwnedBy(c) == {j \in Jobs : owner[j] = c}

\* A report on its way is about a job of this connection, and not behind its result.
ReportsOwned(c) == link[c] = "up" => ReportsFirst(to_server[c], OwnedBy(c))

\* The server has nothing of a connection that is gone, and a task that connects
\* has nothing of an earlier one.
Detached(c) ==
    /\ link[c] \in {"down", "lost"} => c \notin sleeping /\ \A j \in Jobs : owner[j] # c
    /\ pc[c] \in {"start", "connecting", "backoff"} => to_worker[c] = <<>>

JobsOf(c) ==
    /\ OneQuestion(c)
    /\ \A j \in Jobs : InOnePlace(c, j)
    /\ ReportsOwned(c)
    /\ Detached(c)

JobInv == \A c \in Conns : JobsOf(c)

-----------------------------------------------------------------------------
(* Counting the packets of a queue.                                        *)

LEMMA CountFinite ==
    ASSUME NEW T, NEW q \in Seq(T), NEW S
    PROVE  /\ IsFiniteSet({i \in DOMAIN q : q[i] \in S})
           /\ Count(q, S) \in Nat
           /\ Count(q, S) = 0 <=> \A i \in DOMAIN q : q[i] \notin S
  <1> DEFINE A == {i \in DOMAIN q : q[i] \in S}
  <1>1. DOMAIN q = 1 .. Len(q) /\ Len(q) \in Nat
    OBVIOUS
  <1>2. IsFiniteSet(DOMAIN q)
    BY <1>1, FS_Interval
  <1>3. IsFiniteSet(A)
    BY <1>2, FS_Subset
  <1>4. Cardinality(A) \in Nat /\ (Cardinality(A) = 0 <=> A = {})
    BY <1>3, FS_CardinalityType, FS_EmptySet
  <1> QED
    BY <1>3, <1>4 DEF Count

LEMMA CountAppend ==
    ASSUME NEW T, NEW q \in Seq(T), NEW p \in T, NEW S
    PROVE  /\ Count(q \o <<p>>, S) = Count(q, S) + One(p \in S)
           /\ Count(Append(q, p), S) = Count(q, S) + One(p \in S)
  <1> DEFINE t == q \o <<p>>
             A == {i \in DOMAIN q : q[i] \in S}
             B == {i \in DOMAIN t : t[i] \in S}
  <1>1. /\ DOMAIN q = 1 .. Len(q) /\ Len(q) \in Nat
        /\ DOMAIN t = 1 .. Len(q) + 1
        /\ \A i \in 1 .. Len(q) : t[i] = q[i]
        /\ t[Len(q) + 1] = p
        /\ Append(q, p) = t
    OBVIOUS
  <1>2. IsFiniteSet(A) /\ Cardinality(A) \in Nat
    BY CountFinite DEF Count
  <1>3. Count(q, S) = Cardinality(A) /\ Count(t, S) = Cardinality(B)
    BY DEF Count
  <1> HIDE DEF t
  <1>4. Cardinality(B) = Cardinality(A) + One(p \in S)
    <2>1. CASE p \in S
      <3>1. B = A \cup {Len(q) + 1} /\ Len(q) + 1 \notin A
        BY <1>1, <2>1
      <3> HIDE DEF A, B
      <3> QED
        BY <1>2, <2>1, <3>1, FS_AddElement DEF One
    <2>2. CASE p \notin S
      <3>1. B = A
        BY <1>1, <2>2
      <3> HIDE DEF A, B
      <3> QED
        BY <1>2, <2>2, <3>1 DEF One
    <2> QED
      BY <2>1, <2>2
  <1> HIDE DEF A, B
  <1> QED
    BY <1>1, <1>3, <1>4 DEF t

LEMMA CountTail ==
    ASSUME NEW T, NEW q \in Seq(T), q # <<>>, NEW S
    PROVE  Count(q, S) = Count(Tail(q), S) + One(Head(q) \in S)
  <1> DEFINE t == Tail(q)
             A == {i \in DOMAIN q : q[i] \in S}
             B == {i \in DOMAIN t : t[i] \in S}
             f == [i \in B |-> i + 1]
  <1>1. /\ DOMAIN q = 1 .. Len(q) /\ Len(q) \in Nat \ {0} /\ Head(q) = q[1]
        /\ DOMAIN t = 1 .. Len(q) - 1 /\ t \in Seq(T)
        /\ \A i \in 1 .. Len(q) - 1 : t[i] = q[i + 1]
    OBVIOUS
  <1>2. Count(q, S) = Cardinality(A) /\ Count(t, S) = Cardinality(B)
    BY DEF Count
  <1> HIDE DEF t
  <1>3. IsFiniteSet(A) /\ Cardinality(A) \in Nat /\ IsFiniteSet(B) /\ Cardinality(B) \in Nat
    BY <1>1, CountFinite DEF Count
  <1>4. \A i \in B : i \in Nat /\ i + 1 \in A \ {1}
    BY <1>1
  <1>5. \A i \in A \ {1} : i - 1 \in B /\ (i - 1) + 1 = i
    BY <1>1
  <1>6. A \subseteq Nat /\ (1 \in A <=> Head(q) \in S)
    BY <1>1
  <1> HIDE DEF A, B
  <1>7. f \in Bijection(B, A \ {1})
    <2>1. f \in Injection(B, A \ {1})
      BY <1>4 DEF Injection, IsInjective
    <2>2. f \in Surjection(B, A \ {1})
      BY <1>4, <1>5 DEF Surjection
    <2> QED
      BY <2>1, <2>2 DEF Bijection
  <1>8. Cardinality(A \ {1}) = Cardinality(B)
    BY <1>3, <1>7, FS_Bijection, Zenon DEF ExistsBijection
  <1>9. Cardinality(A \ {1}) = IF 1 \in A THEN Cardinality(A) - 1 ELSE Cardinality(A)
    BY <1>3, FS_RemoveElement
  <1> QED
    BY <1>2, <1>3, <1>6, <1>8, <1>9 DEF One, t

-----------------------------------------------------------------------------
(* The packets of a connection, counted by what they are to its task.      *)

LEMMA SentCounts ==
    ASSUME NEW q \in Seq(ToServer), NEW p \in ToServer
    PROVE  /\ Count(q \o <<p>>, Grabs) = Count(q, Grabs) + One(p.type = "grab")
           /\ Count(q \o <<p>>, PreSleeps) = Count(q, PreSleeps) + One(p.type = "pre_sleep")
           /\ \A j \in Jobs : Count(q \o <<p>>, Results(j))
                               = Count(q, Results(j)) + One(p.type \in Terminal /\ p.about = j)
  <1>1. \A S : Count(q \o <<p>>, S) = Count(q, S) + One(p \in S)
    BY CountAppend
  <1>2. /\ p \in Grabs <=> p.type = "grab"
        /\ p \in PreSleeps <=> p.type = "pre_sleep"
        /\ \A j \in Jobs : p \in Results(j) <=> (p.type \in Terminal /\ p.about = j)
    BY DEF Grabs, PreSleeps, Results
  <1> QED
    BY <1>1, <1>2 DEF One

LEMMA ReadCounts ==
    ASSUME NEW q \in Seq(ToServer), q # <<>>
    PROVE  /\ Count(q, Grabs) = Count(Tail(q), Grabs) + One(Head(q).type = "grab")
           /\ Count(q, PreSleeps) = Count(Tail(q), PreSleeps) + One(Head(q).type = "pre_sleep")
           /\ \A j \in Jobs : Count(q, Results(j))
                   = Count(Tail(q), Results(j)) + One(Head(q).type \in Terminal /\ Head(q).about = j)
  <1> DEFINE p == Head(q)
  <1>1. p \in ToServer
    OBVIOUS
  <1>2. \A S : Count(q, S) = Count(Tail(q), S) + One(p \in S)
    BY CountTail
  <1>3. /\ p \in Grabs <=> p.type = "grab"
        /\ p \in PreSleeps <=> p.type = "pre_sleep"
        /\ \A j \in Jobs : p \in Results(j) <=> (p.type \in Terminal /\ p.about = j)
    BY <1>1 DEF Grabs, PreSleeps, Results
  <1> HIDE DEF p
  <1>4. /\ Count(q, Grabs) = Count(Tail(q), Grabs) + One(p.type = "grab")
        /\ Count(q, PreSleeps) = Count(Tail(q), PreSleeps) + One(p.type = "pre_sleep")
        /\ \A j \in Jobs : Count(q, Results(j))
                = Count(Tail(q), Results(j)) + One(p.type \in Terminal /\ p.about = j)
    BY <1>2, <1>3 DEF One
  <1> QED
    BY <1>4 DEF p

LEMMA ToldCounts ==
    ASSUME NEW q \in Seq(ToWorker), NEW p \in ToWorker
    PROVE  /\ Count(Append(q, p), Grants) = Count(q, Grants) + One(p.type \in {"job_assign", "no_job"})
           /\ Count(Append(q, p), Noops) = Count(q, Noops) + One(p.type = "noop")
           /\ Count(Append(q, p), Errors) = Count(q, Errors) + One(p.type = "error")
           /\ \A j \in Jobs : Count(Append(q, p), Assigns(j))
                               = Count(q, Assigns(j)) + One(p.type = "job_assign" /\ p.about = j)
  <1>1. \A S : Count(Append(q, p), S) = Count(q, S) + One(p \in S)
    BY CountAppend
  <1>2. /\ p \in Grants <=> p.type \in {"job_assign", "no_job"}
        /\ p \in Noops <=> p.type = "noop"
        /\ p \in Errors <=> p.type = "error"
        /\ \A j \in Jobs : p \in Assigns(j) <=> (p.type = "job_assign" /\ p.about = j)
    BY DEF Grants, Noops, Errors, Assigns
  <1> QED
    BY <1>1, <1>2 DEF One

LEMMA TakenCounts ==
    ASSUME NEW q \in Seq(ToWorker), q # <<>>
    PROVE  /\ Count(q, Grants) = Count(Tail(q), Grants) + One(Head(q).type \in {"job_assign", "no_job"})
           /\ Count(q, Noops) = Count(Tail(q), Noops) + One(Head(q).type = "noop")
           /\ Count(q, Errors) = Count(Tail(q), Errors) + One(Head(q).type = "error")
           /\ \A j \in Jobs : Count(q, Assigns(j))
                   = Count(Tail(q), Assigns(j)) + One(Head(q).type = "job_assign" /\ Head(q).about = j)
  <1> DEFINE p == Head(q)
  <1>1. p \in ToWorker
    OBVIOUS
  <1>2. \A S : Count(q, S) = Count(Tail(q), S) + One(p \in S)
    BY CountTail
  <1>3. /\ p \in Grants <=> p.type \in {"job_assign", "no_job"}
        /\ p \in Noops <=> p.type = "noop"
        /\ p \in Errors <=> p.type = "error"
        /\ \A j \in Jobs : p \in Assigns(j) <=> (p.type = "job_assign" /\ p.about = j)
    BY <1>1 DEF Grants, Noops, Errors, Assigns
  <1> HIDE DEF p
  <1>4. /\ Count(q, Grants) = Count(Tail(q), Grants) + One(p.type \in {"job_assign", "no_job"})
        /\ Count(q, Noops) = Count(Tail(q), Noops) + One(p.type = "noop")
        /\ Count(q, Errors) = Count(Tail(q), Errors) + One(p.type = "error")
        /\ \A j \in Jobs : Count(q, Assigns(j))
                = Count(Tail(q), Assigns(j)) + One(p.type = "job_assign" /\ p.about = j)
    BY <1>2, <1>3 DEF One
  <1> QED
    BY <1>4 DEF p

LEMMA CountsAreNat ==
    ASSUME WiresOK, NEW c \in Conns
    PROVE  /\ to_server[c] \in Seq(ToServer) /\ to_worker[c] \in Seq(ToWorker)
           /\ \A S : Count(to_server[c], S) \in Nat /\ Count(to_worker[c], S) \in Nat
           /\ to_server[c] # <<>> =>
                 Tail(to_server[c]) \in Seq(ToServer) /\ \A S : Count(Tail(to_server[c]), S) \in Nat
           /\ to_worker[c] # <<>> =>
                 Tail(to_worker[c]) \in Seq(ToWorker) /\ \A S : Count(Tail(to_worker[c]), S) \in Nat
  <1>1. to_server[c] \in Seq(ToServer) /\ to_worker[c] \in Seq(ToWorker)
    BY DEF WiresOK
  <1>2. /\ to_server[c] # <<>> => Tail(to_server[c]) \in Seq(ToServer)
        /\ to_worker[c] # <<>> => Tail(to_worker[c]) \in Seq(ToWorker)
    BY <1>1
  <1> QED
    BY <1>1, <1>2, CountFinite

LEMMA CountEmpty == \A S : Count(<<>>, S) = 0
  <1>1. <<>> \in Seq(Jobs) /\ DOMAIN <<>> = {}
    OBVIOUS
  <1> QED
    BY <1>1, CountFinite

-----------------------------------------------------------------------------
(* Reports and results in a queue.                                         *)

LEMMA ReportsAppend ==
    ASSUME NEW q \in Seq(ToServer), NEW p \in ToServer, NEW S \in SUBSET Jobs, ReportsFirst(q, S),
           p.type = "work_data" => p.about \in S /\ Count(q, Results(p.about)) = 0
    PROVE  ReportsFirst(q \o <<p>>, S)
  <1> DEFINE t == q \o <<p>>
  <1>1. /\ DOMAIN q = 1 .. Len(q) /\ Len(q) \in Nat
        /\ DOMAIN t = 1 .. Len(q) + 1
        /\ \A i \in 1 .. Len(q) : t[i] = q[i]
        /\ t[Len(q) + 1] = p
    OBVIOUS
  <1> HIDE DEF t
  <1>2. ASSUME NEW i \in 1 .. Len(q), t[i].type = "work_data"
        PROVE  t[i].about \in S /\ \A k \in 1 .. i : t[k] \notin Results(t[i].about)
    BY <1>1, <1>2 DEF ReportsFirst
  <1>3. ASSUME p.type = "work_data"
        PROVE  p.about \in S /\ \A k \in 1 .. Len(q) + 1 : t[k] \notin Results(p.about)
    <2>1. \A k \in DOMAIN q : q[k] \notin Results(p.about)
      BY <1>3, CountFinite
    <2>2. p \notin Results(p.about)
      BY <1>3 DEF Results, Terminal
    <2> QED
      BY <1>1, <1>3, <2>1, <2>2
  <1> QED
    BY <1>1, <1>2, <1>3 DEF ReportsFirst, t

LEMMA ReportsTail ==
    ASSUME NEW q \in Seq(ToServer), q # <<>>, NEW S \in SUBSET Jobs, ReportsFirst(q, S)
    PROVE  /\ Head(q).type \in Terminal => ReportsFirst(Tail(q), S \ {Head(q).about})
           /\ Head(q).type = "work_data" => Head(q).about \in S
           /\ ReportsFirst(Tail(q), S)
  <1> DEFINE t == Tail(q)
  <1>1. /\ DOMAIN q = 1 .. Len(q) /\ Len(q) \in Nat \ {0} /\ Head(q) = q[1] /\ q[1] \in ToServer
        /\ DOMAIN t = 1 .. Len(q) - 1
        /\ \A i \in 1 .. Len(q) - 1 : t[i] = q[i + 1]
    OBVIOUS
  <1> HIDE DEF t
  <1>2. ASSUME NEW i \in 1 .. Len(q) - 1, t[i].type = "work_data"
        PROVE  /\ t[i].about \in S
               /\ \A k \in 1 .. i : t[k] \notin Results(t[i].about)
               /\ q[1] \notin Results(t[i].about)
    <2>1. i + 1 \in DOMAIN q /\ q[i + 1].type = "work_data" /\ t[i] = q[i + 1] /\ 1 \in 1 .. i + 1
      BY <1>1, <1>2
    <2>2. t[i].about \in S /\ \A k \in 1 .. i + 1 : q[k] \notin Results(t[i].about)
      BY <2>1 DEF ReportsFirst
    <2>3. \A k \in 1 .. i : k + 1 \in 1 .. i + 1 /\ t[k] = q[k + 1]
      BY <1>1
    <2> QED
      BY <2>1, <2>2, <2>3
  <1>3. ReportsFirst(t, S)
    BY <1>1, <1>2 DEF ReportsFirst
  <1>4. ASSUME q[1].type \in Terminal PROVE ReportsFirst(t, S \ {q[1].about})
    <2>1. \A i \in DOMAIN t : t[i].type = "work_data" => t[i].about # q[1].about
      BY <1>1, <1>2, <1>4 DEF Results
    <2> QED
      BY <1>3, <2>1 DEF ReportsFirst
  <1>5. q[1].type = "work_data" => q[1].about \in S
    BY <1>1 DEF ReportsFirst
  <1> QED
    BY <1>1, <1>3, <1>4, <1>5 DEF t

-----------------------------------------------------------------------------
(* Steps, seen from one connection.                                        *)

Idle == {"start", "connecting", "backoff"}

\* The connection is not up, or no longer.
LEMMA DownKeeps ==
    ASSUME NEW c \in Conns, link'[c] # "up", Detached(c)'
    PROVE  JobsOf(c)'
  BY DEF JobsOf, OneQuestion, InOnePlace, ReportsOwned

\* The server's view of connection c is what it was.
SameToServer(c) ==
    /\ link'[c] = link[c]
    /\ c \in sleeping' <=> c \in sleeping
    /\ OwnedBy(c)' = OwnedBy(c)

LEMMA OwnersAreJobs ==
    ASSUME NEW c \in Conns
    PROVE  /\ \A j \in Jobs : owner[j] = c <=> j \in OwnedBy(c)
           /\ \A j \in Jobs : owner'[j] = c <=> j \in OwnedBy(c)'
           /\ OwnedBy(c) \in SUBSET Jobs /\ OwnedBy(c)' \in SUBSET Jobs
  BY DEF OwnedBy

\* The task takes a step in which it neither sends nor reads a packet.
LEMMA SameKeeps ==
    ASSUME NEW c \in Conns, JobsOf(c), SameToServer(c),
           to_server'[c] = to_server[c], to_worker'[c] = to_worker[c], current'[c] = current[c],
           pc'[c] = "awaiting" <=> pc[c] = "awaiting", pc'[c] = "asleep" <=> pc[c] = "asleep",
           pc'[c] \in Idle => pc[c] \in Idle
    PROVE  JobsOf(c)'
  <1>1. \A j \in Jobs : owner'[j] = c <=> owner[j] = c
    BY OwnersAreJobs DEF SameToServer
  <1>2. Detached(c)'
    BY <1>1 DEF JobsOf, Detached, SameToServer, Idle
  <1>3. OneQuestion(c)'
    BY DEF JobsOf, OneQuestion, SameToServer, One
  <1>4. \A j \in Jobs : InOnePlace(c, j)'
    BY <1>1 DEF JobsOf, InOnePlace, SameToServer, One
  <1>5. ReportsOwned(c)'
    BY DEF JobsOf, ReportsOwned, SameToServer
  <1> QED
    BY <1>2, <1>3, <1>4, <1>5 DEF JobsOf

\* The task sends a packet, and goes on as the packet says.
LEMMA SendKeeps ==
    ASSUME TypeOK, NEW c \in Conns, JobsOf(c), SameToServer(c), NEW p \in ToServer, Sends(c, <<p>>),
           to_worker'[c] = to_worker[c], pc[c] \notin Idle \cup {"awaiting", "asleep"}, pc'[c] \notin Idle,
           pc'[c] = "awaiting" <=> p.type = "grab",
           pc'[c] = "asleep" <=> p.type = "pre_sleep",
           IF p.type \in Terminal THEN p.about = current[c] /\ current'[c] = NoJob
                                  ELSE current'[c] = current[c],
           p.type = "work_data" => p.about = current[c]
    PROVE  JobsOf(c)'
  <1> DEFINE q == to_server[c]
             w == to_worker[c]
  <1>1. CASE link[c] # "up"
    <2>1. Detached(c)'
      BY OwnersAreJobs DEF JobsOf, Detached, SameToServer, Idle
    <2> QED
      BY <1>1, <2>1, DownKeeps DEF SameToServer
  <1>2. CASE link[c] = "up"
    <2>0. /\ q \in Seq(ToServer) /\ w \in Seq(ToWorker)
          /\ \A S : Count(q, S) \in Nat /\ Count(w, S) \in Nat
          /\ to_server'[c] = q \o <<p>> /\ to_worker'[c] = w
          /\ current[c] \in Jobs \cup {NoJob}
      BY <1>2, SentByTask, CountsAreNat DEF TypeOK, TasksOK
    <2>1. /\ Count(q \o <<p>>, Grabs) = Count(q, Grabs) + One(p.type = "grab")
          /\ Count(q \o <<p>>, PreSleeps) = Count(q, PreSleeps) + One(p.type = "pre_sleep")
          /\ \A j \in Jobs : Count(q \o <<p>>, Results(j))
                              = Count(q, Results(j)) + One(p.type \in Terminal /\ p.about = j)
      BY <2>0, SentCounts
    <2>2. p.type \in Work => p.about \in Jobs
      BY DEF ToServer, Work, Terminal
    <2> HIDE DEF q, w
    <2>3. OneQuestion(c) /\ (\A j \in Jobs : InOnePlace(c, j)) /\ ReportsOwned(c) /\ Detached(c)
      BY DEF JobsOf
    <2>4. OneQuestion(c)'
      <3>1. /\ One(pc[c] = "awaiting") = 0 /\ One(pc[c] = "asleep") = 0
            /\ One(pc'[c] = "awaiting") = One(p.type = "grab")
            /\ One(pc'[c] = "asleep") = One(p.type = "pre_sleep")
            /\ One(c \in sleeping') = One(c \in sleeping) /\ One(c \in sleeping) \in Nat
        BY DEF One, SameToServer
      <3>2. /\ Count(q, Grabs) + Count(w, Grants) = 0
            /\ Count(q, PreSleeps) + One(c \in sleeping) + Count(w, Noops) = 0
            /\ Count(w, Errors) = 0
        BY <1>2, <2>3, <3>1 DEF OneQuestion, q, w
      <3>3. /\ Count(q \o <<p>>, Grabs) + Count(w, Grants) = One(pc'[c] = "awaiting")
            /\ Count(q \o <<p>>, PreSleeps) + One(c \in sleeping') + Count(w, Noops) = One(pc'[c] = "asleep")
        <4>1. One(p.type = "grab") \in Nat /\ One(p.type = "pre_sleep") \in Nat
          BY DEF One
        <4>2. /\ Count(q, Grabs) \in Nat /\ Count(w, Grants) \in Nat
              /\ Count(q, PreSleeps) \in Nat /\ Count(w, Noops) \in Nat
          BY <2>0
        <4>3. Count(q, Grabs) = 0 /\ Count(w, Grants) = 0
          BY <3>2, <4>2
        <4>4. Count(q, PreSleeps) = 0 /\ Count(w, Noops) = 0 /\ One(c \in sleeping) = 0
          BY <3>1, <3>2, <4>2
        <4> QED
          BY <2>1, <3>1, <4>1, <4>3, <4>4
      <3> QED
        BY <2>0, <3>2, <3>3 DEF OneQuestion
    <2>5. ASSUME NEW j \in Jobs PROVE InOnePlace(c, j)'
      <3>1. One(current'[c] = j) + One(p.type \in Terminal /\ p.about = j) = One(current[c] = j)
        BY <2>2, WorkerAssumption DEF One, Work
      <3>2. /\ One(current'[c] = j) \in Nat /\ One(p.type \in Terminal /\ p.about = j) \in Nat
            /\ One(owner[j] = c) = One(owner'[j] = c)
        BY OwnersAreJobs DEF One, SameToServer
      <3>3. InOnePlace(c, j)
        BY <2>3
      <3>4. Count(to_server'[c], Results(j)) = Count(q, Results(j)) + One(p.type \in Terminal /\ p.about = j)
        BY <2>0, <2>1
      <3> QED
        BY <1>2, <2>0, <3>1, <3>2, <3>3, <3>4 DEF InOnePlace, q, w
    <2>6. ReportsOwned(c)'
      <3>1. ReportsFirst(q, OwnedBy(c))
        BY <1>2, <2>3 DEF ReportsOwned, q
      <3>2. ASSUME p.type = "work_data" PROVE p.about \in OwnedBy(c) /\ Count(q, Results(p.about)) = 0
        <4>1. p.about = current[c] /\ p.about \in Jobs
          BY <2>2, <3>2 DEF Work
        <4>2. One(current[c] = p.about) = 1
          BY <4>1 DEF One
        <4>3. InOnePlace(c, p.about)
          BY <2>3, <4>1
        <4>4. owner[p.about] = c /\ Count(q, Results(p.about)) = 0
          BY <1>2, <2>0, <4>2, <4>3 DEF InOnePlace, One, q, w
        <4> QED
          BY <4>1, <4>4 DEF OwnedBy
      <3>3. ReportsFirst(q \o <<p>>, OwnedBy(c))
        BY <2>0, <3>1, <3>2, ReportsAppend, OwnersAreJobs
      <3> QED
        BY <2>0, <3>3 DEF ReportsOwned, SameToServer
    <2>7. Detached(c)'
      BY <1>2 DEF Detached, SameToServer, Idle
    <2> QED
      BY <2>4, <2>5, <2>6, <2>7 DEF JobsOf
  <1> QED
    BY <1>1, <1>2

\* The task reads a packet: the answer, the NOOP, and nothing else is there.
LEMMA TakeKeeps ==
    ASSUME TypeOK, NEW c \in Conns, JobsOf(c), SameToServer(c), Receive(c) \/ WakeUp(c)
    PROVE  JobsOf(c)'
  <1> DEFINE q == to_server[c]
             w == to_worker[c]
             p == Head(w)
  <1>0. TasksOK /\ WiresOK
    BY DEF TypeOK
  <1>1. /\ to_server'[c] = q /\ w # <<>> /\ to_worker'[c] = Tail(w) /\ pc'[c] \notin Idle
    BY <1>0 DEF Receive, WakeUp, Goto, TasksOK, WiresOK, wires, Idle
  <1>2. Detached(c)'
    BY <1>1, OwnersAreJobs DEF JobsOf, Detached, SameToServer, Idle
  <1>3. CASE link[c] # "up"
    BY <1>2, <1>3, DownKeeps DEF SameToServer
  <1>4. CASE link[c] = "up"
    <2>0. /\ q \in Seq(ToServer) /\ w \in Seq(ToWorker) /\ Tail(w) \in Seq(ToWorker) /\ p \in ToWorker
          /\ \A S : Count(q, S) \in Nat /\ Count(w, S) \in Nat /\ Count(Tail(w), S) \in Nat
      BY <1>0, <1>1, CountsAreNat
    <2>1. /\ Count(w, Grants) = Count(Tail(w), Grants) + One(p.type \in {"job_assign", "no_job"})
          /\ Count(w, Noops) = Count(Tail(w), Noops) + One(p.type = "noop")
          /\ Count(w, Errors) = Count(Tail(w), Errors) + One(p.type = "error")
          /\ \A j \in Jobs : Count(w, Assigns(j))
                              = Count(Tail(w), Assigns(j)) + One(p.type = "job_assign" /\ p.about = j)
      BY <1>1, <2>0, TakenCounts
    <2>2. p.type \in {"job_assign", "no_job", "noop", "error"} /\ (p.type = "job_assign" => p.about \in Jobs)
      BY <2>0 DEF ToWorker
    <2> HIDE DEF q, w, p
    <2>3. OneQuestion(c) /\ (\A j \in Jobs : InOnePlace(c, j)) /\ ReportsOwned(c)
      BY DEF JobsOf
    <2>4. ReportsOwned(c)'
      BY <1>1, <2>3 DEF ReportsOwned, SameToServer, q
    <2>5. CASE Receive(c)
      <3>1. /\ pc[c] = "awaiting"
            /\ \/ p.type = "job_assign" /\ pc'[c] = "dispatching" /\ current'[c] = p.about
               \/ p.type = "no_job" /\ pc'[c] = "pre_sleep" /\ current'[c] = current[c]
               \/ p.type \notin {"job_assign", "no_job"} /\ pc'[c] = "loop" /\ current'[c] = current[c]
        BY <1>0, <2>5 DEF Receive, Goto, TasksOK, p, w
      <3>2. /\ Count(q, Grabs) + Count(w, Grants) = 1
            /\ Count(q, PreSleeps) + One(c \in sleeping) + Count(w, Noops) = 0
            /\ Count(w, Errors) = 0
        <4>1. One(pc[c] = "awaiting") = 1 /\ One(pc[c] = "asleep") = 0
          BY <3>1 DEF One
        <4> QED
          BY <1>4, <2>3, <4>1 DEF OneQuestion, q, w
      <3>3. p.type \in {"job_assign", "no_job"}
        <4>1. p.type # "error"
          <5>1. Count(Tail(w), Errors) \in Nat /\ Count(w, Errors) = 0
            BY <2>0, <3>2
          <5> QED
            BY <2>1, <5>1 DEF One
        <4>2. p.type # "noop"
          <5>1. One(c \in sleeping) \in Nat
            BY DEF One
          <5>2. Count(w, Noops) = 0
            BY SMTT(30), <2>0, <3>2, <5>1
          <5> QED
            BY <2>0, <2>1, <5>2 DEF One
        <4> QED
          BY <2>2, <4>1, <4>2
      <3>5. OneQuestion(c)'
        <4>1. /\ One(p.type \in {"job_assign", "no_job"}) = 1 /\ One(p.type = "noop") = 0
              /\ One(p.type = "error") = 0
              /\ One(pc'[c] = "awaiting") = 0 /\ One(pc'[c] = "asleep") = 0
              /\ One(c \in sleeping') = One(c \in sleeping)
          BY <3>1, <3>3 DEF One, SameToServer
        <4>2. /\ Count(q, Grabs) + Count(Tail(w), Grants) = 0
              /\ Count(Tail(w), Noops) = Count(w, Noops)
              /\ Count(Tail(w), Errors) = 0
          BY SMTT(30), <2>0, <2>1, <3>2, <4>1
        <4> QED
          BY <1>1, <3>2, <4>1, <4>2 DEF OneQuestion, q
      <3>4. ASSUME NEW j \in Jobs PROVE InOnePlace(c, j)'
        <4>1. current[c] = NoJob
          BY <1>0, <3>1 DEF TasksOK
        <4>2. One(current'[c] = j) = One(p.type = "job_assign" /\ p.about = j) + One(current[c] = j)
          BY <2>2, <3>1, <3>3, <4>1, WorkerAssumption DEF One
        <4>3. /\ One(current[c] = j) \in Nat /\ One(p.type = "job_assign" /\ p.about = j) \in Nat
              /\ One(owner[j] = c) = One(owner'[j] = c)
          BY OwnersAreJobs DEF One, SameToServer
        <4>4. InOnePlace(c, j) /\ Count(w, Assigns(j))
                              = Count(Tail(w), Assigns(j)) + One(p.type = "job_assign" /\ p.about = j)
          BY <2>1, <2>3
        <4> QED
          BY SMTT(30), <1>1, <1>4, <2>0, <4>2, <4>3, <4>4 DEF InOnePlace, q, w
      <3> QED
        BY <1>2, <2>4, <3>4, <3>5 DEF JobsOf
    <2>6. CASE WakeUp(c)
      <3>1. pc[c] = "asleep" /\ pc'[c] \notin {"asleep", "awaiting"} /\ current'[c] = current[c]
        BY <1>0, <2>6 DEF WakeUp, Goto, TasksOK
      <3>2. /\ Count(q, Grabs) + Count(w, Grants) = 0
            /\ Count(q, PreSleeps) + One(c \in sleeping) + Count(w, Noops) = 1
            /\ Count(w, Errors) = 0
        <4>1. One(pc[c] = "awaiting") = 0 /\ One(pc[c] = "asleep") = 1
          BY <3>1 DEF One
        <4> QED
          BY <1>4, <2>3, <4>1 DEF OneQuestion, q, w
      <3>3. p.type = "noop"
        <4>1. p.type # "error"
          BY SMTT(30), <2>0, <2>1, <3>2 DEF One
        <4>2. p.type \notin {"job_assign", "no_job"}
          <5>1. Count(w, Grants) = 0
            BY SMTT(30), <2>0, <3>2
          <5> QED
            BY SMTT(30), <2>0, <2>1, <5>1 DEF One
        <4> QED
          BY <2>2, <4>1, <4>2
      <3>5. OneQuestion(c)'
        <4>1. /\ One(p.type \in {"job_assign", "no_job"}) = 0 /\ One(p.type = "noop") = 1
              /\ One(p.type = "error") = 0
              /\ One(pc'[c] = "awaiting") = 0 /\ One(pc'[c] = "asleep") = 0
              /\ One(c \in sleeping') = One(c \in sleeping) /\ One(c \in sleeping) \in Nat
          BY <3>1, <3>3 DEF One, SameToServer
        <4>2. /\ Count(q, Grabs) + Count(Tail(w), Grants) = 0
              /\ Count(q, PreSleeps) + One(c \in sleeping) + Count(Tail(w), Noops) = 0
              /\ Count(Tail(w), Errors) = 0
          <5>1. /\ Count(q, PreSleeps) \in Nat /\ Count(Tail(w), Noops) \in Nat
                /\ Count(q, Grabs) \in Nat /\ Count(Tail(w), Grants) \in Nat /\ Count(Tail(w), Errors) \in Nat
            BY <2>0
          <5>2. /\ Count(w, Grants) = Count(Tail(w), Grants) + 0
                /\ Count(w, Noops) = Count(Tail(w), Noops) + 1
                /\ Count(w, Errors) = Count(Tail(w), Errors) + 0
            BY <2>1, <4>1
          <5>3. Count(q, Grabs) + Count(Tail(w), Grants) = 0 /\ Count(Tail(w), Errors) = 0
            BY <3>2, <5>1, <5>2
          <5> DEFINE asleep == One(c \in sleeping)
          <5>4. asleep \in Nat /\ Count(q, PreSleeps) + asleep + Count(w, Noops) = 1
            BY <3>2, <4>1
          <5> HIDE DEF asleep
          <5>5. Count(q, PreSleeps) + asleep + Count(Tail(w), Noops) = 0
            BY <5>1, <5>2, <5>4
          <5> QED
            BY <5>3, <5>5 DEF asleep
        <4> QED
          BY <1>1, <4>1, <4>2 DEF OneQuestion, q
      <3>4. ASSUME NEW j \in Jobs PROVE InOnePlace(c, j)'
        <4>1. One(p.type = "job_assign" /\ p.about = j) = 0
          BY <3>3 DEF One
        <4>2. One(current'[c] = j) = One(current[c] = j) /\ One(owner[j] = c) = One(owner'[j] = c)
          BY <3>1, OwnersAreJobs DEF One, SameToServer
        <4>3. InOnePlace(c, j) /\ Count(w, Assigns(j)) = Count(Tail(w), Assigns(j))
          BY <2>0, <2>1, <2>3, <4>1
        <4> QED
          BY <1>1, <1>4, <4>2, <4>3 DEF InOnePlace, q, w
      <3> QED
        BY <1>2, <2>4, <3>4, <3>5 DEF JobsOf
    <2> QED
      BY <2>5, <2>6
  <1> QED
    BY <1>3, <1>4

\* The server reads a packet of the connection, and answers it or not.
LEMMA ReadKeeps ==
    ASSUME TypeOK, NEW c \in Conns, LinkFollowsTask(c), JobsOf(c),
           ReadFunctions(c) \/ ReadGrab(c) \/ ReadPreSleep(c) \/ ReadWork(c)
    PROVE  JobsOf(c)'
  <1> DEFINE q == to_server[c]
             w == to_worker[c]
             p == Head(q)
             asleep == One(c \in sleeping)
             waits == One(pc[c] = "awaiting")
             sleeps == One(pc[c] = "asleep")
  <1>0. TasksOK /\ WiresOK /\ ServerOK
    BY DEF TypeOK
  <1>1. /\ link[c] \in {"up", "shut"} /\ q # <<>> /\ to_server'[c] = Tail(q)
        /\ link'[c] = link[c] /\ pc'[c] = pc[c] /\ current'[c] = current[c]
    BY <1>0 DEF ReadFunctions, ReadGrab, ReadPreSleep, ReadWork, Reads, WiresOK, task
  <1>2. Detached(c)'
    BY <1>1 DEF Detached, LinkFollowsTask
  <1>3. CASE link[c] # "up"
    BY <1>1, <1>2, <1>3, DownKeeps
  <1>4. CASE link[c] = "up"
    <2>0. /\ q \in Seq(ToServer) /\ w \in Seq(ToWorker) /\ Tail(q) \in Seq(ToServer)
          /\ \A S : Count(q, S) \in Nat /\ Count(w, S) \in Nat /\ Count(Tail(q), S) \in Nat
      BY <1>0, <1>1, CountsAreNat
    <2>12. p \in ToServer
      BY <1>1, <2>0
    <2>1. /\ Count(q, Grabs) = Count(Tail(q), Grabs) + One(p.type = "grab")
          /\ Count(q, PreSleeps) = Count(Tail(q), PreSleeps) + One(p.type = "pre_sleep")
          /\ \A j \in Jobs : Count(q, Results(j))
                              = Count(Tail(q), Results(j)) + One(p.type \in Terminal /\ p.about = j)
      BY <1>1, <2>0, ReadCounts
    <2>2. p.type \in Work => p.about \in Jobs
      BY <2>12 DEF ToServer, Work, Terminal
    <2>3. /\ ReportsFirst(Tail(q), OwnedBy(c))
          /\ p.type \in Terminal => ReportsFirst(Tail(q), OwnedBy(c) \ {p.about})
          /\ p.type = "work_data" => p.about \in OwnedBy(c)
      BY <1>1, <1>4, <2>0, ReportsTail, OwnersAreJobs DEF JobsOf, ReportsOwned
    <2> HIDE DEF q, w, p
    <2>4. /\ Count(q, Grabs) + Count(w, Grants) = waits
          /\ Count(q, PreSleeps) + asleep + Count(w, Noops) = sleeps
          /\ Count(w, Errors) = 0
      BY <1>4 DEF JobsOf, OneQuestion, q, w
    <2>5. \A j \in Jobs : InOnePlace(c, j)
      BY DEF JobsOf
    <2>6. /\ Count(q, Grabs) \in Nat /\ Count(Tail(q), Grabs) \in Nat
          /\ Count(q, PreSleeps) \in Nat /\ Count(Tail(q), PreSleeps) \in Nat
          /\ Count(w, Grants) \in Nat /\ Count(w, Noops) \in Nat
          /\ asleep \in {0, 1} /\ waits \in {0, 1} /\ sleeps \in {0, 1}
      BY <2>0 DEF One
    <2> HIDE DEF asleep, waits, sleeps
    \* The jobs the step is not about.
    <2>7. ASSUME NEW j \in Jobs, ~(p.type \in Terminal /\ p.about = j), owner'[j] = c <=> owner[j] = c,
                 Count(to_worker'[c], Assigns(j)) = Count(w, Assigns(j))
          PROVE  InOnePlace(c, j)'
      <3>1. Count(Tail(q), Results(j)) = Count(q, Results(j))
        <4>1. One(p.type \in Terminal /\ p.about = j) = 0
          BY <2>7 DEF One
        <4> QED
          BY <2>0, <2>1, <4>1
      <3>2. One(owner'[j] = c) = One(owner[j] = c)
        BY <2>7 DEF One
      <3> QED
        BY <1>1, <1>4, <2>5, <2>7, <3>1, <3>2 DEF InOnePlace, q, w
    <2>8. CASE ReadFunctions(c)
      <3>1. /\ p.type \in {"can_do", "cant_do"} /\ UNCHANGED <<to_worker, sleeping, owner>>
        BY <2>8 DEF ReadFunctions, Reads, p, q
      <3>2. One(p.type = "grab") = 0 /\ One(p.type = "pre_sleep") = 0 /\ p.type \notin Terminal
        BY <3>1 DEF One, Terminal
      <3>3. Count(Tail(q), Grabs) = Count(q, Grabs) /\ Count(Tail(q), PreSleeps) = Count(q, PreSleeps)
        BY <2>1, <2>6, <3>2
      <3>4. OneQuestion(c)'
        BY <1>1, <2>4, <3>1, <3>3 DEF OneQuestion, w, asleep, waits, sleeps
      <3>5. \A j \in Jobs : InOnePlace(c, j)'
        BY <2>7, <3>1, <3>2 DEF w
      <3>6. ReportsOwned(c)'
        BY <1>1, <2>3, <3>1 DEF ReportsOwned, OwnedBy
      <3> QED
        BY <1>2, <3>4, <3>5, <3>6 DEF JobsOf
    <2>9. CASE ReadGrab(c)
      <3>1. p.type = "grab" /\ sleeping' = sleeping \ {c}
        BY <2>9 DEF ReadGrab, Reads, p, q
      <3>2. One(p.type = "grab") = 1 /\ One(p.type = "pre_sleep") = 0 /\ p.type \notin Terminal
        BY <3>1 DEF One, Terminal
      <3>3. waits = 1 /\ Count(w, Grants) = 0 /\ Count(Tail(q), Grabs) = 0
        BY <2>1, <2>4, <2>6, <3>2
      <3>4. c \notin sleeping
        <4>1. pc[c] # "asleep"
          BY <3>3 DEF One, waits
        <4>2. sleeps = 0
          BY <4>1 DEF One, sleeps
        <4>3. asleep = 0
          BY <2>4, <2>6, <4>2
        <4> QED
          BY <4>3 DEF One, asleep
      <3>5. One(c \in sleeping') = asleep
        BY <3>1, <3>4 DEF One, asleep
      <3>6. Count(Tail(q), PreSleeps) = Count(q, PreSleeps)
        BY <2>1, <2>6, <3>2
      <3>7. ASSUME NEW a \in ToWorker, a.type \in {"job_assign", "no_job"}, to_worker'[c] = Append(w, a)
            PROVE  /\ OneQuestion(c)'
                   /\ \A j \in Jobs : Count(to_worker'[c], Assigns(j))
                                       = Count(w, Assigns(j)) + One(a.type = "job_assign" /\ a.about = j)
        <4>1. /\ Count(to_worker'[c], Grants) = Count(w, Grants) + One(a.type \in {"job_assign", "no_job"})
              /\ Count(to_worker'[c], Noops) = Count(w, Noops) + One(a.type = "noop")
              /\ Count(to_worker'[c], Errors) = Count(w, Errors) + One(a.type = "error")
              /\ \A j \in Jobs : Count(to_worker'[c], Assigns(j))
                                  = Count(w, Assigns(j)) + One(a.type = "job_assign" /\ a.about = j)
          BY <2>0, <3>7, ToldCounts
        <4>2. /\ One(a.type \in {"job_assign", "no_job"}) = 1
              /\ One(a.type = "noop") = 0 /\ One(a.type = "error") = 0
          BY <3>7 DEF One
        <4>3. /\ Count(to_worker'[c], Grants) = 1 /\ Count(to_worker'[c], Noops) = Count(w, Noops)
              /\ Count(to_worker'[c], Errors) = 0
          BY <2>4, <2>6, <3>3, <4>1, <4>2
        <4>4. Count(Tail(q), Grabs) + Count(to_worker'[c], Grants) = waits
          BY <3>3, <4>3
        <4>5. Count(Tail(q), PreSleeps) + One(c \in sleeping') + Count(to_worker'[c], Noops) = sleeps
          BY <2>4, <3>5, <3>6, <4>3
        <4> QED
          BY <1>1, <4>1, <4>3, <4>4, <4>5 DEF OneQuestion, waits, sleeps
      <3>8. CASE Queued(c) = {} /\ Replies(c, "no_job", NoJob) /\ UNCHANGED <<job, owner>>
        <4> DEFINE a == Packet("no_job", NoJob)
        <4>1. a \in ToWorker /\ a.type = "no_job" /\ to_worker'[c] = Append(w, a)
          BY <1>0, <1>4, <3>8, PacketsAreTyped DEF Replies, Packet, WiresOK, w
        <4> HIDE DEF a
        <4>2. OneQuestion(c)' /\ \A j \in Jobs : Count(to_worker'[c], Assigns(j))
                = Count(w, Assigns(j)) + One(a.type = "job_assign" /\ a.about = j)
          BY <3>7, <4>1
        <4>3. \A j \in Jobs : Count(to_worker'[c], Assigns(j)) = Count(w, Assigns(j))
          BY <2>0, <4>1, <4>2 DEF One
        <4>4. \A j \in Jobs : InOnePlace(c, j)'
          BY <2>7, <3>2, <3>8, <4>3
        <4>5. ReportsOwned(c)'
          BY <1>1, <2>3, <3>8 DEF ReportsOwned, OwnedBy
        <4> QED
          BY <1>2, <4>2, <4>4, <4>5 DEF JobsOf
      <3>9. ASSUME NEW k \in Queued(c), owner' = [owner EXCEPT ![k] = c], Replies(c, "job_assign", k)
            PROVE  JobsOf(c)'
        <4> DEFINE a == Packet("job_assign", k)
        <4>1. /\ a \in ToWorker /\ a.type = "job_assign" /\ a.about = k /\ to_worker'[c] = Append(w, a)
              /\ k \in Jobs
          BY <1>0, <1>4, <3>9, PacketsAreTyped DEF Replies, Packet, WiresOK, w, Queued
        <4> HIDE DEF a
        <4>2. /\ OneQuestion(c)'
              /\ \A j \in Jobs : Count(to_worker'[c], Assigns(j))
                                  = Count(w, Assigns(j)) + One(a.type = "job_assign" /\ a.about = j)
          BY <3>7, <4>1
        <4>3. /\ owner[k] # c /\ owner'[k] = c
              /\ \A j \in Jobs \ {k} : owner'[j] = owner[j]
          BY <1>0, <3>9, WorkerAssumption DEF ServerOK, Queued, Nobody
        <4>4. ASSUME NEW j \in Jobs \ {k} PROVE InOnePlace(c, j)'
          <5>1. One(a.type = "job_assign" /\ a.about = j) = 0
            BY <4>1 DEF One
          <5>2. Count(to_worker'[c], Assigns(j)) = Count(w, Assigns(j))
            BY <2>0, <4>2, <5>1
          <5> QED
            BY <2>7, <3>2, <4>3, <5>2
        <4>5. InOnePlace(c, k)'
          <5>1. /\ One(owner[k] = c) = 0 /\ One(owner'[k] = c) = 1
                /\ One(a.type = "job_assign" /\ a.about = k) = 1
                /\ One(p.type \in Terminal /\ p.about = k) = 0
                /\ One(current[c] = k) \in Nat
            BY <3>2, <4>1, <4>3 DEF One
          <5>2. Count(w, Assigns(k)) + One(current[c] = k) + Count(q, Results(k)) <= 0
            BY <1>4, <2>5, <4>1, <5>1 DEF InOnePlace, q, w
          <5>3. Count(w, Assigns(k)) = 0 /\ One(current[c] = k) = 0 /\ Count(q, Results(k)) = 0
            BY <2>0, <5>1, <5>2
          <5>4. Count(to_worker'[c], Assigns(k)) = 1 /\ Count(Tail(q), Results(k)) = 0
            BY <2>0, <2>1, <4>1, <4>2, <5>1, <5>3
          <5> QED
            BY <1>1, <5>1, <5>3, <5>4 DEF InOnePlace
        <4>6. ReportsOwned(c)'
          <5>1. OwnedBy(c) \subseteq OwnedBy(c)'
            BY <4>3 DEF OwnedBy
          <5>2. ReportsFirst(Tail(q), OwnedBy(c)')
            BY <2>3, <5>1 DEF ReportsFirst
          <5> QED
            BY <1>1, <5>2 DEF ReportsOwned
        <4> QED
          BY <1>2, <4>2, <4>4, <4>5, <4>6 DEF JobsOf
      <3> QED
        BY <2>9, <3>8, <3>9 DEF ReadGrab
    <2>10. CASE ReadPreSleep(c)
      <3>1. /\ p.type = "pre_sleep" /\ UNCHANGED owner
            /\ \/ sleeping' = sleeping \cup {c} /\ to_worker'[c] = w
               \/ sleeping' = sleeping /\ to_worker'[c] = Append(w, Packet("noop", NoJob))
        BY <1>0, <1>4, <2>10 DEF ReadPreSleep, Reads, Replies, WiresOK, p, q, w
      <3>2. One(p.type = "grab") = 0 /\ One(p.type = "pre_sleep") = 1 /\ p.type \notin Terminal
        BY <3>1 DEF One, Terminal
      <3>3. Count(Tail(q), Grabs) = Count(q, Grabs)
        BY <2>1, <2>6, <3>2
      <3>4. sleeps = 1 /\ Count(Tail(q), PreSleeps) = 0 /\ asleep = 0 /\ Count(w, Noops) = 0
        <4>1. Count(q, PreSleeps) = Count(Tail(q), PreSleeps) + 1
          BY <2>1, <3>2
        <4>2. Count(q, PreSleeps) + asleep + Count(w, Noops) = sleeps
          BY <2>4
        <4> QED
          BY <2>6, <4>1, <4>2
      <3>5. ReportsOwned(c)'
        BY <1>1, <2>3, <3>1 DEF ReportsOwned, OwnedBy
      <3>6. CASE sleeping' = sleeping \cup {c} /\ to_worker'[c] = w
        <4>1. One(c \in sleeping') = 1
          BY <3>6 DEF One
        <4>2. OneQuestion(c)'
          BY <1>1, <2>4, <3>3, <3>4, <3>6, <4>1 DEF OneQuestion, waits, sleeps
        <4>3. \A j \in Jobs : InOnePlace(c, j)'
          BY <2>7, <3>1, <3>2, <3>6
        <4> QED
          BY <1>2, <3>5, <4>2, <4>3 DEF JobsOf
      <3>7. CASE sleeping' = sleeping /\ to_worker'[c] = Append(w, Packet("noop", NoJob))
        <4> DEFINE a == Packet("noop", NoJob)
        <4>1. a \in ToWorker /\ a.type = "noop" /\ to_worker'[c] = Append(w, a)
          BY <3>7, PacketsAreTyped DEF Packet
        <4> HIDE DEF a
        <4>2. /\ Count(to_worker'[c], Grants) = Count(w, Grants) + One(a.type \in {"job_assign", "no_job"})
              /\ Count(to_worker'[c], Noops) = Count(w, Noops) + One(a.type = "noop")
              /\ Count(to_worker'[c], Errors) = Count(w, Errors) + One(a.type = "error")
              /\ \A j \in Jobs : Count(to_worker'[c], Assigns(j))
                                  = Count(w, Assigns(j)) + One(a.type = "job_assign" /\ a.about = j)
          BY <2>0, <4>1, ToldCounts
        <4>3. /\ One(a.type \in {"job_assign", "no_job"}) = 0
              /\ One(a.type = "noop") = 1 /\ One(a.type = "error") = 0
              /\ \A j \in Jobs : One(a.type = "job_assign" /\ a.about = j) = 0
              /\ One(c \in sleeping') = asleep
          BY <3>7, <4>1 DEF One, asleep
        <4>4. /\ Count(to_worker'[c], Grants) = Count(w, Grants) /\ Count(to_worker'[c], Noops) = 1
              /\ Count(to_worker'[c], Errors) = 0
          BY <2>4, <2>6, <3>4, <4>2, <4>3
        <4>5. OneQuestion(c)'
          BY <1>1, <2>4, <3>3, <3>4, <4>3, <4>4 DEF OneQuestion, waits, sleeps
        <4>6. \A j \in Jobs : Count(to_worker'[c], Assigns(j)) = Count(w, Assigns(j))
          BY <2>0, <4>2, <4>3
        <4>7. \A j \in Jobs : InOnePlace(c, j)'
          BY <2>7, <3>1, <3>2, <4>6
        <4> QED
          BY <1>2, <3>5, <4>5, <4>7 DEF JobsOf
      <3> QED
        BY <3>1, <3>6, <3>7
    <2>11. CASE ReadWork(c)
      <3>1. p.type \in Work /\ p.about \in Jobs /\ UNCHANGED sleeping
        BY <2>2, <2>11 DEF ReadWork, Reads, p, q
      <3>2. One(p.type = "grab") = 0 /\ One(p.type = "pre_sleep") = 0
        BY <3>1 DEF One, Work, Terminal
      <3>3. Count(Tail(q), Grabs) = Count(q, Grabs) /\ Count(Tail(q), PreSleeps) = Count(q, PreSleeps)
        BY <2>1, <2>6, <3>2
      <3>4. ASSUME p.type \in Terminal
            PROVE  /\ One(owner[p.about] = c) = 1 /\ Count(w, Assigns(p.about)) = 0
                   /\ One(current[c] = p.about) = 0 /\ Count(Tail(q), Results(p.about)) = 0
        <4>1. One(p.type \in Terminal /\ p.about = p.about) = 1
          BY <3>4 DEF One
        <4>2. /\ Count(w, Assigns(p.about)) \in Nat /\ Count(Tail(q), Results(p.about)) \in Nat
              /\ One(current[c] = p.about) \in Nat /\ One(owner[p.about] = c) \in {0, 1}
          BY <2>0 DEF One
        <4>3. Count(q, Results(p.about)) = Count(Tail(q), Results(p.about)) + 1
          BY <2>1, <3>1, <4>1
        <4>4. Count(w, Assigns(p.about)) + One(current[c] = p.about) + Count(q, Results(p.about))
              <= One(owner[p.about] = c)
          BY <1>4, <2>5, <3>1 DEF InOnePlace, q, w
        <4> QED
          BY <4>2, <4>3, <4>4
      <3>5. owner[p.about] = c
        <4>1. CASE p.type \in Terminal
          BY <3>4, <4>1 DEF One
        <4>2. CASE p.type = "work_data"
          BY <2>3, <4>2 DEF OwnedBy
        <4> QED
          BY <3>1, <4>1, <4>2 DEF Work
      <3>6. /\ to_worker' = to_worker
            /\ IF p.type \in Terminal THEN owner' = [owner EXCEPT ![p.about] = Nobody] ELSE UNCHANGED owner
        BY <2>11, <3>5 DEF ReadWork, p, q
      <3>7. OneQuestion(c)'
        BY <1>1, <2>4, <3>1, <3>3, <3>6 DEF OneQuestion, w, asleep, waits, sleeps
      <3>8. CASE p.type \in Terminal
        <4>1. owner'[p.about] # c /\ \A j \in Jobs \ {p.about} : owner'[j] = owner[j]
          BY <1>0, <3>1, <3>6, <3>8, WorkerAssumption DEF ServerOK, Nobody
        <4>2. \A j \in Jobs \ {p.about} : InOnePlace(c, j)'
          BY <2>7, <3>6, <4>1 DEF w
        <4>3. PICK k \in Jobs : k = p.about
          BY <3>1
        <4>5. InOnePlace(c, k)'
          <5>1. One(owner'[k] = c) = 0
            BY <4>1, <4>3 DEF One
          <5>2. /\ Count(to_worker'[c], Assigns(k)) = 0 /\ One(current'[c] = k) = 0
                /\ Count(to_server'[c], Results(k)) = 0
            BY <1>1, <3>4, <3>6, <3>8, <4>3 DEF w
          <5> QED
            BY <5>1, <5>2 DEF InOnePlace
        <4>4. ReportsOwned(c)'
          <5>1. OwnedBy(c)' = OwnedBy(c) \ {p.about}
            BY <4>1 DEF OwnedBy
          <5>2. ReportsFirst(Tail(q), OwnedBy(c)')
            BY <2>3, <3>8, <5>1
          <5> QED
            BY <1>1, <5>2 DEF ReportsOwned
        <4> QED
          BY <1>2, <3>7, <4>2, <4>3, <4>4, <4>5 DEF JobsOf
      <3>9. CASE p.type \notin Terminal
        <4>1. \A j \in Jobs : InOnePlace(c, j)'
          BY <2>7, <3>6, <3>9 DEF w
        <4>2. ReportsOwned(c)'
          BY <1>1, <2>3, <3>6, <3>9 DEF ReportsOwned, OwnedBy
        <4> QED
          BY <1>2, <3>7, <4>1, <4>2 DEF JobsOf
      <3> QED
        BY <3>8, <3>9
    <2> QED
      BY <2>8, <2>9, <2>10, <2>11
  <1> QED
    BY <1>1, <1>3, <1>4

\* A NOOP is sent to a connection that sleeps, which does not sleep any more.
LEMMA RouseKeeps ==
    ASSUME TypeOK, NEW c \in Conns, LinkFollowsTask(c), JobsOf(c),
           NEW F, NEW C \in SUBSET Conns, c \in C, Rouse(F, C),
           pc'[c] = pc[c], current'[c] = current[c], link'[c] = link[c], to_server'[c] = to_server[c],
           OwnedBy(c)' = OwnedBy(c)
    PROVE  JobsOf(c)'
  <1> DEFINE q == to_server[c]
             w == to_worker[c]
  <1>0. TasksOK /\ WiresOK
    BY DEF TypeOK
  <1>1. \/ /\ c \in sleeping /\ c \notin sleeping'
           /\ to_worker'[c] = Append(w, Packet("noop", NoJob))
        \/ (c \in sleeping' <=> c \in sleeping) /\ to_worker'[c] = w
    BY DEF Rouse
  <1>2. CASE (c \in sleeping' <=> c \in sleeping) /\ to_worker'[c] = w
    BY <1>2, SameKeeps DEF SameToServer
  <1>3. CASE /\ c \in sleeping /\ c \notin sleeping'
             /\ to_worker'[c] = Append(w, Packet("noop", NoJob))
    <2>1. Detached(c)'
      BY <1>3, OwnersAreJobs DEF JobsOf, Detached, LinkFollowsTask
    <2>2. CASE link[c] # "up"
      BY <2>1, <2>2, DownKeeps
    <2>3. CASE link[c] = "up"
      <3>0. /\ q \in Seq(ToServer) /\ w \in Seq(ToWorker)
            /\ \A S : Count(q, S) \in Nat /\ Count(w, S) \in Nat
        BY <1>0, CountsAreNat
      <3> DEFINE a == Packet("noop", NoJob)
      <3>1. a \in ToWorker /\ a.type = "noop" /\ to_worker'[c] = Append(w, a)
        BY <1>3, PacketsAreTyped DEF Packet
      <3> HIDE DEF a, q, w
      <3>2. /\ Count(to_worker'[c], Grants) = Count(w, Grants) + One(a.type \in {"job_assign", "no_job"})
            /\ Count(to_worker'[c], Noops) = Count(w, Noops) + One(a.type = "noop")
            /\ Count(to_worker'[c], Errors) = Count(w, Errors) + One(a.type = "error")
            /\ \A j \in Jobs : Count(to_worker'[c], Assigns(j))
                                = Count(w, Assigns(j)) + One(a.type = "job_assign" /\ a.about = j)
        BY ZenonT(30), <3>0, <3>1, ToldCounts
      <3>3. /\ One(a.type \in {"job_assign", "no_job"}) = 0
            /\ One(a.type = "noop") = 1 /\ One(a.type = "error") = 0
            /\ \A j \in Jobs : One(a.type = "job_assign" /\ a.about = j) = 0
            /\ One(c \in sleeping) = 1 /\ One(c \in sleeping') = 0
        BY <1>3, <3>1 DEF One
      <3>4. /\ Count(to_worker'[c], Grants) = Count(w, Grants)
            /\ Count(to_worker'[c], Noops) = Count(w, Noops) + 1
            /\ Count(to_worker'[c], Errors) = Count(w, Errors)
            /\ \A j \in Jobs : Count(to_worker'[c], Assigns(j)) = Count(w, Assigns(j))
        BY <3>0, <3>2, <3>3
      <3>5. OneQuestion(c)'
        <4>1. /\ Count(q, Grabs) + Count(w, Grants) = One(pc[c] = "awaiting")
              /\ Count(q, PreSleeps) + 1 + Count(w, Noops) = One(pc[c] = "asleep")
              /\ Count(w, Errors) = 0
          BY <2>3, <3>3 DEF JobsOf, OneQuestion, q, w
        <4>2. Count(q, PreSleeps) + 0 + (Count(w, Noops) + 1) = Count(q, PreSleeps) + 1 + Count(w, Noops)
          BY <3>0
        <4> QED
          BY <3>3, <3>4, <4>1, <4>2 DEF OneQuestion, q
      <3>6. ASSUME NEW j \in Jobs PROVE InOnePlace(c, j)'
        <4>1. InOnePlace(c, j) /\ One(owner'[j] = c) = One(owner[j] = c)
          BY OwnersAreJobs DEF JobsOf, One
        <4> QED
          BY <3>4, <4>1 DEF InOnePlace, w
      <3>7. ReportsOwned(c)'
        BY DEF JobsOf, ReportsOwned
      <3> QED
        BY <2>1, <3>5, <3>6, <3>7 DEF JobsOf
    <2> QED
      BY <2>2, <2>3
  <1> QED
    BY <1>1, <1>2, <1>3

\* The tasks of C end: their connections are gone, or closed.
LEMMA EndsKeeps ==
    ASSUME ~MayClone, TypeOK, NEW c \in Conns, LinkFollowsTask(c), JobsOf(c), NEW C \in SUBSET Conns, Ends(C),
           \A d \in C : pc[d] # "done", UNCHANGED <<to_server, sleeping, owner>>
    PROVE  JobsOf(c)'
  <1>0. TasksOK /\ WiresOK
    BY DEF TypeOK
  <1>1. OwnedBy(c)' = OwnedBy(c)
    BY DEF OwnedBy
  <1>2. CASE c \in C
    <2>1. /\ pc'[c] = "done"
          /\ link'[c] = IF link[c] = "up" THEN "shut" ELSE "down"
      BY <1>2 DEF Ends, TypeOK, ClonesOK
    <2>2. link[c] \in {"down", "up", "lost"}
      BY <1>0, <1>2 DEF WiresOK, LinkFollowsTask
    <2>3. Detached(c)'
      BY <2>1, <2>2, OwnersAreJobs DEF JobsOf, Detached
    <2> QED
      BY <2>1, <2>3, DownKeeps
  <1>3. CASE c \notin C
    <2>1. /\ pc'[c] = pc[c] /\ current'[c] = current[c] /\ link'[c] = link[c]
          /\ to_worker'[c] = to_worker[c]
      BY <1>3 DEF Ends
    <2> QED
      BY <1>1, <2>1, SameKeeps DEF SameToServer
  <1> QED
    BY <1>2, <1>3

LEMMA TaskKeeps ==
    ASSUME ~MayClone, TypeOK, NEW c \in Conns, LinkFollowsTask(c), JobsOf(c),
           Connecting(c) \/ Queue(c) \/ LosesConnection(c) \/ GrabLoop(c)
    PROVE  JobsOf(c)'
  <1>0. TasksOK /\ WiresOK /\ ServerOK
    BY DEF TypeOK
  <1>1. UNCHANGED <<sleeping, owner>>
    BY DEF Connecting, Start, ConnectFails, Connect, Backoff, Lock, Register, Discard, Queue,
           LosesConnection, GrabLoop, CheckShutdown, Flush, Grab, Receive, PreSleep, WakeUp,
           StopAsleep, Dispatch, Refuse, Report, Finish, Panic, CloneReporter, DropClones, server
  <1>2. OwnedBy(c)' = OwnedBy(c)
    BY <1>1 DEF OwnedBy
  <1>3. ASSUME UNCHANGED <<link, to_server, to_worker>>, current'[c] = current[c],
               pc'[c] = "awaiting" <=> pc[c] = "awaiting", pc'[c] = "asleep" <=> pc[c] = "asleep",
               pc'[c] \in Idle => pc[c] \in Idle
        PROVE  JobsOf(c)'
    BY <1>1, <1>2, <1>3, SameKeeps DEF SameToServer
  <1>4. CASE Start(c) \/ ConnectFails(c) \/ Backoff(c)
    <2>1. UNCHANGED <<link, to_server, to_worker>> /\ current'[c] = current[c]
      BY <1>4 DEF Start, ConnectFails, Backoff, wires
    <2>2. pc[c] \in Idle /\ pc'[c] \notin {"awaiting", "asleep"}
      BY <1>0, <1>4 DEF Start, ConnectFails, Backoff, Goto, TasksOK, Idle
    <2> QED
      BY <1>3, <2>1, <2>2 DEF Idle
  <1>5. CASE Queue(c) \/ Lock(c) \/ Discard(c) \/ Dispatch(c)
    <2>1. UNCHANGED <<link, to_server, to_worker>> /\ current'[c] = current[c]
      BY <1>5 DEF Queue, Lock, Discard, Dispatch, wires, task
    <2>2. pc[c] \notin {"awaiting", "asleep"} \cup Idle /\ pc'[c] \notin {"awaiting", "asleep"} \cup Idle
      BY <1>0, <1>5 DEF Queue, Lock, Discard, Dispatch, Goto, TasksOK, Idle, task
    <2> QED
      BY <1>3, <2>1, <2>2
  <1>6. CASE Connect(c)
    <2>1. /\ pc[c] = "connecting" /\ pc'[c] = "connected" /\ link'[c] = "up"
          /\ UNCHANGED <<current, to_server, to_worker>>
      BY <1>0, <1>6 DEF Connect, Goto, TasksOK, WiresOK
    <2>2. /\ to_server[c] = <<>> /\ to_worker[c] = <<>> /\ c \notin sleeping
          /\ \A j \in Jobs : owner[j] # c
      BY <2>1 DEF LinkFollowsTask, JobsOf, Detached
    <2>3. current[c] = NoJob
      BY <1>0, <2>1 DEF TasksOK
    <2>4. /\ \A S : Count(to_server'[c], S) = 0 /\ Count(to_worker'[c], S) = 0
          /\ One(pc'[c] = "awaiting") = 0 /\ One(pc'[c] = "asleep") = 0 /\ One(c \in sleeping') = 0
          /\ \A j \in Jobs : One(current'[c] = j) = 0 /\ One(owner'[j] = c) = 0
      BY <1>1, <2>1, <2>2, <2>3, CountEmpty, WorkerAssumption DEF One
    <2>5. OneQuestion(c)' /\ \A j \in Jobs : InOnePlace(c, j)'
      BY <2>4 DEF OneQuestion, InOnePlace
    <2>6. ReportsOwned(c)'
      BY <2>1, <2>2 DEF ReportsOwned, ReportsFirst
    <2>7. Detached(c)'
      BY <2>1 DEF Detached
    <2> QED
      BY <2>5, <2>6, <2>7 DEF JobsOf
  <1>7. CASE LosesConnection(c)
    <2>1. link[c] = "lost" /\ link'[c] = "down" /\ to_worker'[c] = <<>>
      BY <1>0, <1>7 DEF LosesConnection, WiresOK
    <2>2. Detached(c)'
      BY <1>1, <2>1 DEF JobsOf, Detached
    <2> QED
      BY <2>1, <2>2, DownKeeps
  <1>8. CASE CheckShutdown(c) \/ StopAsleep(c) \/ Panic(c)
    <2>1. pc[c] \in {"loop", "asleep", "running"} /\ UNCHANGED to_server
      BY <1>8 DEF CheckShutdown, StopAsleep, Panic
    <2>2. ASSUME Ends({c}) PROVE JobsOf(c)'
      BY <1>1, <2>1, <2>2, EndsKeeps
    <2>3. ASSUME CheckShutdown(c), worker = "running" PROVE JobsOf(c)'
      <3>1. /\ pc[c] = "loop" /\ pc'[c] = "flushing" /\ UNCHANGED <<current, link, to_worker>>
        BY <1>0, <2>3 DEF CheckShutdown, Goto, TasksOK
      <3> QED
        BY <1>3, <2>1, <3>1 DEF Idle
    <2> QED
      BY <1>8, <2>2, <2>3 DEF CheckShutdown, StopAsleep, Panic
  <1>9. CASE Receive(c) \/ WakeUp(c)
    BY <1>1, <1>2, <1>9, TakeKeeps DEF SameToServer, Receive, WakeUp
  \* The steps that send.
  <1>10. ASSUME NEW p \in ToServer, Sends(c, <<p>>), UNCHANGED <<link, to_worker>>,
                pc[c] \notin Idle \cup {"awaiting", "asleep"}, pc'[c] \notin Idle,
                pc'[c] = "awaiting" <=> p.type = "grab",
                pc'[c] = "asleep" <=> p.type = "pre_sleep",
                IF p.type \in Terminal THEN p.about = current[c] /\ current'[c] = NoJob
                                       ELSE current'[c] = current[c],
                p.type = "work_data" => p.about = current[c]
         PROVE  JobsOf(c)'
    BY <1>1, <1>2, <1>10, SendKeeps DEF SameToServer
  <1>11. CASE Register(c)
    <2>1. PICK f \in unsent[c] : Sends(c, <<Packet("can_do", {f})>>)
      BY <1>11 DEF Register
    <2> DEFINE p == Packet("can_do", {f})
    <2>2. p \in ToServer /\ p.type = "can_do"
      BY <1>0, PacketsAreTyped DEF Packet, TasksOK
    <2>3. /\ pc[c] = "registering" /\ pc'[c] \in {"registering", "discarding"}
          /\ UNCHANGED <<link, to_worker, current>>
      BY <1>0, <1>11 DEF Register, Goto, TasksOK
    <2> HIDE DEF p
    <2>4. p.type \notin Terminal
      BY <2>2 DEF Terminal
    <2> QED
      BY <1>10, <2>1, <2>2, <2>3, <2>4 DEF Idle, p
  <1>12. CASE Flush(c)
    <2>1. pc[c] = "flushing" /\ UNCHANGED <<link, to_worker, current>>
      BY <1>12 DEF Flush
    <2>2. CASE UNCHANGED to_server /\ pc'[c] \in {"flushing", "grabbing"}
      BY <1>3, <2>1, <2>2 DEF Idle
    <2>3. ASSUME seen[c] < Len(notices), Sends(c, <<Packet("cant_do", {notices[seen[c] + 1]})>>),
                 UNCHANGED pc
          PROVE  JobsOf(c)'
      <3> DEFINE p == Packet("cant_do", {notices[seen[c] + 1]})
      <3>1. notices[seen[c] + 1] \in Functions
        BY <2>3 DEF TypeOK, LockOK, ReceiversOK
      <3>2. p \in ToServer /\ p.type = "cant_do"
        BY <3>1, PacketsAreTyped DEF Packet
      <3> HIDE DEF p
      <3>3. p.type \notin Terminal
        BY <3>2 DEF Terminal
      <3> QED
        BY <1>10, <2>1, <2>3, <3>2, <3>3 DEF Idle, p
    <2>4. \/ UNCHANGED to_server /\ pc'[c] \in {"flushing", "grabbing"}
          \/ /\ seen[c] < Len(notices) /\ UNCHANGED pc
             /\ Sends(c, <<Packet("cant_do", {notices[seen[c] + 1]})>>)
      BY <1>0, <1>12 DEF Flush, Goto, TasksOK
    <2> QED
      BY <2>2, <2>3, <2>4
  <1>13. CASE Grab(c)
    <2> DEFINE p == Packet("grab", NoJob)
    <2>1. p \in ToServer /\ p.type = "grab" /\ p.type \notin Terminal
      BY PacketsAreTyped DEF Packet, Terminal
    <2>2. /\ pc[c] = "grabbing" /\ pc'[c] = "awaiting" /\ UNCHANGED <<link, to_worker, current>>
          /\ Sends(c, <<p>>)
      BY <1>0, <1>13 DEF Grab, Goto, TasksOK
    <2> HIDE DEF p
    <2> QED
      BY <1>10, <2>1, <2>2 DEF Idle
  <1>14. CASE PreSleep(c)
    <2> DEFINE p == Packet("pre_sleep", NoJob)
    <2>1. p \in ToServer /\ p.type = "pre_sleep" /\ p.type \notin Terminal
      BY PacketsAreTyped DEF Packet, Terminal
    <2>2. /\ pc[c] = "pre_sleep" /\ pc'[c] = "asleep" /\ UNCHANGED <<link, to_worker, current>>
          /\ Sends(c, <<p>>)
      BY <1>0, <1>14 DEF PreSleep, Goto, TasksOK
    <2> HIDE DEF p
    <2> QED
      BY <1>10, <2>1, <2>2 DEF Idle
  <1>15. ASSUME NEW type \in Terminal, Answers(c, type), pc[c] \in {"refusing", "running"},
                UNCHANGED <<link, to_worker>>
         PROVE  JobsOf(c)'
    <2> DEFINE p == Packet(type, current[c])
    <2>1. current[c] \in Jobs /\ current'[c] = NoJob /\ pc'[c] = "loop" /\ Sends(c, <<p>>)
      BY <1>0, <1>15 DEF Answers, Goto, TasksOK
    <2>2. p \in ToServer /\ p.type \in Terminal /\ p.about = current[c]
      BY <1>15, <2>1, PacketsAreTyped DEF Packet, Work
    <2> HIDE DEF p
    <2>3. p.type \notin {"grab", "pre_sleep", "work_data"}
      BY <2>2 DEF Terminal
    <2> QED
      BY <1>10, <1>15, <2>1, <2>2, <2>3 DEF Idle
  <1>16. CASE Refuse(c)
    BY <1>15, <1>16 DEF Refuse, Terminal
  <1>17. CASE Report(c)
    <2> DEFINE p == Packet("work_data", current[c])
    <2>1. /\ pc[c] = "running" /\ Sends(c, <<p>>)
      BY <1>17, ReportedJob DEF TypeOK, ClonesOK
    <2>2. /\ pc'[c] = pc[c] /\ current[c] \in Jobs /\ current'[c] = current[c]
          /\ UNCHANGED <<link, to_worker>>
      BY <1>0, <1>17, <2>1 DEF Report, TasksOK, task
    <2>3. p \in ToServer /\ p.type = "work_data" /\ p.about = current[c] /\ p.type \notin Terminal
      BY <2>2, PacketsAreTyped DEF Packet, Work, Terminal
    <2> HIDE DEF p
    <2> QED
      BY <1>10, <2>1, <2>2, <2>3 DEF Idle
  <1>18. CASE Finish(c)
    <2>1. CASE current[c] \notin Oversized
      BY <1>15, <1>18, <2>1 DEF Finish
    \* The result goes nowhere: the job is in no place any more.
    <2>2. CASE current[c] \in Oversized
      <3>1. /\ pc[c] = "running" /\ pc'[c] = "loop" /\ current'[c] = NoJob
            /\ UNCHANGED <<link, to_server, to_worker>>
        BY <1>0, <1>18, <2>2 DEF Finish, Goto, TasksOK
      <3>2. OneQuestion(c)'
        <4>1. One(pc'[c] = "awaiting") = One(pc[c] = "awaiting") /\ One(pc'[c] = "asleep") = One(pc[c] = "asleep")
          BY <3>1 DEF One
        <4> QED
          BY <1>1, <3>1, <4>1 DEF JobsOf, OneQuestion
      <3>3. ASSUME NEW j \in Jobs PROVE InOnePlace(c, j)'
        <4>1. InOnePlace(c, j)
          BY DEF JobsOf
        <4>2. CASE current[c] # j
          <5>1. One(current'[c] = j) = One(current[c] = j)
            BY <3>1, <4>2, WorkerAssumption DEF One
          <5> QED
            BY <1>1, <3>1, <4>1, <5>1 DEF InOnePlace
        <4>3. CASE current[c] = j
          <5>1. One(current'[c] = j) = 0 /\ One(current[c] = j) = 1 /\ j \in Oversized
            BY <2>2, <3>1, <4>3, WorkerAssumption DEF One
          <5>2. /\ Count(to_worker[c], Assigns(j)) \in Nat /\ Count(to_server[c], Results(j)) \in Nat
                /\ One(owner[j] = c) \in Nat
            BY <1>0, CountsAreNat DEF One
          <5>3. link[c] = "up" => Count(to_worker[c], Assigns(j)) + 1 + Count(to_server[c], Results(j))
                                  <= One(owner[j] = c)
            BY <4>1, <5>1 DEF InOnePlace
          <5>4. link[c] = "up" => Count(to_worker[c], Assigns(j)) + 0 + Count(to_server[c], Results(j))
                                  <= One(owner[j] = c)
            BY <5>2, <5>3
          <5> QED
            BY <1>1, <3>1, <5>1, <5>4 DEF InOnePlace
        <4> QED
          BY <4>2, <4>3
      <3>4. ReportsOwned(c)' /\ Detached(c)'
        BY <1>1, <1>2, <3>1 DEF JobsOf, ReportsOwned, Detached
      <3> QED
        BY <3>2, <3>3, <3>4 DEF JobsOf
    <2> QED
      BY <2>1, <2>2
  <1>19. ~CloneReporter(c) /\ ~DropClones(c)
    BY DEF CloneReporter, DropClones, TypeOK, ClonesOK
  <1> QED
    BY <1>4, <1>5, <1>6, <1>7, <1>8, <1>9, <1>11, <1>12, <1>13, <1>14, <1>16, <1>17, <1>18, <1>19
       DEF Connecting, GrabLoop

\* A step of one task leaves the others' jobs alone.
LEMMA OthersKeep ==
    ASSUME TypeOK, NEW c \in Conns, NEW d \in Conns \ {c}, JobsOf(d),
           Connecting(c) \/ Queue(c) \/ LosesConnection(c) \/ GrabLoop(c)
    PROVE  JobsOf(d)'
  <1>0. TasksOK /\ WiresOK /\ Still(d)
    BY OthersStill DEF TypeOK
  <1>1. UNCHANGED <<sleeping, owner>>
    BY DEF Connecting, Start, ConnectFails, Connect, Backoff, Lock, Register, Discard, Queue,
           LosesConnection, GrabLoop, CheckShutdown, Flush, Grab, Receive, PreSleep, WakeUp,
           StopAsleep, Dispatch, Refuse, Report, Finish, Panic, CloneReporter, DropClones, server
  <1>2. current'[d] = current[d] /\ to_worker'[d] = to_worker[d]
    <2>1. CASE Connecting(c) \/ Queue(c) \/ LosesConnection(c)
      BY <1>0, <2>1 DEF Connecting, Start, ConnectFails, Connect, Backoff, Lock, Register, Discard, Queue,
                        LosesConnection, WiresOK, task, wires
    <2>2. CASE CheckShutdown(c) \/ StopAsleep(c) \/ Panic(c)
      BY <1>0, <2>2 DEF CheckShutdown, StopAsleep, Panic, Ends
    <2>3. CASE Flush(c) \/ Grab(c) \/ Receive(c) \/ PreSleep(c) \/ WakeUp(c) \/ Dispatch(c)
      BY <1>0, <2>3 DEF Flush, Grab, Receive, PreSleep, WakeUp, Dispatch, TasksOK, WiresOK, task, wires
    <2>4. CASE Refuse(c) \/ Report(c) \/ Finish(c)
      BY <1>0, <2>4 DEF Refuse, Report, Finish, Answers, TasksOK, WiresOK, task, wires
    <2>5. CASE CloneReporter(c) \/ DropClones(c)
      BY <1>0, <2>5 DEF CloneReporter, DropClones, task, wires
    <2> QED
      BY <2>1, <2>2, <2>3, <2>4, <2>5 DEF GrabLoop
  <1>3. OwnedBy(d)' = OwnedBy(d)
    BY <1>1 DEF OwnedBy
  <1> QED
    BY <1>0, <1>1, <1>2, <1>3, SameKeeps DEF Still, SameToServer

\* The server's end of a connection is gone: what was assigned to it is not any
\* more, whatever its task is doing.
LEMMA RequeueKeeps ==
    ASSUME TypeOK, NEW c \in Conns, Requeue(c), link'[c] \in {"down", "lost"}, LinkFollowsTask(c),
           link[c] \in {"up", "shut"},
           \A d \in Conns \ {c} : link'[d] = link[d] /\ to_server'[d] = to_server[d],
           UNCHANGED <<pc, current>>, \A d \in Conns : LinkFollowsTask(d) /\ JobsOf(d)
    PROVE  \A d \in Conns : JobsOf(d)'
  <1>0. ServerOK
    BY DEF TypeOK
  <1>1. \A j \in Jobs : owner'[j] = IF owner[j] = c THEN Nobody ELSE owner[j]
    BY DEF Requeue
  <1>2. PICK F : Rouse(F, Conns \ {c})
    BY DEF Requeue
  <1>3. JobsOf(c)'
    <2>1. \A j \in Jobs : owner'[j] # c
      BY <1>1, WorkerAssumption DEF Nobody
    <2>2. c \notin sleeping'
      BY <1>2 DEF Rouse
    <2>3. pc'[c] \notin Idle
      BY DEF LinkFollowsTask, Idle
    <2>4. Detached(c)'
      BY <2>1, <2>2, <2>3 DEF Detached, Idle
    <2> QED
      BY <2>4, DownKeeps
  <1>4. ASSUME NEW d \in Conns \ {c} PROVE JobsOf(d)'
    <2>1. OwnedBy(d)' = OwnedBy(d)
      BY <1>1, WorkerAssumption DEF OwnedBy, Nobody
    <2> QED
      BY <1>2, <2>1, RouseKeeps
  <1> QED
    BY <1>3, <1>4

LEMMA ServerKeeps ==
    ASSUME TypeOK, \A d \in Conns : LinkFollowsTask(d) /\ JobsOf(d),
           NEW c \in Conns, ServerReads(c) \/ Break(c)
    PROVE  \A d \in Conns : JobsOf(d)'
  <1>0. TasksOK /\ WiresOK /\ ServerOK
    BY DEF TypeOK
  <1>1. CASE ReadFunctions(c) \/ ReadGrab(c) \/ ReadPreSleep(c) \/ ReadWork(c)
    <2>1. JobsOf(c)'
      BY <1>1, ReadKeeps
    <2>2. ASSUME NEW d \in Conns \ {c} PROVE JobsOf(d)'
      <3>1. /\ pc'[d] = pc[d] /\ current'[d] = current[d] /\ link'[d] = link[d]
            /\ to_server'[d] = to_server[d] /\ to_worker'[d] = to_worker[d]
            /\ d \in sleeping' <=> d \in sleeping
        BY <1>0, <1>1 DEF ReadFunctions, ReadGrab, ReadPreSleep, ReadWork, Reads, Replies, WiresOK, task
      <3>2. OwnedBy(d)' = OwnedBy(d)
        <4>1. CASE UNCHANGED owner
          BY <4>1 DEF OwnedBy
        <4>2. ASSUME NEW j \in Queued(c), owner' = [owner EXCEPT ![j] = c] PROVE OwnedBy(d)' = OwnedBy(d)
          <5>1. j \in Jobs /\ owner[j] = Nobody
            BY <1>0 DEF Queued, ServerOK
          <5> QED
            BY <1>0, <4>2, <5>1, WorkerAssumption DEF OwnedBy, ServerOK, Nobody
        <4>3. ASSUME NEW j, owner[j] = c, owner' = [owner EXCEPT ![j] = Nobody]
              PROVE  OwnedBy(d)' = OwnedBy(d)
          BY <1>0, <4>3, WorkerAssumption DEF OwnedBy, ServerOK, Nobody
        <4> QED
          BY <1>1, <4>1, <4>2, <4>3 DEF ReadFunctions, ReadGrab, ReadPreSleep, ReadWork
      <3> QED
        BY <3>1, <3>2, SameKeeps DEF SameToServer
    <2> QED
      BY <2>1, <2>2
  <1>2. CASE Hangup(c)
    <2>1. /\ link[c] = "shut" /\ link'[c] = "down" /\ Requeue(c) /\ UNCHANGED <<pc, current>>
          /\ \A d \in Conns \ {c} : link'[d] = link[d] /\ to_server'[d] = to_server[d]
      BY <1>0, <1>2 DEF Hangup, WiresOK, task
    <2> QED
      BY <2>1, RequeueKeeps
  <1>3. CASE Break(c)
    <2>1. /\ link[c] = "up" /\ link'[c] = "lost" /\ Requeue(c) /\ UNCHANGED <<pc, current>>
          /\ \A d \in Conns \ {c} : link'[d] = link[d] /\ to_server'[d] = to_server[d]
      BY <1>0, <1>3 DEF Break, WiresOK, task
    <2> QED
      BY <2>1, RequeueKeeps
  <1> QED
    BY <1>1, <1>2, <1>3 DEF ServerReads

LEMMA JobInvStep ==
    ASSUME Timed = {}, ~MayClone, TypeOK, RegistryInv, JobInv, [Next]_vars
    PROVE  JobInv'
  <1>0. \A c \in Conns : LinkFollowsTask(c) /\ JobsOf(c)
    BY DEF RegistryInv, TellsTheServer, JobInv
  <1>1. ASSUME UNCHANGED <<task, wires, sleeping, owner>> PROVE JobInv'
    <2>1. \A c \in Conns : OwnedBy(c)' = OwnedBy(c)
      BY <1>1 DEF OwnedBy
    <2> QED
      BY <1>0, <1>1, <2>1, SameKeeps DEF SameToServer, JobInv, task, wires
  <1>2. CASE UNCHANGED vars
    BY <1>1, <1>2 DEF vars, server
  <1>3. CASE Calls
    <2>1. CASE Drop
      <3>1. UNCHANGED <<to_server, sleeping, owner>> /\ Ends({c \in Conns : pc[c] # "done"})
        BY <2>1 DEF Drop, server
      <3> QED
        BY <1>0, <3>1, EndsKeeps DEF JobInv
    <2>2. CASE Shutdown \/ \E f \in Functions : Unregister(f) \/ Remove(f) \/ Broadcast(f) \/ GiveUp(f)
      BY <1>1, <2>2 DEF Shutdown, Unregister, Remove, Broadcast, GiveUp, server
    <2> QED
      BY <1>3, <2>1, <2>2 DEF Calls
  <1>4. ASSUME NEW c \in Conns, Connecting(c) \/ Queue(c) \/ LosesConnection(c) \/ GrabLoop(c)
        PROVE  JobInv'
    BY <1>0, <1>4, TaskKeeps, OthersKeep DEF JobInv
  <1>5. ASSUME NEW c \in Conns, ServerReads(c) \/ Break(c) PROVE JobInv'
    BY <1>0, <1>5, ServerKeeps DEF JobInv
  <1>6. ASSUME NEW j \in Jobs, Submit(j) PROVE JobInv'
    <2>1. Rouse({FunctionOf[j]}, Conns) /\ UNCHANGED <<pc, current, link, to_server, owner>>
      BY <1>6 DEF Submit, task
    <2>2. \A c \in Conns : OwnedBy(c)' = OwnedBy(c)
      BY <2>1 DEF OwnedBy
    <2> QED
      BY <1>0, <2>1, <2>2, RouseKeeps DEF JobInv
  <1>7. \A j \in Jobs : ~TimeOut(j)
    BY DEF TimeOut
  <1> QED
    BY <1>2, <1>3, <1>4, <1>5, <1>6, <1>7 DEF Next

-----------------------------------------------------------------------------
\* The inductive invariant of the jobs: one question at a time is under way on a
\* connection, what is assigned to it is in one place there, and the server is
\* sent nothing about a job that is not.
THEOREM JobInvariant ==
    ASSUME Timed = {}, ~MayClone
    PROVE  Spec => [](TypeOK /\ RegistryInv /\ JobInv)
  <1>1. Init => JobInv
    <2> SUFFICES ASSUME Init, NEW c \in Conns PROVE JobsOf(c)
      BY DEF JobInv
    <2>1. /\ link[c] = "down" /\ to_worker[c] = <<>> /\ c \notin sleeping
          /\ \A j \in Jobs : owner[j] # c
      BY WorkerAssumption DEF Init, Nobody
    <2> QED
      BY <2>1 DEF JobsOf, OneQuestion, InOnePlace, ReportsOwned, Detached
  <1>2. TypeOK /\ RegistryInv /\ JobInv /\ [Next]_vars => JobInv'
    BY JobInvStep
  <1> QED
    BY <1>1, <1>2, RegistryInvariant, PTL DEF Spec

\* A task never takes a packet for the answer to a GRAB_JOB that is none: one
\* GRAB_JOB is outstanding while its answer is awaited, none otherwise
\* (run_grab_loop, WorkerBuilder::concurrency). For any number of connections,
\* jobs and packets under way, and any breaks, reconnects and panics, as long as
\* no function has a timeout and no handler leaves a clone of its Reporter behind.
THEOREM GrabsOneAtATime ==
    ASSUME Timed = {}, ~MayClone
    PROVE  Spec => []OneGrabOutstanding
  <1>1. TypeOK /\ JobInv => OneGrabOutstanding
    <2> SUFFICES ASSUME TypeOK, JobInv, NEW c \in Conns, link[c] = "up"
                 PROVE  Cardinality(Places(to_server[c], {"grab"}))
                        + Cardinality(Places(to_worker[c], {"job_assign", "no_job"}))
                        = IF pc[c] = "awaiting" THEN 1 ELSE 0
      BY DEF OneGrabOutstanding
    <2>1. to_server[c] \in Seq(ToServer) /\ to_worker[c] \in Seq(ToWorker)
      BY DEF TypeOK, WiresOK
    <2>2. /\ Places(to_server[c], {"grab"}) = {i \in DOMAIN to_server[c] : to_server[c][i] \in Grabs}
          /\ Places(to_worker[c], {"job_assign", "no_job"})
                = {i \in DOMAIN to_worker[c] : to_worker[c][i] \in Grants}
      BY <2>1 DEF Places, Grabs, Grants
    <2>3. Count(to_server[c], Grabs) + Count(to_worker[c], Grants) = One(pc[c] = "awaiting")
      BY DEF JobInv, JobsOf, OneQuestion
    <2> QED
      BY <2>2, <2>3 DEF Count, One
  <1> QED
    BY <1>1, JobInvariant, PTL

\* No job is forgotten or done twice on a live connection: what the server has
\* assigned is on its way to the task, in its hands, or answered, in exactly one
\* of them, and nothing else is (dispatch_job). Under the same hypotheses, and
\* if every result can be encoded: send_work_complete drops one that cannot.
THEOREM AssignedJobsAreInHand ==
    ASSUME Timed = {}, ~MayClone, Oversized = {}
    PROVE  Spec => []AssignedIsInHand
  <1>1. TypeOK /\ JobInv => AssignedIsInHand
    <2> SUFFICES ASSUME TypeOK, JobInv, NEW c \in Conns, NEW j \in Jobs, link[c] = "up"
                 PROVE  Cardinality({i \in Places(to_worker[c], {"job_assign"}) : to_worker[c][i].about = j})
                        + Cardinality({k \in {0} : current[c] = j})
                        + Cardinality({i \in Places(to_server[c], Terminal) : to_server[c][i].about = j})
                        = IF owner[j] = c THEN 1 ELSE 0
      BY DEF AssignedIsInHand
    <2>1. to_server[c] \in Seq(ToServer) /\ to_worker[c] \in Seq(ToWorker)
      BY DEF TypeOK, WiresOK
    <2>2. /\ {i \in Places(to_worker[c], {"job_assign"}) : to_worker[c][i].about = j}
                = {i \in DOMAIN to_worker[c] : to_worker[c][i] \in Assigns(j)}
          /\ {i \in Places(to_server[c], Terminal) : to_server[c][i].about = j}
                = {i \in DOMAIN to_server[c] : to_server[c][i] \in Results(j)}
      BY <2>1 DEF Places, Assigns, Results
    <2>3. Cardinality({k \in {0} : current[c] = j}) = One(current[c] = j)
      <3>1. CASE current[c] = j
        <4>1. {k \in {0} : current[c] = j} = {0}
          BY <3>1
        <4> QED
          BY <3>1, <4>1, FS_Singleton DEF One
      <3>2. CASE current[c] # j
        <4>1. {k \in {0} : current[c] = j} = {}
          BY <3>2
        <4> QED
          BY <3>2, <4>1, FS_EmptySet DEF One
      <3> QED
        BY <3>1, <3>2
    <2>4. Count(to_worker[c], Assigns(j)) + One(current[c] = j) + Count(to_server[c], Results(j))
            = One(owner[j] = c)
      BY DEF JobInv, JobsOf, InOnePlace
    <2> QED
      BY <2>2, <2>3, <2>4, Zenon DEF Count, One
  <1> QED
    BY <1>1, JobInvariant, PTL

\* shutdown abandons no job (Worker::shutdown): a task that ends because of it has
\* answered every job the server assigned to its connection, however many breaks,
\* sleeps and calls of unregister came before, unless its handler panicked. Under
\* the same hypotheses: a result that cannot be encoded leaves its job unanswered.
THEOREM ShutdownAnswersEveryJob ==
    ASSUME Timed = {}, ~MayClone, Oversized = {}
    PROVE  Spec => ShutdownAbandonsNoJob
  <1> DEFINE Leaves(c) == /\ worker' = "stopping" /\ link[c] = "up"
                          /\ pc[c] # "done" /\ pc'[c] = "done" /\ ~Panic(c)
             Answered(c, j) == \E i \in Places(to_server[c], Terminal) : to_server[c][i].about = j
             AbandonsNone == \A c \in Conns :
                               Leaves(c) => \A j \in Jobs : owner[j] = c => Answered(c, j)
  \* A task ends between two jobs, before it has sent another GRAB_JOB.
  <1>1. ASSUME TypeOK, RegistryInv, [Next]_vars, NEW c \in Conns, Leaves(c)
        PROVE  pc[c] \in {"loop", "asleep"}
    <2>1. TasksOK /\ LinkFollowsTask(c) /\ pc[c] \notin {"start", "connecting", "backoff"}
      BY <1>1 DEF TypeOK, RegistryInv, TellsTheServer, LinkFollowsTask
    <2>2. ASSUME NEW d \in Conns, Connecting(d) \/ Queue(d) \/ LosesConnection(d) \/ GrabLoop(d)
          PROVE  pc[c] \in {"loop", "asleep"}
      <3>1. d = c
        BY <1>1, <2>2, OthersStill DEF Still
      <3>2. ASSUME Connecting(c) \/ Queue(c) \/ LosesConnection(c) PROVE FALSE
        BY <1>1, <2>1, <3>2 DEF Connecting, Start, ConnectFails, Connect, Backoff, Lock, Register,
           Discard, Queue, LosesConnection, Goto, TasksOK, task
      <3>3. CASE CheckShutdown(c) \/ StopAsleep(c)
        BY <3>3 DEF CheckShutdown, StopAsleep
      <3>4. ASSUME Flush(c) \/ Grab(c) \/ Receive(c) \/ PreSleep(c) \/ WakeUp(c) \/ Dispatch(c)
                   \/ Refuse(c) \/ Finish(c)
            PROVE  FALSE
        BY ZenonT(30), <1>1, <2>1, <3>4 DEF Flush, Grab, Receive, PreSleep, WakeUp, Dispatch, Refuse,
           Finish, Answers, Goto, TasksOK
      <3>5. ASSUME Report(c) \/ CloneReporter(c) \/ DropClones(c) PROVE FALSE
        BY <1>1, <3>5 DEF Report, CloneReporter, DropClones, task
      <3> QED
        BY <1>1, <2>2, <3>1, <3>2, <3>3, <3>4, <3>5 DEF GrabLoop
    <2>3. ~Drop
      BY <1>1 DEF Drop
    <2>4. ~UNCHANGED <<task, kept>>
      BY <1>1 DEF task
    <2>5. Next
      BY <1>1, <2>4 DEF vars
    <2> QED
      BY <2>2, <2>3, <2>4, <2>5, TasksAreKept
  \* There it has none in hand and none is on its way: it was answered.
  <1>2. ASSUME TypeOK, JobInv, NEW c \in Conns, link[c] = "up", pc[c] \in {"loop", "asleep"},
               NEW j \in Jobs, owner[j] = c
        PROVE  Answered(c, j)
    <2>1. /\ to_server[c] \in Seq(ToServer) /\ to_worker[c] \in Seq(ToWorker)
          /\ current[c] = NoJob
      BY <1>2 DEF TypeOK, WiresOK, TasksOK
    <2>2. /\ Count(to_server[c], Grabs) \in Nat /\ Count(to_worker[c], Grants) \in Nat
          /\ Count(to_worker[c], Assigns(j)) \in Nat /\ Count(to_server[c], Results(j)) \in Nat
      BY <2>1, CountFinite
    <2>3. Count(to_worker[c], Grants) = 0
      <3>1. Count(to_server[c], Grabs) + Count(to_worker[c], Grants) = 0
        BY <1>2 DEF JobInv, JobsOf, OneQuestion, One
      <3> QED
        BY <2>2, <3>1
    <2>4. Count(to_worker[c], Assigns(j)) = 0
      <3>1. \A i \in DOMAIN to_worker[c] : to_worker[c][i] \notin Grants
        BY <2>1, <2>3, CountFinite
      <3>2. Assigns(j) \subseteq Grants
        BY DEF Assigns, Grants
      <3> QED
        BY <2>1, <3>1, <3>2, CountFinite
    <2>5. Count(to_worker[c], Assigns(j)) + One(current[c] = j) + Count(to_server[c], Results(j)) = 1
      BY <1>2 DEF JobInv, JobsOf, InOnePlace, One
    <2>6. Count(to_server[c], Results(j)) # 0
      BY <2>1, <2>2, <2>4, <2>5, WorkerAssumption DEF One
    <2>7. PICK i \in DOMAIN to_server[c] : to_server[c][i] \in Results(j)
      BY <2>1, <2>6, CountFinite
    <2> QED
      BY <2>7 DEF Places, Results
  <1>3. TypeOK /\ RegistryInv /\ JobInv /\ [Next]_vars => [AbandonsNone]_vars
    BY <1>1, <1>2
  <1> QED
    BY <1>3, JobInvariant, PTL DEF Spec, ShutdownAbandonsNoJob

=============================================================================
