-------------------------- MODULE JobStreamsProofs --------------------------
(***************************************************************************)
(* The abstract promise implies what a user of a JobEventStream relies on: *)
(* no event of the job is missed, doubled, made up or out of order, and    *)
(* none follows the terminal one.                                          *)
(***************************************************************************)
EXTENDS JobStreams, TLAPS

Outcomes == Answers \cup Refusals \cup Losses \cup {None}

TypeInv ==
    /\ caller \in [Requests -> {"idle", "waiting", "done", "cancelled"}]
    /\ outcome \in [Requests -> Outcomes]
    /\ answer \in [Requests -> Answers \cup {None}]
    /\ since \in [Requests -> Nat]
    /\ log \in [Handles -> Seq(Events)]
    /\ delivered \in [Requests -> Seq([handle : Handles \cup {NoHandle}, n : Nat])]

\* Only a call that returned a job's handle has had events, and neither the
\* answer nor what the call returned changes afterwards.
ReturnedFirst ==
    /\ \A r \in Requests : delivered[r] # <<>> => caller[r] = "done"
    /\ \A r \in Requests : outcome[r].result = "job_created" => outcome[r] = answer[r]
    /\ \A r \in Requests : delivered[r] # <<>> => outcome[r].result = "job_created"

StreamInv == TypeInv /\ ReturnedFirst /\ YieldsItsJob

-----------------------------------------------------------------------------
LEMMA NoneIsNoAnswer ==
    /\ None.result # "job_created"
    /\ \A o \in Refusals \cup Losses : o.result # "job_created"
  BY DEF None, Outcome, Refusals, Losses

LEMMA TypeInit == Init => StreamInv
  BY NoneIsNoAnswer DEF Init, StreamInv, TypeInv, ReturnedFirst, YieldsItsJob, Outcomes

LEMMA TypeStep == TypeInv /\ Next => TypeInv'
  <1> SUFFICES ASSUME TypeInv, Next PROVE TypeInv'
    OBVIOUS
  <1> USE DEF TypeInv
  <1>1. ASSUME NEW r \in Requests, Call(r) PROVE TypeInv'
    BY <1>1 DEF Call
  <1>2. ASSUME NEW r \in Requests, Refuse(r) PROVE TypeInv'
    BY <1>2 DEF Refuse, Outcomes
  <1>3. ASSUME NEW r \in Requests, Cancel(r) \/ DropStream(r) PROVE TypeInv'
    BY <1>3 DEF Cancel, DropStream
  <1>4. ASSUME NEW r \in Requests, Answer(r) PROVE TypeInv'
    <2>1. PICK o \in Answers : /\ answer' = [answer EXCEPT ![r] = o]
                               /\ \/ since' = since
                                  \/ /\ o.handle \in Handles
                                     /\ since' = [since EXCEPT ![r] = Len(log[o.handle])]
      BY <1>4 DEF Answer
    <2>2. since' \in [Requests -> Nat]
      <3>1. ASSUME o.handle \in Handles PROVE Len(log[o.handle]) \in Nat
        BY <3>1
      <3> QED
        BY <2>1, <3>1
    <2> QED
      BY <1>4, <2>1, <2>2 DEF Answer
  <1>5. ASSUME NEW r \in Requests, Return(r) PROVE TypeInv'
    BY <1>5 DEF Return, Outcomes
  <1>6. ASSUME NEW h \in Handles, Emit(h) PROVE TypeInv'
    <2>1. PICK e \in Events : log' = [log EXCEPT ![h] = Append(@, e)]
      BY <1>6 DEF Emit
    <2>2. Append(log[h], e) \in Seq(Events)
      OBVIOUS
    <2> QED
      BY <1>6, <2>1, <2>2 DEF Emit
  <1>7. ASSUME NEW r \in Requests, Deliver(r) PROVE TypeInv'
    <2> DEFINE h == outcome[r].handle
               n == since[r] + Len(delivered[r]) + 1
               event == [handle |-> h, n |-> n]
    <2>1. delivered' = [delivered EXCEPT ![r] = Append(@, event)]
          /\ UNCHANGED <<caller, outcome, answer, since, log>>
      BY <1>7 DEF Deliver
    <2>2. h \in Handles \cup {NoHandle}
      BY DEF Outcomes, Answers, Refusals, Losses, None, Outcome
    <2>3. n \in Nat
      OBVIOUS
    <2> HIDE DEF h, n
    <2>4. Append(delivered[r], event) \in Seq([handle : Handles \cup {NoHandle}, n : Nat])
      <3>1. event \in [handle : Handles \cup {NoHandle}, n : Nat]
        BY <2>2, <2>3
      <3>2. delivered[r] \in Seq([handle : Handles \cup {NoHandle}, n : Nat])
        OBVIOUS
      <3> HIDE DEF event, TypeInv
      <3> QED
        BY <3>1, <3>2
    <2> QED
      BY <2>1, <2>4
  <1>8. CASE Lose
    <2>1. PICK told \in SUBSET {r \in Requests : caller[r] = "waiting"} :
            /\ caller' = [r \in Requests |-> IF r \in told THEN "done" ELSE caller[r]]
            /\ \E loss \in [told -> Losses] :
                 outcome' = [r \in Requests |-> IF r \in told THEN loss[r] ELSE outcome[r]]
      BY <1>8 DEF Lose
    <2>2. PICK loss \in [told -> Losses] :
            outcome' = [r \in Requests |-> IF r \in told THEN loss[r] ELSE outcome[r]]
      BY <2>1
    <2>3. outcome' \in [Requests -> Outcomes]
      BY <2>2 DEF Outcomes
    <2> QED
      BY <1>8, <2>1, <2>3 DEF Lose
  <1> QED
    BY <1>1, <1>2, <1>3, <1>4, <1>5, <1>6, <1>7, <1>8 DEF Next

LEMMA ReturnedFirstStep == TypeInv /\ ReturnedFirst /\ Next => ReturnedFirst'
  <1> SUFFICES ASSUME TypeInv, ReturnedFirst, Next PROVE ReturnedFirst'
    OBVIOUS
  <1> USE DEF TypeInv, ReturnedFirst
  <1>1. ASSUME NEW r \in Requests, Call(r) \/ Cancel(r) \/ DropStream(r) PROVE ReturnedFirst'
    BY <1>1 DEF Call, Cancel, DropStream
  <1>2. ASSUME NEW r \in Requests, Refuse(r) PROVE ReturnedFirst'
    BY <1>2, NoneIsNoAnswer DEF Refuse
  <1>3. ASSUME NEW r \in Requests, Answer(r) PROVE ReturnedFirst'
    BY <1>3, NoneIsNoAnswer DEF Answer
  <1>4. ASSUME NEW r \in Requests, Return(r) PROVE ReturnedFirst'
    BY <1>4 DEF Return
  <1>5. ASSUME NEW h \in Handles, Emit(h) PROVE ReturnedFirst'
    BY <1>5 DEF Emit
  <1>6. ASSUME NEW r \in Requests, Deliver(r) PROVE ReturnedFirst'
    BY <1>6 DEF Deliver
  <1>7. CASE Lose
    <2>1. PICK told \in SUBSET {r \in Requests : caller[r] = "waiting"} :
            /\ caller' = [r \in Requests |-> IF r \in told THEN "done" ELSE caller[r]]
            /\ \E loss \in [told -> Losses] :
                 outcome' = [r \in Requests |-> IF r \in told THEN loss[r] ELSE outcome[r]]
      BY <1>7 DEF Lose
    <2>2. UNCHANGED <<answer, delivered>>
      BY <1>7 DEF Lose
    <2>3. ASSUME NEW r \in Requests
          PROVE  \/ outcome'[r] = outcome[r] /\ caller'[r] = caller[r]
                 \/ caller[r] = "waiting" /\ outcome'[r].result # "job_created"
      BY <2>1, NoneIsNoAnswer
    <2>4. ASSUME NEW r \in Requests PROVE caller'[r] \in {"done", caller[r]}
      BY <2>1
    <2> QED
      BY <2>2, <2>3, <2>4
  <1> QED
    BY <1>1, <1>2, <1>3, <1>4, <1>5, <1>6, <1>7 DEF Next

LEMMA YieldsItsJobStep == StreamInv /\ Next => YieldsItsJob'
  <1> SUFFICES ASSUME StreamInv, Next PROVE YieldsItsJob'
    OBVIOUS
  <1> USE DEF YieldsItsJob
  <1>0. TypeInv /\ ReturnedFirst /\ YieldsItsJob
    BY DEF StreamInv
  <1>1. CASE UNCHANGED <<delivered, answer, since, log>> /\ listening' \subseteq listening
    BY <1>0, <1>1
  <1>2. ASSUME NEW r \in Requests, Call(r) PROVE YieldsItsJob'
    <2>1. delivered[r] = <<>>
      BY <1>0, <1>2 DEF Call, ReturnedFirst
    <2>2. /\ UNCHANGED <<delivered, answer, since, log>>
          /\ \A q \in Requests \ {r} : q \in listening' => q \in listening
      BY <1>2 DEF Call
    <2> QED
      BY <1>0, <2>1, <2>2
  <1>3. ASSUME NEW r \in Requests, Answer(r) PROVE YieldsItsJob'
    <2>1. delivered[r] = <<>>
      BY <1>0, <1>3, NoneIsNoAnswer DEF Answer, ReturnedFirst
    <2>2. \A q \in Requests \ {r} : answer'[q] = answer[q] /\ since'[q] = since[q]
      BY <1>0, <1>3 DEF Answer, TypeInv
    <2>3. UNCHANGED <<delivered, log, listening>>
      BY <1>3 DEF Answer
    <2> QED
      BY <1>0, <2>1, <2>2, <2>3
  <1>4. ASSUME NEW h \in Handles, Emit(h) PROVE YieldsItsJob'
    <2>1. /\ \E e \in Events : log' = [log EXCEPT ![h] = Append(@, e)]
          /\ UNCHANGED <<delivered, answer, since, listening>>
      BY <1>4 DEF Emit
    <2>2. log \in [Handles -> Seq(Events)]
      BY <1>0 DEF TypeInv
    <2>3. ASSUME NEW g \in Handles, NEW n \in DOMAIN log[g]
          PROVE  n \in DOMAIN log'[g] /\ log'[g][n] = log[g][n]
      BY <2>1, <2>2
    <2> QED
      BY <1>0, <2>1, <2>3
  <1>5. ASSUME NEW r \in Requests, Deliver(r) PROVE YieldsItsJob'
    <2> DEFINE h == answer[r].handle
               n == since[r] + Len(delivered[r]) + 1
               event == [handle |-> h, n |-> n]
    <2>1. /\ delivered' = [delivered EXCEPT ![r] = Append(@, event)]
          /\ UNCHANGED <<answer, since, log>>
          /\ h \in Handles /\ n \in DOMAIN log[h]
          /\ r \in listening
          /\ listening' = IF log[h][n] \in Terminal THEN listening \ {r} ELSE listening
      BY <1>0, <1>5 DEF Deliver, ReturnedFirst
    <2> HIDE DEF event
    <2>2. /\ delivered[r] \in Seq([handle : Handles \cup {NoHandle}, n : Nat])
          /\ delivered \in [Requests -> Seq([handle : Handles \cup {NoHandle}, n : Nat])]
          /\ since[r] \in Nat
      BY <1>0 DEF TypeInv
    <2>3. delivered'[r] = Append(delivered[r], event) /\ Len(delivered'[r]) = Len(delivered[r]) + 1
      BY <2>1, <2>2
    <2>4. ASSUME NEW i \in DOMAIN delivered'[r]
          PROVE  /\ delivered'[r][i] = [handle |-> h, n |-> since[r] + i]
                 /\ since[r] + i \in DOMAIN log[h]
                 /\ log[h][since[r] + i] \in Terminal
                       => i = Len(delivered'[r]) /\ r \notin listening'
      <3>1. CASE i \in DOMAIN delivered[r]
        <4>1. delivered'[r][i] = delivered[r][i]
          BY <2>2, <2>3, <3>1
        <4>2. log[h][since[r] + i] \notin Terminal
          BY <1>0, <2>1, <3>1
        <4> QED
          BY <1>0, <3>1, <4>1, <4>2
      <3>2. CASE i \notin DOMAIN delivered[r]
        <4>1. i = Len(delivered[r]) + 1 /\ delivered'[r][i] = event
          BY <2>2, <2>3, <2>4, <3>2
        <4>2. n = since[r] + i
          <5>1. i = Len(delivered[r]) + 1 /\ Len(delivered[r]) \in Nat /\ since[r] \in Nat
            BY <2>2, <4>1
          <5> QED
            BY <5>1
        <4> QED
          BY <2>1, <2>3, <4>1, <4>2 DEF event
      <3> QED
        BY <3>1, <3>2
    <2>5. \A q \in Requests \ {r} : delivered'[q] = delivered[q] /\ (q \in listening' => q \in listening)
      BY <2>1, <2>2
    <2> QED
      BY <1>0, <2>1, <2>4, <2>5
  <1>6. ASSUME Lose PROVE YieldsItsJob'
    <2>1. UNCHANGED <<delivered, answer, since, log>> /\ listening' \subseteq listening
      BY <1>6 DEF Lose
    <2> QED
      BY <1>1, <2>1
  <1>7. ASSUME NEW r \in Requests, Refuse(r) \/ Cancel(r) \/ DropStream(r) \/ Return(r)
        PROVE  YieldsItsJob'
    <2>1. UNCHANGED <<delivered, answer, since, log>> /\ listening' \subseteq listening
      BY <1>7 DEF Refuse, Cancel, DropStream, Return
    <2> QED
      BY <1>1, <2>1
  <1> QED
    BY <1>2, <1>3, <1>4, <1>5, <1>6, <1>7 DEF Next

\* A JobEventStream yields the events of the job its submission was given, from
\* the first one after it joined, all of them in order and none made up, and
\* nothing after the terminal one: every implementation of the promise does.
THEOREM StreamsYieldTheirJobs == Spec => []YieldsItsJob
  <1>1. StreamInv /\ [Next]_vars => StreamInv'
    <2>1. StreamInv /\ Next => StreamInv'
      BY TypeStep, ReturnedFirstStep, YieldsItsJobStep DEF StreamInv
    <2>2. StreamInv /\ UNCHANGED vars => StreamInv'
      BY ZenonT(30) DEF vars, StreamInv, TypeInv, ReturnedFirst, YieldsItsJob
    <2> QED
      BY <2>1, <2>2
  <1>2. StreamInv => YieldsItsJob
    BY DEF StreamInv
  <1> QED
    BY TypeInit, <1>1, <1>2, PTL DEF Spec

=============================================================================
