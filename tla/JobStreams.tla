----------------------------- MODULE JobStreams -----------------------------
(***************************************************************************)
(* What the client promises to its callers (doc comments of Client,        *)
(* SubmittedJob and JobEventStream): every call returns the server's       *)
(* answer to it or learns that the connection is lost; the stream of a     *)
(* foreground submission yields the events of its job, each once and in    *)
(* order, and ends after the terminal one or, all streams of the           *)
(* connection at once, when the connection is lost.                        *)
(*                                                                         *)
(* No packets, no queues, no subscribers: ClientActor implements this.     *)
(***************************************************************************)
EXTENDS Naturals, Sequences

CONSTANTS
    Requests,     \* the calls
    Foreground,   \* those that are foreground submissions
    Handles, NoHandle,
    Events, Terminal

VARIABLES
    caller,       \* "idle", "waiting", "done" or "cancelled"
    outcome,      \* what the call returned
    answer,       \* the server's answer, once it gave one
    since,        \* the events its job had had by then
    log,          \* all events of a job
    listening,    \* the calls whose stream may still yield an event
    delivered     \* the events it yielded

vars == <<caller, outcome, answer, since, log, listening, delivered>>

Outcome(result, h) == [result |-> result, handle |-> h]
None == Outcome("none", NoHandle)
Answers == [result : {"job_created", "status_res", "status_res_unique", "error"},
            handle : Handles \cup {NoHandle}]
\* A call that is refused without asking the server.
Refusals == {Outcome("no_servers_available", NoHandle), Outcome("no_unique_id", NoHandle)}
\* A call that loses its connection.
Losses == {Outcome("connection_closed", NoHandle), Outcome("send_failed", NoHandle)}

Init ==
    /\ caller = [r \in Requests |-> "idle"]
    /\ outcome = [r \in Requests |-> None]
    /\ answer = [r \in Requests |-> None]
    /\ since = [r \in Requests |-> 0]
    /\ log = [h \in Handles |-> <<>>]
    /\ listening = {}
    /\ delivered = [r \in Requests |-> <<>>]

Call(r) ==
    /\ caller[r] = "idle"
    /\ caller' = [caller EXCEPT ![r] = "waiting"]
    /\ listening' = listening \cup ({r} \cap Foreground)
    /\ UNCHANGED <<outcome, answer, since, log, delivered>>

Refuse(r) ==
    /\ caller[r] = "idle"
    /\ caller' = [caller EXCEPT ![r] = "done"]
    /\ \E o \in Refusals : outcome' = [outcome EXCEPT ![r] = o]
    /\ UNCHANGED <<answer, since, log, listening, delivered>>

Cancel(r) ==
    /\ caller[r] = "waiting"
    /\ caller' = [caller EXCEPT ![r] = "cancelled"]
    /\ listening' = listening \ {r}
    /\ UNCHANGED <<outcome, answer, since, log, delivered>>

DropStream(r) ==
    /\ caller[r] = "done" /\ r \in listening
    /\ listening' = listening \ {r}
    /\ UNCHANGED <<caller, outcome, answer, since, log, delivered>>

\* The server answers; a foreground submission it accepts joins a job. It may
\* do so after the call has reported a lost connection: the job then exists,
\* and runs, without its caller.
Answer(r) ==
    /\ caller[r] # "idle" /\ answer[r] = None
    /\ \E o \in Answers :
         /\ answer' = [answer EXCEPT ![r] = o]
         /\ \/ since' = since
            \/ /\ r \in Foreground /\ o.result = "job_created" /\ o.handle \in Handles
               /\ since' = [since EXCEPT ![r] = Len(log[o.handle])]
    /\ UNCHANGED <<caller, outcome, log, listening, delivered>>

\* The call returns the answer. If that is an error there is nothing to listen to.
Return(r) ==
    /\ caller[r] = "waiting" /\ answer[r] # None
    /\ caller' = [caller EXCEPT ![r] = "done"]
    /\ outcome' = [outcome EXCEPT ![r] = answer[r]]
    /\ listening' = IF answer[r].result = "error" THEN listening \ {r} ELSE listening
    /\ UNCHANGED <<answer, since, log, delivered>>

\* The job has an event; none follows a terminal one.
Emit(h) ==
    /\ \A i \in DOMAIN log[h] : log[h][i] \notin Terminal
    /\ \E e \in Events : log' = [log EXCEPT ![h] = Append(@, e)]
    /\ UNCHANGED <<caller, outcome, answer, since, listening, delivered>>

\* A stream yields the next event of its job, and ends with the terminal one.
Deliver(r) ==
    /\ caller[r] = "done" /\ r \in listening /\ outcome[r].result = "job_created"
    /\ LET h == outcome[r].handle
           n == since[r] + Len(delivered[r]) + 1
       IN  /\ h \in Handles /\ n \in DOMAIN log[h]
           /\ delivered' = [delivered EXCEPT ![r] = Append(@, [handle |-> h, n |-> n])]
           /\ listening' = IF log[h][n] \in Terminal THEN listening \ {r} ELSE listening
    /\ UNCHANGED <<caller, outcome, answer, since, log>>

\* The connection is lost: some waiting calls are told, and every stream of a
\* call that no longer waits ends.
Lose ==
    /\ \E told \in SUBSET {r \in Requests : caller[r] = "waiting"} :
         /\ caller' = [r \in Requests |-> IF r \in told THEN "done" ELSE caller[r]]
         /\ \E loss \in [told -> Losses] :
              outcome' = [r \in Requests |-> IF r \in told THEN loss[r] ELSE outcome[r]]
    /\ listening' = {r \in listening : caller'[r] = "waiting"}
    /\ UNCHANGED <<answer, since, log, delivered>>

Next == \/ \E r \in Requests : \/ Call(r) \/ Refuse(r) \/ Cancel(r) \/ DropStream(r)
                               \/ Answer(r) \/ Return(r) \/ Deliver(r)
        \/ \E h \in Handles : Emit(h)
        \/ Lose

Spec == Init /\ [][Next]_vars

-----------------------------------------------------------------------------
\* A stream yields the events of the job its call was given, from the first one
\* after it joined, each once and in order, all of which the job has had; and
\* nothing after the terminal one, which ends it (JobEventStream).
YieldsItsJob ==
    \A r \in Requests : \A i \in DOMAIN delivered[r] :
        LET h == answer[r].handle
            n == since[r] + i
        IN  /\ delivered[r][i] = [handle |-> h, n |-> n]
            /\ h \in Handles /\ n \in DOMAIN log[h]
            /\ log[h][n] \in Terminal => i = Len(delivered[r]) /\ r \notin listening

=============================================================================
