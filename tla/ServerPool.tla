----------------------------- MODULE ServerPool -----------------------------
(***************************************************************************)
(* The client's pool of job servers: `ClientBuilder::connect`, the flags   *)
(* by which each connection's actor tells the pool of its state            *)
(* (src/client/mod.rs), and the choice of a server for a submission        *)
(* (src/client/multi.rs, src/client/ketama.rs).                            *)
(*                                                                         *)
(* The actor (module ClientActor) is cut down to what it does to the two   *)
(* flags.  Every load and store of them is Relaxed, so the two stores of   *)
(* an actor that has connected become visible to the tasks that submit one *)
(* by one, and in program order only if the target keeps it.               *)
(***************************************************************************)
EXTENDS Naturals, Sequences, FiniteSets, Ketama

CONSTANTS
    ServerCount,
    Rings,           \* the rings MD5 may make of the server list
    Uniques, NoUnique,   \* the unique ids submitted; NoUnique: none, or the empty one
    Callers,         \* tasks that submit, one call after the other
    Asks,            \* [Selections -> [Callers -> the unique ids its calls come with]]
    Targets,         \* does the target show a task's stores in program order? Either may be in it
    CursorSize       \* 2^64 in the code: the cursor is a usize

Servers == 0 .. ServerCount - 1
Selections == {"round_robin", "by_unique"}

\* connect returns at once when it was given no server.
ASSUME PoolAssumption ==
    /\ ServerCount \in Nat \ {0}
    /\ \A ring \in Rings : ring \in Seq(Servers) /\ {ring[i] : i \in DOMAIN ring} = Servers
    /\ Targets \subseteq BOOLEAN
    /\ NoUnique \notin Uniques
    /\ Asks \in [Selections -> [Callers -> SUBSET (Uniques \cup {NoUnique})]]
    /\ CursorSize \in Nat \ {0}

VARIABLES
    \* the configuration
    in_order,      \* the target does
    selection, ring,
    home,          \* [Uniques -> position on the ring]
    \* the actors
    actor,         \* "down", "storing" when one of its two stores shows, or "up"
    connected, attempted,   \* the flags, as the client's tasks load them
    \* connect()
    phase,         \* "waiting", "overdue" when its 5 s are over, "ready" or "failed"
    \* the submissions
    cursor,
    todo,          \* [Callers -> servers the call has yet to test]
    call,          \* [Callers -> "idle", "selecting" or "no_servers"]
    unique,        \* the unique id of the call
    \* history
    clean,         \* no attempt failed, no connection was lost, connect was not overdue
    route,         \* [Uniques -> servers it was submitted to as long as that was so]
    watched,       \* the server whose luck the next two follow
    steady,        \* [Callers -> it was up ever since the selection began]
    missed         \* submissions that went elsewhere since it was last down or picked

config == <<in_order, selection, ring, home, watched>>
actors == <<actor, connected, attempted>>
submissions == <<cursor, todo, call, unique>>
history == <<clean, route, steady, missed>>
vars == <<config, actors, phase, submissions, history>>

-----------------------------------------------------------------------------
Init ==
    /\ in_order \in Targets
    /\ \/ selection = "round_robin" /\ ring = <<>> /\ home = <<>>
       \/ selection = "by_unique" /\ ring \in Rings /\ home \in [Uniques -> DOMAIN ring]
    /\ actor = [s \in Servers |-> "down"]
    /\ connected = [s \in Servers |-> FALSE]
    /\ attempted = [s \in Servers |-> FALSE]
    /\ phase = "waiting"
    /\ cursor = 0
    /\ todo = [c \in Callers |-> <<>>]
    /\ call = [c \in Callers |-> "idle"]
    /\ unique = [c \in Callers |-> NoUnique]
    /\ clean = TRUE
    /\ watched \in Servers
    /\ steady = [c \in Callers |-> FALSE]
    /\ route = [u \in Uniques |-> {}]
    /\ missed = 0

-----------------------------------------------------------------------------
(* The actors: the stores of run_server_actor.                             *)

\* The flags of s change.
Stores(s, state, c, a) ==
    /\ actor' = [actor EXCEPT ![s] = state]
    /\ connected' = [connected EXCEPT ![s] = c]
    /\ attempted' = [attempted EXCEPT ![s] = a]
    /\ LET down == s = watched /\ ~c
       IN  /\ steady' = [k \in Callers |-> steady[k] /\ ~down]
           /\ missed' = IF down THEN 0 ELSE missed

\* Mutated form of FirstStore: attempted is stored first.
FirstStore_Attempted(s) ==
    /\ actor[s] = "down"
    /\ \/ Stores(s, "storing", FALSE, TRUE)
       \/ ~in_order /\ Stores(s, "storing", TRUE, attempted[s])
    /\ UNCHANGED <<config, phase, submissions, clean, route>>

\* Connected and handshaken: `connected` is stored, and then `attempted`.
FirstStore(s) ==
    /\ actor[s] = "down"
    /\ \/ Stores(s, "storing", TRUE, attempted[s])
       \/ ~in_order /\ Stores(s, "storing", FALSE, TRUE)
    /\ UNCHANGED <<config, phase, submissions, clean, route>>

SecondStore(s) ==
    /\ actor[s] = "storing"
    /\ Stores(s, "up", TRUE, TRUE)
    /\ UNCHANGED <<config, phase, submissions, clean, route>>

Failure ==
    /\ clean' = FALSE
    /\ route' = [u \in Uniques |-> {}]

\* The connection attempt or the handshake fails.
AttemptFails(s) ==
    /\ actor[s] = "down"
    /\ Stores(s, "down", FALSE, TRUE)
    /\ Failure
    /\ UNCHANGED <<config, phase, submissions>>

\* actor_loop returns.
LosesConnection(s) ==
    /\ actor[s] = "up"
    /\ Stores(s, "down", FALSE, TRUE)
    /\ Failure
    /\ UNCHANGED <<config, phase, submissions>>

-----------------------------------------------------------------------------
(* connect.                                                                *)

any_healthy == \E s \in Servers : connected[s]
all_attempted == \A s \in Servers : attempted[s]

Waits == ~any_healthy \/ (selection = "by_unique" /\ ~all_attempted)

Deadline ==
    /\ phase = "waiting"
    /\ phase' = "overdue"
    /\ clean' = FALSE
    /\ UNCHANGED <<config, actors, submissions, route, steady, missed>>

\* Mutated form of Poll: under ByUnique the deadline does not end the wait.
Poll_WaitsForAll ==
    /\ \/ phase \in {"waiting", "overdue"} /\ ~Waits /\ phase' = "ready"
       \/ phase = "overdue" /\ ~any_healthy /\ phase' = "failed"
    /\ UNCHANGED <<config, actors, submissions, history>>

\* One round of the loop that ends it. When it fails the pool is dropped, and
\* each actor ends once it is connected (ClientActor!ClientGone).
Poll ==
    /\ \/ phase \in {"waiting", "overdue"} /\ ~Waits /\ phase' = "ready"
       \/ phase = "overdue" /\ Waits
          /\ phase' = IF any_healthy THEN "ready" ELSE "failed"
    /\ UNCHANGED <<config, actors, submissions, history>>

-----------------------------------------------------------------------------
(* select_for_submit: the servers in the order they are tested.            *)

\* fetch_add, which wraps.
Advance(n) == (n + 1) % CursorSize

\* Mutated forms of Rotation: the sum is no index of a server, or it starts at the
\* first server every time.
Rotation_PastEnd == [i \in 1 .. ServerCount |-> (cursor % ServerCount) + (i - 1)]

Rotation_FromFirst == [i \in 1 .. ServerCount |-> i - 1]

\* next_healthy: round robin from the cursor on.
Rotation == [i \in 1 .. ServerCount |-> (cursor + i - 1) % ServerCount]

\* The unique id decides.
ByRing(u) == selection = "by_unique" /\ u # NoUnique

Select(c, u) ==
    /\ phase = "ready" /\ call[c] # "selecting" /\ u \in Asks[selection][c]
    /\ call' = [call EXCEPT ![c] = "selecting"]
    /\ unique' = [unique EXCEPT ![c] = u]
    /\ steady' = [steady EXCEPT ![c] = connected[watched]]
    /\ IF ByRing(u)
       THEN /\ todo' = [todo EXCEPT ![c] = RingOrder(ring, home[u])]
            /\ UNCHANGED cursor
       ELSE /\ todo' = [todo EXCEPT ![c] = Rotation]
            /\ cursor' = Advance(cursor)
    /\ UNCHANGED <<config, actors, phase, clean, route, missed>>

\* is_healthy, for the next server in the order; its command is sent if it is.
Test(c) ==
    /\ call[c] = "selecting" /\ todo[c] # <<>>
    /\ LET s == Head(todo[c])
           u == unique[c]
       IN  IF connected[s]
           THEN /\ call' = [call EXCEPT ![c] = "idle"]
                /\ todo' = [todo EXCEPT ![c] = <<>>]
                /\ unique' = [unique EXCEPT ![c] = NoUnique]
                /\ steady' = [steady EXCEPT ![c] = FALSE]
                /\ route' = IF ByRing(u) /\ clean THEN [route EXCEPT ![u] = @ \cup {s}]
                                                   ELSE route
                /\ missed' = IF selection = "by_unique" THEN missed
                             ELSE IF s = watched \/ ~connected[watched] THEN 0 ELSE missed + 1
           ELSE /\ todo' = [todo EXCEPT ![c] = Tail(@)]
                /\ UNCHANGED <<call, unique, route, missed, steady>>
    /\ UNCHANGED <<config, actors, phase, cursor, clean>>

\* None: the submission fails with NoServersAvailable.
NoneHealthy(c) ==
    /\ call[c] = "selecting" /\ todo[c] = <<>>
    /\ call' = [call EXCEPT ![c] = "no_servers"]
    /\ UNCHANGED <<config, actors, phase, cursor, todo, unique, history>>

-----------------------------------------------------------------------------
Actors == \E s \in Servers :
              FirstStore(s) \/ SecondStore(s) \/ AttemptFails(s) \/ LosesConnection(s)

Submissions == \E c \in Callers : \/ \E u \in Uniques \cup {NoUnique} : Select(c, u)
                                  \/ Test(c) \/ NoneHealthy(c)

Next == Actors \/ Deadline \/ Poll \/ Submissions

Spec == Init /\ [][Next]_vars

\* Time passes and the task of connect is polled. Nothing is assumed of the servers.
FairSpec == Spec /\ WF_vars(Deadline) /\ WF_vars(Poll)

-----------------------------------------------------------------------------
(* Correctness.                                                            *)

\* Every variable holds a value of its kind.
TypeOK ==
    /\ in_order \in Targets /\ selection \in Selections
    /\ actor \in [Servers -> {"down", "storing", "up"}]
    /\ connected \in [Servers -> BOOLEAN] /\ attempted \in [Servers -> BOOLEAN]
    /\ phase \in {"waiting", "overdue", "ready", "failed"} /\ clean \in BOOLEAN
    /\ cursor \in 0 .. CursorSize - 1
    /\ call \in [Callers -> {"idle", "selecting", "no_servers"}]
    /\ todo \in [Callers -> Seq(Servers)]
    /\ unique \in [Callers -> Uniques \cup {NoUnique}]
    /\ watched \in Servers /\ steady \in [Callers -> BOOLEAN] /\ missed \in Nat
    /\ route \in [Uniques -> SUBSET Servers]

\* As long as no server has failed and connect did not run into its deadline, a
\* unique id goes to one server: no submission meets a server that merely looks
\* down because it is still connecting (comment of connect: "two jobs for one
\* unique id without any server failing").
OneServerPerUnique == \A u \in Uniques : Cardinality(route[u]) <= 1

\* ... where stores show in program order: `attempted` is stored after `connected`.
OneServerPerUniqueInOrder == in_order => OneServerPerUnique

\* A submission fails with NoServersAvailable only if every server looked down at
\* some moment of its selection: the walk reads the flags one by one while they
\* change, and the chain of libgearman may cycle ("rather than giving up as long
\* as any server is up", Ring::select).
FindsServer == \A c \in Callers : call[c] = "no_servers" => ~steady[c]

\* Round robin passes over no healthy server for long: while it stays up, at most
\* two rounds and a submission in flight for each caller go elsewhere, also when
\* servers before it are down and where the cursor wraps.
RoundRobinIsFair ==
    missed <= 2 * (ServerCount - 1) + (Cardinality(Callers) - 1) * (ServerCount + 1)

\* connect returns, whatever the servers do (its 5 s).
ConnectReturns == phase = "waiting" ~> phase \in {"ready", "failed"}

=============================================================================
