# A TLA+ model of gearman-rs

TLA+ modules, TLC runs and machine-checked proofs about the client, the worker,
the admin client and the protocol layer of this repository. Every definition follows the source;
`PROJECT.json` (`map`) names the lines each one stands for. The job server
(gearmand) is not part of the repository: the modules hold, as external parts,
only what the code's comments, docs and tests say of it.

## 1. Inventory

| component | source | state | operations | hard behaviour |
|---|---|---|---|---|
| Client calls | `client/mod.rs`, `client/job.rs` | a oneshot per call, a `JobEventStream` per foreground job | `submit*`, `get_status*`, dropping a future, a stream, the client | awaiting without a timeout; cancellation while the reply is under way |
| Connection actor | `client/mod.rs` `run_server_actor`, `actor_loop` | `cmd_rx`, `pending_replies`, `job_events`, `connected`, `attempted`, backoff | connect, negotiate, send, receive, prune, fail all, reconnect | replies without ids; coalesced subscribers; loss at any point |
| Server pool | `client/multi.rs`, `client/ketama.rs`, `connect` | slots with two Relaxed flags, `cursor`, the ring | wait in `connect`, select by unique id or round robin | flags that change while they are read; chains that cycle; a wrapping cursor |
| Worker | `worker/mod.rs`, `worker/registry.rs` | registry and its fair lock, shutdown watch, notice broadcast, one task per connection | `unregister`, `shutdown`, drop; connect, register, discard, flush, grab, sleep, dispatch | races of notices with registration, of shutdown with grabbing, of NOOP with sleeping; a lock held over sends; panics |
| Handlers, Reporter | `worker/job.rs` | a clone of the connection's mutex | progress packets, the result | a Reporter that outlives its job |
| Codec, Connection | `protocol/codec.rs`, `protocol/packet.rs`, `conn.rs` | the bytes read and not yet decoded | encode, decode, split | pieces that end anywhere; the cap; NULs |
| Packet types | `protocol/command.rs` | none | codes and argument counts | none |
| Admin client | `admin/mod.rs` | a buffered stream | one text request and its reply | replies say not whom they answer; a dropped future, a line at the cap, a list cut short |
| Transport, TLS | `net.rs`, `tls.rs` | none of their own | open a stream | I/O only |

How they interact: a `Client` call picks a server by the flags its actor stores,
sends a `ClientCommand` over an unbounded channel and awaits a oneshot; the actor
moves the oneshot from the channel to `pending_replies` and resolves it from the
next reply packet, and moves the event sender to `job_events`, from where each
`WORK_*` copy goes to one subscriber. A `Worker` talks to its tasks through a
shared registry, a watch (shutdown) and a broadcast (notices of `unregister`).
Both ends speak through `Connection`, a `Framed` stream with `GearmanCodec`.

What makes each component correct: every call gets the answer to that very call
or learns of the loss; every stream gets each event of its job once, in order,
and ends; a unique id stays with its server while none fails; a server that is
up is found; what the job server has assigned is in hand, once; shutdown
returns, and so does unregister; a registration is exact; packets are received
as sent; an admin call returns what the server meant by its own reply. The hazards, each at its line with the
property that covers it, are in `PROJECT.json`.

## 2. Plan

| | module | what | state |
|---|---|---|---|
| 1 | `HandleSubscribers` | the subscribers of a handle, as operators | done; typing lemmas proved (in `ClientActorProofs`) |
| 2 | `ClientActor`, `JobStreams` | calls + actor + server; the abstract promise | done; types, attribution, order of the events, slots, the refinement and what it says of a client's streams proved |
| 3 | `Worker` | worker API, tasks, the server's queue | done; types, registry, jobs and the end of a task at shutdown proved |
| 4 | `Ketama`, `ServerPool` | connect, flags, selection | done; types, one server per unique id and finding a server that is up proved |
| 5 | `Codec` | encoder and streaming decoder | done; decoding of the encoded, reception as sent and foreign errors proved |
| 6 | `AdminText`, `AdminSession` | the line parsers; request and reply on the text protocol, dropped futures, long lines, end of stream | done; types, staying in step and what a call makes of its reply proved |
| 7 | the registry's lock, back-pressure, reports and Reporter clones in `Worker` | who waits for whom | done |
| 8 | end to end | the events of a job from `Worker` through the server to `ClientActor` | dropped: what joins them is gearmand, which is not here, so a composition would check our idea of it |

Each component has the theorems that were planned for it. What stays with TLC, and
why, is at the end of section 6.

## 3. Modules

### HandleSubscribers

`slots` and `cursor` of one job handle as a record. `Add`, `Deliver` (with
`swap_remove` for terminal events and the reset of the cursor) and `Prune` are the
methods; `Receiver` says which slot a copy goes to. A slot whose stream is gone
holds `NoRequest`, as `None` in the code.

### ClientActor

A member of `Requests` is one call of the API; it stands for its oneshot, its
event channel and its packet. The variables are those of the code: `cmd_rx`,
`pending_replies`, `job_events`, `connected`, `attempted`, `backoff`; `pc` says
where `run_server_actor` is. `connection_lost` and `client_dropped` are the moments
between `fail_all_pending` and `connected.store(false)`, where a submission
still believes in the server. Each branch of `select!` is an action
(`PruneTick`, `SendCommand`/`SendFails`/`ClientGone`, `ReceiveReply`/`ReceiveWork`/`ReceiveFails`);
`Cancel`, `DropStream` and `DropClient` may come at any time. A request too large
for the codec (`Oversized`) fails its send, and the connection with it, as in
the code. The packets carry the request they belong to in `req`, which the actor
never reads: the properties compare with it. `answer`, `since`, `log` and
`delivered` are history.

The external server answers in order, coalesces live jobs by unique id (also
with jobs of other clients), registers each foreground submission, sends one copy
of an event per registration back to back, and sends exceptions only to those
who asked. All of it is what the comments of `HandleSubscribers`,
`negotiate_exceptions` and the tests with a fake server say.

`cmd_rx`, `to_server` and `to_client` are unbounded, as the code's channels and the
socket are here; each request is made once, so they are finite.

### JobStreams

What the documentation of `Client`, `SubmittedJob` and `JobEventStream` promises,
with no packets and no queues: calls, answers, losses, jobs with events, streams.
`Lose` is one step for all streams that are listening. `ClientActor` defines
`Listening` (open, with a sender held somewhere) and instantiates `JobStreams` with
it; `KeepsPromise` is the refinement.

### Worker

A member of `Conns` is one task with one connection to the one modelled server
(`concurrency` of them; servers share nothing but the Worker). Actions in the
order of the code: `Start`, `Connect`/`ConnectFails`, `Lock`, `Register`, `Discard`,
`CheckShutdown`, `Flush`, `Grab`, `Receive`, `PreSleep`, `WakeUp`/`StopAsleep`,
`Dispatch`, `Refuse`, `Report`, `CloneReporter`/`DropClones`, `Finish`/`Panic`,
`LosesConnection`, `Backoff`.

The registry's lock is tokio's, which serves whoever asks in order: `waiting` is
the queue, `Queue` the step of a task that finds somebody before it, `Readers` the
tasks that hold the read guard. `register_functions` holds it from `Lock` to the last
`Register`, one CAN_DO each, and `unsent` is what is left of its iteration; a lookup
holds it for one step, and so does a removal. `unregister` is `Unregister` (it asks),
`Remove` and `Broadcast`, with anything in between, or `GiveUp` where its future is
dropped. A send waits while the connection has `Window` packets the server has not
read, which is what makes the lock's holder slow.

`notices` is the broadcast channel as its whole history, `seen` the position of
each receiver; a receiver more than `Capacity` behind loses the oldest (`Lagged`).
`skipped` remembers the notices a task discarded or lost: history. `Withdrawn` speaks
of the notices read; those lost to a lag leave their functions advertised, as the race
of `worker_unregister_race` does.

A report is a WORK_DATA packet of the handler while it runs, or of a clone of its
`Reporter` (`clones`, the jobs a connection has clones of), which may be used after the
handler, the dispatch or the task has ended: `Reporter` is `Clone`, and holds the connection.
So a connection is closed with the last clone (`Ends`, `DropClones`). A clone waits for the
mutex while a packet is received under it, and as it may have asked for it first, its report
goes out between a GRAB_JOB or PRE_SLEEP and that wait: `Report` has no guard but that
the send has room. `Reported` (a bound) lets a job's next report be sent once the last,
or the ERROR for it, is read. `MaxCalls` and `MaxBreaks` bound calls of `unregister` and
broken connections; `MayReport`, `MayClone` and `MayPanic` say what handlers do.

The external server queues jobs, assigns them to those who advertise the
function, wakes sleepers with NOOP (some, at least one that can do the job),
requeues the jobs of a lost connection, fails timed jobs back, and answers a
result for a job that is not the worker's with ERROR.

`OneGrabOutstanding` and `AssignedIsInHand` fail with a function that is registered with a
timeout, and with Reporter clones. A late result or report is answered by ERROR,
`run_grab_loop` takes it for the answer to GRAB_JOB and grabs again, and with more
jobs queued a JOB_ASSIGN then meets a task that sleeps and drops it. That rests on
gearmand answering so, which the repository does not say: it is a hazard in
`PROJECT.json` and no finding. `worker_jobs` has neither timeouts nor clones, and the theorems
about both properties say so; `worker_progress` has both, with two jobs, and shows that
no job is forgotten for ever, since the timeout fails a dropped one back.

Doc notes: `Reporter` is said to be used only while the task is "suspended awaiting the handler"
(job.rs:52-55), but it is `Clone` (job.rs:56) and nothing ends a clone's use with the handler.
`shutdown` is said to stop the loops "without grabbing another", and one more may be
grabbed (`worker_late_grab`).

### Ketama and ServerPool

A ring is the sequence of the owners of its points; a unique id is the position
of the first point at or after its hash (MD5 and `split_host_port` are external).
`Ring::select` tests servers one by one, and which one comes next does not depend on
what the tests said, so `RingOrder` gives the order: the `after_con` chain, then
the whole ring. `Rotation` is the order of `next_healthy`. `Test` reads one flag: the
flags may change between two reads.

The actor of `ClientActor` is cut down to its two stores. `ClientActor` makes them
in one step (`BecomeReady`), as no property of its own can tell them apart;
here they are two, and on a target without store order (`in_order` false) the
second may show first. `connect` is `Poll` and `Deadline`; the loads of one
round of its loop are one step, since a flag that changes during the round
could as well have changed just after it, or before the next.

Doc note: `ServerSelection::ByUnique` says "the next one in ring order is used" if a
server is down; the code (and its comment) restarts from the failed server's
first point, so with the hash at a later point of it the next server in ring
order is passed over. `NextAfter` models the code.

### AdminText and AdminSession

`AdminText` holds the parsers of the lines and, external, gearmand's layout of them
(from the parsers' comments and the tests with a fake server). A letter stands for
a run of characters the parsers do not tell apart ("OK", "ERR" and the command are one
each), a number is one or more digits without sign or width. `NotUtf8` stands for
bytes that `read_line` of tokio refuses, `Lead` and `Trail` for the parts of a character of
several bytes: cut in two by the cap or by the end of the stream, it is no UTF-8 either.

`AdminSession` is one `AdminClient`: `Begin` starts one of its calls, `WriteCommand` and
`WriteNewline` are the two writes of `send_line`, and `ReadLetter`, `ReadTooMuch`,
`ReadNewline` and `ReadEnd` are `read_line`, with `LineRead` for what its three callers make
of a line. Reading letter by letter covers every way the bytes may arrive and lets
`Drop` come anywhere in a reply. `Close` ends the stream after any part of what the
server wrote. `in_step` turns false when a call is dropped with part of its line
written or of its reply unread, or fails inside its reply: from then on the code
promises nothing, and the properties say nothing. `meant` is the answer behind the
last reply. `AnswersItsCall` compares what a call returns with `Expected`, which looks
at the answer and its layout and not at the reader.

`AdminAssumption`: a reply is laid out in lines of letters, none of them empty or with
a line's end in it, and no row of a list reads ".". A server older than 2.2.0 lists bare
unique ids, of which one "." would end the list early. A row may begin with a dot.

The short list: `read_line` returns what it has when the stream ends, as if it were a line.
Where it ends right behind a dot that begins a row, `read_dot_terminated` takes that dot for
the end of the list (admin/mod.rs:75-91), and the call returns the rows before it as if they
were all. `NoShortList` says that this is the only case, and what is returned in it; the
instance has a `status` row of a function `.a` and a unique id `.c`, so that it occurs.

### Codec

Bytes are numbers; each four-byte header field is one of them, so pieces end
between fields and within payloads but not within a field. `NulAt` gives the k-th
separator, `SplitArgs` the arguments. `Read` hands over any number of bytes,
`SendAlien` puts one frame of each kind the decoder refuses on the stream.
`CodecAssumption` keeps NULs out of the arguments before the last: nothing in the
code does, and an argument with one moves all that follow it (a hazard).
`AlienAssumption`: an alien frame is one the decoder refuses, by its header or its body;
any other frame is a packet.

## 4. Runs

| run | instance | checks |
|---|---|---|
| `client_coalescing` | three submissions of one unique id, one handle, progress and an exception, negotiation, a backoff that doubles twice, breaks | `TypeOK`, `ReplyAttribution`, `EventsInOrder`, `SlotsMirrorRegistrations`, `KeepsPromise` |
| `client_calls` | a foreground and a background submission, one too large, a `get_status`, exceptions negotiated, breaks, fairness | `ReplyAttribution`, `KeepsPromise`, `CallsReturn`, `StreamsEnd`, `ActorReturns` |
| `client_silent_exception` | a client that did not opt in | `StreamsEnd`, violated |
| `worker_jobs` | two connections, two jobs of one function, reports, panics, a break, two calls of `unregister` over a channel for one notice | `TypeOK`, `OneGrabOutstanding`, `AssignedIsInHand`, `AdvertisesRegistry`, `Withdrawn`, `ShutdownAbandonsNoJob` |
| `worker_progress` | one connection that takes one packet at a time, two functions with timeouts and a job of each, reports, clones, a break, fairness | `ShutdownReturns`, `UnregisterReturns`, `JobsGetDone` |
| `worker_unregister_race` | one connection | `UnregisterReachesAll`, violated |
| `worker_late_grab` | one connection, one job | `NoLateGrab`, violated |
| `worker_lost_result` | a result over the cap | `AssignedIsInHand`, violated |
| `server_pool` | three servers, two rings with a hash at every position, two tasks, a two-bit cursor, stores in order and not | `TypeOK`, `OneServerPerUniqueInOrder`, `FindsServer`, `RoundRobinIsFair`, `ConnectReturns` |
| `server_pool_relaxed` | stores that may show out of order | `OneServerPerUnique`, violated |
| `codec` | two packets out of 18, five alien frames, a cap of 3 | `TypeOK`, `ReceivedAsSent`, `ErrorsAreForeign`, `AllArrive` |
| `admin_session` | two calls out of eight kinds, sixteen answers, a cap of 10 letters, fairness | `TypeOK`, `InStep`, `AnswersItsCall`, `NoShortList`, `CallsReturn` |

Why the bounds are enough. Three subscribers are the least for which the
cursor, `swap_remove` and a hole in the middle differ from simpler rules; one
handle, because handles do not interact. Two kinds of call pipelined suffice for
an attribution that is off by one to show. Two connections and two jobs let a
job move from a broken connection to another while each holds one; one notice
of capacity against two calls makes a receiver lag. Three servers are the least
for a chain that cycles without reaching one of them, and three is no divisor
of the cursor's range, so its wrap shows. The codec's cap is below the longest
payload by one, so both sides of the boundary occur; the admin answers have the
longest line that passes and the shortest that does not. Two admin calls are the
least for one to leave something to the next. Connection losses are not
bounded in the client's runs; one is enough in the worker's, since all state of
a connection goes with it. Two functions are the least for which `register_functions`
holds the lock over a send that waits, with room for one packet; two jobs with timeouts
the least for a JOB_ASSIGN to meet a task that sleeps.

`worker_progress` has one connection: with two it has millions of states, too many for the
liveness check. What the tasks do to one another (a writer that waits between two
readers, a job that moves to the other connection) is in `worker_jobs`, for safety. No run
mixes the kinds of `submit` with one unique id, or queries by unique id; the proofs are for
any mix.

`CHECK_DEADLOCK FALSE` everywhere: the systems stop when all calls are made, the
client is dropped or the worker has shut down.

Each property of a passing run has a mutant of the code that breaks it
(`mutants`); their forms stand in the modules before the definition they mutate,
as `Name_What`.

### What the violations say

* `client_silent_exception`: without `with_exceptions` a job that ends in an
  exception ends no stream, and `submit_fg` hangs as long as the connection lives.
* `worker_unregister_race`: an `unregister` between the CAN_DOs of a new connection
  and the discarding of old notices is discarded as well.
* `worker_late_grab`: the shutdown flag is looked at before the notices are flushed and
  GRAB_JOB is sent, so a shutdown in between is followed by one more GRAB_JOB.
* `worker_lost_result`: a result over the codec's cap is never reported.
* `server_pool_relaxed`: Relaxed flags do not carry the order that `connect` needs.

## 5. Fairness

Client: the tasks are polled (weak fairness of the actor's own steps), `select!`
picks a ready branch at random, so none is passed over for ever (strong fairness
where a lost connection may disable a branch), connecting and the handshake do
not fail for ever, and the server answers and its jobs end. Nothing is assumed
of callers, nor of the prune tick. Worker: its tasks are polled, connecting is not
refused for ever, handlers return, the server reads, and fails a job with a timeout back
("the server fails the job back if it isn't completed within `timeout`",
`register_with_timeout`). A call of `unregister` goes on once the lock is its own; nothing
makes anybody call it, report, clone or drop a `Reporter`, shut
down, submit or break. Admin: the caller polls its call and the server answers;
that the stream ends is not assumed. Pool: time passes and `connect` is polled; nothing of the servers. Codec:
the receiver reads.

## 6. Proofs

All are checked by tlapm for every value of the constants that satisfies the
named assumptions: `RequestAssumption` and `ServerAssumption` of `ClientActor`,
`WorkerAssumption` of `Worker`, `CodecAssumption` and `AlienAssumption` of `Codec`,
`PoolAssumption` of `ServerPool`, `AdminAssumption` of `AdminSession` (`JobStreams` needs
none); section 3 has those of `Codec` and `AdminSession`. They say what the code's types
say: each call has a kind, each job a function, a task and a function are different
things and "nobody" is none of them, a channel has room for one, a ring has a point of
each of its servers. The bounds of the runs
are constants and arbitrary here: any number of calls, handles, events, tasks,
functions, jobs, broken connections, servers, packets and admin replies. Hypotheses
beyond the assumptions are named with the theorem that has them.

### Client

* `TypeCorrect` (`ClientActorProofs`): `Spec => []TypeOK`. One lemma per group of
  actions; the module begins with the types of `SwapRemove`, `Deliver` and `Prune`.
* `RepliesAttributed` (`ClientActorProofs`) from `PendingLineUp`:
  `Spec => []AttributionInv`. `ReplyAttribution` alone is not inductive: that the front
  of `pending_replies` is answered by the next reply packet depends on what is
  under way. `AttributionInv` adds
  - `QueuesHoldOpenCalls`, `NoOutcomeYet`: what is queued or pending has no outcome;
  - `Phases`: what the connection may hold in each phase of the actor, in
    particular that nothing but the reply to OPTION_REQ precedes `actor_loop`;
  - `Aligned`: the requests the server has not read are the tail of
    `pending_replies` (`UnservedArePending`), the others have a reply under way
    (`ServedHaveReplies`), which answers them (`RepliesArePending`), in the same order
    without a gap or a double (`RepliesInOrder`).

  Each part has a lemma per group of actions (`OwnedStep`, `PhasesStep`, `NoOutcomeStep`,
  `AlignedSend`, `AlignedServe`, `AlignedReply`, `AlignedWork`, `AlignedStep`), and the
  theorem combines them with `TypeCorrect`.
* `PacketsLeadOn` (`ClientEventProofs`): `Spec => []EventInv`, and from it
  `EventsArriveInOrder` (`[]EventsInOrder`) and `SlotsMirror` (`[]SlotsMirrorRegistrations`).
  The server sends a copy of an event to each registration and no copy says for whom it
  is; the actor gives each to the subscriber whose turn it believes it is. That the two
  agree cannot be said of the subscribers alone, since replies and copies are under way. The
  invariant says it of the whole way: the packets about a handle, read in order, lead
  (`LeadsTo`) from the subscribers the actor has (`StartsAt`) to the registrations the
  server has (`EndsAt`). The actor takes the first packet away, the server appends one,
  and dropping a stream moves only the start. The other parts of `EventInv` are what
  these steps need: `SentOnce`, `NotAnswered` and `NothingYet` (a call's stream is empty until
  its reply), `OpenStreams`, `TerminalIsLast`, `EventsAreLogged`, `SubscribersAreLocal`, and
  `EventsInOrder` itself.
* `PromiseKept` (`ClientEventProofs`): `Spec => KeepsPromise`, the refinement of
  `JobStreams`. The initial states map to its initial states, and every step to one of
  its steps: `Asks` to `Call`, `ReturnsAtOnce` to `Refuse`, `Cancel` and `DropStream` to their
  namesakes, what the server reads to `Answer`, `ReceiveReply` to `Return`, `ReceiveWork` to
  `Deliver`, `ServerWork` to `Emit`, `LeaveLoop` to `Lose`; the others stutter. Which event
  `Deliver` hands over is where `EventInv` enters, whose answer `Return` gives is
  `AttributionInv`.
* `StreamsYieldTheirJobs` (`JobStreamsProofs`): in the abstract specification a stream
  yields a run of the events of the job its call was given, from the one it joined at, and
  nothing after the terminal one. `ClientStreamsYieldTheirJobs` (`ClientEventProofs`) carries it
  over to the client by `PromiseKept`.

### Worker

* `TypeCorrect` (`WorkerProofs`): `[]TypeOK`.
* `RegistryIsAdvertised` and `NoticesAreActedOn` (`WorkerProofs`): `[]AdvertisesRegistry`
  and `[]Withdrawn`, from `RegistryInvariant` (`[]RegistryInv`). Its heart is that nobody
  removes a function while a task holds the lock, so that what a task announces is what
  is registered when it lets go (`TellsTheServer`), that a function a notice names is
  gone for good (`RemovedForGood`), and that on a new connection the CAN_DOs precede all
  else (`FunctionsFirst`, `CanDosFirst`, `OnlyCanDos`).
* `GrabsOneAtATime` and `AssignedJobsAreInHand` (`WorkerProofs`): `[]OneGrabOutstanding` and
  `[]AssignedIsInHand`, from `JobInvariant`. A task takes the next packet for the answer to
  what it sent last, so the invariant counts what is under way: one GRAB_JOB or its
  answer while a task awaits one, one PRE_SLEEP, the server's note of it or the NOOP while it
  sleeps, and never an ERROR, because every result on its way is about a job still
  assigned to that connection. The theorems assume `Timed = {}` and `~MayClone`: the server
  fails a job with a timeout back by itself, the late result, as the late report of a
  clone, is answered by ERROR, and the task may take that for the answer to its next grab, so
  neither is true then. The second also assumes `Oversized = {}`: a result over the cap
  is lost, which the run `worker_lost_result` shows to violate it. The run `worker_jobs` has
  none of the three.
* `ShutdownAnswersEveryJob`: `[][ShutdownAbandonsNoJob]`'s body as an action property, with the
  same hypotheses, from the same invariant: a task ends at the top of its loop or asleep,
  and there a job assigned to its connection can be neither in hand nor on its way to it.

### Server pool

* `TypeCorrect` (`ServerPoolProofs`): `[]TypeOK`; the cursor stays in its word although
  it wraps.
* `NoServersMeansNone`: `[]FindsServer`, for any ring, number of servers and flags that
  change while they are read. The chain of `after_con` may cycle among servers that are
  down, so it is not the chain that finds a server but the pass over the ring after it:
  `RingOrderFindsAll` and `RotationFindsAll` say that both orders have every server,
  `ChainIsChain` that the chain is servers. The invariant `StillToTest` says
  that a server that has been up since a selection began is still to be tested by it.
* `UniqueIdsKeepTheirServer`: `[]OneServerPerUniqueInOrder`, from `AllUp`: where stores
  show in order and nothing has failed, whatever is attempted is connected, so `connect`
  returns with all servers up and the first one tested is the owner of the hash. On a
  target without that order it is false, which `server_pool_relaxed` shows; the theorem
  has the order in the property's own premise (`in_order`).

### Codec

* `DecodesTheEncoded` (`CodecProofs`): from a buffer that begins with an encoded packet
  `decode` takes that packet, argument by argument, and leaves the rest. `BodyIsLaidOut`
  finds each argument in the payload, by induction over them; `NulsAreSeparators`
  shows that the k-th NUL is the k-th separator, because no argument before the last has
  one, and `SplitsBody` that `SplitArgs` cuts there.
* `StreamInvariant`: `[]StreamInv`. `ReceivedAsSent` is not inductive, since what is
  received next depends on bytes in the buffer and on the wire. The invariant says that
  there is a text, all that was ever written, in which the accepted packets stand one
  after the other (`end[k]` is where the k-th ends), alien bytes if any behind them, and
  that buffer and wire together are what is left of it after the packets received, or
  less where the connection was cut. From it `TypeCorrect`, `PacketsArriveUnchanged`
  (`[]ReceivedAsSent`) and `EncodedIsNeverRefused` (`[]ErrorsAreForeign`).

### Admin client

* `SessionInvariant` (`AdminProofs`): `[](AdminTypes /\ SessionInv)`. `InStep` alone says
  nothing of the time between two calls. `SessionInv` places the two ends at every
  moment of a call in step: its request is under way alone (`Asked`), the stream has
  ended before its reply (`Lost`), or its reply is laid out from the first letter to the
  last (`Laid`) and the client has read its first `n` lines and the letters up to `p`,
  while those up to `q` are still to come (`ReadTo`). TLC checked it first, on one call,
  and found what the first form lacked: a row cut off by the end of the stream
  is kept as a row, and the call fails only at the next read.
* `TypeCorrect` and `StaysInStep`: `[]TypeOK` and `[]InStep`. A list that is read to its dot is
  read whole because no other line is a dot (`DotIsLast`), any other call because its
  reply is one line.
* `ReadsItsReply`: `[][Understands]_vars`, with no hypothesis. What a call in step returns
  is what its parser makes of the lines of its own reply, without their ends and in
  their order (`Parsed`); or the failure that the first bad line calls for, and no other
  line is read before; and a list is all there, even if the stream ends within its dot.
  The exception is `CutShort`: the stream ends behind a dot that begins a row, and the call
  goes by the lines before that row.
* `CallsAreAnswered` and `ListsAreWhole`: `AnswersItsCall` and `NoShortList`, if
  `RepliesReadBack`: each answer, laid out by gearmand and parsed, is the answer again, or
  the error its ambiguous row calls for, and each row that parses is the row that was laid
  out. This is a statement about the parsers and the answers alone and says nothing of the
  session. It depends on the contents of each answer, so it stays with TLC:
  `admin_session` checks both properties without that hypothesis, for every parser.

`Numbers` has what these three use: a least and a greatest element, remainders, and
induction in the form of a set of numbers (`SetInduction`): the library's theorem takes an
operator, which the provers cannot instantiate, but a set with 0 in it, and n + 1 with
every n, is an ordinary argument. So `Chain`, `Body` and `FlattenSeq`, which are
recursive functions, can be reasoned about for every input.

### Only model-checked

* The liveness properties: temporal proofs under fairness are out of the prover's reach.
* `RoundRobinIsFair`: the turns of a caller depend on those of all others between its
  reading of the cursor and its tests, so an invariant has to count over all callers at once,
  up to the cursor's wrap, and the bound is not one for every size of the cursor
  (a cursor of one value gives every call the same server).
* `RepliesReadBack`, as said above.

## 7. Not modelled

`connect` with no servers, which fails at once. The contents of packets beyond what
the properties tell apart, the arguments of admin commands, signs and widths of the numbers in admin replies, the
length of the worker's backoff, the grab mode, `SubmitOptions`' priorities and epochs,
MD5 and address parsing, opening TCP and TLS streams, error texts, logging,
examples. The client's models have no back-pressure (a server that reads nothing);
the worker's have. gearmand itself is external throughout, so no model joins a
client, a server and a worker: it would show what we believe of gearmand.
