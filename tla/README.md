# distributed-softmax: specifications and proofs

TLA+ specifications of the Rust gateway (`src/gateway-rs`) and the Rust workers
(`src/worker-rs`), TLC configurations that check them on small instances, and
TLAPS proofs that hold for every instance. Paths below are relative to `src/`.

## 1. The system

A client sends `SubmitTask(job_id, "softmax", vector)`. The gateway cuts the
vector into slices, pushes one task message per slice over ZeroMQ, and waits.
Workers compute a *partial softmax* of their slice (local maximum, exponentials
relative to it, their sum), `SET` it in Redis under `result:{job}:{slice}` and
`PUBLISH` on `slice_done:{job}`. The gateway reads the slices, aggregates them,
stores the result under `result:{job}` and replies. `GetResult(job_id)` reads
what is in Redis.

| component | source | state | operations |
|---|---|---|---|
| SubmitTask handler | `gateway-rs/src/service.rs` | one future per call | validate, slice, store metadata, publish, aggregate, reply |
| GetResult handler | `gateway-rs/src/service.rs` | none | read metadata, result, count slices |
| aggregator | `gateway-rs/src/aggregator.rs` | `stats`, `have`, deadline of a call | register, read slices, wait, unregister, aggregate |
| gateway process | `gateway-rs/src/main.rs` | everything the gateway holds in memory | start, restart |
| slice notifier | `gateway-rs/src/slice_notifier.rs` | `DashMap` job -> `watch::Sender` | register, unregister, subscriber loop |
| Redis manager, keys | `gateway-rs/src/redis_manager.rs`, `config.rs` | (in Redis) result, slice, metadata, progress keys; TTLs | `SETEX`, `GET`, `EXISTS` |
| publishers | `gateway-rs/src/publisher/zmq.rs` | a bounded channel and a push thread per socket | `publish` (blocks when full), push loop |
| standard worker | `worker-rs/src/transport/zmq.rs`, `handler.rs` | receive channel, semaphore, running tasks | receive, compute, `SET`, `PUBLISH` |
| NCCL worker | `worker-rs/src/main.rs`, `gpu_worker.rs` | `nccl_uid`, `nccl_ready:{rank}` (in Redis), communicator, one message at a time | rendezvous (id, flags, barrier), receive, AllReduce, `SET`, `PUBLISH`, exit |
| numerics | `softmax.rs`, `gpu_worker.rs`, `gpu_aggregator.rs`, `kernels/*.cu` | GPU shared memory | partial softmax, aggregation |
| cache manager | `gateway-rs/src/cache_manager.rs` | none | counts keys and logs |
| legacy gateway | `server/*` (C++) | as the Rust gateway | predecessor, kept for reference |

**Interaction.** Calls are tokio tasks that run on several threads; they share
the notifier's map, the publisher and the Redis connection. The gateway and the
workers share only ZeroMQ pipes (one-way, no acknowledgement) and Redis.

**What is hard.** The notification of a slice may come before, during or after the
first pass of reads; `SET` and `PUBLISH` are two commands, each of which may fail; the
subscription may be down; two calls may use one job id at the same time, or one after
the other, and slice keys never expire; tonic drops a handler at any `await` when its
client goes away; a worker that dies loses everything it holds, and while none is
connected `publish` may block outside every timeout; the gateway may be restarted
between any two steps, next to workers and a Redis that never noticed; a publisher's
channel may be full; in NCCL mode all ranks must meet in the same AllReduce although
each has a queue of its own, and they find each other through keys that outlive the
process that wrote them. `PROJECT.json` lists these hazards with the line where each
one bites.

**What makes it correct.** Per component: a slice is read back only into the place it
was computed for (keys, `SlicesKeepTheirJob`); a slice that is there and not yet read
comes with a wakeup (aggregator and notifier, `NoLostWakeup`); nothing between
`publish` and `SET` drops a slice (publisher and worker, `NoSliceLost`); no
registration outlives its call unless its client went away (notifier,
`OnlyCancelledLeak`); an OK reply is the softmax of the request's own vector
(`OkIsOwnSoftmax`, `NcclOkIsOwnSoftmax`, `ReplyIsSoftmax`); the ranks that run
together join one communicator together (rendezvous, `JoinTogether`) and agree on the
job they reduce (`RanksAgree`); every call is answered (`EveryCallAnswered`) unless it
waits for a worker that never comes, and without waiting for its deadline when its
slices are there (`CompletesByItself`); `GetResult` hands out whole results only and
does not take one back (`ReadyIsOwnSoftmax`, `ReadyStaysReady`).

## 2. Modules

| module | models | builds on |
|---|---|---|
| `RedisKeys` | key naming. A job id is the sequence of its `:`-separated components, which keeps exactly the collisions the format strings have | |
| `Slicing` | `vector.chunks`, `even_chunks`, `num_slices` | |
| `Common` | Redis (result, metadata, progress keys, the pub/sub channels), the publishers' channels, the budget of faults | `RedisKeys`, `Slicing` |
| `Gateway` | SubmitTask, aggregator, notifier | `Common` |
| `Publisher` | the push threads and the pipes to the workers | `Common` |
| `Worker` | the standard worker | `Publisher` |
| `GatewayProcess` | the gateway as a process that may be restarted | `Gateway`, `Publisher` |
| `ZmqSystem` | gateway, push threads, standard workers, Redis; the properties and the refinement mapping | `GatewayProcess`, `Worker` |
| `JobStatus` | clients that poll GetResult, and the expiry of result and metadata keys, beside `ZmqSystem` | `ZmqSystem` |
| `SoftmaxService` | abstract specification: what clients may rely on | |
| `NcclWorker`, `NcclSystem` | the CUDA ranks; the composition with the gateway | `Publisher`; `GatewayProcess`, `NcclWorker` |
| `Rendezvous` | how the ranks exchange the NCCL id and wait for each other before their loop, and their restarts | `Slicing` |
| `NcclStart` | the NCCL system from the start of its ranks on | `NcclSystem`, `Rendezvous` |
| `PartialSoftmax` | the numbers: partial softmax and three ways to aggregate | `Slicing` |
| `SoftmaxKernel` | the GPU kernels thread by thread, and the properties of the numbers | `PartialSoftmax` |
| `MCZmq`, `MCStatus`, `MCNccl`, `MCStart`, `MCSoftmax` | inputs and symmetry for TLC | |
| `SlicingProofs` | lemmas and theorems about the slicing arithmetic | `Slicing` |
| `GatewayProofs` | lemmas about the gateway that the ZeroMQ and the NCCL system share: types, what a step may write and send, where slices come from | `GatewayProcess`, `SlicingProofs` |
| `ZmqSystemProofs` | types, wakeups, registrations of `ZmqSystem` | `ZmqSystem`, `GatewayProofs` |
| `ServiceProofs` | where the slices come from and where they go; the refinement of `SoftmaxService` | `ZmqSystemProofs` |
| `JobStatusProofs` | what GetResult reports | `JobStatus`, `ServiceProofs` |
| `NcclSystemProofs` | types, order of the collectives, replies of `NcclSystem` | `NcclSystem`, `GatewayProofs` |
| `RendezvousProofs` | the rendezvous, alone and in `NcclStart` | `NcclStart`, `NcclSystemProofs` |
| `KernelProofs` | the kernels and the numbers of a reply | `SoftmaxKernel`, `SlicingProofs` |

**Correspondence.** `pc[r]` is where the SubmitTask call `r` is:

| `pc` | code |
|---|---|
| `metadata` | awaiting `set_job_metadata` |
| `publish` | in the loop over the slices; `sent[r]` is the loop index |
| `register` | in `wait_for_all_slices` before `register_job` |
| `scan` | in the `for` loop of reads; `unread[r]` are the slices this pass still has to read |
| `wait` | parked in `timeout(step, rx.changed())` |
| `store`, `progress` | awaiting the two `SETEX` of `store_final_result` |
| `ok`, `invalid`, `failed`, `cancelled` | answered, or dropped because the client went away |

An action is what runs between two awaits. Three places are finer, because
several threads run: each iteration of the publish loop is an action, and so are
the push thread's send and the subscriber's delivery. A Redis command of the
gateway ends in one of four ways (`AwaitWrite`): applied and acknowledged;
failed, applied or not; the handler dropped, with the command applied or not.
The two writes of a worker fail in the same ways. `stats[r]` stands for both
`stats` and `have`: it is `Nil` where `have[i]` is false. The count in the watch
channel is only compared with the last one seen, so it is one bit, `dirty[r]`;
a closed channel is `jobs[Job(r)] # r`.

**Workers that come and go.** `up[w]` says that the process of a standard worker
runs and is connected. Workers are down at first; `Start` may happen at any time,
also after a `Crash`, and is never forced, since `docker-compose.full.yml` starts no
worker and restarts none. `Push` needs a connected peer (`Connected`; in NCCL mode
the channel's own rank, as long as it has not left its loop): `send` blocks without
one (`publisher/zmq.rs` 56), the channel fills up, and `publish` blocks too (73).
`Wedged(r)` is a call in that place.

**Gateway restart.** `docker-compose.full.yml` runs the gateway with `restart:
unless-stopped`. `GatewayRestart` fails the open calls (their connections break),
empties the map of registrations and the publishers' channels, takes the
subscription down, and keeps of each worker's pipe some prefix, the part that
ZeroMQ had already delivered. Redis and the workers keep what they have.

**Rendezvous.** `boot[w]` is where rank `w` is in `nccl_rendezvous`:

| `boot` | code |
|---|---|
| `down` | no process |
| `uid` | rank 0 before its `SETEX` of `nccl_uid`, another rank polling for the key |
| `ready` | before the `SETEX` of `nccl_ready:{rank}` |
| `barrier` | in the loop that counts flags; `seen[w]` is the rank whose flag it reads next |
| `join` | blocked in `Comm::from_rank` |
| `up` | in the loop of `run_nccl`, where `NcclWorker` takes over (`EnterLoop`) |

A key of the rendezvous is 0 when it does not exist and otherwise the number of
the start of the rank that wrote it. For `nccl_uid` this number is the id itself
(rank 0 makes a new one at each start); for the flags the program sees only that
they exist. The number of attempts (200, 50 ms apart) is not counted: a rank may
give up (`GivesUp`) whenever a poll fails.

**Data.** A vector is a name, a length and the set of positions that are not
finite (JSON turns those into `null`, which the worker cannot parse), and `low`: the
sum of its exponentials comes out as zero. That happens with CUDA workers when all
elements are below the padding of the kernels and a slice does not fill its blocks.
The quotient 0/0 is then stored as `null` and does not parse (`HasNull`): the call
fails after both `SETEX`. A slice's
statistics carry the vector and the slice they were computed from, and for NCCL
the slices that were reduced together, so that every mix-up is visible. The
numbers are treated in `PartialSoftmax`.

**GetResult.** `qpc[q]` is where the open call of client `q` is: it has read the
metadata (`final`), it has found no result and counts slice keys (`count`), or it has
replied (`done`). Any value under the result key that is not a result is treated like
none, as a read that fails is. A stored result with a `null` in it gives the status
`failed` and nothing else does. It follows that a job whose SubmitTask failed or timed
out is reported as `pending` or `running` until its metadata expires.

**History variables.** `missed` (jobs for which a fault took a wakeup or a read),
`overlap` (two dispatch loops have overlapped), `promised` (a client had been told
that the job is done), `gone` (a key of the job has expired or a read of its result
has failed) and `tainted` (a rank was started while a rank of an earlier start was
running or its keys were still there) appear in properties and never in a guard.

**Not under `src/`.** Redis, ZeroMQ and NCCL are modelled from how the code
uses them: `PUBLISH` reaches a subscriber that is connected and nobody else; a
`PUSH` socket gives a message to one connected peer and forgets it; an AllReduce
ends when every rank has entered it, and pairs the n-th call of each rank;
`Comm::from_rank` returns when every rank has called it with the same id.

## 3. Runs

Every fault kind is a possible action bounded by `MaxFaults`: failing Redis writes and
reads, a failing `PUBLISH` or a broken subscription, a failing socket send, the death
of a worker (or a rank's exit), a GPU error, a client that goes away, a restart of the
gateway. Workers and ranks that are started, also again, and keys that expire are no
faults: they may happen at any time in the runs of `ZmqSystem`, `NcclStart` and
`JobStatus`.

| run | instance | shows |
|---|---|---|
| `zmq_safety` | 2 calls out of 3 requests (one id with two vectors, one id whose result key is another job's slice key), 1 failing `PUBLISH`, broken subscription or cancelled call | `NoLostWakeup`, `SlicesKeepTheirJob`, `OnlyCancelledLeak` |
| `zmq_service` | 2 calls out of 2 jobs (so also a retry; the softmax of one job is NaN), 1 failing write, dead worker, cancelled call or restart of the gateway | `OkIsOwnSoftmax`; the system implements `SoftmaxService` |
| `zmq_answered` | 2 calls out of rejected, non-finite and good requests, 1 fault of any kind, a worker that may never start, fair executor and clock | `TypeOK`, `EveryCallAnswered` |
| `zmq_completes` | 2 calls with one job id, fair executor, no clock; notifications are lost while the subscriber connects | `NoSliceLost`, `CompletesByItself` |
| `job_status` | 2 calls for one job, whose vector may be `low`, 1 polling client, keys that expire, 1 failing read or a restart of the gateway | `ReadyIsOwnSoftmax`, `ReadyStaysReady` |
| `nccl_serial` | 2 ranks, 2 calls out of 2 jobs | `SerialDispatchAgrees`, `NcclOkIsOwnSoftmax` |
| `nccl_answered` | 2 ranks, 1 call, 2 faults of any kind, non-finite, `low` and short vectors | `TypeOK`, `EveryCallAnswered` |
| `nccl_start` | 2 ranks, each started up to twice, keys that expire at any time, 1 call, 1 fault of any kind | `StartTypeOK`, `JoinTogether` |
| `softmax_kernel` | all vectors of up to 5 out of 4 elements, blocks of 4 threads, 3 slices, 3 ranks, CUDA and CPU workers in any mix | `KernelMatchesCpu`, `ReplyIsSoftmax` |
| `bad_nccl_order` | 2 ranks, 2 concurrent calls | `RanksAgree` fails |
| `bad_nccl_restart` | 2 ranks, each started up to twice | `OneCommunicator` fails |
| `bad_nccl_null` | 2 ranks, 2 calls one after the other, one vector with a non-finite element | `EveryRankParticipates` fails |

**Bounds.** Two calls are enough for every pair of stages to meet, with the same job
id and with different ones; a third would only repeat a pair. Two slices, a channel of
one message (of two in `zmq_completes`, where four slices are sent) and a single
worker with one permit make the channel fill up, make a worker hold one slice while
another waits, and let slices arrive in any order relative to reads. (`zmq_answered`
and `job_status` use one slice per job, to make room for the faults and for the
polling client; `zmq_completes` has two slices and no injected fault.) One fault hits
every operation at every stage; `zmq_safety` keeps the faults that take wakeups and
registrations away, and `NoWakeupIsLost` (section 5) covers the others; `NoSliceLost`
is checked without faults, and `EverySliceArrives` covers those under which it holds.
Two starts of each rank are a start and a restart, of one rank alone or of all;
`RanksJoinTogether` (section 5) covers any number. Symmetry between calls, workers and
permits is used in the runs that check only safety. `job_status` has no failing write;
`ReadyResultsAreOwnSoftmax` and `DoneJobsStayReady` cover it. Its `VIEW` leaves out
the progress keys and `missed`, which no action and no property of the run reads. In
`softmax_kernel` the smallest numbers are `2^-3` in f32 and `2^-4` in f64, the padding
is -4 and the elements are -12, -4, 0 and 1: -12 is so far below the padding that its
exponential relative to it is zero, and -4 underflows beside 0 in f32 only and beside
1 in both. Five elements make complete and incomplete blocks of four, up to three
slices (an error bound of at most 5/8), and slices that all, in part or not at all are
below the padding.

**Fairness.** Weak fairness of each call's next step (tokio polls a task that is
woken), of each worker task, of the push threads while a worker is connected and of
the subscriber, which reconnects for ever. Nothing forces a worker to start:
`EveryCallAnswered` therefore leaves one way out, a call that is `Wedged` for good,
and `CompletesByItself` is about behaviours in which every socket has a worker from
some moment on. The clock is a separate conjunct, `Clock`: `EveryCallAnswered` needs
it, `CompletesByItself` is stated without it. Faults, cancellations, new requests and
starts of workers are never forced. The fairness of a step that may fail is that of
the step, succeeding or not.

## 4. Where the code and its documentation disagree

* `bad_nccl_order`: `worker-rs/src/main.rs:162` relies on per-rank sockets for
  all ranks to see the jobs in one order. Each socket is FIFO, but nothing makes
  the loop of `submit_task` over the ranks atomic, so two calls may interleave,
  and an AllReduce then mixes two jobs. `SerialDispatchAgrees` says what does
  hold.
* `bad_nccl_null`: a non-finite element makes one rank skip its message
  (`main.rs:200`); the other ranks wait, and the next job completes their
  collective. From then on the ranks are one job apart.
* `bad_nccl_restart`: `README.md` 53 says that the ranks "initialize the NCCL
  communicator and enter the ZMQ pull loop together", and 349 promises recovery
  from a worker that is killed and restarted. `nccl_uid` and `nccl_ready:{rank}`
  live for 60 seconds and do not say which start they belong to. In the run's
  counterexample rank 0 gives up in its barrier and is started again, with a new
  id, while rank 1 passes its barrier on the old id and rank 0's old flag: both
  block in `from_rank`, each for a communicator of its own. `JoinTogether` says
  what does hold: ranks that are started together, after all of them have ended
  and their keys have expired, never do this.

Found while modelling and not kept as runs:

* A worker that is killed (`README.md` 349) loses the slices it held. The service
  recovers, but their job ends in the timeout: `NoSliceLost` holds in
  `zmq_completes`, which has no faults, and fails with the death of a worker.
* `unregister_job` is skipped when the handler is dropped, so that the entry of a
  cancelled call stays in the notifier's map; `OnlyCancelledLeak` states that
  nothing else leaves one.
* After a restart of the gateway in the middle of a dispatch one rank has
  its slice and the other never gets its own. Nothing resynchronises the per-rank
  queues, so `SerialDispatchAgrees` fails with a restart among the faults.
* The notifier's doc comment asks for `register_job` before the dispatch, and the
  aggregator calls it after. This is harmless because the first read follows:
  `NoLostWakeup` is about this.
* `publish` blocks without a deadline when the channel is full and no worker is
  connected. `EveryCallAnswered` has this one exception, and `zmq_answered` reaches it.
* A vector whose elements are all below -1e38 gives NaN with CUDA workers: the padding
  of an incomplete block becomes the maximum and every exponential is zero. The call
  fails, and leaves a result with `null` in it for `GetResult`, which reports `failed`.
* The result of job `a:0` overwrites slice 0 of job `a`.
* The gateway logs a "Slice TTL" (`gateway-rs/src/main.rs` 75), but workers `SET`
  slice keys without one.

## 5. Proofs

Constants are arbitrary, under the assumptions `SlicingAssumption`,
`CommonAssumption`, `NilAssumption`, `PublisherAssumption`, `TaskAssumption`,
`StatusAssumption`, `NcclAssumption`, `RendezvousAssumption`, `TinyAssumption`,
`PadAssumption` and `KernelAssumption`: at least one slice and one rank, a channel of
positive capacity, `Nil` distinct from the values it stands in for, in NCCL mode one
worker per rank, an f64 that underflows no earlier than an f32, a block size that is a
power of two (`BLOCK_SIZE` is 256; halving the stride would lose cells of any other
size), and elements that, if they are below the padding, are so by more than both
formats express (around -1e38 neighbouring numbers of f32 are 1e30 apart). The numbers
of calls, jobs, workers, ranks, permits, faults, starts, blocks and elements are
unbounded. Some theorems need more, and say so in their statement:

| condition | says | why it is needed |
|---|---|---|
| `OneVectorPerId` | clients send one vector per job id | results of two vectors would share a key |
| `KeysApart` | no job id is another's with `:<slice>` appended | the result of `a:0` is stored over slice 0 of `a` |
| `NothingDropped` | no push, worker, GPU or Redis-write fault, no gateway restart | each of them loses a slice that nobody sends again |
| `SlicesAccepted` | the worker takes every slice of a valid request | an empty slice, or one with `null` in it, is dropped |
| `NothingLost` | no push fault and no gateway restart | each leaves one rank a message short of the others |

All of them hold in the instances that check the same properties. Lost
notifications, failing reads and cancelled calls are allowed everywhere, and so
are failing ranks in the theorems about NCCL.

**Slicing and the ZeroMQ system.**

* `SlicingProofs!ChunkCountBounds`: `chunks(ceil(len/num_slices))` gives between
  1 and `num_slices` slices. It rests on the two elementary facts of division
  `DivBounds` and `MulMonotone`.
* `SlicingProofs!ChunksPartition`: every element is in exactly one of those
  slices, and none of them is empty.
* `SlicingProofs!EvenChunksPartition`: the same for `even_chunks`, given an element
  per rank. Its loop carries `start`; that rank `i` starts at
  `i * (len / world) + min(i, len % world)` (`EvenStartIs`) is by induction over the
  loop.
* `ZmqSystemProofs!TypeCorrect`: `Spec => []TypeOK`. `TypeOK` is inductive; its
  part `CallTypeOK` (a call past validation is valid, the loop index stays below
  the number of slices, a pass only reads slices that are missing) is what makes
  it so, with `ChunkCountBounds` for the loop index.
* `ZmqSystemProofs!NoWakeupIsLost`: `Spec => []NoLostWakeup`. The invariant is
  inductive together with `TypeOK`. The argument per action: a slice becomes
  readable only by a worker's `SET`, which leaves its job unannounced; `PUBLISH`
  turns that into a message on the bus or, with the subscription down, into
  `missed`; delivery turns the message into `dirty` for the call that is
  registered, and a call that is not registered is awake because its channel is
  closed; only `Rescan` clears `dirty`, and it puts every missing slice back
  into `unread`. A restart of the gateway leaves no call collecting.
* `ZmqSystemProofs!OnlyCancelledCallsLeak`: `Spec => []OnlyCancelledLeak`,
  inductive together with `TypeOK`. The case that needs care is a call that
  leaves while another call of its job has taken the entry over: `unregister_job`
  removes the entry of the job, whosever it is, so that no stale entry is left,
  and the other call loses its wakeups (which is why its re-poll matters).
* `ServiceProofs!EverySliceKeepsItsJob` and `OkRepliesAreOwnSoftmax`:
  `SlicesKeepTheirJob` and `OkIsOwnSoftmax`. Both follow from the invariant
  `Origin`, which traces a slice all the way round: a message in a channel or an
  inbox (`QueuesOfCalls`) and a task of a worker (`TasksOfCalls`) carry a vector
  submitted under their job id; a readable value under a slice key is that slice
  of such a vector, and a result under a result key is whole (`StoredOrigin`); so
  is what a call has read (`HeldOrigin`), and a call that stores has all its
  slices and no others (`StatsShape`). Two keys that collide are told apart by
  their format: a result is never readable as a slice. `OkIsNumeric` adds that a call
  is answered OK only if what it stored has no `null` in it.
* `ServiceProofs!EverySliceArrives`, under `NothingDropped`, `SlicesAccepted`
  and `KeysApart`: `Spec => []NoSliceLost`. The invariant says that every slice a
  call has *sent*, already while its loop runs, is in Redis or in one of the three
  places on the way (`SentArrive`), and that the queues hold only messages a
  worker takes (`QueuesAccepted`). `FiniteSlicesArrive` discharges `SlicesAccepted`
  for finite vectors, from `ChunksPartition` and `EvenChunksPartition`.
* `ServiceProofs!SystemImplementsService`, under `OneVectorPerId` and `KeysApart`:
  `Spec => ImplementsService`. Initial states map to initial states and every step
  to a step of `SoftmaxService` or a stutter, given the invariant `Inv` (types,
  `Origin`, and `ResultsInPlace`: result keys hold results only, and a call past
  its `SETEX` has one there). The delicate steps are the `SETEX` that is applied
  although it fails or its call is cancelled, and a second call that stores over a
  result: it stores the same one.
* `JobStatusProofs!ReadyResultsAreOwnSoftmax`: `StatusSpec => []ReadyIsOwnSoftmax`.
  `Origin` carries over, since queries only read and an expired key only goes;
  what a query has in its hands was under the result key, without a `null`, when it
  read it.
* `JobStatusProofs!DoneJobsStayReady`, under `KeysApart`:
  `StatusSpec => []ReadyStaysReady`. The invariant adds that the metadata and the
  result of a job that someone knows to be done are there (`KeysStay`), and that a
  query begun after that moment never gets to counting slices (`PromisesKept`). It is
  about ids none of whose vectors is `low` (`Numeric`): another one would replace the
  result by one that does not parse.

**The NCCL system.**

* `NcclSystemProofs!NcclTypeCorrect`: `Spec => []TypeOK`, inductive together with
  `RanksBusy` (a rank that reduces, writes or announces has a message, and one
  that writes has something to write).
* `NcclSystemProofs!SerialDispatchIsOrdered`, under `NothingLost`:
  `Spec => []SerialDispatchAgrees`. `Pending(w)` is all that lies before rank `w`:
  the message in its hands that it has not reduced yet, its pipe, its channel.
  While no dispatch loops have overlapped and the vectors are finite, there is one
  sequence of jobs (`Aligned`) that `Pending` of every live rank equals, but for
  one more job at the end of those ranks that the running dispatch loop has
  already served. An AllReduce takes the first job off all of them at once, which
  is why the ranks agree.
* `NcclSystemProofs!NcclRepliesAreOwnSoftmax`, under `NothingLost`:
  `Spec => []NcclOkIsOwnSoftmax`. With the above, what a rank holds after an
  AllReduce is its slice normalised over all slices of one vector (`ProbsOwn`),
  and the trace of slices through Redis is that of `GatewayProofs`, for the other
  format.
* `RendezvousProofs!RendezvousJoins` and `RanksJoinTogether`: `JoinTogether` holds
  of the rendezvous alone and of `StartSpec`, whose steps are steps of the
  rendezvous or leave it unchanged. `JoinTogether` is not inductive, since it says
  nothing of the keys. The invariant adds, for untainted behaviours: ranks that lag
  behind another start have ended (`RunnersAreLatest`); what is in Redis was
  written in the latest start, by ranks that have come as far (`KeysAreLatest`);
  the id a rank holds is that of its own start (`IdsAreLatest`); and so are the
  flags it has counted, also half way through a pass (`FlagsAreLatest`). That a
  pass reads the flags one after the other while ranks end and keys expire is
  covered by the last one.
* `RendezvousProofs!StartTypeCorrect`: `StartSpec => []StartTypeOK`, from the types
  of both parts and `UpIsLive`: a rank is in its loop exactly when its rendezvous
  is behind it, also after it has ended and been started again.

`GatewayProofs` holds the lemmas both systems use, so that a fact about the
gateway is proved once.

**The numbers.**

* `KernelProofs!KernelIsPartialSoftmax`: `KernelSpec => []KernelMatchesCpu`.
  `KernelMatchesCpu` says nothing until both passes are over; the inductive invariant
  `KernelInv` says what the shared cells are worth meanwhile. `Live(b)` are the cells
  that still count in the round of block `b`: those below the stride, and the partners
  of the threads that have not had their turn. `Carries` says that the maximum, or the
  sum, over the live cells is that over the whole row as it was loaded. A thread takes
  its partner out of the live cells and puts it into its own; the barrier halves the
  stride only when no partner is left, and then the live cells of both rounds are the
  same; in the end cell 0 alone is live. Once pass 1 is over, `global_max` is
  `block_max` of the slice, its maximum or that of the padding (`BlockMaxIs`). Stride
  and block size are powers of two, so that a halved stride is half the live cells.
  `HostMaxFinds` and `SumBlocks` then put the blocks together; `Padded` says when the
  padding is among the cells.
* `KernelProofs!RepliesAreSoftmax`: `KernelSpec => []ReplyIsSoftmax`, for any mix of
  CUDA and CPU workers. Both slicings are cuts of the vector at increasing offsets
  (`ChunkSlicesCut`, `EvenSlicesCut`); joining the pieces of a cut gives the vector
  back (`FlattenCut`) and its sums add up (`SumCut`). What counts as the maximum of a
  slice is its maximum or the padding, so the greatest of them is either the maximum
  of the vector or, with all elements below it, the padding (`SlicePivot`). Relative
  to that pivot all three ways to aggregate have one form (`HasForm`): numerators and
  the terms of the denominator are the exact powers of two at one scale, or 0 for
  elements more than `Tiny32` below the pivot (`CpuForm`, `GpuForm`, `NcclForm`). On
  the GPU of the gateway a slice's whole sum may underflow while it is scaled; then
  each of its terms does. If the pivot is the padding, every term is 0 and so is the
  denominator (`PadReply`). If it is the maximum of the vector (`MaxReply`), the
  denominator is at least the weight of that element; each term is within `c /
  2^Tiny32` of the exact one (`TermBound`), hence their sum within `len` times that
  (`SumBounds`), and the rest is algebra of one fraction (`KeptBound`, `LostBound`).

Both quantify over data of any size. The library's induction theorems cannot be
used for that here, since they take an operator as a parameter. `SetInduction`
(`SlicingProofs`) and `FiniteInduction` (`KernelProofs`) say the same of a *set* of
numbers, or of finite sets, and follow from the least-element principle for the
naturals; the sums (`SumTake`: a sum over a finite set is one element, any one, and the
sum over the rest), powers of two and maxima are built on them. That `2^(k+1) = 2 * 2^k`
is taken from the number of subsets of `1 .. k`.

**Only model-checked.** Liveness (`EveryCallAnswered`, `CompletesByItself`), which
needs fairness and `ENABLED`. All other properties of the passing runs are theorems.

## 6. Not modelled

* The expiry of progress keys, which nobody reads (slice keys do not expire:
  workers write them without a TTL).
* A crash of Redis, which with `appendonly` and the default `everysec` may lose
  the writes of the last second.
* The JSON format of slices, which `read_slice` accepts and no worker writes,
  and slices of both builds of the worker in one job (left in Redis by an earlier
  deployment): `aggregate` takes the format of the first slice for that of all.
* Rounding other than underflow, and with it the order of the probabilities of two
  nearly equal elements of different slices, which rounding decides; elements that are
  finite in JSON and not in f32; vectors longer than `i32::MAX`.
* The cache manager, which changes nothing; generated gRPC code; deployment.
* The legacy C++ gateway, which `README.md` 8 keeps "on disk for reference only".

## 7. Plan

All safety properties of the passing runs and the refinement are
proved. Left, in this order:

1. That the two communicating parts of an NCCL start do not disturb each other:
   `SerialDispatchAgrees` for `StartSpec`, with ranks that start again, under the
   conditions where it holds.
2. Steps of the liveness arguments that are safety: that a call which is not
   answered always has a step of its own, or waits for a full channel.
3. Rounding in `PartialSoftmax`, beyond underflow.
