----------------------------- MODULE ZmqSystem -----------------------------
(***************************************************************************)
(* Gateway, push threads, CPU or GPU workers and Redis together.           *)
(* NcclDispatch = FALSE is TRANSPORT=zmq.  NcclDispatch = TRUE is          *)
(* TRANSPORT=zmq_nccl with workers built without CUDA, which run the same  *)
(* partial-softmax path on their rank's endpoint, one task at a time.      *)
(***************************************************************************)
EXTENDS GatewayProcess, Worker

vars == <<sharedVars, gatewayVars, workerVars>>

Init == CommonInit /\ GatewayInit /\ WorkerInit

(* Every call is answered and every queue drained.                         *)
Quiescent ==
  /\ \A r \in Requests : Answered(r)
  /\ \A c \in Channels : chan[c] = <<>>
  /\ \A w \in Workers : inbox[w] = <<>> /\ \A p \in Permits : slots[w][p] = Nil
  /\ subscribed
  /\ \A j \in JobIds : bus[j] = 0

Step ==
  \/ GatewayNext /\ UNCHANGED workerVars
  \/ WorkerNext /\ UNCHANGED gatewayVars

Next ==
  \/ Step
  \/ GatewayRestart /\ UNCHANGED <<slots, up>>
  \/ Quiescent /\ UNCHANGED vars

Spec == Init /\ [][Next]_vars

(* The executors run every task that can run, the push thread sends while  *)
(* there is something to send and a worker to send it to, and the          *)
(* subscriber reconnects.  Faults and cancellations are never forced, and  *)
(* neither is the start of a worker.                                       *)
Fairness ==
  /\ \A r \in Requests : WF_vars(CallStep(r) /\ UNCHANGED workerVars)
  /\ WF_vars(SubscriberStep /\ UNCHANGED workerVars)
  /\ \A c \in Channels : WF_vars(PushStep(c) /\ UNCHANGED gatewayVars)
  /\ \A w \in Workers, p \in Permits : WF_vars(TaskStep(w, p) /\ UNCHANGED gatewayVars)

(* Time passes.                                                            *)
Clock == \A r \in Requests : WF_vars(Deadline(r) /\ UNCHANGED workerVars)

FairSpec == Spec /\ Fairness

TimedSpec == FairSpec /\ Clock

-----------------------------------------------------------------------------
TypeOK == CommonTypeOK /\ GatewayTypeOK /\ WorkerTypeOK

(* A slice is on its way to Redis.                                         *)
InFlight(job, slice) ==
  LET Is(msg) == msg.job = job /\ msg.slice = slice
  IN \/ \E c \in Channels : \E k \in 1 .. Len(chan[c]) : Is(chan[c][k])
     \/ \E w \in Workers : \E k \in 1 .. Len(inbox[w]) : Is(inbox[w][k])
     \/ \E w \in Workers, p \in Permits : Running(w, p, "compute") /\ Is(slots[w][p].msg)

(* Slice i of a job was computed from slice i of a vector that some call   *)
(* submitted under that job id: neither another job's data nor another     *)
(* position of the same job ever ends up in it, whatever the workers, the  *)
(* retries and the faults do.  Held by the key format and by the way       *)
(* wait_for_all_slices fills stats[i].                                     *)
FromJob(value, job, slice) ==
  /\ value.slice = slice
  /\ \E q \in Requests : pc[q] # "idle" /\ Job(q) = job /\ args[q].vec = value.vec

SlicesKeepTheirJob ==
  /\ \A r \in Requests :
       pc[r] \in {"scan", "wait", "store", "progress", "ok"} =>
         \A i \in Slices(r) \ Missing(r) : FromJob(stats[r][i], Job(r), i)
  /\ \A r \in Requests :
       pc[r] \in {"store", "progress", "ok"} => Missing(r) = {}

(* What a call promises when a job id stands for one vector: the answer,   *)
(* and the stored result it was parsed from, is the aggregation of exactly *)
(* the slices of its own vector, and consists of numbers.                  *)
OneVectorPerJob ==
  \A q, r \in Requests : (pc[q] # "idle" /\ pc[r] # "idle" /\ Job(q) = Job(r))
                            => args[q].vec = args[r].vec

WholeSoftmax(vec) ==
  [i \in SliceIds |->
     IF i < TotalSlices(vec.len)
       THEN [magic |-> "0x01", vec |-> vec, slice |-> i, reduced |-> {}]
       ELSE Nil]

OkIsOwnSoftmax ==
  OneVectorPerJob =>
    \A r \in Requests : pc[r] = "ok" =>
      stats[r] = WholeSoftmax(args[r].vec) /\ ~args[r].vec.low

(* aggregator.rs 110-111: "a notification for a slice that lands while we  *)
(* are reading is never lost".  If a slice that a call still waits for is  *)
(* already in Redis and its pass is over, the call is awake, or the        *)
(* notification that will wake it is on its way - unless that notification *)
(* (or the read) was lost to a fault, which `missed' records.              *)
WakeupPending(r) ==
  \/ Woken(r)
  \/ bus[Job(r)] > 0
  \/ \E w \in Workers : Job(r) \in Unannounced(w)

WillWakeUp(r) ==
  Collecting(r) /\ Job(r) \notin missed =>
    \A i \in Missing(r) \ unread[r] :
      Readable(store[SliceKey(Job(r), i)]) => WakeupPending(r)

NoLostWakeup == \A r \in Requests : WillWakeUp(r)

(* Every slice a collecting call still lacks is in Redis or on its way:    *)
(* nothing between publish and SET drops one.                              *)
NoSliceLost ==
  \A r \in Requests :
    Collecting(r) => \A i \in Missing(r) :
      Readable(store[SliceKey(Job(r), i)]) \/ InFlight(Job(r), i)

(* The refinement mapping to what clients see: the local stages of a call  *)
(* collapse to "open", and a stored result counts as the softmax of a      *)
(* vector only if it aggregates exactly that vector's slices.              *)
ServiceStatus ==
  [r \in Requests |-> IF pc[r] = "idle" THEN "new"
                      ELSE IF Answered(r) THEN pc[r] ELSE "open"]

ServiceResult ==
  [j \in JobIds |->
     LET value == store[ResultKey(j)]
     IN IF value = Nil THEN Nil
        ELSE IF \E v \in Vectors : value.stats = WholeSoftmax(v)
          THEN CHOOSE v \in Vectors : value.stats = WholeSoftmax(v)
          ELSE "garbage"]

Service ==
  INSTANCE SoftmaxService WITH
    status <- ServiceStatus, request <- args, result <- ServiceResult

(* As long as a job id stands for one vector and no job id is another's    *)
(* with ":<slice>" appended, the system implements SoftmaxService.         *)
ImplementsService == Service!ServiceSpec

(* slice_notifier.rs 17: "unregister_job(job_id) when done".  An entry of  *)
(* the notifier's map belongs to a call of that job which is collecting,   *)
(* or whose client went away while it was: a future that is dropped does   *)
(* not reach unregister_job, and its entry stays until the job id is used  *)
(* again.  No other way to leave, and no call that takes the entry of      *)
(* another over, leaves one behind.                                        *)
OnlyCancelledLeak ==
  \A j \in JobIds : jobs[j] # Nil =>
    /\ Job(jobs[j]) = j
    /\ Collecting(jobs[j]) \/ pc[jobs[j]] = "cancelled"

(* A worker is connected to the socket of channel c.                       *)
HasPeer(c) == \E w \in Connected : NcclDispatch => w = c

(* The one place where a call waits without a deadline: its next slice     *)
(* does not fit into the channel, and no worker is there to take one out.  *)
Wedged(r) ==
  LET c == IF NcclDispatch THEN sent[r] ELSE 0
  IN pc[r] = "publish" /\ Len(chan[c]) = ChanCap /\ ~HasPeer(c)

(* Whatever fails, every call is answered one way or another, unless it    *)
(* blocks in publish because the workers are gone and never come back.  A  *)
(* worker that is started later lets it go on (publisher/zmq.rs: send and  *)
(* publish wait, neither gives up).                                        *)
EveryCallAnswered ==
  \A r \in Requests :
    [](pc[r] = "metadata" => <>Answered(r) \/ <>[]Wedged(r))

(* Without the deadline: once every socket has a worker for good, a call   *)
(* whose slices are not lost completes, also when the notifications are    *)
(* lost (aggregator.rs 138-139: "a missed wakeup can never wedge us until  *)
(* the full timeout").                                                     *)
CompletesByItself ==
  <>[](\A c \in Channels : HasPeer(c)) =>
    [](\A r \in Requests : pc[r] = "scan" => <>(Answered(r) \/ expired[r]))
=============================================================================
