------------------------------- MODULE Common -------------------------------
(***************************************************************************)
(* What the gateway and the workers share: the Redis instance (keys and    *)
(* the slice_done pub/sub channels), the queues of the ZeroMQ publisher    *)
(* threads, and the budget of injected faults.                             *)
(*                                                                         *)
(* DATA.  A client vector is a record [id, len, nulls, low].  nulls is the *)
(* set of positions of its non-finite elements, which serde_json writes as *)
(* null.  low says that the sum of its exponentials comes out as zero: the *)
(* workers are CUDA workers, all elements are below the padding of their   *)
(* kernels and a slice does not fill its blocks.  The numbers themselves   *)
(* are the subject of PartialSoftmax.  A slice of a vector is named by the *)
(* vector and the slice id.                                                *)
(***************************************************************************)
EXTENDS RedisKeys, Slicing

CONSTANTS
  Requests,     (* SubmitTask calls                                        *)
  Args,         (* the [job, task, vec] requests that clients may send     *)
  ChanCap,      (* bound of a publisher's sync_channel, with the message   *)
                (* that its thread is about to send                        *)
  FaultKinds,   (* the kinds of fault that may happen                      *)
  MaxFaults,    (* how many faults may happen in one behaviour             *)
  Nil

JobIds == { a.job : a \in Args }

Vectors == { a.vec : a \in Args }

AllFaults ==
  { "redis_write", "redis_read", "pubsub", "push", "worker", "gpu", "cancel",
    "gateway" }

ASSUME CommonAssumption ==
  /\ \A a \in Args :
       /\ DOMAIN a = {"job", "task", "vec"}
       /\ a.job \in Seq(Nat)
       /\ DOMAIN a.vec = {"id", "len", "nulls", "low"}
       /\ a.vec.len \in Nat
       /\ a.vec.nulls \subseteq 1 .. a.vec.len
       /\ a.vec.low \in BOOLEAN
  /\ ChanCap \in Nat \ {0}
  /\ FaultKinds \subseteq AllFaults
  /\ MaxFaults \in Nat
  /\ Nil \notin Requests \cup Args

VARIABLES
  store,        (* result:* keys                                           *)
  metadata,     (* metadata:{job_id} keys: total_slices, or Nil            *)
  progress,     (* progress:{job_id} keys: "completed", or Nil             *)
  bus,          (* slice_done:{job_id} messages not yet delivered          *)
  subscribed,   (* the SliceNotifier's pub/sub connection is up            *)
  chan,         (* the publishers' bounded channels                        *)
  missed,       (* history: jobs of which a wakeup or a read was lost      *)
  faults        (* number of faults so far                                 *)

sharedVars == <<store, metadata, progress, bus, subscribed, chan, missed, faults>>

-----------------------------------------------------------------------------
SliceIds == 0 .. (MaxSlices - 1)

Keys ==
  { ResultKey(j) : j \in JobIds } \cup
  { SliceKey(j, i) : j \in JobIds, i \in SliceIds }

(* One socket and one channel; in NCCL mode, one of each per rank.         *)
Channels == IF NcclDispatch THEN 0 .. (WorldSize - 1) ELSE {0}

(* The JSON task message.  "data" is the slice of vec named by slice_id.   *)
TaskMessage == [job : JobIds, slice : SliceIds, vec : Vectors]

(* serde_json turns a non-finite element into null, which the worker's     *)
(* Vec<f64> does not accept.                                               *)
Parses(msg) == Positions(msg.vec.len, msg.slice) \cap msg.vec.nulls = {}

(* What a worker writes under a slice key: the first byte, the slice the   *)
(* numbers were computed from and, for NCCL, the slices of all ranks that  *)
(* were reduced together with it.                                          *)
SliceStats ==
  [magic : {"0x01", "0x02"}, vec : Vectors, slice : SliceIds,
   reduced : SUBSET (Vectors \X SliceIds)]

(* The aggregator's vector of slice statistics; Nil beyond its length and  *)
(* where have[i] is false.                                                 *)
StatsVectors == [SliceIds -> {Nil} \cup SliceStats]

NoStats == [i \in SliceIds |-> Nil]

(* The final result, a JSON array, is the concatenation of what was        *)
(* aggregated.                                                             *)
Results == [magic : {"json"}, stats : StatsVectors]

(* What the numbers of slice i were divided by is the sum over these       *)
(* vectors: those the ranks reduced, or those of all aggregated slices.    *)
SummedUp(stats, i) ==
  IF stats[i].magic = "0x02"
    THEN { pair[1] : pair \in stats[i].reduced }
    ELSE { stats[k].vec : k \in { k \in SliceIds : stats[k] # Nil } }

(* The stored array has a null: 0 / 0 is NaN, which serde_json writes so,  *)
(* and which does not parse as a Vec<f64>.                                 *)
HasNull(stats) ==
  \E i \in SliceIds : stats[i] # Nil /\ \A vec \in SummedUp(stats, i) : vec.low

ASSUME NilAssumption == Nil \notin SliceStats \cup Results

(* read_slice accepts the two binary formats.  A JSON array has no         *)
(* "exp_values" member: read_slice fails, and its caller takes that for a  *)
(* slice that is not there yet.                                            *)
Readable(value) == value # Nil /\ value.magic \in {"0x01", "0x02"}

Fault(kind) ==
  /\ kind \in FaultKinds
  /\ faults < MaxFaults
  /\ faults' = faults + 1

-----------------------------------------------------------------------------
CommonInit ==
  /\ store = [k \in Keys |-> Nil]
  /\ metadata = [j \in JobIds |-> Nil]
  /\ progress = [j \in JobIds |-> Nil]
  /\ bus = [j \in JobIds |-> 0]
  /\ subscribed = FALSE      (* the subscriber task is only spawned        *)
  /\ chan = [c \in Channels |-> <<>>]
  /\ missed = {}
  /\ faults = 0

CommonTypeOK ==
  /\ store \in [Keys -> {Nil} \cup SliceStats \cup Results]
  /\ metadata \in [JobIds -> {Nil} \cup Nat]
  /\ progress \in [JobIds -> {Nil, "completed"}]
  /\ bus \in [JobIds -> Nat]
  /\ subscribed \in BOOLEAN
  /\ chan \in [Channels -> Seq(TaskMessage)]
  /\ missed \subseteq JobIds
  /\ faults \in 0 .. MaxFaults
=============================================================================
