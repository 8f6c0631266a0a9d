----------------------------- MODULE NcclSystem -----------------------------
(***************************************************************************)
(* TRANSPORT=zmq_nccl with CUDA workers: the gateway, one push thread and  *)
(* one rank per slice, and Redis.                                          *)
(***************************************************************************)
EXTENDS GatewayProcess, NcclWorker

ASSUME NcclAssumption == NcclDispatch

VARIABLE overlap   (* history: two dispatch loops have overlapped          *)

vars == <<sharedVars, gatewayVars, rankVars, overlap>>

(* Some of the slices of call r are published and some are not.            *)
Dispatching(r) == pc[r] = "publish" /\ sent[r] > 0

Overlapping == \E q, r \in Requests : q # r /\ Dispatching(q) /\ Dispatching(r)

Track == overlap' = (overlap \/ Overlapping')

Init == CommonInit /\ GatewayInit /\ RanksInit /\ overlap = FALSE

Quiescent ==
  /\ \A r \in Requests : Answered(r)
  /\ \A w \in Workers : stage[w] # "set" /\ stage[w] # "notify"
  /\ subscribed
  /\ \A j \in JobIds : bus[j] = 0

Next ==
  \/ /\ \/ GatewayNext /\ UNCHANGED rankVars
        \/ RanksNext /\ UNCHANGED gatewayVars
        \/ GatewayRestart /\ UNCHANGED <<stage, msg, probs>>
     /\ Track
  \/ Quiescent /\ UNCHANGED vars

Spec == Init /\ [][Next]_vars

Fairness ==
  /\ \A r \in Requests : WF_vars(CallStep(r) /\ UNCHANGED rankVars /\ Track)
  /\ \A r \in Requests : WF_vars(Deadline(r) /\ UNCHANGED rankVars /\ Track)
  /\ WF_vars(SubscriberStep /\ UNCHANGED rankVars /\ Track)
  /\ \A c \in Channels : WF_vars(PushRankStep(c) /\ UNCHANGED gatewayVars /\ Track)
  /\ \A w \in Workers : WF_vars(RankStep(w) /\ UNCHANGED gatewayVars /\ Track)
  /\ WF_vars(AllReduce /\ UNCHANGED gatewayVars /\ Track)

FairSpec == Spec /\ Fairness

-----------------------------------------------------------------------------
TypeOK == CommonTypeOK /\ GatewayTypeOK /\ RanksTypeOK /\ overlap \in BOOLEAN

(* worker-rs/src/main.rs 162-163: "all ranks must call AllReduce in the    *)
(* same job order. The per-rank ZMQ PUSH sockets on the gateway guarantee  *)
(* this ordering."  Ranks that wait in a collective wait in that of one    *)
(* job: the slices that get reduced together are those of one vector.      *)
RanksAgree ==
  \A v, w \in Workers :
    stage[v] = "reduce" /\ stage[w] = "reduce" =>
      msg[v].job = msg[w].job /\ msg[v].vec = msg[w].vec

(* What the per-rank sockets do guarantee: if no two dispatch loops have   *)
(* overlapped and no vector holds a value that a rank cannot parse, the    *)
(* ranks agree, across any number of jobs, cancellations and timeouts.     *)
AllFinite == \A r \in Requests : pc[r] # "idle" => args[r].vec.nulls = {}

SerialDispatchAgrees == ~overlap /\ AllFinite => RanksAgree

(* service.rs 39-41: "each job must produce exactly this many non-empty    *)
(* slices so every rank participates in the AllReduce".  Even when jobs    *)
(* are dispatched one at a time.                                           *)
EveryRankParticipates == ~overlap => RanksAgree

(* With dispatch loops that do not overlap, an OK reply is the call's own  *)
(* softmax: every slice normalised by the sum over all slices of the same  *)
(* vector.                                                                 *)
NcclSoftmax(vec) ==
  [i \in SliceIds |-> Normalized([vec |-> vec, slice |-> i], {vec} \X SliceIds)]

NcclOkIsOwnSoftmax ==
  ~overlap /\ AllFinite =>
    \A r \in Requests :
      pc[r] = "ok" /\ (\A q \in Requests : pc[q] # "idle" /\ Job(q) = Job(r)
                                            => args[q].vec = args[r].vec)
        => stats[r] = NcclSoftmax(args[r].vec)

(* A call is answered even when the collective has stalled for good, as    *)
(* long as the queue to a rank that is gone has room.                      *)
EveryCallAnswered ==
  \A r \in Requests : pc[r] = "metadata" ~> Answered(r)
=============================================================================
