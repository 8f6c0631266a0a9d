---------------------------- MODULE ServiceProofs ----------------------------
(***************************************************************************)
(* What a call gets.  SlicesKeepTheirJob and OkIsOwnSoftmax of ZmqSystem   *)
(* follow from an invariant that traces every slice from a call through    *)
(* the queues, the workers and Redis back into the hands of a call;        *)
(* NoSliceLost from one that follows a slice from the dispatch loop into   *)
(* Redis.  The last part shows that the system implements SoftmaxService,  *)
(* the contract its clients rely on, for every set of requests in which a  *)
(* job id stands for one vector and no job id is another's with ":<slice>" *)
(* appended.                                                               *)
(***************************************************************************)
EXTENDS ZmqSystemProofs

TasksOfCalls ==
  \A w \in Workers, p \in Permits :
    slots[w][p] # Nil => Submitted(slots[w][p].msg.job, slots[w][p].msg.vec)

Origin ==
  /\ QueuesOfCalls /\ TasksOfCalls
  /\ StoredOrigin("0x01") /\ HeldOrigin("0x01") /\ StatsShape

-----------------------------------------------------------------------------
LEMMA OriginInit == Init => Origin
<1> SUFFICES ASSUME Init PROVE Origin OBVIOUS
<1>1. QueuesOfCalls BY QueuesInit DEF Init, WorkerInit
<1>2. TasksOfCalls BY DEF Init, WorkerInit, TasksOfCalls
<1>3. StoredOrigin("0x01") /\ HeldOrigin("0x01") /\ StatsShape BY OriginsInit DEF Init
<1> QED BY <1>1, <1>2, <1>3 DEF Origin

(* A task stays what it is, and begins as the message at the head of the   *)
(* inbox.                                                                  *)
LEMMA TasksKept ==
  ASSUME TypeOK, GatewayMoves, TasksOfCalls, QueuesOfCalls,
         \A w \in Workers, p \in Permits :
           \/ slots'[w][p] = Nil
           \/ slots[w][p] # Nil /\ slots'[w][p].msg = slots[w][p].msg
           \/ inbox[w] # <<>> /\ slots'[w][p].msg = Head(inbox[w])
  PROVE  TasksOfCalls'
<1> SUFFICES ASSUME NEW w \in Workers, NEW p \in Permits, slots'[w][p] # Nil
             PROVE  Submitted(slots[w][p].msg.job, slots[w][p].msg.vec)'
  BY DEF TasksOfCalls
<1>1. Submitted(slots'[w][p].msg.job, slots'[w][p].msg.vec)
  <2>1. inbox[w] \in Seq(TaskMessage) /\ OfCalls(inbox[w])
    BY DEF TypeOK, WorkerTypeOK, PublisherTypeOK, QueuesOfCalls
  <2>2. inbox[w] # <<>> => Submitted(Head(inbox[w]).job, Head(inbox[w]).vec)
    BY <2>1, OfCallsTail
  <2> QED BY <2>2 DEF TasksOfCalls
<1> QED BY <1>1, TypeParts, SubmittedPersists

(* A worker sets the slice it has computed.                                *)
SliceWritten ==
  \E w \in Workers, p \in Permits : slots[w][p] # Nil /\ SetSlice(slots[w][p].msg)

LEMMA SliceWrittenIsPut == TypeOK /\ TasksOfCalls /\ SliceWritten => SlicePut("0x01")
<1> SUFFICES ASSUME TypeOK, TasksOfCalls, SliceWritten PROVE SlicePut("0x01") OBVIOUS
<1>1. PICK w \in Workers, p \in Permits : slots[w][p] # Nil /\ SetSlice(slots[w][p].msg)
  BY DEF SliceWritten
<1>2. PICK m \in TaskMessage : m = slots[w][p].msg BY <1>1, SlotFacts
<1>3. Submitted(m.job, m.vec) BY <1>1, <1>2 DEF TasksOfCalls
<1>4. m.job \in JobIds /\ m.slice \in SliceIds /\ m.vec \in Vectors BY DEF TaskMessage
<1>5. store' = [store EXCEPT ![SliceKey(m.job, m.slice)] = SliceStat("0x01", m.vec, m.slice)]
  BY <1>1, <1>2 DEF SetSlice, PartialStats, SliceStat
<1> QED BY <1>3, <1>4, <1>5 DEF SlicePut

LEMMA WorkerMoves ==
  ASSUME TypeOK, Origin, WorkerNext, UNCHANGED gatewayVars
  PROVE  /\ QueuesOfCalls' /\ TasksOfCalls'
         /\ store' = store \/ SliceWritten
<1> DEFINE Goal == QueuesOfCalls' /\ TasksOfCalls' /\ (store' = store \/ SliceWritten)
<1>1. Typed /\ PublisherTypeOK /\ GatewayMoves /\ QueuesOfCalls /\ TasksOfCalls
  BY TypeParts DEF Origin, GatewayMoves
<1>2. ASSUME NEW c \in Channels, PushStep(c) PROVE Goal
  <2>1. QueuesOfCalls' BY <1>1, <1>2, QueuesKeptByPush DEF PushStep
  <2>2. TasksOfCalls' BY <1>1, <1>2, TasksKept DEF PushStep
  <2>3. store' = store BY <1>2 DEF PushStep, Push, PushFails
  <2> QED BY <2>1, <2>2, <2>3
<1>3. ASSUME NEW w \in Workers, NEW p \in Permits, StartTask(w, p) PROVE Goal
  <2> USE <1>3 DEF StartTask, SetSlot
  <2>1. QueuesOfCalls' BY <1>1, QueuesKeptByTaking DEF sharedVars
  <2>2. TasksOfCalls'
    <3>1. \A v \in Workers, k \in Permits :
            \/ slots'[v][k] = slots[v][k]
            \/ v = w /\ slots'[v][k] = [stage |-> "compute", msg |-> Head(inbox[w])]
      BY DEF TypeOK, WorkerTypeOK
    <3> QED BY <1>1, <3>1, TasksKept
  <2>3. store' = store BY DEF sharedVars
  <2> QED BY <2>1, <2>2, <2>3
<1>4. ASSUME NEW w \in Workers, NEW p \in Permits,
             \/ ComputeFails(w, p) \/ WriteSlice(w, p) \/ WriteFails(w, p)
             \/ NotifySlice(w, p) \/ NotifyFails(w, p)
      PROVE  Goal
  <2> USE <1>4 DEF ComputeFails, WriteSlice, WriteFails, NotifySlice, NotifyFails, SetSlot, Running
  <2>1. inbox' = inbox /\ chan' = chan OBVIOUS
  <2>2. QueuesOfCalls' BY <1>1, <2>1, QueuesKeptByTaking
  <2>3. TasksOfCalls'
    <3>1. \A v \in Workers, k \in Permits :
            \/ slots'[v][k] = slots[v][k] \/ slots'[v][k] = Nil
            \/ /\ v = w /\ k = p /\ slots[w][p] # Nil
               /\ slots'[v][k] = [stage |-> "notify", msg |-> slots[w][p].msg]
      BY DEF TypeOK, WorkerTypeOK
    <3> QED BY <1>1, <3>1, TasksKept
  <2>4. store' = store \/ SliceWritten BY DEF SliceWritten
  <2> QED BY <2>2, <2>3, <2>4
<1>5. ASSUME NEW w \in Workers, Start(w) \/ Crash(w) PROVE Goal
  <2>1. QueuesOfCalls' BY <1>1, <1>5, QueuesKeptByTaking DEF Start, Crash, sharedVars
  <2>2. \A v \in Workers, k \in Permits : slots'[v][k] = slots[v][k] \/ slots'[v][k] = Nil
    BY <1>5 DEF Start, Crash, TypeOK, WorkerTypeOK
  <2> QED BY <1>1, <1>5, <2>1, <2>2, TasksKept DEF Start, Crash, sharedVars
<1> QED BY <1>2, <1>3, <1>4, <1>5 DEF WorkerNext, TaskStep

(* Origin after a step that does not move Redis in any other way.          *)
LEMMA OriginKept ==
  ASSUME TypeOK, TypeOK', Origin, GatewayMoves, QueuesOfCalls', TasksOfCalls',
         store' = store \/ ResultWritten \/ ResultExpired \/ SliceWritten
  PROVE  Origin'
<1>1. Typed /\ Typed' BY DEF TypeOK, Typed
<1>2. store' = store \/ ResultWritten \/ ResultExpired \/ SlicePut("0x01")
  BY SliceWrittenIsPut DEF Origin
<1>3. StatsShape' BY <1>1, StatsShapeStep DEF Origin
<1>4. HeldOrigin("0x01")' BY <1>1, HeldKept DEF Origin
<1>5. StoredOrigin("0x01")' BY <1>1, <1>2, StoredKept DEF Origin
<1> QED BY <1>3, <1>4, <1>5 DEF Origin

LEMMA OriginStep == TypeOK /\ Origin /\ [Next]_vars => Origin'
<1> SUFFICES ASSUME TypeOK, Origin, [Next]_vars PROVE Origin' OBVIOUS
<1>1. TypeOK' BY TypeStep
<1>2. Typed /\ PublisherTypeOK /\ QueuesOfCalls /\ TasksOfCalls BY TypeParts DEF Origin
<1>3. CASE GatewayNext /\ UNCHANGED workerVars
  <2>1. GatewayMoves /\ UNCHANGED <<inbox, slots>> BY <1>3 DEF GatewayMoves, workerVars
  <2>2. QueuesOfCalls' BY <1>2, <1>3, <2>1, QueuesKeptByGateway
  <2>3. TasksOfCalls' BY <1>2, <2>1, TasksKept
  <2> QED BY <1>1, <1>3, <2>1, <2>2, <2>3, StoreMoves, OriginKept
<1>4. CASE WorkerNext /\ UNCHANGED gatewayVars
  BY <1>1, <1>4, WorkerMoves, OriginKept DEF GatewayMoves
<1>5. CASE GatewayRestart /\ UNCHANGED <<slots, up>>
  <2>1. GatewayMoves BY <1>5 DEF GatewayMoves
  <2>2. QueuesOfCalls' BY <1>2, <1>5, QueuesKeptByGateway
  <2>3. TasksOfCalls' BY <1>2, <1>5, <2>1, TasksKept
  <2> QED BY <1>1, <1>5, <2>1, <2>2, <2>3, StoreMoves, OriginKept
<1>6. CASE UNCHANGED vars
  <2>1. GatewayMoves /\ UNCHANGED <<gatewayVars, chan, inbox, slots, store>>
    BY <1>6 DEF vars, sharedVars, workerVars, GatewayMoves
  <2>2. QueuesOfCalls' BY <2>1, <1>2 DEF QueuesOfCalls, OfCalls, Submitted, Job, gatewayVars
  <2>3. TasksOfCalls' BY <1>2, <2>1, TasksKept
  <2> QED BY <1>1, <2>1, <2>2, <2>3, OriginKept
<1> QED BY <1>3, <1>4, <1>5, <1>6 DEF Next, Step

(* What is whole for a job that stands for one vector is the softmax of    *)
(* that vector.                                                            *)
LEMMA WholeIsSoftmax ==
  ASSUME Typed, NEW sliceStats \in StatsVectors, NEW r \in Requests,
         pc[r] # "idle", WholeOf("0x01", sliceStats, Job(r)),
         \A q \in Requests : pc[q] # "idle" /\ Job(q) = Job(r) => args[q].vec = args[r].vec
  PROVE  sliceStats = WholeSoftmax(args[r].vec)
<1>1. PICK q \in Requests :
        /\ pc[q] \notin {"idle", "invalid"} /\ Job(q) = Job(r)
        /\ \A i \in Slices(q) : SliceOf("0x01", sliceStats[i], Job(r), i)
        /\ \A i \in SliceIds \ Slices(q) : sliceStats[i] = Nil
  BY DEF WholeOf
<1>2. args[q].vec = args[r].vec /\ TotalSlices(args[r].vec.len) \in Nat
  BY <1>1, CallIsTyped DEF VecLen
<1>3. ASSUME NEW i \in SliceIds
      PROVE  sliceStats[i] = (IF i < TotalSlices(args[r].vec.len)
                                THEN SliceStat("0x01", args[r].vec, i) ELSE Nil)
  <2>1. i \in Nat BY DEF SliceIds
  <2>2. i \in Slices(q) <=> i < TotalSlices(args[r].vec.len)
    BY <1>2, <2>1 DEF Slices, VecLen
  <2>3. \A v : Submitted(Job(r), v) => v = args[r].vec BY DEF Submitted
  <2> QED BY <1>1, <2>2, <2>3 DEF SliceOf
<1> QED BY <1>3 DEF WholeSoftmax, SliceStat, StatsVectors

(* Redis holds under the key of slice i of a job, and a call holds as its  *)
(* slice i, only numbers computed from slice i of a vector submitted under *)
(* that job id, and only a call with all its slices stores a result -      *)
(* whatever the job ids, the retries, the crashes and the restarts.        *)
THEOREM EverySliceKeepsItsJob == Spec => []SlicesKeepTheirJob
<1>1. TypeOK /\ Origin => SlicesKeepTheirJob
  <2> SUFFICES ASSUME TypeOK, Origin PROVE SlicesKeepTheirJob OBVIOUS
  <2>1. ASSUME NEW r \in Requests, Holding(r), NEW i \in Slices(r) \ Missing(r)
        PROVE  FromJob(stats[r][i], Job(r), i)
    <3>1. Slices(r) \subseteq SliceIds
      BY <2>1, CallFacts DEF Holding, Whole, Collecting
    <3>2. PICK v \in Vectors : Submitted(Job(r), v) /\ stats[r][i] = SliceStat("0x01", v, i)
      BY <2>1, <3>1 DEF Origin, HeldOrigin, Missing, SliceOf
    <3> QED BY <3>2 DEF FromJob, Submitted, SliceStat
  <2>2. \A r \in Requests : Whole(r) => Missing(r) = {} BY DEF Origin, StatsShape
  <2> QED BY <2>1, <2>2 DEF SlicesKeepTheirJob, Holding, Whole, Collecting
<1> QED BY <1>1, OriginInit, OriginStep, TypeCorrect, PTL DEF Spec

(* The array of a vector whose exponentials sum to zero has a null.        *)
LEMMA LowHasNull ==
  ASSUME NEW v \in Vectors, TotalSlices(v.len) \in 1 .. MaxSlices, v.low
  PROVE  HasNull(WholeSoftmax(v))
<1> DEFINE whole == WholeSoftmax(v)
<1>1. 0 \in SliceIds BY SlicingAssumption DEF SliceIds, MaxSlices
<1>2. \A i \in SliceIds : whole[i] \in {SliceStat("0x01", v, i), Nil}
  BY DEF WholeSoftmax, SliceStat
<1>3. whole[0] = SliceStat("0x01", v, 0)
  BY <1>1, SlicingAssumption DEF WholeSoftmax, SliceStat, MaxSlices
<1>4. SliceStat("0x01", v, 0) # Nil
  <2>1. SliceStat("0x01", v, 0) \in SliceStats BY <1>1 DEF SliceStat, SliceStats
  <2> QED BY <2>1, NilAssumption
<1>5. \A i \in SliceIds : whole[i] # Nil => whole[i].vec = v BY <1>2 DEF SliceStat
<1>6. whole[0].magic = "0x01" BY <1>3 DEF SliceStat
<1> HIDE DEF whole
<1>7. \A vec \in SummedUp(whole, 0) : vec.low BY <1>5, <1>6 DEF SummedUp
<1>8. HasNull(whole) BY <1>1, <1>3, <1>4, <1>7 DEF HasNull
<1> QED BY <1>8 DEF whole

(* A call is answered OK only with numbers, and keeps them.                *)
OkIsNumeric == \A r \in Requests : pc[r] = "ok" => ~HasNull(stats[r])

LEMMA AnswerMoves ==
  ASSUME Typed, GatewayMoves, NEW r \in Requests, pc'[r] = "ok"
  PROVE  pc[r] = "ok" \/ (pc[r] = "progress" /\ ~HasNull(stats[r]))
<1> DEFINE Goal == pc[r] = "ok" \/ (pc[r] = "progress" /\ ~HasNull(stats[r]))
<1> USE DEF Typed, GatewayTypeOK, Goto
<1>1. ASSUME NEW q \in Requests, NEW a \in Args, SubmitTask(q, a) PROVE Goal
  BY <1>1 DEF SubmitTask
<1>2. ASSUME NEW q \in Requests, UpdateProgress(q) PROVE Goal
  BY <1>2 DEF UpdateProgress, AwaitWrite
<1>3. ASSUME NEW q \in Requests,
             \/ SetJobMetadata(q) \/ PublishSlice(q) \/ RegisterJob(q) \/ Collected(q)
             \/ TimedOut(q) \/ Park(q) \/ Rescan(q) \/ AggregateFails(q) \/ StoreFinalResult(q)
             \/ Deadline(q) \/ CancelCollecting(q)
             \/ \E i \in SliceIds : ReadSlice(q, i) \/ ReadSliceFails(q, i)
      PROVE  pc[r] = "ok"
  BY <1>3 DEF SetJobMetadata, PublishSlice, RegisterJob, ReadSlice, ReadSliceFails, Collected,
     TimedOut, Park, Rescan, AggregateFails, StoreFinalResult, AwaitWrite, Deadline,
     CancelCollecting, EndOfPass
<1>4. CASE SubscriberStep \/ StreamEnds \/ UNCHANGED gatewayVars
  BY <1>4 DEF SubscriberStep, StreamEnds, Subscribe, DeliverNotification, gatewayVars
<1>5. CASE GatewayRestart BY <1>5 DEF GatewayRestart
<1> QED BY <1>1, <1>2, <1>3, <1>4, <1>5 DEF GatewayMoves, GatewayNext, CallStep, WakeUp, RePoll

LEMMA OkIsNumericStep ==
  ASSUME Typed, GatewayMoves, OkIsNumeric
  PROVE  OkIsNumeric'
<1> SUFFICES ASSUME NEW r \in Requests, pc'[r] = "ok" PROVE ~HasNull(stats'[r])
  BY DEF OkIsNumeric
<1>1. ~HasNull(stats[r]) BY AnswerMoves DEF OkIsNumeric
<1>2. Whole(r)' /\ Holding(r)' BY DEF Whole, Holding
<1>3. stats'[r] = stats[r] BY <1>2, HoldingMoves DEF Kept, Begun, JustRead
<1> QED BY <1>1, <1>3

(* A reply of SubmitTask that says OK is the aggregation of exactly the    *)
(* slices of the vector that was sent with it, and consists of numbers, if *)
(* every call under its job id sent that vector.                           *)
THEOREM OkRepliesAreOwnSoftmax == Spec => []OkIsOwnSoftmax
<1>1. TypeOK /\ Origin /\ OkIsNumeric => OkIsOwnSoftmax
  <2> SUFFICES ASSUME TypeOK, Origin, OkIsNumeric, OneVectorPerJob,
                      NEW r \in Requests, pc[r] = "ok"
               PROVE  stats[r] = WholeSoftmax(args[r].vec) /\ ~args[r].vec.low
    BY DEF OkIsOwnSoftmax
  <2>1. WholeOf("0x01", stats[r], Job(r)) /\ stats[r] \in StatsVectors
    BY TypeParts, CompleteIsWhole DEF Origin, Whole, TypeOK, GatewayTypeOK
  <2>2. stats[r] = WholeSoftmax(args[r].vec) BY <2>1, TypeParts, WholeIsSoftmax DEF OneVectorPerJob
  <2>3. args[r].vec \in Vectors /\ TotalSlices(args[r].vec.len) \in 1 .. MaxSlices
    BY CallFacts DEF VecLen
  <2>4. ~HasNull(WholeSoftmax(args[r].vec)) BY <2>2 DEF OkIsNumeric
  <2> QED BY <2>2, <2>3, <2>4, LowHasNull
<1>2. Init => OkIsNumeric BY DEF Init, GatewayInit, OkIsNumeric
<1>3. TypeOK /\ OkIsNumeric /\ [Next]_vars => OkIsNumeric'
  BY TypeParts, OkIsNumericStep DEF GatewayMoves, Next, Step, vars
<1> QED BY <1>1, <1>2, <1>3, OriginInit, OriginStep, TypeCorrect, PTL DEF Spec

-----------------------------------------------------------------------------
(* Where the slices go.  Under which conditions nothing between publish    *)
(* and SET drops one: no component that holds a slice fails, the workers   *)
(* accept every slice, and no job id is another's with ":<slice>" appended.*)

NothingDropped == FaultKinds \cap {"push", "worker", "gpu", "redis_write", "gateway"} = {}

SlicesAccepted ==
  \A a \in Args : Valid(a) =>
    \A i \in 0 .. (TotalSlices(a.vec.len) - 1) :
      Accepts([job |-> a.job, slice |-> i, vec |-> a.vec])

KeysApart == \A j, k \in JobIds, i \in SliceIds : ResultKey(j) # SliceKey(k, i)

AcceptedMessage == { m \in TaskMessage : Accepts(m) }

QueuesAccepted ==
  /\ \A c \in Channels : chan[c] \in Seq(AcceptedMessage)
  /\ \A w \in Workers : inbox[w] \in Seq(AcceptedMessage)

(* The slices that a call has sent and still counts on.                    *)
SlicesSent(r) ==
  CASE pc[r] = "publish" -> 0 .. (sent[r] - 1)
    [] pc[r] \in {"register", "scan", "wait"} -> Slices(r)
    [] OTHER -> {}

Landed(j, i) == Readable(store[SliceKey(j, i)])

SentArrive ==
  \A r \in Requests : \A i \in SlicesSent(r) : Landed(Job(r), i) \/ InFlight(Job(r), i)

(* The three places of a slice in flight.                                  *)
Waits(queue, j, i) == \E k \in 1 .. Len(queue) : queue[k].job = j /\ queue[k].slice = i

Computing(j, i) ==
  \E w \in Workers, p \in Permits :
    Running(w, p, "compute") /\ slots[w][p].msg.job = j /\ slots[w][p].msg.slice = i

InFlightSomewhere(j, i) ==
  \/ \E c \in Channels : Waits(chan[c], j, i)
  \/ \E w \in Workers : Waits(inbox[w], j, i)
  \/ Computing(j, i)

LEMMA InFlightPlaces ==
  ASSUME NEW j, NEW i
  PROVE  /\ InFlight(j, i) <=> InFlightSomewhere(j, i)
         /\ InFlight(j, i)' <=> InFlightSomewhere(j, i)'
  BY DEF InFlight, InFlightSomewhere, Waits, Computing

LEMMA WaitsTail ==
  ASSUME NEW queue \in Seq(TaskMessage), queue # <<>>, NEW j, NEW i, Waits(queue, j, i)
  PROVE  Waits(Tail(queue), j, i) \/ (Head(queue).job = j /\ Head(queue).slice = i)
<1>1. PICK k \in 1 .. Len(queue) : queue[k].job = j /\ queue[k].slice = i BY DEF Waits
<1>2. CASE k = 1 BY <1>1, <1>2
<1>3. CASE k # 1
  <2>1. k - 1 \in 1 .. Len(Tail(queue)) /\ Tail(queue)[k - 1] = queue[k]
    BY <1>3, HeadTailProperties
  <2> QED BY <1>1, <2>1 DEF Waits
<1> QED BY <1>2, <1>3

LEMMA WaitsAppend ==
  ASSUME NEW queue \in Seq(TaskMessage), NEW m \in TaskMessage, NEW j, NEW i,
         Waits(queue, j, i) \/ (m.job = j /\ m.slice = i)
  PROVE  Waits(Append(queue, m), j, i)
<1>1. CASE Waits(queue, j, i)
  <2>1. PICK k \in 1 .. Len(queue) : queue[k].job = j /\ queue[k].slice = i
    BY <1>1 DEF Waits
  <2> QED BY <2>1 DEF Waits
<1>2. CASE m.job = j /\ m.slice = i
  <2>1. Len(queue) + 1 \in 1 .. Len(Append(queue, m)) /\ Append(queue, m)[Len(queue) + 1] = m
    BY AppendProperties
  <2> QED BY <1>2, <2>1 DEF Waits
<1> QED BY <1>1, <1>2

-----------------------------------------------------------------------------
(* What is in flight stays in flight until it is in Redis.                 *)

LEMMA FlightByPush ==
  ASSUME TypeOK, NEW c \in Channels, NEW w \in Workers, NEW peers, Push(c, w, peers),
         UNCHANGED slots, NEW j, NEW i, InFlight(j, i)
  PROVE  InFlight(j, i)'
<1>1. /\ chan \in [Channels -> Seq(TaskMessage)] /\ inbox \in [Workers -> Seq(TaskMessage)]
      /\ chan[c] # <<>>
  BY DEF TypeOK, CommonTypeOK, WorkerTypeOK, PublisherTypeOK, Push
<1>2. PICK h \in TaskMessage : h = Head(chan[c]) BY <1>1, HeadTailProperties
<1>3. /\ \A d \in Channels : chan'[d] = IF d = c THEN Tail(chan[c]) ELSE chan[d]
      /\ \A v \in Workers : inbox'[v] = IF v = w THEN Append(inbox[w], h) ELSE inbox[v]
  BY <1>1, <1>2 DEF Push
<1>4. ASSUME NEW d \in Channels, Waits(chan[d], j, i)
      PROVE  (\E e \in Channels : Waits(chan[e], j, i)') \/ Waits(inbox[w], j, i)'
  <2>1. CASE d # c BY <1>3, <1>4, <2>1 DEF Waits
  <2>2. CASE d = c
    <3>1. Waits(Tail(chan[c]), j, i) \/ (h.job = j /\ h.slice = i)
      BY <1>1, <1>2, <1>4, <2>2, WaitsTail
    <3>2. CASE Waits(Tail(chan[c]), j, i) BY <1>3, <3>2 DEF Waits
    <3>3. CASE h.job = j /\ h.slice = i
      <4>1. Waits(Append(inbox[w], h), j, i) BY <1>1, <3>3, WaitsAppend
      <4> QED BY <1>3, <4>1 DEF Waits
    <3> QED BY <3>1, <3>2, <3>3
  <2> QED BY <2>1, <2>2
<1>5. ASSUME NEW v \in Workers, Waits(inbox[v], j, i) PROVE Waits(inbox[v], j, i)'
  <2>1. Waits(Append(inbox[v], h), j, i) BY <1>1, <1>5, WaitsAppend
  <2> QED BY <1>3, <1>5, <2>1 DEF Waits
<1>6. Computing(j, i)' <=> Computing(j, i) BY DEF Computing, Running
<1> QED BY <1>4, <1>5, <1>6, InFlightPlaces DEF InFlightSomewhere

LEMMA FlightByStart ==
  ASSUME TypeOK, QueuesAccepted, NEW w \in Workers, NEW p \in Permits, StartTask(w, p),
         NEW j, NEW i, InFlight(j, i)
  PROVE  InFlight(j, i)'
<1>1. /\ inbox \in [Workers -> Seq(TaskMessage)] /\ inbox[w] # <<>> /\ slots[w][p] = Nil
      /\ slots \in [Workers -> [Permits -> {Nil} \cup Tasks]]
  BY DEF TypeOK, WorkerTypeOK, PublisherTypeOK, StartTask
<1>2. PICK h \in AcceptedMessage : h = Head(inbox[w])
  BY <1>1, HeadTailProperties DEF QueuesAccepted
<1>3. /\ chan' = chan
      /\ \A v \in Workers : inbox'[v] = IF v = w THEN Tail(inbox[w]) ELSE inbox[v]
      /\ slots' = [slots EXCEPT ![w][p] = [stage |-> "compute", msg |-> h]]
  BY <1>1, <1>2 DEF StartTask, SetSlot, AcceptedMessage, sharedVars
<1>4. [stage |-> "compute", msg |-> h] # Nil
  BY TaskAssumption, <1>2 DEF Tasks, AcceptedMessage
<1>5. Computing(j, i) \/ (h.job = j /\ h.slice = i) => Computing(j, i)'
  <2>1. ASSUME h.job = j, h.slice = i PROVE Computing(j, i)'
    <3>1. slots'[w][p] = [stage |-> "compute", msg |-> h] BY <1>1, <1>3
    <3> QED BY <1>4, <2>1, <3>1 DEF Computing, Running
  <2>2. ASSUME NEW v \in Workers, NEW k \in Permits, Running(v, k, "compute"),
               slots[v][k].msg.job = j, slots[v][k].msg.slice = i
        PROVE  Computing(j, i)'
    <3>1. slots'[v][k] = slots[v][k] BY <1>1, <1>3, <2>2 DEF Running
    <3> QED BY <2>2, <3>1 DEF Computing, Running
  <2> QED BY <2>1, <2>2 DEF Computing
<1>6. ASSUME NEW v \in Workers, Waits(inbox[v], j, i)
      PROVE  Waits(inbox[v], j, i)' \/ Computing(j, i)'
  <2>1. CASE v # w BY <1>3, <1>6, <2>1 DEF Waits
  <2>2. CASE v = w
    <3>1. Waits(Tail(inbox[w]), j, i) \/ (h.job = j /\ h.slice = i)
      BY <1>1, <1>2, <1>6, <2>2, WaitsTail
    <3> QED BY <1>3, <1>5, <2>2, <3>1 DEF Waits
  <2> QED BY <2>1, <2>2
<1> QED BY <1>3, <1>5, <1>6, InFlightPlaces DEF InFlightSomewhere

LEMMA FlightByTask ==
  ASSUME TypeOK, NEW w \in Workers, NEW p \in Permits,
         WriteSlice(w, p) \/ NotifySlice(w, p) \/ NotifyFails(w, p),
         NEW j, NEW i, InFlight(j, i)
  PROVE  InFlight(j, i)' \/ Landed(j, i)'
<1>1. /\ chan' = chan /\ inbox' = inbox /\ slots[w][p] # Nil
      /\ slots \in [Workers -> [Permits -> {Nil} \cup Tasks]]
  BY DEF WriteSlice, NotifySlice, NotifyFails, Running, TypeOK, WorkerTypeOK
<1>2. \A v \in Workers, k \in Permits : v # w \/ k # p => slots'[v][k] = slots[v][k]
  BY <1>1 DEF WriteSlice, NotifySlice, NotifyFails, SetSlot
<1>3. ASSUME NEW v \in Workers, NEW k \in Permits, Running(v, k, "compute"),
             slots[v][k].msg.job = j, slots[v][k].msg.slice = i
      PROVE  Computing(j, i)' \/ Landed(j, i)'
  <2>1. CASE v # w \/ k # p
    <3>1. slots'[v][k] = slots[v][k] BY <1>2, <2>1
    <3> QED BY <1>3, <3>1 DEF Computing, Running
  <2>2. CASE v = w /\ k = p
    <3>1. WriteSlice(w, p) BY <1>3, <2>2 DEF NotifySlice, NotifyFails, Running
    <3>2. PICK m \in TaskMessage : m = slots[w][p].msg BY <1>1, SlotFacts
    <3>3. m.job = j /\ m.slice = i /\ j \in JobIds /\ i \in SliceIds
      BY <1>3, <2>2, <3>2 DEF TaskMessage
    <3>4. store'[SliceKey(j, i)] = PartialStats(m)
      BY <3>1, <3>2, <3>3, KeyFacts DEF WriteSlice, SetSlice, TypeOK, CommonTypeOK
    <3>5. PartialStats(m) \in SliceStats BY <3>2 DEF PartialStats, SliceStats, TaskMessage
    <3>6. PartialStats(m) # Nil /\ PartialStats(m).magic = "0x01"
      BY <3>5, NilAssumption DEF PartialStats
    <3> QED BY <3>4, <3>6 DEF Landed, Readable
  <2> QED BY <2>1, <2>2
<1>4. Computing(j, i) => Computing(j, i)' \/ Landed(j, i)' BY <1>3 DEF Computing
<1> QED BY <1>1, <1>4, InFlightPlaces DEF InFlightSomewhere, Waits

LEMMA FlightByGateway ==
  ASSUME TypeOK, GatewayNext, UNCHANGED workerVars, NEW j, NEW i, InFlight(j, i)
  PROVE  InFlight(j, i)'
<1>1. inbox' = inbox /\ slots' = slots BY DEF workerVars
<1>2. ASSUME NEW c \in Channels, Waits(chan[c], j, i) PROVE Waits(chan[c], j, i)'
  <2>1. CASE chan' = chan BY <1>2, <2>1 DEF Waits
  <2>2. CASE SlicePublished
    <3>1. PICK r \in Requests, d \in Channels :
            /\ pc[r] = "publish" /\ sent[r] \in SliceIds
            /\ chan' = [chan EXCEPT ![d] = Append(@, Task(r, sent[r]))]
      BY <2>2 DEF SlicePublished
    <3>2. chan \in [Channels -> Seq(TaskMessage)] BY DEF TypeOK, CommonTypeOK
    <3>3. PICK m \in TaskMessage : m = Task(r, sent[r])
      <4>1. Job(r) \in JobIds /\ args[r].vec \in Vectors BY <3>1, TypeParts, CallIsTyped
      <4> QED BY <3>1, <4>1 DEF Task, TaskMessage
    <3>4. Waits(Append(chan[c], m), j, i) BY <1>2, <3>2, WaitsAppend
    <3>5. chan'[c] = chan[c] \/ chan'[c] = Append(chan[c], m) BY <3>1, <3>2, <3>3
    <3> QED BY <1>2, <3>4, <3>5 DEF Waits
  <2> QED BY <2>1, <2>2, TypeParts, ChanMoves
<1> QED BY <1>1, <1>2, InFlightPlaces DEF InFlightSomewhere, Waits, Computing, Running

(* What is in Redis stays there: no result is written over a slice.        *)
LEMMA LandedStays ==
  ASSUME KeysApart, TypeOK, NEW j \in JobIds, NEW i \in SliceIds, Landed(j, i),
         store' = store \/ ResultWritten \/ SliceWritten
  PROVE  Landed(j, i)'
<1> DEFINE key == SliceKey(j, i)
<1>1. store \in [Keys -> {Nil} \cup SliceStats \cup Results] /\ key \in Keys
  BY KeyFacts DEF TypeOK, CommonTypeOK
<1>2. CASE store' = store BY <1>2 DEF Landed
<1>3. CASE ResultWritten
  <2>1. PICK r \in Requests :
          /\ pc[r] = "store"
          /\ store' = [store EXCEPT ![ResultKey(Job(r))] = [magic |-> "json", stats |-> stats[r]]]
    BY <1>3 DEF ResultWritten
  <2>2. Job(r) \in JobIds BY <2>1, TypeParts, CallIsTyped
  <2>3. store'[key] = store[key] BY <1>1, <2>1, <2>2 DEF KeysApart
  <2> QED BY <2>3 DEF Landed
<1>4. CASE SliceWritten
  <2>1. PICK w \in Workers, p \in Permits : slots[w][p] # Nil /\ SetSlice(slots[w][p].msg)
    BY <1>4 DEF SliceWritten
  <2>2. PICK m \in TaskMessage : m = slots[w][p].msg BY <2>1, SlotFacts
  <2>3. PartialStats(m) \in SliceStats BY DEF PartialStats, SliceStats, TaskMessage
  <2>4. PartialStats(m) # Nil /\ PartialStats(m).magic = "0x01"
    BY <2>3, NilAssumption DEF PartialStats
  <2>5. store'[key] = store[key] \/ store'[key] = PartialStats(m)
    BY <1>1, <2>1, <2>2 DEF SetSlice
  <2> QED BY <2>4, <2>5 DEF Landed, Readable
<1> QED BY <1>2, <1>3, <1>4

(* A call counts on one more slice only by publishing it.                  *)
LEMMA SentMoves ==
  ASSUME Typed, GatewayNext, NEW q \in Requests, NEW i \in SlicesSent(q)'
  PROVE  i \in SlicesSent(q) \/ (PublishSlice(q) /\ i = sent[q])
<1> USE DEF Typed, GatewayTypeOK, CallTypeOK, Goto
<1>1. ASSUME pc'[q] = pc[q], sent'[q] = sent[q] PROVE i \in SlicesSent(q)
  <2>1. pc[q] # "idle" => args'[q] = args[q] BY CallsPersist DEF GatewayMoves
  <2> QED BY <1>1, <2>1 DEF SlicesSent, Slices, VecLen
<1>2. ASSUME NEW r \in Requests, \E a \in Args : SubmitTask(r, a) PROVE i \in SlicesSent(q)
  <2>1. pc'[q] = pc[q] \/ pc'[q] \in {"metadata", "invalid"} BY <1>2 DEF SubmitTask
  <2>2. sent' = sent BY <1>2 DEF SubmitTask
  <2> QED BY <1>1, <2>1, <2>2 DEF SlicesSent
<1>3. ASSUME NEW r \in Requests, SetJobMetadata(r) PROVE i \in SlicesSent(q)
  <2>1. \/ pc'[q] = pc[q]
        \/ pc'[q] \in {"failed", "cancelled"}
        \/ pc'[q] = "publish" /\ sent[q] = 0
    BY <1>3 DEF SetJobMetadata, AwaitWrite
  <2>2. sent' = sent BY <1>3 DEF SetJobMetadata
  <2> QED BY <1>1, <2>1, <2>2 DEF SlicesSent
<1>4. ASSUME NEW r \in Requests, PublishSlice(r)
      PROVE  i \in SlicesSent(q) \/ (PublishSlice(q) /\ i = sent[q])
  <2>1. CASE r # q BY <1>1, <1>4, <2>1 DEF PublishSlice
  <2>2. CASE r = q
    <3>1. /\ pc[q] = "publish" /\ sent'[q] = sent[q] + 1 /\ args' = args
          /\ pc'[q] = IF sent[q] + 1 = TotalSlices(VecLen(q)) THEN "register" ELSE "publish"
      BY <1>4, <2>2 DEF PublishSlice
    <3>2. SlicesSent(q)' = 0 .. sent[q]
      <4>1. CASE pc'[q] = "publish" BY <3>1, <4>1 DEF SlicesSent
      <4>2. CASE pc'[q] = "register"
        <5>1. VecLen(q)' = VecLen(q) BY <3>1 DEF VecLen
        <5>2. sent[q] + 1 = TotalSlices(VecLen(q)) /\ sent[q] \in Nat BY <3>1, <4>2
        <5>3. SlicesSent(q)' = 0 .. (TotalSlices(VecLen(q)') - 1)
          BY <4>2 DEF SlicesSent, Slices
        <5>4. TotalSlices(VecLen(q)') - 1 = sent[q] BY <5>1, <5>2
        <5> QED BY <5>3, <5>4
      <4> QED BY <3>1, <4>1, <4>2
    <3>3. SlicesSent(q) = 0 .. (sent[q] - 1) /\ sent[q] \in Nat BY <3>1 DEF SlicesSent
    <3> QED BY <1>4, <2>2, <3>2, <3>3
  <2> QED BY <2>1, <2>2
<1>5. ASSUME NEW r \in Requests,
             \/ RegisterJob(r) \/ Collected(r) \/ TimedOut(r) \/ Park(r) \/ Rescan(r)
             \/ \E k \in SliceIds : ReadSlice(r, k) \/ ReadSliceFails(r, k)
      PROVE  i \in SlicesSent(q)
  <2>1. \/ pc'[q] = pc[q]
        \/ pc[q] \in {"register", "scan", "wait"} /\ pc'[q] \in {"scan", "wait", "store", "failed"}
    BY <1>5
    DEF RegisterJob, Collected, TimedOut, Park, Rescan, EndOfPass, ReadSlice, ReadSliceFails
  <2>2. sent' = sent /\ args' = args
    BY <1>5 DEF RegisterJob, Collected, TimedOut, Park, Rescan, ReadSlice, ReadSliceFails
  <2> QED BY <1>1, <2>1, <2>2 DEF SlicesSent, Slices, VecLen
<1>6. ASSUME NEW r \in Requests,
             \/ AggregateFails(r) \/ StoreFinalResult(r) \/ UpdateProgress(r)
             \/ Deadline(r) \/ CancelCollecting(r)
      PROVE  i \in SlicesSent(q)
  <2>1. \/ pc'[q] = pc[q] \/ pc'[q] \in {"progress", "ok", "failed", "cancelled"}
    BY <1>6
    DEF AggregateFails, StoreFinalResult, UpdateProgress, AwaitWrite, Deadline, CancelCollecting
  <2>2. sent' = sent
    BY <1>6 DEF AggregateFails, StoreFinalResult, UpdateProgress, Deadline, CancelCollecting
  <2> QED BY <1>1, <2>1, <2>2 DEF SlicesSent
<1>7. CASE SubscriberStep \/ StreamEnds
  BY <1>1, <1>7 DEF SubscriberStep, StreamEnds, Subscribe, DeliverNotification, gatewayVars
<1> QED BY <1>2, <1>3, <1>4, <1>5, <1>6, <1>7 DEF GatewayNext, CallStep, WakeUp, RePoll

LEMMA SentFacts ==
  ASSUME TypeOK, NEW r \in Requests, NEW i \in SlicesSent(r)
  PROVE  Job(r) \in JobIds /\ i \in SliceIds
<1>1. pc[r] \in {"publish", "register", "scan", "wait"} BY DEF SlicesSent
<1>2. /\ Job(r) \in JobIds /\ Slices(r) \subseteq SliceIds
      /\ TotalSlices(VecLen(r)) \in 1 .. MaxSlices /\ MaxSlices \in Nat \ {0}
  BY <1>1, CallFacts
<1>3. CASE pc[r] = "publish"
  <2>1. sent[r] \in Nat /\ sent[r] < TotalSlices(VecLen(r))
    BY <1>2, <1>3 DEF TypeOK, GatewayTypeOK, CallTypeOK
  <2> QED BY <1>2, <1>3, <2>1 DEF SlicesSent, SliceIds
<1>4. CASE pc[r] # "publish" BY <1>1, <1>2, <1>4 DEF SlicesSent
<1> QED BY <1>2, <1>3, <1>4

LEMMA QueuesAcceptedStep ==
  ASSUME SlicesAccepted, NothingDropped, TypeOK, QueuesAccepted, [Next]_vars
  PROVE  QueuesAccepted'
<1>1. Typed BY TypeParts
<1>2. DOMAIN chan = Channels /\ DOMAIN inbox = Workers
  BY DEF TypeOK, CommonTypeOK, WorkerTypeOK, PublisherTypeOK
<1>3. CASE GatewayNext /\ UNCHANGED workerVars
  <2>1. inbox' = inbox BY <1>3 DEF workerVars
  <2>2. CASE chan' = chan BY <2>1, <2>2 DEF QueuesAccepted
  <2>3. ASSUME NEW r \in Requests, NEW c \in Channels, pc[r] = "publish",
               sent[r] \in SliceIds, chan' = [chan EXCEPT ![c] = Append(@, Task(r, sent[r]))]
        PROVE  QueuesAccepted'
    <3>1. /\ args[r] \in Args /\ Valid(args[r]) /\ sent[r] < TotalSlices(VecLen(r))
          /\ Job(r) \in JobIds /\ args[r].vec \in Vectors
          /\ TotalSlices(VecLen(r)) \in Nat
      BY <1>1, <2>3, CallIsTyped DEF Typed, GatewayTypeOK, CallTypeOK
    <3>2. sent[r] \in 0 .. (TotalSlices(VecLen(r)) - 1) BY <2>3, <3>1 DEF SliceIds
    <3>3. Accepts(Task(r, sent[r])) BY <3>1, <3>2 DEF SlicesAccepted, Task, Job, VecLen
    <3>4. PICK m \in AcceptedMessage : m = Task(r, sent[r])
      BY <2>3, <3>1, <3>3 DEF AcceptedMessage, Task, TaskMessage
    <3>5. Append(chan[c], m) \in Seq(AcceptedMessage)
      BY AppendProperties DEF QueuesAccepted
    <3> QED BY <1>2, <2>1, <2>3, <3>4, <3>5 DEF QueuesAccepted
  <2> QED BY <1>1, <1>3, <2>2, <2>3, ChanMoves DEF SlicePublished
<1>4. ASSUME NEW c \in Channels, PushStep(c) PROVE QueuesAccepted'
  <2>1. PICK w \in Workers : Push(c, w, Connected)
    BY <1>4 DEF PushStep, PushFails, Fault, NothingDropped
  <2>2. chan[c] \in Seq(AcceptedMessage) /\ chan[c] # <<>> BY <2>1 DEF QueuesAccepted, Push
  <2>3. Tail(chan[c]) \in Seq(AcceptedMessage) /\ Head(chan[c]) \in AcceptedMessage
    BY <2>2, HeadTailProperties
  <2>4. Append(inbox[w], Head(chan[c])) \in Seq(AcceptedMessage)
    BY <2>3, AppendProperties DEF QueuesAccepted
  <2> QED BY <1>2, <2>1, <2>3, <2>4 DEF QueuesAccepted, Push
<1>5. ASSUME NEW w \in Workers, NEW p \in Permits, TaskStep(w, p) PROVE QueuesAccepted'
  <2>1. chan' = chan
    BY <1>5 DEF TaskStep, StartTask, ComputeFails, WriteSlice, WriteFails, NotifySlice, NotifyFails,
       sharedVars
  <2>2. inbox' = inbox \/ (inbox[w] # <<>> /\ inbox' = [inbox EXCEPT ![w] = Tail(@)])
    BY <1>5 DEF TaskStep, StartTask, ComputeFails, WriteSlice, WriteFails, NotifySlice, NotifyFails
  <2>3. inbox[w] # <<>> => Tail(inbox[w]) \in Seq(AcceptedMessage)
    BY HeadTailProperties DEF QueuesAccepted
  <2> QED BY <1>2, <2>1, <2>2, <2>3 DEF QueuesAccepted
<1>6. CASE UNCHANGED vars BY <1>6 DEF vars, sharedVars, workerVars, QueuesAccepted
<1>7. ASSUME NEW w \in Workers, Start(w) PROVE QueuesAccepted'
  BY <1>7 DEF Start, sharedVars, QueuesAccepted
<1>8. ~GatewayRestart /\ \A w \in Workers : ~Crash(w)
  BY DEF GatewayRestart, Crash, Fault, NothingDropped
<1> QED BY <1>3, <1>4, <1>5, <1>6, <1>7, <1>8 DEF Next, Step, WorkerNext

(* A worker that computes a slice puts it into Redis, and nothing else     *)
(* that a worker does touches Redis.                                       *)
LEMMA TaskStores ==
  ASSUME NothingDropped, NEW w \in Workers, NEW p \in Permits, TaskStep(w, p)
  PROVE  /\ StartTask(w, p) \/ WriteSlice(w, p) \/ NotifySlice(w, p) \/ NotifyFails(w, p)
         /\ store' = store \/ SliceWritten
<1>1. ~ComputeFails(w, p) /\ ~WriteFails(w, p)
  BY DEF ComputeFails, WriteFails, Fault, NothingDropped
<1>2. StartTask(w, p) \/ WriteSlice(w, p) \/ NotifySlice(w, p) \/ NotifyFails(w, p)
  BY <1>1 DEF TaskStep
<1> QED BY <1>2
        DEF StartTask, WriteSlice, NotifySlice, NotifyFails, Running, SliceWritten, sharedVars

(* A slice that is in Redis or on its way stays so through every step.     *)
LEMMA ArrivalKept ==
  ASSUME NothingDropped, KeysApart, TypeOK, QueuesAccepted, [Next]_vars,
         NEW j \in JobIds, NEW i \in SliceIds, Landed(j, i) \/ InFlight(j, i)
  PROVE  Landed(j, i)' \/ InFlight(j, i)'
<1>1. CASE GatewayNext /\ UNCHANGED workerVars
  BY <1>1, StoreMoves, LandedStays, FlightByGateway
<1>2. ASSUME NEW c \in Channels, PushStep(c) PROVE Landed(j, i)' \/ InFlight(j, i)'
  <2>1. PICK w \in Workers : Push(c, w, Connected)
    BY <1>2 DEF PushStep, PushFails, Fault, NothingDropped
  <2>2. store' = store /\ UNCHANGED slots BY <1>2, <2>1 DEF PushStep, Push
  <2> QED BY <2>1, <2>2, LandedStays, FlightByPush
<1>3. ASSUME NEW w \in Workers, NEW p \in Permits, TaskStep(w, p)
      PROVE  Landed(j, i)' \/ InFlight(j, i)'
  <2>1. Landed(j, i) => Landed(j, i)' BY <1>3, TaskStores, LandedStays
  <2> QED BY <1>3, <2>1, TaskStores, FlightByStart, FlightByTask
<1>4. CASE UNCHANGED vars
  <2>1. Landed(j, i)' <=> Landed(j, i) BY <1>4 DEF vars, sharedVars, Landed
  <2>2. InFlight(j, i)' <=> InFlight(j, i)
    BY <1>4 DEF vars, sharedVars, workerVars, InFlight, Running
  <2> QED BY <2>1, <2>2
<1>5. ASSUME NEW w \in Workers, Start(w) PROVE Landed(j, i)' \/ InFlight(j, i)'
  <2>1. Landed(j, i)' <=> Landed(j, i) BY <1>5 DEF Start, sharedVars, Landed
  <2>2. InFlight(j, i)' <=> InFlight(j, i) BY <1>5 DEF Start, sharedVars, InFlight, Running
  <2> QED BY <2>1, <2>2
<1>6. ~GatewayRestart /\ \A w \in Workers : ~Crash(w)
  BY DEF GatewayRestart, Crash, Fault, NothingDropped
<1> QED BY <1>1, <1>2, <1>3, <1>4, <1>5, <1>6 DEF Next, Step, WorkerNext

LEMMA SentArriveStep ==
  ASSUME NothingDropped, KeysApart, TypeOK, TypeOK', QueuesAccepted, SentArrive, [Next]_vars
  PROVE  SentArrive'
<1> SUFFICES ASSUME NEW r \in Requests, NEW i \in SlicesSent(r)'
             PROVE  (Landed(Job(r), i) \/ InFlight(Job(r), i))'
  BY DEF SentArrive
<1>0. ASSUME NEW j, j = Job(r)', Landed(j, i)' \/ InFlight(j, i)'
      PROVE  (Landed(Job(r), i) \/ InFlight(Job(r), i))'
  BY <1>0 DEF Landed, InFlight
<1>1. CASE UNCHANGED gatewayVars
  <2>1. SlicesSent(r)' = SlicesSent(r) /\ Job(r)' = Job(r)
    BY <1>1 DEF gatewayVars, SlicesSent, Slices, VecLen, Job
  <2>2. Job(r) \in JobIds /\ i \in SliceIds BY <2>1, SentFacts
  <2>3. PICK j \in JobIds : j = Job(r) BY <2>2
  <2>4. Landed(j, i) \/ InFlight(j, i) BY <2>1, <2>3 DEF SentArrive
  <2> QED BY <1>0, <2>1, <2>2, <2>3, <2>4, ArrivalKept
<1>2. CASE GatewayNext /\ UNCHANGED workerVars
  <2>1. i \in SlicesSent(r) \/ (PublishSlice(r) /\ i = sent[r]) BY <1>2, TypeParts, SentMoves
  <2>2. CASE i \in SlicesSent(r)
    <3>1. pc[r] # "idle" BY <2>2 DEF SlicesSent
    <3>2. Job(r)' = Job(r) BY <1>2, <3>1, TypeParts, CallsPersist DEF GatewayMoves, Job
    <3>3. Job(r) \in JobIds /\ i \in SliceIds BY <2>2, SentFacts
    <3>4. PICK j \in JobIds : j = Job(r) BY <3>3
    <3>5. Landed(j, i) \/ InFlight(j, i) BY <2>2, <3>4 DEF SentArrive
    <3> QED BY <1>0, <3>2, <3>3, <3>4, <3>5, ArrivalKept
  <2>3. CASE PublishSlice(r) /\ i = sent[r]
    <3> DEFINE c == IF NcclDispatch THEN sent[r] ELSE 0
    <3>1. pc[r] = "publish" /\ args' = args BY <2>3 DEF PublishSlice
    <3>2. /\ Job(r) \in JobIds /\ args[r].vec \in Vectors /\ sent[r] \in SliceIds
          /\ c \in Channels /\ chan \in [Channels -> Seq(TaskMessage)]
      <4>1. TotalSlices(VecLen(r)) \in 1 .. MaxSlices /\ MaxSlices \in Nat \ {0}
        BY <3>1, CallFacts
      <4>2. sent[r] \in Nat /\ sent[r] < TotalSlices(VecLen(r))
        BY <3>1, <4>1 DEF TypeOK, GatewayTypeOK, CallTypeOK
      <4>3. sent[r] \in SliceIds /\ c \in Channels
        BY <4>1, <4>2 DEF SliceIds, Channels, TotalSlices
      <4>4. chan \in [Channels -> Seq(TaskMessage)] BY DEF TypeOK, CommonTypeOK
      <4> QED BY <3>1, <4>3, <4>4, CallFacts
    <3>3. PICK m \in TaskMessage : m = Task(r, sent[r]) BY <3>2 DEF Task, TaskMessage
    <3>4. chan'[c] = Append(chan[c], m) BY <2>3, <3>2, <3>3 DEF PublishSlice, Task
    <3>5. m.job = Job(r)' /\ m.slice = i BY <2>3, <3>1, <3>3 DEF Task, Job
    <3>6. PICK j : j = Job(r)' OBVIOUS
    <3>7. Waits(Append(chan[c], m), j, i) BY <3>2, <3>5, <3>6, WaitsAppend
    <3>8. \E d \in Channels : Waits(chan'[d], j, i) BY <3>2, <3>4, <3>7
    <3>9. InFlight(j, i)' BY <3>8, InFlightPlaces DEF InFlightSomewhere, Waits
    <3> QED BY <1>0, <3>6, <3>9
  <2> QED BY <2>1, <2>2, <2>3
<1>3. ~GatewayRestart BY DEF GatewayRestart, Fault, NothingDropped
<1> QED BY <1>1, <1>2, <1>3 DEF Next, Step, vars

LEMMA ArrivalInit == Init => QueuesAccepted /\ SentArrive
<1> SUFFICES ASSUME Init PROVE QueuesAccepted /\ SentArrive OBVIOUS
<1>1. QueuesAccepted
  BY DEF Init, CommonInit, WorkerInit, PublisherInit, QueuesAccepted
<1>2. SentArrive BY DEF Init, GatewayInit, SentArrive, SlicesSent
<1> QED BY <1>1, <1>2

(* aggregator.rs waits for every slice that service.rs has published: each *)
(* of them is in Redis under its key, or still in a push queue, a worker's *)
(* socket or a worker's hands, as long as none of these is lost to a fault,*)
(* the worker takes the slice and no job id is another's with ":<slice>"   *)
(* appended.  Lost notifications, failing reads and clients that go away   *)
(* change nothing about that.                                              *)
THEOREM EverySliceArrives ==
  ASSUME NothingDropped, SlicesAccepted, KeysApart
  PROVE  Spec => []NoSliceLost
<1> DEFINE Inv == QueuesAccepted /\ SentArrive
<1>1. Init => Inv BY ArrivalInit
<1>2. TypeOK /\ TypeOK' /\ Inv /\ [Next]_vars => Inv' BY QueuesAcceptedStep, SentArriveStep
<1>3. Inv => NoSliceLost
  BY DEF SentArrive, SlicesSent, NoSliceLost, Collecting, Missing, Landed
<1> HIDE DEF Inv
<1> QED BY <1>1, <1>2, <1>3, TypeCorrect, PTL DEF Spec

(* The workers take every slice of a vector without non-finite elements:   *)
(* neither of the two ways to cut it makes an empty one.                   *)
LEMMA FiniteSlicesAccepted ==
  ASSUME \A v \in Vectors : v.nulls = {}
  PROVE  SlicesAccepted
<1> SUFFICES ASSUME NEW a \in Args, Valid(a), NEW i \in 0 .. (TotalSlices(a.vec.len) - 1)
             PROVE  Accepts([job |-> a.job, slice |-> i, vec |-> a.vec])
  BY DEF SlicesAccepted
<1>1. a.vec.len \in Nat \ {0} BY CommonAssumption DEF Valid
<1>2. a.vec \in Vectors BY DEF Vectors
<1>3. Positions(a.vec.len, i) # {}
  <2>1. CASE NcclDispatch
    <3>1. i \in 0 .. (WorldSize - 1) /\ a.vec.len >= WorldSize BY <2>1 DEF TotalSlices, Valid
    <3> QED BY <1>1, <2>1, <3>1, EvenChunksPartition DEF Positions
  <2>2. CASE ~NcclDispatch
    <3>1. i \in 0 .. (ChunkCount(a.vec.len) - 1) BY <2>2 DEF TotalSlices
    <3> QED BY <1>1, <2>2, <3>1, ChunksPartition DEF Positions
  <2> QED BY <2>1, <2>2
<1> QED BY <1>2, <1>3 DEF Accepts, Parses

(* With vectors that serde_json can carry, that a slice goes missing is    *)
(* always some component's failure.                                        *)
THEOREM FiniteSlicesArrive ==
  ASSUME NothingDropped, KeysApart, \A v \in Vectors : v.nulls = {}
  PROVE  Spec => []NoSliceLost
  BY FiniteSlicesAccepted, EverySliceArrives

-----------------------------------------------------------------------------
(* The refinement of SoftmaxService.                                       *)

OneVectorPerId == \A a, b \in Args : a.job = b.job => a.vec = b.vec

(* Result keys hold results only, and a call that is past its SETEX has    *)
(* one there.                                                              *)
ResultsInPlace ==
  /\ \A j \in JobIds : store[ResultKey(j)] \in {Nil} \cup Results
  /\ \A r \in Requests : pc[r] \in {"progress", "ok"} => store[ResultKey(Job(r))] # Nil

Inv == TypeOK /\ Origin /\ ResultsInPlace

-----------------------------------------------------------------------------
LEMMA ResultKeyFacts ==
  ASSUME NEW j \in JobIds
  PROVE  ResultKey(j) \in Keys
  BY DEF Keys

LEMMA InPlaceInit == Init => ResultsInPlace
  BY ResultKeyFacts DEF Init, CommonInit, GatewayInit, ResultsInPlace

(* A step keeps the results in place if it only writes results, and if a   *)
(* call passes its SETEX only with the write.                              *)
LEMMA InPlaceKept ==
  ASSUME TypeOK, TypeOK', ResultsInPlace, GatewayMoves,
         store' = store \/ ResultWritten
                  \/ \A j \in JobIds : store'[ResultKey(j)] = store[ResultKey(j)],
         \A r \in Requests : pc'[r] \in {"progress", "ok"} =>
           \/ pc[r] \in {"progress", "ok"}
           \/ store' = [store EXCEPT ![ResultKey(Job(r))] = [magic |-> "json", stats |-> stats[r]]]
              /\ pc[r] = "store"
  PROVE  ResultsInPlace'
<1>1. ASSUME NEW r \in Requests, NEW j \in JobIds,
             store' = [store EXCEPT ![ResultKey(Job(r))] = [magic |-> "json", stats |-> stats[r]]]
      PROVE  store'[ResultKey(j)] =
               IF j = Job(r) THEN [magic |-> "json", stats |-> stats[r]] ELSE store[ResultKey(j)]
  BY <1>1, ResultKeyFacts DEF TypeOK, CommonTypeOK, ResultKey
<1>2. \A r \in Requests : [magic |-> "json", stats |-> stats[r]] \in Results
  BY DEF TypeOK, GatewayTypeOK, Results
<1>3. \A j \in JobIds :
        /\ store'[ResultKey(j)] \in {Nil} \cup Results
        /\ store[ResultKey(j)] # Nil => store'[ResultKey(j)] # Nil
  <2>1. CASE ResultWritten
    BY <1>1, <1>2, <2>1, NilAssumption DEF ResultWritten, ResultsInPlace
  <2> QED BY <2>1 DEF ResultsInPlace
<1>4. ASSUME NEW r \in Requests, pc'[r] \in {"progress", "ok"}
      PROVE  store'[ResultKey(Job(r)')] # Nil
  <2>1. pc[r] \notin {"idle", "invalid"} BY <1>4
  <2>2. Job(r)' = Job(r) /\ Job(r) \in JobIds BY <2>1, CallsPersist, CallFacts, TypeParts DEF Job
  <2>3. CASE pc[r] \in {"progress", "ok"} BY <1>3, <2>2, <2>3 DEF ResultsInPlace
  <2>4. CASE pc[r] = "store" BY <1>1, <1>2, <1>4, <2>2, <2>4, NilAssumption
  <2> QED BY <1>4, <2>3, <2>4
<1> QED BY <1>3, <1>4 DEF ResultsInPlace, ResultKey

-----------------------------------------------------------------------------
(* The steps of the gateway as far as a client can tell them apart.        *)

InProgress == {"metadata", "publish", "register", "scan", "wait", "store", "progress"}

Becomes(r, labels) ==
  /\ pc[r] \in InProgress
  /\ \E label \in labels : pc' = [pc EXCEPT ![r] = label]

WritesResult(r) ==
  store' = [store EXCEPT ![ResultKey(Job(r))] = [magic |-> "json", stats |-> stats[r]]]

Invisible == pc' = pc /\ store' = store

Advances(r) == Becomes(r, InProgress \ {"progress"}) /\ store' = store

Stores(r) == pc[r] = "store" /\ Becomes(r, {"progress", "failed", "cancelled"}) /\ WritesResult(r)

Abandons(r) == Becomes(r, {"failed", "cancelled"}) /\ store' = store

AnswersOk(r) ==
  pc[r] = "progress" /\ Becomes(r, {"ok"}) /\ store' = store /\ ~HasNull(stats[r])

ClientView(r) == Advances(r) \/ Stores(r) \/ Abandons(r) \/ AnswersOk(r)

LEMMA CallMoves ==
  ASSUME Typed, NEW r \in Requests, CallStep(r) \/ Deadline(r) \/ CancelCollecting(r)
  PROVE  args' = args /\ (Invisible \/ ClientView(r))
<1> USE DEF Goto, ClientView, Becomes, InProgress
<1>1. CASE SetJobMetadata(r) \/ UpdateProgress(r)
  BY <1>1 DEF SetJobMetadata, UpdateProgress, AwaitWrite, Advances, Abandons, AnswersOk
<1>2. CASE StoreFinalResult(r)
  <2>1. pc[r] = "store" /\ args' = args BY <1>2 DEF StoreFinalResult
  <2>2. \/ WritesResult(r) /\ \E label \in {"progress", "failed", "cancelled"} :
                                pc' = [pc EXCEPT ![r] = label]
        \/ store' = store /\ \E label \in {"failed", "cancelled"} :
                                pc' = [pc EXCEPT ![r] = label]
    BY <1>2 DEF StoreFinalResult, AwaitWrite, WritesResult
  <2> QED BY <2>1, <2>2 DEF Stores, Abandons
<1>3. CASE PublishSlice(r) \/ RegisterJob(r) \/ Park(r) \/ Rescan(r) \/ Collected(r)
  BY <1>3 DEF PublishSlice, RegisterJob, Park, Rescan, Collected, EndOfPass, Advances, sharedVars
<1>4. CASE \/ Deadline(r)
           \/ \E i \in SliceIds : ReadSlice(r, i) \/ ReadSliceFails(r, i)
  BY <1>4 DEF Deadline, ReadSlice, ReadSliceFails, Invisible, sharedVars
<1>5. CASE TimedOut(r) \/ AggregateFails(r) \/ CancelCollecting(r)
  BY <1>5 DEF TimedOut, AggregateFails, CancelCollecting, EndOfPass, Collecting, Abandons,
     sharedVars
<1> QED BY <1>1, <1>2, <1>3, <1>4, <1>5 DEF CallStep, WakeUp, RePoll

LEMMA SubscriberMoves ==
  ASSUME SubscriberStep \/ StreamEnds
  PROVE  args' = args /\ Invisible
  BY DEF SubscriberStep, Subscribe, DeliverNotification, StreamEnds, Invisible, gatewayVars

LEMMA WorkerKeepsResults ==
  ASSUME KeysApart, TypeOK, NEW j \in JobIds, store' = store \/ SliceWritten
  PROVE  store'[ResultKey(j)] = store[ResultKey(j)]
<1>1. CASE SliceWritten
  <2>1. PICK w \in Workers, p \in Permits : slots[w][p] # Nil /\ SetSlice(slots[w][p].msg)
    BY <1>1 DEF SliceWritten
  <2>2. PICK m \in TaskMessage : m = slots[w][p].msg BY <2>1, SlotFacts
  <2>3. ResultKey(j) # SliceKey(m.job, m.slice) /\ ResultKey(j) \in Keys
    BY ResultKeyFacts DEF KeysApart, TaskMessage
  <2> QED BY <2>1, <2>2, <2>3 DEF SetSlice, TypeOK, CommonTypeOK
<1> QED BY <1>1

(* A call passes its SETEX only with the write, and is answered OK only    *)
(* from there.                                                             *)
LEMMA PastStoreMoves ==
  ASSUME Typed, GatewayMoves, NEW r \in Requests
  PROVE  /\ pc'[r] \in {"progress", "ok"} =>
              pc[r] \in {"progress", "ok"} \/ (WritesResult(r) /\ pc[r] = "store")
         /\ pc'[r] = "ok" => pc[r] \in {"progress", "ok"}
<1> DEFINE Goal ==
             /\ pc'[r] \in {"progress", "ok"} =>
                  pc[r] \in {"progress", "ok"} \/ (WritesResult(r) /\ pc[r] = "store")
             /\ pc'[r] = "ok" => pc[r] \in {"progress", "ok"}
<1>1. ASSUME NEW q \in Requests, NEW a \in Args, SubmitTask(q, a) PROVE Goal
  BY <1>1 DEF SubmitTask, Goto, Typed, GatewayTypeOK
<1>2. ASSUME NEW q \in Requests, ClientView(q) PROVE Goal
  BY <1>2 DEF ClientView, Becomes, Advances, Stores, Abandons, AnswersOk, InProgress,
     Typed, GatewayTypeOK
<1>3. CASE GatewayNext
  BY <1>1, <1>2, <1>3, CallMoves, SubscriberMoves DEF GatewayNext, Invisible
<1>4. CASE GatewayRestart BY <1>4 DEF GatewayRestart
<1>5. CASE UNCHANGED gatewayVars BY <1>5 DEF gatewayVars
<1> QED BY <1>3, <1>4, <1>5 DEF GatewayMoves

LEMMA InPlaceStep ==
  ASSUME KeysApart, TypeOK, TypeOK', Origin, ResultsInPlace, [Next]_vars
  PROVE  ResultsInPlace'
<1>1. GatewayMoves BY DEF Next, Step, GatewayMoves, vars
<1>2. CASE GatewayNext \/ GatewayRestart
  BY <1>1, <1>2, StoreMoves, PastStoreMoves, TypeParts, InPlaceKept DEF WritesResult
<1>3. CASE WorkerNext /\ UNCHANGED gatewayVars
  <2>1. \A j \in JobIds : store'[ResultKey(j)] = store[ResultKey(j)]
    BY <1>3, WorkerMoves, WorkerKeepsResults
  <2> QED BY <1>1, <1>3, <2>1, InPlaceKept DEF gatewayVars
<1>4. CASE UNCHANGED vars
  BY <1>1, <1>4, InPlaceKept DEF vars, gatewayVars, sharedVars
<1> QED BY <1>2, <1>3, <1>4 DEF Next, Step

LEMMA InvInit == Init => Inv
  BY TypeInit, OriginInit, InPlaceInit DEF Inv

LEMMA InvStep ==
  ASSUME KeysApart
  PROVE  Inv /\ [Next]_vars => Inv'
  BY TypeStep, OriginStep, InPlaceStep DEF Inv

-----------------------------------------------------------------------------
(* What the refinement mapping makes of a state.                           *)

(* The slice statistics of a non-empty vector tell which vector it is.     *)
LEMMA SoftmaxInjective ==
  ASSUME NEW v \in Vectors, NEW u \in Vectors,
         TotalSlices(v.len) \in 1 .. MaxSlices, WholeSoftmax(u) = WholeSoftmax(v)
  PROVE  u = v
<1>1. 0 \in SliceIds
  BY SlicingAssumption DEF SliceIds, MaxSlices
<1>2. WholeSoftmax(v)[0] = SliceStat("0x01", v, 0)
  BY <1>1, SlicingAssumption DEF WholeSoftmax, SliceStat, MaxSlices
<1>3. SliceStat("0x01", v, 0) \in SliceStats /\ SliceStat("0x01", v, 0) # Nil
  BY <1>1, NilAssumption DEF SliceStat, SliceStats
<1>4. WholeSoftmax(u)[0] \in {SliceStat("0x01", u, 0), Nil}
  BY <1>1 DEF WholeSoftmax, SliceStat
<1>5. SliceStat("0x01", u, 0) = SliceStat("0x01", v, 0) BY <1>2, <1>3, <1>4
<1> QED BY <1>5 DEF SliceStat

LEMMA MappedResult ==
  ASSUME OneVectorPerId, Inv, NEW a \in Args, store[ResultKey(a.job)] # Nil
  PROVE  ServiceResult[a.job] = a.vec
<1> DEFINE value == store[ResultKey(a.job)]
<1>1. a.job \in JobIds /\ a.vec \in Vectors /\ ResultKey(a.job) \in Keys
  BY ResultKeyFacts DEF JobIds, Vectors
<1>2. value \in Results BY <1>1 DEF Inv, ResultsInPlace
<1>3. value.magic = "json" /\ value.stats \in StatsVectors BY <1>2 DEF Results
<1>4. WholeOf("0x01", value.stats, a.job)
  BY <1>1, <1>3 DEF Inv, Origin, StoredOrigin, Proper, IsJson
<1>5. PICK q \in Requests : pc[q] \notin {"idle", "invalid"} /\ Job(q) = a.job
  BY <1>4 DEF WholeOf
<1>6. \A r \in Requests : pc[r] # "idle" /\ Job(r) = a.job => args[r].vec = a.vec
  BY DEF Inv, TypeOK, GatewayTypeOK, CallTypeOK, OneVectorPerId, Job
<1>7. args[q].vec = a.vec BY <1>5, <1>6
<1>8. value.stats = WholeSoftmax(a.vec)
  BY <1>3, <1>4, <1>5, <1>6, <1>7, WholeIsSoftmax, TypeParts DEF Inv
<1>9. TotalSlices(a.vec.len) \in 1 .. MaxSlices
  BY <1>5, <1>7, CallFacts DEF Inv, VecLen
<1>10. \A u \in Vectors : value.stats = WholeSoftmax(u) <=> u = a.vec
  BY <1>1, <1>8, <1>9, SoftmaxInjective
<1>11. ServiceResult[a.job] =
         IF \E u \in Vectors : value.stats = WholeSoftmax(u)
           THEN CHOOSE u \in Vectors : value.stats = WholeSoftmax(u)
           ELSE "garbage"
  BY <1>1 DEF ServiceResult
<1>12. (CHOOSE u \in Vectors : value.stats = WholeSoftmax(u)) = a.vec
  <2> HIDE DEF value
  <2> QED BY <1>1, <1>10
<1> QED BY <1>1, <1>10, <1>11, <1>12

(* The same of the state after a step.                                     *)
Mapped == \A a \in Args : store[ResultKey(a.job)] # Nil => ServiceResult[a.job] = a.vec

LEMMA MappedNext ==
  ASSUME OneVectorPerId
  PROVE  Inv' => Mapped'
<1>1. Inv => Mapped BY MappedResult DEF Mapped
<1> QED BY <1>1, PTL

(* What becomes of the mapped results in a step.                           *)
LEMMA MappedSame ==
  ASSUME \A j \in JobIds : store'[ResultKey(j)] = store[ResultKey(j)]
  PROVE  ServiceResult' = ServiceResult
  BY DEF ServiceResult, ResultKey

LEMMA MappedWrite ==
  ASSUME OneVectorPerId, Inv, Inv', NEW r \in Requests, args' = args,
         pc[r] = "store", pc'[r] # "idle", WritesResult(r)
  PROVE  ServiceResult' = [ServiceResult EXCEPT ![args[r].job] = args[r].vec]
<1>1. args[r] \in Args /\ Job(r) \in JobIds /\ Job(r) = args[r].job
  BY CallFacts DEF Inv, Job
<1>2. [magic |-> "json", stats |-> stats[r]] \in Results
  BY DEF Inv, TypeOK, GatewayTypeOK, Results
<1>3. \A j \in JobIds :
        store'[ResultKey(j)] =
          IF j = Job(r) THEN [magic |-> "json", stats |-> stats[r]] ELSE store[ResultKey(j)]
  BY <1>1, ResultKeyFacts DEF WritesResult, Inv, TypeOK, CommonTypeOK, ResultKey
<1>4. store'[ResultKey(args[r].job)] # Nil BY <1>1, <1>2, <1>3, NilAssumption
<1>5. ServiceResult'[args[r].job] = args[r].vec
  <2>1. \A a \in Args : store'[ResultKey(a.job)] # Nil => ServiceResult'[a.job] = a.vec
    BY MappedNext DEF Mapped
  <2> QED BY <1>1, <1>4, <2>1
<1>6. \A j \in JobIds : j # Job(r) => ServiceResult'[j] = ServiceResult[j]
  BY <1>3 DEF ServiceResult, ResultKey
<1> QED BY <1>1, <1>5, <1>6 DEF ServiceResult

(* What the mapping makes of the labels of a call.                         *)
Seen(label) ==
  IF label = "idle" THEN "new"
  ELSE IF label \in {"ok", "invalid", "failed", "cancelled"} THEN label ELSE "open"

LEMMA MappedStatus == ServiceStatus = [q \in Requests |-> Seen(pc[q])]
  BY DEF ServiceStatus, Seen, Answered

LEMMA MappedStatusNext == ServiceStatus' = [q \in Requests |-> Seen(pc'[q])]
  BY DEF ServiceStatus, Seen, Answered

LEMMA MappedGoto ==
  ASSUME Typed, NEW r \in Requests, NEW label, pc' = [pc EXCEPT ![r] = label]
  PROVE  ServiceStatus' = [ServiceStatus EXCEPT ![r] = Seen(label)]
  BY MappedStatus, MappedStatusNext DEF Typed, GatewayTypeOK

-----------------------------------------------------------------------------
(* The steps of the system are steps of the service, or change nothing     *)
(* that a client sees.                                                     *)

LEMMA SubmitRefines ==
  ASSUME Inv, NEW r \in Requests, NEW a \in Args, SubmitTask(r, a)
  PROVE  Service!Submit(r, a)
<1>1. ServiceStatus[r] = "new" BY MappedStatus DEF SubmitTask, Seen
<1>2. ServiceStatus' = [ServiceStatus EXCEPT ![r] = IF Valid(a) THEN "open" ELSE "invalid"]
  BY MappedGoto, TypeParts DEF SubmitTask, Goto, Seen, Inv
<1>3. ServiceResult' = ServiceResult BY MappedSame DEF SubmitTask, sharedVars
<1>4. args' = [args EXCEPT ![r] = a] BY DEF SubmitTask
<1> QED BY <1>1, <1>2, <1>3, <1>4 DEF Service!Submit

LEMMA CallRefines ==
  ASSUME OneVectorPerId, Inv, Inv', NEW r \in Requests, args' = args, ClientView(r)
  PROVE  Service!Publish(r) \/ Service!Respond(r) \/ UNCHANGED Service!serviceVars
<1> DEFINE written == [ServiceResult EXCEPT ![args[r].job] = args[r].vec]
<1>1. Typed /\ r \in DOMAIN pc BY TypeParts DEF Inv, Typed, GatewayTypeOK
<1>2. ServiceStatus[r] = "open"
  BY MappedStatus DEF ClientView, Advances, Stores, Abandons, AnswersOk, Becomes, InProgress, Seen
<1>3. \A label \in InProgress : Seen(label) = "open" BY DEF InProgress, Seen
<1>4. store' = store => ServiceResult' = ServiceResult BY MappedSame
<1>5. CASE Advances(r)
  <2>1. PICK label \in InProgress : pc' = [pc EXCEPT ![r] = label] BY <1>5 DEF Advances, Becomes
  <2>2. ServiceStatus' = [ServiceStatus EXCEPT ![r] = "open"] BY <1>1, <1>3, <2>1, MappedGoto
  <2>3. ServiceStatus' = ServiceStatus BY <1>2, <2>2, MappedStatus
  <2> QED BY <1>4, <1>5, <2>3 DEF Advances, Service!serviceVars
<1>6. CASE Stores(r)
  <2>1. PICK label \in {"progress", "failed", "cancelled"} : pc' = [pc EXCEPT ![r] = label]
    BY <1>6 DEF Stores, Becomes
  <2>2. ServiceStatus' = [ServiceStatus EXCEPT ![r] = Seen(label)] BY <1>1, <2>1, MappedGoto
  <2>3. ServiceResult' = written
    BY <1>1, <1>6, <2>1, MappedWrite DEF Stores
  <2>4. CASE label = "progress"
    <3>1. ServiceStatus' = ServiceStatus BY <1>2, <2>2, <2>4, MappedStatus DEF Seen
    <3> QED BY <1>2, <2>3, <3>1 DEF Service!Publish
  <2>5. CASE label # "progress"
    <3>1. label \in {"failed", "cancelled"} /\ Seen(label) = label BY <2>1, <2>5 DEF Seen
    <3> QED BY <1>2, <2>2, <2>3, <3>1 DEF Service!Respond, Service!GiveUp
  <2> QED BY <2>4, <2>5
<1>7. CASE Abandons(r)
  <2>1. PICK label \in {"failed", "cancelled"} : pc' = [pc EXCEPT ![r] = label]
    BY <1>7 DEF Abandons, Becomes
  <2>2. ServiceStatus' = [ServiceStatus EXCEPT ![r] = label]
    BY <1>1, <2>1, MappedGoto DEF Seen
  <2> QED BY <1>2, <1>4, <1>7, <2>2 DEF Abandons, Service!Respond, Service!GiveUp
<1>8. CASE AnswersOk(r)
  <2>1. ServiceStatus' = [ServiceStatus EXCEPT ![r] = "ok"]
    BY <1>1, <1>8, MappedGoto DEF AnswersOk, Becomes, Seen
  <2>2. args[r] \in Args /\ store[ResultKey(args[r].job)] # Nil
    BY <1>8, CallFacts DEF AnswersOk, Inv, ResultsInPlace, Job
  <2>3. ServiceResult[args[r].job] = args[r].vec BY <2>2, MappedResult
  <2>4. stats[r] = WholeSoftmax(args[r].vec)
    <3>1. WholeOf("0x01", stats[r], Job(r)) /\ stats[r] \in StatsVectors
      BY <1>1, <1>8, CompleteIsWhole DEF AnswersOk, Inv, Origin, Whole, TypeOK, GatewayTypeOK
    <3>2. \A q \in Requests : pc[q] # "idle" /\ Job(q) = Job(r) => args[q].vec = args[r].vec
      BY <2>2 DEF Inv, TypeOK, GatewayTypeOK, CallTypeOK, OneVectorPerId, Job
    <3> QED BY <1>1, <1>8, <3>1, <3>2, WholeIsSoftmax DEF AnswersOk
  <2>5. ~args[r].vec.low
    <3>1. args[r].vec \in Vectors /\ TotalSlices(args[r].vec.len) \in 1 .. MaxSlices
      BY <1>8, CallFacts DEF AnswersOk, Inv, VecLen
    <3> QED BY <1>8, <2>4, <3>1, LowHasNull DEF AnswersOk
  <2> QED BY <1>2, <1>4, <1>8, <2>1, <2>3, <2>5 DEF AnswersOk, Service!Respond, Service!AnswerOk
<1> QED BY <1>5, <1>6, <1>7, <1>8 DEF ClientView

LEMMA RestartRefines ==
  ASSUME Inv, GatewayRestart
  PROVE  Service!Outage
<1>1. args' = args /\ ServiceResult' = ServiceResult BY MappedSame DEF GatewayRestart
<1>2. \A q \in Requests :
        Seen(pc'[q]) = IF Seen(pc[q]) = "open" THEN "failed" ELSE Seen(pc[q])
  BY DEF GatewayRestart, Open, Answered, Seen, Inv, TypeOK, GatewayTypeOK
<1>3. ServiceStatus' =
        [q \in Requests |-> IF ServiceStatus[q] = "open" THEN "failed" ELSE ServiceStatus[q]]
  BY <1>2, MappedStatus, MappedStatusNext
<1> QED BY <1>1, <1>3 DEF Service!Outage

LEMMA StutterRefines ==
  ASSUME pc' = pc, args' = args,
         \A j \in JobIds : store'[ResultKey(j)] = store[ResultKey(j)]
  PROVE  UNCHANGED Service!serviceVars
  BY MappedSame, MappedStatus, MappedStatusNext DEF Service!serviceVars

LEMMA StepRefines ==
  ASSUME OneVectorPerId, KeysApart, Inv, Inv', [Next]_vars
  PROVE  [Service!ServiceNext]_(Service!serviceVars)
<1>1. ASSUME NEW r \in Requests, CallStep(r) \/ Deadline(r) \/ CancelCollecting(r)
      PROVE  [Service!ServiceNext]_(Service!serviceVars)
  <2>1. args' = args /\ (Invisible \/ ClientView(r)) BY <1>1, CallMoves, TypeParts DEF Inv
  <2> QED BY <2>1, CallRefines, StutterRefines DEF Invisible, Service!ServiceNext
<1>2. ASSUME NEW r \in Requests, NEW a \in Args, SubmitTask(r, a)
      PROVE  [Service!ServiceNext]_(Service!serviceVars)
  BY <1>2, SubmitRefines DEF Service!ServiceNext
<1>3. CASE SubscriberStep \/ StreamEnds
  BY <1>3, SubscriberMoves, StutterRefines DEF Invisible
<1>4. CASE WorkerNext /\ UNCHANGED gatewayVars
  <2>1. \A j \in JobIds : store'[ResultKey(j)] = store[ResultKey(j)]
    BY <1>4, WorkerMoves, WorkerKeepsResults DEF Inv
  <2> QED BY <1>4, <2>1, StutterRefines DEF gatewayVars
<1>5. CASE GatewayRestart BY <1>5, RestartRefines DEF Service!ServiceNext
<1>6. CASE UNCHANGED vars
  BY <1>6, StutterRefines DEF vars, gatewayVars, sharedVars
<1> QED BY <1>1, <1>2, <1>3, <1>4, <1>5, <1>6 DEF Next, Step, GatewayNext

LEMMA InitRefines == Init => Service!ServiceInit
<1> SUFFICES ASSUME Init PROVE Service!ServiceInit OBVIOUS
<1>1. ServiceStatus = [q \in Requests |-> "new"]
  BY MappedStatus DEF Init, GatewayInit, Seen
<1>2. args = [q \in Requests |-> Nil] BY DEF Init, GatewayInit
<1>3. ServiceResult = [j \in JobIds |-> Nil]
  BY ResultKeyFacts DEF Init, CommonInit, ServiceResult
<1> QED BY <1>1, <1>2, <1>3 DEF Service!ServiceInit, JobIds

(* The whole system - gateway, queues, workers, Redis and their failures - *)
(* implements SoftmaxService.  The two conditions are on what clients      *)
(* send: without the first, results of two vectors share a key; without    *)
(* the second, a slice of one job overwrites the result of another.        *)
THEOREM SystemImplementsService ==
  ASSUME OneVectorPerId, KeysApart
  PROVE  Spec => ImplementsService
<1>1. Init => Inv BY InvInit
<1>2. Inv /\ [Next]_vars => Inv' BY InvStep
<1>3. Inv /\ Inv' /\ [Next]_vars => [Service!ServiceNext]_(Service!serviceVars) BY StepRefines
<1>4. Init => Service!ServiceInit BY InitRefines
<1> QED BY <1>1, <1>2, <1>3, <1>4, PTL DEF Spec, ImplementsService, Service!ServiceSpec
=============================================================================
