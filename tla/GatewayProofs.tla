---------------------------- MODULE GatewayProofs ----------------------------
(***************************************************************************)
(* What the steps of the gateway, of its push threads and of its restart   *)
(* preserve, whichever workers are at the other end.                       *)
(***************************************************************************)
EXTENDS GatewayProcess, SlicingProofs, SequenceTheorems

(* The part of type correctness that does not speak of the workers.        *)
Typed == CommonTypeOK /\ GatewayTypeOK

(* A call past validation has a request with a job id, a non-empty vector  *)
(* and between one and MaxSlices slices.                                   *)
LEMMA ValidSlices ==
  ASSUME NEW a \in Args, Valid(a)
  PROVE  /\ a.job \in JobIds
         /\ a.vec \in Vectors
         /\ TotalSlices(a.vec.len) \in 1 .. MaxSlices
         /\ MaxSlices \in Nat \ {0}
<1>1. a.vec.len \in Nat \ {0} BY CommonAssumption DEF Valid
<1>2. a.job \in JobIds /\ a.vec \in Vectors BY DEF JobIds, Vectors
<1>3. TotalSlices(a.vec.len) \in 1 .. MaxSlices /\ MaxSlices \in Nat \ {0}
  BY <1>1, ChunkCountBounds, SlicingAssumption DEF TotalSlices, MaxSlices
<1> QED BY <1>2, <1>3

LEMMA CallIsTyped ==
  ASSUME Typed, NEW r \in Requests, pc[r] \notin {"idle", "invalid"}
  PROVE  /\ args[r] \in Args
         /\ Job(r) \in JobIds
         /\ args[r].vec \in Vectors
         /\ TotalSlices(VecLen(r)) \in 1 .. MaxSlices
         /\ MaxSlices \in Nat \ {0}
         /\ Slices(r) \subseteq SliceIds
<1>1. args[r] \in Args /\ Valid(args[r]) BY DEF Typed, GatewayTypeOK, CallTypeOK
<1>2. QED BY <1>1, ValidSlices DEF Job, VecLen, Slices, SliceIds

LEMMA KeyFacts ==
  ASSUME NEW j \in JobIds, NEW i \in SliceIds
  PROVE  /\ ResultKey(j) \in Keys
         /\ SliceKey(j, i) \in Keys
  BY DEF Keys

(* Two slice keys are the same string only if job and slice are the same:  *)
(* a key ends in its slice id.                                             *)
LEMMA SliceKeyInjective ==
  ASSUME NEW j \in JobIds, NEW k \in JobIds, NEW i \in SliceIds, NEW n \in SliceIds,
         SliceKey(j, i) = SliceKey(k, n)
  PROVE  j = k /\ i = n
<1>1. j \in Seq(Nat) /\ k \in Seq(Nat) /\ i \in Nat /\ n \in Nat
  BY CommonAssumption, SlicingAssumption DEF JobIds, SliceIds, MaxSlices
<1> QED BY <1>1, AppendInjective DEF SliceKey

-----------------------------------------------------------------------------
(* Type correctness.                                                       *)

(* A step leaves alone what the proof of type correctness says of a call   *)
(* that it does not touch.                                                 *)
LEMMA OtherCall ==
  ASSUME NEW q \in Requests, CallTypeOK(q),
         pc'[q] = pc[q], args'[q] = args[q], sent'[q] = sent[q],
         stats'[q] = stats[q], unread'[q] = unread[q]
  PROVE  CallTypeOK(q)'
  BY DEF CallTypeOK, Collecting, Missing, Slices, VecLen

LEMMA SubmitTaskType ==
  ASSUME Typed, NEW r \in Requests, NEW a \in Args, SubmitTask(r, a)
  PROVE  Typed'
<1> USE DEF SubmitTask, Goto
<1>1. CommonTypeOK'
  BY DEF Typed, CommonTypeOK, sharedVars
<1>2. ASSUME NEW q \in Requests PROVE CallTypeOK(q)'
  <2>1. CASE q = r BY <2>1 DEF Typed, GatewayTypeOK, CallTypeOK, Collecting
  <2>2. CASE q # r BY <2>2, OtherCall DEF Typed, GatewayTypeOK
  <2> QED BY <2>1, <2>2
<1>3. QED BY <1>1, <1>2 DEF Typed, GatewayTypeOK

LEMMA SetJobMetadataType ==
  ASSUME Typed, NEW r \in Requests, SetJobMetadata(r)
  PROVE  Typed'
<1> USE DEF SetJobMetadata, AwaitWrite, Goto
<1>1. Job(r) \in JobIds /\ TotalSlices(VecLen(r)) \in 1 .. MaxSlices
  BY CallIsTyped
<1>2. CommonTypeOK'
  <2>1. metadata' \in [JobIds -> {Nil} \cup Nat]
    <3>1. TotalSlices(VecLen(r)) \in Nat BY <1>1
    <3>2. metadata' \in {metadata, [metadata EXCEPT ![Job(r)] = TotalSlices(VecLen(r))]}
      OBVIOUS
    <3> QED BY <1>1, <3>1, <3>2 DEF Typed, CommonTypeOK
  <2>2. faults' \in 0 .. MaxFaults
    BY CommonAssumption DEF Typed, CommonTypeOK, Fault
  <2> QED BY <2>1, <2>2 DEF Typed, CommonTypeOK
<1>3. ASSUME NEW q \in Requests PROVE CallTypeOK(q)'
  <2>1. CASE q = r
    BY <1>1, <2>1 DEF Typed, GatewayTypeOK, CallTypeOK, Collecting, VecLen
  <2>2. CASE q # r BY <2>2, OtherCall DEF Typed, GatewayTypeOK
  <2> QED BY <2>1, <2>2
<1>4. QED BY <1>2, <1>3 DEF Typed, GatewayTypeOK

LEMMA PublishSliceType ==
  ASSUME Typed, NEW r \in Requests, PublishSlice(r)
  PROVE  Typed'
<1> DEFINE slice == sent[r]
           c     == IF NcclDispatch THEN slice ELSE 0
           task  == [job |-> Job(r), slice |-> slice, vec |-> args[r].vec]
<1> USE DEF PublishSlice, Goto
<1>1. /\ Job(r) \in JobIds /\ args[r].vec \in Vectors
      /\ TotalSlices(VecLen(r)) \in 1 .. MaxSlices /\ MaxSlices \in Nat \ {0}
  BY CallIsTyped
<1>2. slice \in Nat /\ slice < TotalSlices(VecLen(r))
  BY <1>1 DEF Typed, GatewayTypeOK, CallTypeOK
<1>3. slice \in SliceIds BY <1>1, <1>2 DEF SliceIds
<1>4. c \in Channels BY <1>1, <1>2 DEF Channels, TotalSlices
<1>5. task \in TaskMessage BY <1>1, <1>3 DEF TaskMessage
<1>6. chan' \in [Channels -> Seq(TaskMessage)]
  <2>1. chan[c] \in Seq(TaskMessage) BY <1>4 DEF Typed, CommonTypeOK
  <2>2. Append(chan[c], task) \in Seq(TaskMessage) BY <2>1, <1>5, AppendProperties
  <2>3. chan' = [chan EXCEPT ![c] = Append(chan[c], task)] OBVIOUS
  <2> HIDE DEF c, task
  <2> QED BY <2>2, <2>3 DEF Typed, CommonTypeOK
<1>7. CommonTypeOK'
  BY <1>6 DEF Typed, CommonTypeOK
<1>8. ASSUME NEW q \in Requests PROVE CallTypeOK(q)'
  <2>1. CASE q = r
    <3>1. VecLen(r)' = VecLen(r) /\ args'[r] = args[r] BY DEF VecLen
    <3>2. sent'[r] = slice + 1 /\ pc'[r] \in {"register", "publish"}
      BY DEF Typed, GatewayTypeOK
    <3>3. pc'[r] = "publish" => slice + 1 # TotalSlices(VecLen(r))
      BY DEF Typed, GatewayTypeOK
    <3>4. pc'[r] = "publish" => sent'[r] < TotalSlices(VecLen(r))'
      <4> HIDE DEF slice
      <4>1. ASSUME pc'[r] = "publish" PROVE slice + 1 < TotalSlices(VecLen(r))
        BY <4>1, <1>1, <1>2, <3>3
      <4>2. TotalSlices(VecLen(r))' = TotalSlices(VecLen(r)) BY <3>1
      <4>3. QED BY <3>2, <4>1, <4>2
    <3>5. QED BY <2>1, <3>1, <3>2, <3>4 DEF Typed, GatewayTypeOK, CallTypeOK, Collecting
  <2>2. CASE q # r BY <2>2, OtherCall DEF Typed, GatewayTypeOK
  <2> QED BY <2>1, <2>2
<1>9. sent' \in [Requests -> 0 .. MaxSlices]
  BY <1>1, <1>2 DEF Typed, GatewayTypeOK
<1> QED BY <1>7, <1>8, <1>9 DEF Typed, GatewayTypeOK

LEMMA RegisterJobType ==
  ASSUME Typed, NEW r \in Requests, RegisterJob(r)
  PROVE  Typed'
<1> USE DEF RegisterJob, Goto
<1>1. Job(r) \in JobIds /\ Slices(r) \subseteq SliceIds BY CallIsTyped
<1>2. CommonTypeOK'
  BY DEF Typed, CommonTypeOK, sharedVars
<1>3. NoStats \in StatsVectors BY DEF NoStats, StatsVectors
<1>4. Missing(r)' = Slices(r)
  BY <1>1 DEF Typed, GatewayTypeOK, Missing, Slices, VecLen, NoStats
<1>5. ASSUME NEW q \in Requests PROVE CallTypeOK(q)'
  <2>1. CASE q = r BY <1>4, <2>1 DEF Typed, GatewayTypeOK, CallTypeOK, Collecting
  <2>2. CASE q # r BY <2>2, OtherCall DEF Typed, GatewayTypeOK
  <2> QED BY <2>1, <2>2
<1>6. dirty' \in [Requests -> BOOLEAN] BY DEF Typed, GatewayTypeOK
<1>7. /\ stats' \in [Requests -> StatsVectors]
      /\ unread' \in [Requests -> SUBSET SliceIds]
      /\ jobs' \in [JobIds -> {Nil} \cup Requests]
  BY <1>1, <1>3 DEF Typed, GatewayTypeOK
<1>8. QED BY <1>2, <1>5, <1>6, <1>7 DEF Typed, GatewayTypeOK

(* What read_slice accepts is a slice, never a final result.               *)
LEMMA ReadableIsSlice ==
  ASSUME NEW value \in {Nil} \cup SliceStats \cup Results, Readable(value)
  PROVE  value \in SliceStats /\ value # Nil
  BY DEF Readable, Results

LEMMA ReadSliceType ==
  ASSUME Typed, NEW r \in Requests, NEW i \in SliceIds,
         ReadSlice(r, i) \/ ReadSliceFails(r, i)
  PROVE  Typed'
<1> DEFINE value == store[SliceKey(Job(r), i)]
<1> USE DEF ReadSlice, ReadSliceFails, NextRead
<1>1. Job(r) \in JobIds BY CallIsTyped
<1>2. value \in {Nil} \cup SliceStats \cup Results
  BY <1>1, KeyFacts DEF Typed, CommonTypeOK
<1>3. Readable(value) => value \in SliceStats /\ value # Nil BY <1>2, ReadableIsSlice
<1>4. CommonTypeOK'
  BY <1>1, CommonAssumption
  DEF Typed, CommonTypeOK, Fault, sharedVars
<1>5. stats' = stats \/ (stats' = [stats EXCEPT ![r][i] = value] /\ value \in SliceStats)
  BY <1>3
<1>6. /\ stats' \in [Requests -> StatsVectors]
      /\ \A k \in SliceIds : k # i => stats'[r][k] = stats[r][k]
  <2> HIDE DEF value
  <2> QED BY <1>5 DEF Typed, GatewayTypeOK, StatsVectors
<1>7. unread'[r] = unread[r] \ {i} /\ unread' \in [Requests -> SUBSET SliceIds]
  BY DEF Typed, GatewayTypeOK
<1>8. ASSUME NEW q \in Requests PROVE CallTypeOK(q)'
  <2>1. CASE q = r
    <3>1. unread'[r] \subseteq Missing(r)'
      <4>1. unread[r] \subseteq Missing(r) /\ unread[r] \subseteq SliceIds
        BY DEF Typed, GatewayTypeOK, CallTypeOK, Collecting
      <4>2. QED BY <4>1, <1>6, <1>7 DEF Missing, Slices, VecLen
    <3>2. QED BY <2>1, <3>1 DEF Typed, GatewayTypeOK, CallTypeOK, Collecting, VecLen
  <2>2. CASE q # r
    <3>1. stats'[q] = stats[q] /\ unread'[q] = unread[q]
      BY <1>5, <2>2 DEF Typed, GatewayTypeOK
    <3>2. QED BY <3>1, OtherCall DEF Typed, GatewayTypeOK
  <2> QED BY <2>1, <2>2
<1>9. QED BY <1>4, <1>6, <1>7, <1>8 DEF Typed, GatewayTypeOK

LEMMA EndOfPassType ==
  ASSUME Typed, NEW r \in Requests, Collected(r) \/ TimedOut(r) \/ Park(r)
  PROVE  Typed'
<1> USE DEF Collected, TimedOut, Park, EndOfPass, UnregisterJob, LeaveWait, Goto
<1>1. Job(r) \in JobIds BY CallIsTyped
<1>2. CommonTypeOK'
  BY DEF Typed, CommonTypeOK, sharedVars
<1>3. dirty' \in [Requests -> BOOLEAN] /\ expired' \in [Requests -> BOOLEAN]
  BY DEF Typed, GatewayTypeOK
<1>4. NoStats \in StatsVectors BY DEF NoStats, StatsVectors
<1>5. stats' \in [Requests -> StatsVectors] /\ jobs' \in [JobIds -> {Nil} \cup Requests]
  BY <1>1, <1>4 DEF Typed, GatewayTypeOK
<1>6. ASSUME NEW q \in Requests PROVE CallTypeOK(q)'
  <2>1. CASE q = r
    <3>1. /\ pc'[r] \in {"store", "failed", "wait"}
          /\ args' = args /\ unread'[r] = {}
      BY DEF Typed, GatewayTypeOK
    <3>2. QED BY <2>1, <3>1 DEF Typed, GatewayTypeOK, CallTypeOK, Collecting
  <2>2. CASE q # r BY <2>2, OtherCall DEF Typed, GatewayTypeOK
  <2> QED BY <2>1, <2>2
<1>7. pc' \in [Requests -> {"idle", "metadata", "publish", "register", "scan", "wait",
                 "store", "progress", "ok", "invalid", "failed", "cancelled"}]
  BY DEF Typed, GatewayTypeOK
<1>8. args' = args /\ sent' = sent /\ unread' = unread OBVIOUS
<1>9. QED BY <1>2, <1>3, <1>5, <1>6, <1>7, <1>8 DEF Typed, GatewayTypeOK

LEMMA RescanType ==
  ASSUME Typed, NEW r \in Requests, Rescan(r)
  PROVE  Typed'
<1> USE DEF Rescan, Goto
<1>1. Slices(r) \subseteq SliceIds BY CallIsTyped
<1>2. CommonTypeOK'
  BY DEF Typed, CommonTypeOK, sharedVars
<1>3. dirty' \in [Requests -> BOOLEAN] BY DEF Typed, GatewayTypeOK
<1>4. unread' \in [Requests -> SUBSET SliceIds] BY <1>1 DEF Typed, GatewayTypeOK, Missing
<1>5. ASSUME NEW q \in Requests PROVE CallTypeOK(q)'
  <2>1. CASE q = r
    BY <2>1 DEF Typed, GatewayTypeOK, CallTypeOK, Collecting, Missing, Slices, VecLen
  <2>2. CASE q # r BY <2>2, OtherCall DEF Typed, GatewayTypeOK
  <2> QED BY <2>1, <2>2
<1>6. QED BY <1>2, <1>3, <1>4, <1>5 DEF Typed, GatewayTypeOK

LEMMA DeadlineType ==
  ASSUME Typed, NEW r \in Requests, Deadline(r)
  PROVE  Typed'
<1> USE DEF Deadline
<1>1. CommonTypeOK'
  BY DEF Typed, CommonTypeOK, sharedVars
<1>2. expired' \in [Requests -> BOOLEAN] BY DEF Typed, GatewayTypeOK
<1>3. ASSUME NEW q \in Requests PROVE CallTypeOK(q)'
  BY OtherCall DEF Typed, GatewayTypeOK
<1>4. QED BY <1>1, <1>2, <1>3 DEF Typed, GatewayTypeOK

LEMMA GiveUpType ==
  ASSUME Typed, NEW r \in Requests, AggregateFails(r) \/ CancelCollecting(r)
  PROVE  Typed'
<1> USE DEF AggregateFails, CancelCollecting, LeaveWait, Goto, Collecting
<1>1. CommonTypeOK'
  BY CommonAssumption
  DEF Typed, CommonTypeOK, Fault
<1>2. dirty' \in [Requests -> BOOLEAN] /\ expired' \in [Requests -> BOOLEAN]
  BY DEF Typed, GatewayTypeOK
<1>3. NoStats \in StatsVectors BY DEF NoStats, StatsVectors
<1>4. stats' \in [Requests -> StatsVectors] /\ unread' \in [Requests -> SUBSET SliceIds]
  BY <1>3 DEF Typed, GatewayTypeOK
<1>5. ASSUME NEW q \in Requests PROVE CallTypeOK(q)'
  <2>1. CASE q = r BY <2>1 DEF Typed, GatewayTypeOK, CallTypeOK
  <2>2. CASE q # r BY <2>2, OtherCall DEF Typed, GatewayTypeOK
  <2> QED BY <2>1, <2>2
<1>6. QED BY <1>1, <1>2, <1>4, <1>5 DEF Typed, GatewayTypeOK

LEMMA StoreResultType ==
  ASSUME Typed, NEW r \in Requests, StoreFinalResult(r) \/ UpdateProgress(r)
  PROVE  Typed'
<1> DEFINE result == [magic |-> "json", stats |-> stats[r]]
<1> USE DEF StoreFinalResult, UpdateProgress, AwaitWrite, Goto
<1>1. Job(r) \in JobIds BY CallIsTyped
<1>2. result \in Results BY DEF Typed, GatewayTypeOK, Results
<1>3. store' \in [Keys -> {Nil} \cup SliceStats \cup Results]
  <2>1. store' = store \/ store' = [store EXCEPT ![ResultKey(Job(r))] = result] OBVIOUS
  <2> HIDE DEF result
  <2> QED BY <2>1, <1>2 DEF Typed, CommonTypeOK
<1>4. progress' \in [JobIds -> {Nil, "completed"}] BY DEF Typed, CommonTypeOK
<1>5. CommonTypeOK'
  BY <1>3, <1>4, CommonAssumption
  DEF Typed, CommonTypeOK, Fault
<1>6. ASSUME NEW q \in Requests PROVE CallTypeOK(q)'
  <2>1. CASE q = r BY <2>1 DEF Typed, GatewayTypeOK, CallTypeOK, Collecting
  <2>2. CASE q # r BY <2>2, OtherCall DEF Typed, GatewayTypeOK
  <2> QED BY <2>1, <2>2
<1>7. QED BY <1>5, <1>6 DEF Typed, GatewayTypeOK

LEMMA SubscriberType ==
  ASSUME Typed, SubscriberStep \/ StreamEnds
  PROVE  Typed'
<1> USE DEF SubscriberStep, StreamEnds, Subscribe, DeliverNotification
<1>1. subscribed' \in BOOLEAN BY DEF Typed, CommonTypeOK
<1>2. dirty' \in [Requests -> BOOLEAN] BY DEF Typed, GatewayTypeOK, gatewayVars
<1>3. bus' \in [JobIds -> Nat]
  <2>1. CASE \E j \in JobIds : DeliverNotification(j)
    <3>1. PICK j \in JobIds : bus[j] > 0 /\ bus' = [bus EXCEPT ![j] = @ - 1] BY <2>1
    <3>2. QED BY <3>1 DEF Typed, CommonTypeOK
  <2>2. CASE Subscribe BY <2>2 DEF Typed, CommonTypeOK
  <2>3. CASE StreamEnds BY <2>3
  <2> QED BY <2>1, <2>2, <2>3
<1>4. missed' \subseteq JobIds /\ faults' \in 0 .. MaxFaults
  BY CommonAssumption DEF Typed, CommonTypeOK, Fault
<1>5. UNCHANGED <<store, metadata, progress, chan, pc, args, sent, stats, unread, expired, jobs>>
  BY DEF gatewayVars
<1>6. CommonTypeOK'
  BY <1>1, <1>3, <1>4, <1>5
  DEF Typed, CommonTypeOK
<1>7. ASSUME NEW q \in Requests PROVE CallTypeOK(q)'
  BY <1>5, OtherCall DEF Typed, GatewayTypeOK
<1>8. QED BY <1>2, <1>5, <1>6, <1>7 DEF Typed, GatewayTypeOK

(* Nothing that a worker does changes a variable of the gateway.           *)
LEMMA GatewayFrame ==
  ASSUME Typed, UNCHANGED gatewayVars
  PROVE  GatewayTypeOK'
<1>1. ASSUME NEW q \in Requests PROVE CallTypeOK(q)'
  BY OtherCall DEF Typed, GatewayTypeOK, gatewayVars
<1>2. QED BY <1>1 DEF Typed, GatewayTypeOK, gatewayVars

LEMMA PushType ==
  ASSUME Typed, PublisherTypeOK, NEW c \in Channels, UNCHANGED gatewayVars,
         NEW peers, PushFails(c) \/ \E w \in Workers : Push(c, w, peers)
  PROVE  Typed' /\ PublisherTypeOK'
<1> USE DEF Push, PushFails
<1>1. chan[c] \in Seq(TaskMessage) /\ chan[c] # <<>> BY DEF Typed, CommonTypeOK
<1>2. Tail(chan[c]) \in Seq(TaskMessage) /\ Head(chan[c]) \in TaskMessage
  BY <1>1, HeadTailProperties
<1>3. chan' = [chan EXCEPT ![c] = Tail(chan[c])] OBVIOUS
<1>4. chan' \in [Channels -> Seq(TaskMessage)] BY <1>2, <1>3 DEF Typed, CommonTypeOK
<1>5. PublisherTypeOK'
  <2>1. CASE PushFails(c) BY <2>1 DEF PublisherTypeOK
  <2>2. ASSUME NEW w \in Workers, Push(c, w, peers) PROVE PublisherTypeOK'
    <3>1. inbox' = [inbox EXCEPT ![w] = Append(inbox[w], Head(chan[c]))] BY <2>2
    <3>2. Append(inbox[w], Head(chan[c])) \in Seq(TaskMessage)
      BY <1>2, AppendProperties DEF PublisherTypeOK
    <3>3. QED BY <3>1, <3>2 DEF PublisherTypeOK
  <2> QED BY <2>1, <2>2
<1>6. CommonTypeOK'
  BY <1>4, CommonAssumption DEF Typed, CommonTypeOK, Fault
<1> QED BY <1>5, <1>6, GatewayFrame DEF Typed

(* A restart answers every open call and leaves nothing half collected.    *)
LEMMA RestartType ==
  ASSUME Typed, PublisherTypeOK, GatewayRestart
  PROVE  Typed' /\ PublisherTypeOK'
<1> USE DEF GatewayRestart, Typed
<1>1. CommonTypeOK'
  <2>1. faults' \in 0 .. MaxFaults BY CommonAssumption DEF Fault, CommonTypeOK
  <2>2. chan' \in [Channels -> Seq(TaskMessage)] OBVIOUS
  <2>3. subscribed' \in BOOLEAN OBVIOUS
  <2>4. bus' \in [JobIds -> Nat] OBVIOUS
  <2>5. QED BY <2>1, <2>2, <2>3, <2>4 DEF CommonTypeOK
<1>2. GatewayTypeOK'
  <2>1. NoStats \in StatsVectors BY DEF NoStats, StatsVectors
  <2>2. /\ pc' \in [Requests -> {"idle", "metadata", "publish", "register", "scan", "wait",
                          "store", "progress", "ok", "invalid", "failed", "cancelled"}]
        /\ stats' \in [Requests -> StatsVectors]
        /\ unread' \in [Requests -> SUBSET SliceIds]
        /\ jobs' \in [JobIds -> {Nil} \cup Requests]
    BY <2>1 DEF GatewayTypeOK
  <2>3. dirty' \in [Requests -> BOOLEAN] /\ expired' \in [Requests -> BOOLEAN]
    BY Zenon DEF GatewayTypeOK
  <2>4. ASSUME NEW r \in Requests PROVE CallTypeOK(r)'
    <3>1. CallTypeOK(r) /\ args' = args /\ sent' = sent BY DEF GatewayTypeOK
    <3>2. \/ pc'[r] = "failed" /\ pc[r] \notin {"idle", "invalid"}
          \/ pc'[r] = pc[r] /\ pc[r] \in {"idle", "ok", "invalid", "failed", "cancelled"}
      BY DEF Open, Answered
    <3>3. QED BY <3>1, <3>2 DEF CallTypeOK, Collecting
  <2>5. QED BY <2>2, <2>3, <2>4 DEF GatewayTypeOK
<1>3. PublisherTypeOK'
  <2>1. PICK kept \in [Workers -> UNION { Prefixes(inbox[w]) : w \in Workers }] :
          (\A w \in Workers : kept[w] \in Prefixes(inbox[w])) /\ inbox' = kept
    BY DEF ZmqPipesBreak
  <2>2. ASSUME NEW w \in Workers PROVE kept[w] \in Seq(TaskMessage)
    <3>1. inbox[w] \in Seq(TaskMessage) BY DEF PublisherTypeOK
    <3>2. PICK n \in 0 .. Len(inbox[w]) : kept[w] = SubSeq(inbox[w], 1, n)
      BY <2>1 DEF Prefixes
    <3>3. QED BY <3>1, <3>2
  <2>3. QED BY <2>1, <2>2 DEF PublisherTypeOK
<1>4. QED BY <1>1, <1>2, <1>3

LEMMA TypedInit == CommonInit /\ GatewayInit => Typed
<1> SUFFICES ASSUME CommonInit, GatewayInit PROVE Typed OBVIOUS
<1>1. CommonTypeOK
  <2>1. subscribed \in BOOLEAN BY DEF CommonInit
  <2>2. bus \in [JobIds -> Nat] BY DEF CommonInit
  <2>3. QED BY <2>1, <2>2, CommonAssumption DEF CommonInit, CommonTypeOK
<1>2. GatewayTypeOK
  <2>1. MaxSlices \in Nat BY SlicingAssumption DEF MaxSlices
  <2>2. NoStats \in StatsVectors BY DEF NoStats, StatsVectors
  <2>3. QED BY <2>1, <2>2 DEF GatewayInit, GatewayTypeOK, CallTypeOK, Collecting
<1> QED BY <1>1, <1>2 DEF Typed

(* Every step of the gateway is type correct.                              *)
LEMMA GatewayNextType == Typed /\ GatewayNext => Typed'
<1> SUFFICES ASSUME Typed, GatewayNext PROVE Typed' OBVIOUS
<1>1. ASSUME NEW r \in Requests, NEW a \in Args, SubmitTask(r, a) PROVE Typed'
  BY <1>1, SubmitTaskType
<1>2. ASSUME NEW r \in Requests, CallStep(r) PROVE Typed'
  BY <1>2, SetJobMetadataType, PublishSliceType, RegisterJobType, ReadSliceType,
     EndOfPassType, RescanType, GiveUpType, StoreResultType
  DEF CallStep, WakeUp, RePoll
<1>3. ASSUME NEW r \in Requests, Deadline(r) \/ CancelCollecting(r) PROVE Typed'
  BY <1>3, DeadlineType, GiveUpType
<1>4. CASE SubscriberStep \/ StreamEnds BY <1>4, SubscriberType
<1> QED BY <1>1, <1>2, <1>3, <1>4 DEF GatewayNext

-----------------------------------------------------------------------------
(* What the slices in the hands of a call are, and where they come from.   *)

(* A call that has slices: it collects them or has collected them all.     *)
Whole(r) == pc[r] \in {"store", "progress", "ok"}

Holding(r) == Collecting(r) \/ Whole(r)

(* What may happen to the gateway in one step of a system around it.       *)
GatewayMoves == GatewayNext \/ GatewayRestart \/ UNCHANGED gatewayVars

(* A call that was submitted stays submitted, with the same request.       *)
LEMMA CallsPersist ==
  ASSUME Typed, GatewayMoves
  PROVE  \A q \in Requests : pc[q] # "idle" => pc'[q] # "idle" /\ args'[q] = args[q]
<1> SUFFICES ASSUME NEW q \in Requests, pc[q] # "idle"
             PROVE  pc'[q] # "idle" /\ args'[q] = args[q]
  OBVIOUS
<1> USE DEF Typed, GatewayTypeOK, Goto
<1>1. ASSUME NEW r \in Requests, NEW a \in Args, SubmitTask(r, a)
      PROVE  pc'[q] # "idle" /\ args'[q] = args[q]
  BY <1>1 DEF SubmitTask
<1>2. ASSUME NEW r \in Requests, CallStep(r) PROVE pc'[q] # "idle" /\ args'[q] = args[q]
  BY <1>2 DEF CallStep, SetJobMetadata, PublishSlice, RegisterJob, ReadSlice, ReadSliceFails,
     Collected, TimedOut, Park, WakeUp, RePoll, Rescan, AggregateFails, StoreFinalResult,
     UpdateProgress, AwaitWrite
<1>3. ASSUME NEW r \in Requests, Deadline(r) \/ CancelCollecting(r)
      PROVE  pc'[q] # "idle" /\ args'[q] = args[q]
  BY <1>3 DEF Deadline, CancelCollecting
<1>4. CASE SubscriberStep \/ StreamEnds \/ UNCHANGED gatewayVars
  BY <1>4 DEF SubscriberStep, StreamEnds, Subscribe, DeliverNotification, gatewayVars
<1>5. CASE GatewayRestart BY <1>5 DEF GatewayRestart, Open
<1> QED BY <1>1, <1>2, <1>3, <1>4, <1>5 DEF GatewayMoves, GatewayNext

(* The three ways for a call to hold what it holds: it held it before; it  *)
(* has just begun; or it has just read one more slice.                     *)
Kept(r) ==
  /\ Holding(r)
  /\ stats'[r] = stats[r]
  /\ Whole(r)' => Whole(r) \/ Missing(r) = {}

Begun(r) == pc[r] = "register" /\ ~Whole(r)' /\ stats'[r] = NoStats

JustRead(r) ==
  /\ pc[r] = "scan" /\ ~Whole(r)'
  /\ \E i \in unread[r] :
       /\ Readable(store[SliceKey(Job(r), i)])
       /\ stats'[r] = [stats[r] EXCEPT ![i] = store[SliceKey(Job(r), i)]]

LEMMA HoldingMoves ==
  ASSUME Typed, GatewayMoves, NEW q \in Requests, Holding(q)'
  PROVE  Kept(q) \/ Begun(q) \/ JustRead(q)
<1> USE DEF Typed, GatewayTypeOK, Goto, Holding, Whole, Collecting
<1>1. ASSUME NEW r \in Requests, NEW a \in Args, SubmitTask(r, a) PROVE Kept(q)
  BY <1>1 DEF SubmitTask, Kept
<1>2. ASSUME NEW r \in Requests,
             \/ SetJobMetadata(r) \/ PublishSlice(r) \/ AggregateFails(r)
             \/ StoreFinalResult(r) \/ UpdateProgress(r) \/ Deadline(r) \/ CancelCollecting(r)
      PROVE  Kept(q)
  BY <1>2 DEF SetJobMetadata, PublishSlice, AggregateFails, StoreFinalResult,
     UpdateProgress, AwaitWrite, Deadline, CancelCollecting, Kept
<1>3. ASSUME NEW r \in Requests, RegisterJob(r) PROVE Kept(q) \/ Begun(q)
  BY <1>3 DEF RegisterJob, Kept, Begun
<1>4. ASSUME NEW r \in Requests, NEW i \in SliceIds, ReadSlice(r, i) \/ ReadSliceFails(r, i)
      PROVE  Kept(q) \/ JustRead(q)
  <2>1. CASE stats' = stats BY <1>4, <2>1 DEF ReadSlice, ReadSliceFails, Kept
  <2>2. CASE stats' # stats
    <3> DEFINE value == store[SliceKey(Job(r), i)]
    <3>1. /\ pc' = pc /\ pc[r] = "scan" /\ i \in unread[r] /\ Readable(value)
          /\ stats' = [stats EXCEPT ![r][i] = value]
      BY <1>4, <2>2 DEF ReadSlice, ReadSliceFails, NextRead
    <3>2. CASE q = r BY <3>1, <3>2 DEF JustRead
    <3>3. CASE q # r BY <3>1, <3>3 DEF Kept
    <3> QED BY <3>2, <3>3
  <2> QED BY <2>1, <2>2
<1>5. ASSUME NEW r \in Requests, Collected(r) \/ TimedOut(r) \/ Park(r) \/ Rescan(r)
      PROVE  Kept(q)
  BY <1>5 DEF Collected, TimedOut, Park, EndOfPass, Rescan, Kept
<1>6. CASE SubscriberStep \/ StreamEnds \/ UNCHANGED gatewayVars
  BY <1>6 DEF SubscriberStep, StreamEnds, Subscribe, DeliverNotification, gatewayVars, Kept
<1>7. CASE GatewayRestart BY <1>7 DEF GatewayRestart, Open, Answered, Kept
<1> QED BY <1>1, <1>2, <1>3, <1>4, <1>5, <1>6, <1>7
        DEF GatewayMoves, GatewayNext, CallStep, WakeUp, RePoll

(* A call holds nothing beyond its own slices, and it leaves its loop only *)
(* with all of them.                                                       *)
StatsShape ==
  \A r \in Requests :
    /\ Holding(r) => \A i \in SliceIds \ Slices(r) : stats[r][i] = Nil
    /\ Whole(r) => Missing(r) = {}

LEMMA StatsShapeStep ==
  ASSUME Typed, StatsShape, GatewayMoves
  PROVE  StatsShape'
<1> SUFFICES ASSUME NEW r \in Requests, Holding(r)'
             PROVE  /\ \A i \in SliceIds \ Slices(r)' : stats'[r][i] = Nil
                    /\ Whole(r)' => Missing(r)' = {}
  BY DEF StatsShape, Holding
<1>1. Kept(r) \/ Begun(r) \/ JustRead(r) BY HoldingMoves
<1>2. pc[r] # "idle" BY <1>1 DEF Kept, Begun, JustRead, Holding, Whole, Collecting
<1>3. args'[r] = args[r] /\ Slices(r)' = Slices(r) BY <1>2, CallsPersist DEF Slices, VecLen
<1>4. CASE Kept(r) BY <1>3, <1>4 DEF Kept, StatsShape, Missing
<1>5. CASE Begun(r) BY <1>3, <1>5 DEF Begun, NoStats
<1>6. CASE JustRead(r)
  <2>1. unread[r] \subseteq Slices(r)
    BY <1>6 DEF JustRead, Typed, GatewayTypeOK, CallTypeOK, Collecting, Missing
  <2>2. stats[r] \in [SliceIds -> {Nil} \cup SliceStats]
    BY DEF Typed, GatewayTypeOK, StatsVectors
  <2>3. QED BY <1>3, <1>6, <2>1, <2>2 DEF JustRead, StatsShape, Holding, Collecting
<1> QED BY <1>1, <1>4, <1>5, <1>6

(* The gateway writes only final results, of calls that have everything.   *)
ResultWritten ==
  \E r \in Requests :
    /\ pc[r] = "store"
    /\ store' = [store EXCEPT ![ResultKey(Job(r))] = [magic |-> "json", stats |-> stats[r]]]

LEMMA StoreMoves ==
  ASSUME GatewayNext \/ GatewayRestart
  PROVE  store' = store \/ ResultWritten
<1>1. ASSUME NEW r \in Requests, CallStep(r) PROVE store' = store \/ ResultWritten
  BY <1>1 DEF CallStep, SetJobMetadata, PublishSlice, RegisterJob, ReadSlice, ReadSliceFails,
     Collected, TimedOut, Park, WakeUp, RePoll, Rescan, AggregateFails, StoreFinalResult,
     UpdateProgress, AwaitWrite, ResultWritten, sharedVars
<1> QED BY <1>1 DEF GatewayNext, SubmitTask, Deadline, CancelCollecting, SubscriberStep,
        Subscribe, DeliverNotification, StreamEnds, GatewayRestart, sharedVars

(* It sends only slices of the calls it has.                               *)
Task(r, i) == [job |-> Job(r), slice |-> i, vec |-> args[r].vec]

SlicePublished ==
  \E r \in Requests : \E c \in Channels :
    /\ pc[r] = "publish" /\ sent[r] \in SliceIds
    /\ NcclDispatch => c = sent[r]
    /\ chan' = [chan EXCEPT ![c] = Append(@, Task(r, sent[r]))]

LEMMA ChanMoves ==
  ASSUME Typed, GatewayNext
  PROVE  chan' = chan \/ SlicePublished
<1>1. ASSUME NEW r \in Requests, PublishSlice(r) PROVE SlicePublished
  <2> DEFINE c == IF NcclDispatch THEN sent[r] ELSE 0
  <2>1. /\ pc[r] = "publish" /\ TotalSlices(VecLen(r)) \in 1 .. MaxSlices
        /\ MaxSlices \in Nat \ {0}
    BY <1>1, CallIsTyped DEF PublishSlice
  <2>2. sent[r] \in Nat /\ sent[r] < TotalSlices(VecLen(r))
    BY <2>1 DEF Typed, GatewayTypeOK, CallTypeOK
  <2>3. sent[r] \in SliceIds /\ c \in Channels
    BY <2>1, <2>2 DEF SliceIds, Channels, TotalSlices
  <2>4. chan' = [chan EXCEPT ![c] = Append(@, Task(r, sent[r]))] BY <1>1 DEF PublishSlice, Task
  <2>5. NcclDispatch => c = sent[r] OBVIOUS
  <2> HIDE DEF c
  <2> QED BY <2>1, <2>3, <2>4, <2>5 DEF SlicePublished
<1>2. ASSUME NEW r \in Requests, CallStep(r) PROVE chan' = chan \/ SlicePublished
  BY <1>1, <1>2 DEF CallStep, SetJobMetadata, RegisterJob, ReadSlice, ReadSliceFails,
     Collected, TimedOut, Park, WakeUp, RePoll, Rescan, AggregateFails, StoreFinalResult,
     UpdateProgress, AwaitWrite, sharedVars
<1> QED BY <1>2 DEF GatewayNext, SubmitTask, Deadline, CancelCollecting, SubscriberStep,
        Subscribe, DeliverNotification, StreamEnds, sharedVars

-----------------------------------------------------------------------------
(* Every message in a queue is a slice of some call's vector under that    *)
(* call's job id, even when the call itself is long gone.                  *)

Submitted(j, v) == \E q \in Requests : pc[q] # "idle" /\ Job(q) = j /\ args[q].vec = v

LEMMA SubmittedPersists ==
  ASSUME Typed, GatewayMoves, NEW j, NEW v, Submitted(j, v)
  PROVE  Submitted(j, v)'
  BY CallsPersist DEF Submitted, Job

OfCalls(queue) == \A k \in 1 .. Len(queue) : Submitted(queue[k].job, queue[k].vec)

QueuesOfCalls ==
  /\ \A c \in Channels : OfCalls(chan[c])
  /\ \A w \in Workers : OfCalls(inbox[w])

LEMMA OfCallsKept ==
  ASSUME Typed, GatewayMoves, NEW queue \in Seq(TaskMessage), OfCalls(queue)
  PROVE  OfCalls(queue)'
  BY SubmittedPersists DEF OfCalls

LEMMA OfCallsTail ==
  ASSUME NEW queue \in Seq(TaskMessage), OfCalls(queue), queue # <<>>
  PROVE  OfCalls(Tail(queue)) /\ Submitted(Head(queue).job, Head(queue).vec)
  BY DEF OfCalls

LEMMA OfCallsAppend ==
  ASSUME NEW queue \in Seq(TaskMessage), OfCalls(queue),
         NEW m \in TaskMessage, Submitted(m.job, m.vec)
  PROVE  OfCalls(Append(queue, m))
  BY DEF OfCalls

LEMMA QueuesKeptByGateway ==
  ASSUME Typed, PublisherTypeOK, QueuesOfCalls,
         (GatewayNext /\ UNCHANGED inbox) \/ GatewayRestart
  PROVE  QueuesOfCalls'
<1>1. GatewayMoves BY DEF GatewayMoves
<1>2. ASSUME NEW c \in Channels, chan'[c] = chan[c] PROVE OfCalls(chan[c])'
  BY <1>1, <1>2, OfCallsKept DEF QueuesOfCalls, Typed, CommonTypeOK
<1>3. CASE GatewayNext /\ UNCHANGED inbox
  <2>1. \A w \in Workers : OfCalls(inbox[w])'
    BY <1>1, <1>3, OfCallsKept DEF QueuesOfCalls, PublisherTypeOK
  <2>2. CASE chan' = chan BY <1>2, <2>1, <2>2 DEF QueuesOfCalls
  <2>3. CASE SlicePublished
    <3>1. PICK r \in Requests, d \in Channels :
            /\ pc[r] = "publish" /\ sent[r] \in SliceIds
            /\ chan' = [chan EXCEPT ![d] = Append(@, Task(r, sent[r]))]
      BY <2>3 DEF SlicePublished
    <3>2. Job(r) \in JobIds /\ args[r].vec \in Vectors BY <3>1, CallIsTyped
    <3>3. PICK m \in TaskMessage : m = Task(r, sent[r])
      BY <3>1, <3>2 DEF Task, TaskMessage
    <3>4. Submitted(m.job, m.vec) BY <3>1, <3>3 DEF Submitted, Task
    <3>5. ASSUME NEW c \in Channels PROVE OfCalls(chan[c])'
      <4>1. CASE c = d
        <5>1. chan[d] \in Seq(TaskMessage) /\ chan'[d] = Append(chan[d], m)
          BY <3>1, <3>3 DEF Typed, CommonTypeOK
        <5>2. OfCalls(chan[d]) BY DEF QueuesOfCalls
        <5>3. OfCalls(Append(chan[d], m)) /\ Append(chan[d], m) \in Seq(TaskMessage)
          BY <3>4, <5>1, <5>2, OfCallsAppend
        <5> QED BY <1>1, <4>1, <5>1, <5>3, OfCallsKept
      <4>2. CASE c # d BY <1>2, <3>1, <4>2 DEF Typed, CommonTypeOK
      <4> QED BY <4>1, <4>2
    <3> QED BY <2>1, <3>5 DEF QueuesOfCalls
  <2> QED BY <1>3, <2>2, <2>3, ChanMoves
<1>4. CASE GatewayRestart
  <2>1. ASSUME NEW c \in Channels PROVE OfCalls(chan[c])'
    BY <1>4 DEF GatewayRestart, OfCalls
  <2>2. ASSUME NEW w \in Workers PROVE OfCalls(inbox[w])'
    <3>1. PICK n \in 0 .. Len(inbox[w]) : inbox'[w] = SubSeq(inbox[w], 1, n)
      BY <1>4 DEF GatewayRestart, ZmqPipesBreak, Prefixes
    <3>2. inbox[w] \in Seq(TaskMessage) /\ OfCalls(inbox[w])
      BY DEF PublisherTypeOK, QueuesOfCalls
    <3>3. OfCalls(inbox'[w]) BY <3>1, <3>2 DEF OfCalls
    <3>4. inbox'[w] \in Seq(TaskMessage) BY <3>1, <3>2
    <3>5. QED BY <1>1, <3>3, <3>4, OfCallsKept
  <2> QED BY <2>1, <2>2 DEF QueuesOfCalls
<1> QED BY <1>3, <1>4

LEMMA QueuesKeptByPush ==
  ASSUME Typed, PublisherTypeOK, QueuesOfCalls, UNCHANGED gatewayVars, NEW c \in Channels,
         NEW peers, PushFails(c) \/ \E w \in Workers : Push(c, w, peers)
  PROVE  QueuesOfCalls'
<1>1. GatewayMoves BY DEF GatewayMoves
<1>2. chan[c] \in Seq(TaskMessage) /\ chan[c] # <<>> /\ OfCalls(chan[c])
  BY DEF Typed, CommonTypeOK, QueuesOfCalls, Push, PushFails
<1>3. /\ Tail(chan[c]) \in Seq(TaskMessage) /\ OfCalls(Tail(chan[c]))
      /\ Head(chan[c]) \in TaskMessage /\ Submitted(Head(chan[c]).job, Head(chan[c]).vec)
  BY <1>2, OfCallsTail, HeadTailProperties
<1>4. ASSUME NEW d \in Channels PROVE OfCalls(chan[d])'
  <2>1. chan'[d] = (IF d = c THEN Tail(chan[c]) ELSE chan[d])
    BY DEF Typed, CommonTypeOK, Push, PushFails
  <2>2. chan'[d] \in Seq(TaskMessage) /\ OfCalls(chan'[d])
    BY <1>3, <2>1 DEF QueuesOfCalls, Typed, CommonTypeOK
  <2> QED BY <1>1, <2>2, OfCallsKept
<1>5. ASSUME NEW v \in Workers PROVE OfCalls(inbox[v])'
  <2>1. inbox[v] \in Seq(TaskMessage) /\ OfCalls(inbox[v]) BY DEF PublisherTypeOK, QueuesOfCalls
  <2>2. inbox'[v] = inbox[v] \/ inbox'[v] = Append(inbox[v], Head(chan[c]))
    BY DEF PublisherTypeOK, Push, PushFails
  <2>3. inbox'[v] \in Seq(TaskMessage) /\ OfCalls(inbox'[v])
    <3>1. Append(inbox[v], Head(chan[c])) \in Seq(TaskMessage) BY <1>3, <2>1, AppendProperties
    <3> QED BY <1>3, <2>1, <2>2, <3>1, OfCallsAppend
  <2> QED BY <1>1, <2>3, OfCallsKept
<1> QED BY <1>4, <1>5 DEF QueuesOfCalls

(* A worker takes the first message of its inbox, or loses all of them.    *)
LEMMA QueuesKeptByTaking ==
  ASSUME Typed, PublisherTypeOK, QueuesOfCalls, UNCHANGED <<gatewayVars, chan>>,
         NEW w \in Workers,
         \/ inbox[w] # <<>> /\ inbox' = [inbox EXCEPT ![w] = Tail(@)]
         \/ inbox' = [inbox EXCEPT ![w] = <<>>]
         \/ inbox' = inbox
  PROVE  QueuesOfCalls'
<1>1. GatewayMoves BY DEF GatewayMoves
<1>2. ASSUME NEW d \in Channels PROVE OfCalls(chan[d])'
  BY <1>1, OfCallsKept DEF QueuesOfCalls, Typed, CommonTypeOK
<1>3. ASSUME NEW v \in Workers PROVE OfCalls(inbox[v])'
  <2>1. inbox[v] \in Seq(TaskMessage) /\ OfCalls(inbox[v]) BY DEF PublisherTypeOK, QueuesOfCalls
  <2>2. \/ inbox'[v] = inbox[v] \/ inbox'[v] = <<>>
        \/ inbox[v] # <<>> /\ inbox'[v] = Tail(inbox[v])
    BY DEF PublisherTypeOK
  <2>3. inbox'[v] \in Seq(TaskMessage) /\ OfCalls(inbox'[v])
    <3>1. OfCalls(<<>>) /\ <<>> \in Seq(TaskMessage) BY DEF OfCalls
    <3>2. ASSUME inbox[v] # <<>>
          PROVE  OfCalls(Tail(inbox[v])) /\ Tail(inbox[v]) \in Seq(TaskMessage)
      BY <2>1, <3>2, OfCallsTail, HeadTailProperties
    <3> QED BY <2>1, <2>2, <3>1, <3>2
  <2> QED BY <1>1, <2>3, OfCallsKept
<1> QED BY <1>2, <1>3 DEF QueuesOfCalls

LEMMA QueuesInit == CommonInit /\ PublisherInit => QueuesOfCalls
  BY DEF CommonInit, PublisherInit, QueuesOfCalls, OfCalls

-----------------------------------------------------------------------------
(* Where the numbers in Redis and in the hands of a call come from.        *)

(* What a worker makes of slice i of vector v: exponentials and their sum  *)
(* ("0x01"), or probabilities over all the slices of v ("0x02").           *)
SliceStat(fmt, v, i) ==
  [magic |-> fmt, vec |-> v, slice |-> i,
   reduced |-> IF fmt = "0x01" THEN {} ELSE {v} \X SliceIds]

(* The statistics of slice i of a vector submitted under job id j.         *)
SliceOf(fmt, value, j, i) == \E v \in Vectors : Submitted(j, v) /\ value = SliceStat(fmt, v, i)

(* All the slices of a call, and nothing else.                             *)
WholeOf(fmt, sliceStats, j) ==
  \E q \in Requests :
    /\ pc[q] \notin {"idle", "invalid"} /\ Job(q) = j
    /\ \A i \in Slices(q) : SliceOf(fmt, sliceStats[i], j, i)
    /\ \A i \in SliceIds \ Slices(q) : sliceStats[i] = Nil

IsJson(value) == value # Nil /\ value.magic = "json"

(* What may be under a key: a slice under the key of that slice, a result  *)
(* under the key of that job.  One key may be both.                        *)
Proper(fmt, key, value) ==
  /\ Readable(value) =>
       \A j \in JobIds, i \in SliceIds : key = SliceKey(j, i) => SliceOf(fmt, value, j, i)
  /\ IsJson(value) =>
       \A j \in JobIds : key = ResultKey(j) => WholeOf(fmt, value.stats, j)

StoredOrigin(fmt) == \A key \in Keys : Proper(fmt, key, store[key])

HeldOrigin(fmt) ==
  \A r \in Requests : Holding(r) =>
    \A i \in SliceIds : stats[r][i] # Nil => SliceOf(fmt, stats[r][i], Job(r), i)

(* What is once the slice of a job stays so, and so does a whole result.   *)
LEMMA SliceOfPersists ==
  ASSUME Typed, GatewayMoves, NEW fmt, NEW value, NEW j, NEW i,
         SliceOf(fmt, value, j, i)
  PROVE  SliceOf(fmt, value, j, i)'
<1>1. PICK v \in Vectors : Submitted(j, v) /\ value = SliceStat(fmt, v, i) BY DEF SliceOf
<1>2. Submitted(j, v)' BY <1>1, SubmittedPersists
<1> QED BY <1>1, <1>2 DEF SliceOf, SliceStat

(* A call that is past validation stays so.                                *)
LEMMA ValidPersists ==
  ASSUME Typed, Typed', GatewayMoves, NEW q \in Requests, pc[q] \notin {"idle", "invalid"}
  PROVE  pc'[q] \notin {"idle", "invalid"} /\ args'[q] = args[q]
<1> USE DEF Typed, GatewayTypeOK, Goto
<1>1. pc'[q] # "idle" /\ args'[q] = args[q] BY CallsPersist
<1>2. ASSUME NEW r \in Requests, NEW a \in Args, SubmitTask(r, a) PROVE pc'[q] # "invalid"
  BY <1>2 DEF SubmitTask
<1>3. ASSUME NEW r \in Requests, CallStep(r) \/ Deadline(r) \/ CancelCollecting(r)
      PROVE  pc'[q] # "invalid"
  BY <1>3 DEF CallStep, SetJobMetadata, PublishSlice, RegisterJob, ReadSlice, ReadSliceFails,
     Collected, TimedOut, Park, WakeUp, RePoll, Rescan, AggregateFails, StoreFinalResult,
     UpdateProgress, AwaitWrite, Deadline, CancelCollecting
<1>4. CASE SubscriberStep \/ StreamEnds \/ UNCHANGED gatewayVars
  BY <1>4 DEF SubscriberStep, StreamEnds, Subscribe, DeliverNotification, gatewayVars
<1>5. CASE GatewayRestart BY <1>5 DEF GatewayRestart, Open
<1> QED BY <1>1, <1>2, <1>3, <1>4, <1>5 DEF GatewayMoves, GatewayNext

LEMMA WholeOfPersists ==
  ASSUME Typed, Typed', GatewayMoves, NEW fmt, NEW sliceStats, NEW j,
         WholeOf(fmt, sliceStats, j)
  PROVE  WholeOf(fmt, sliceStats, j)'
<1>1. PICK q \in Requests :
        /\ pc[q] \notin {"idle", "invalid"} /\ Job(q) = j
        /\ \A i \in Slices(q) : SliceOf(fmt, sliceStats[i], j, i)
        /\ \A i \in SliceIds \ Slices(q) : sliceStats[i] = Nil
  BY DEF WholeOf
<1>2. pc'[q] \notin {"idle", "invalid"} /\ args'[q] = args[q] BY <1>1, ValidPersists
<1>3. Job(q)' = j /\ Slices(q)' = Slices(q) BY <1>1, <1>2 DEF Job, Slices, VecLen
<1>4. \A i \in Slices(q) : SliceOf(fmt, sliceStats[i], j, i)' BY <1>1, SliceOfPersists
<1> QED BY <1>1, <1>2, <1>3, <1>4 DEF WholeOf

(* The parts of the invariant, whatever the other end does.                *)
LEMMA HeldKept ==
  ASSUME Typed, Typed', GatewayMoves, NEW fmt, HeldOrigin(fmt), StoredOrigin(fmt)
  PROVE  HeldOrigin(fmt)'
<1> SUFFICES ASSUME NEW r \in Requests, Holding(r)', NEW i \in SliceIds, stats'[r][i] # Nil
             PROVE  SliceOf(fmt, stats[r][i], Job(r), i)'
  BY DEF HeldOrigin
<1>1. Kept(r) \/ Begun(r) \/ JustRead(r) BY HoldingMoves
<1>2. pc[r] \notin {"idle", "invalid"}
  BY <1>1 DEF Kept, Begun, JustRead, Holding, Whole, Collecting
<1>3. Job(r)' = Job(r) /\ Job(r) \in JobIds BY <1>2, CallsPersist, CallIsTyped DEF Job
<1>4. SliceOf(fmt, stats'[r][i], Job(r), i)
  <2>1. CASE Kept(r) BY <2>1 DEF Kept, HeldOrigin
  <2>2. CASE Begun(r) BY <2>2 DEF Begun, NoStats
  <2>3. CASE JustRead(r)
    <3>1. stats[r] \in [SliceIds -> {Nil} \cup SliceStats] /\ unread[r] \subseteq SliceIds
      BY DEF Typed, GatewayTypeOK, StatsVectors
    <3>2. PICK k \in unread[r] :
            /\ Readable(store[SliceKey(Job(r), k)])
            /\ stats'[r] = [stats[r] EXCEPT ![k] = store[SliceKey(Job(r), k)]]
      BY <2>3 DEF JustRead
    <3>3. CASE i = k BY <1>3, <3>1, <3>2, <3>3, KeyFacts DEF StoredOrigin, Proper
    <3>4. CASE i # k
      BY <2>3, <3>1, <3>2, <3>4 DEF JustRead, HeldOrigin, Holding, Collecting
    <3> QED BY <3>3, <3>4
  <2> QED BY <1>1, <2>1, <2>2, <2>3
<1> QED BY <1>3, <1>4, SliceOfPersists

(* A complete call has all its slices: what it stores is whole.            *)
LEMMA CompleteIsWhole ==
  ASSUME Typed, NEW fmt, HeldOrigin(fmt), StatsShape, NEW r \in Requests, Whole(r)
  PROVE  WholeOf(fmt, stats[r], Job(r))
<1>1. pc[r] \notin {"idle", "invalid"} /\ Holding(r) BY DEF Whole, Holding
<1>2. Slices(r) \subseteq SliceIds BY <1>1, CallIsTyped
<1>3. Missing(r) = {} /\ \A i \in SliceIds \ Slices(r) : stats[r][i] = Nil
  BY <1>1 DEF StatsShape
<1>4. \A i \in Slices(r) : SliceOf(fmt, stats[r][i], Job(r), i)
  BY <1>1, <1>2, <1>3 DEF HeldOrigin, Missing
<1> QED BY <1>1, <1>3, <1>4 DEF WholeOf

(* The other things that happen to Redis: a worker sets a slice, a result  *)
(* expires.                                                                *)
SlicePut(fmt) ==
  \E j \in JobIds, v \in Vectors, i \in SliceIds :
    Submitted(j, v) /\ store' = [store EXCEPT ![SliceKey(j, i)] = SliceStat(fmt, v, i)]

ResultExpired == \E j \in JobIds : store' = [store EXCEPT ![ResultKey(j)] = Nil]

LEMMA ProperPersists ==
  ASSUME Typed, Typed', GatewayMoves, NEW fmt, NEW key \in Keys, NEW value,
         Proper(fmt, key, value)
  PROVE  Proper(fmt, key, value)'
<1>1. ASSUME Readable(value), NEW j \in JobIds, NEW i \in SliceIds, key = SliceKey(j, i)
      PROVE  SliceOf(fmt, value, j, i)'
  BY <1>1, SliceOfPersists DEF Proper
<1>2. ASSUME IsJson(value), NEW j \in JobIds, key = ResultKey(j)
      PROVE  WholeOf(fmt, value.stats, j)'
  BY <1>2, WholeOfPersists DEF Proper
<1> QED BY <1>1, <1>2 DEF Proper, Readable, IsJson

LEMMA StoredKept ==
  ASSUME Typed, Typed', GatewayMoves, StatsShape,
         NEW fmt \in {"0x01", "0x02"}, StoredOrigin(fmt), HeldOrigin(fmt),
         store' = store \/ ResultWritten \/ ResultExpired \/ SlicePut(fmt)
  PROVE  StoredOrigin(fmt)'
<1> SUFFICES ASSUME NEW key \in Keys PROVE Proper(fmt, key, store'[key])
  BY ProperPersists DEF StoredOrigin
<1>1. ASSUME store'[key] = store[key] PROVE Proper(fmt, key, store'[key])
  BY <1>1 DEF StoredOrigin
<1>2. CASE ResultWritten
  <2>1. PICK r \in Requests :
          /\ pc[r] = "store"
          /\ store' = [store EXCEPT ![ResultKey(Job(r))] = [magic |-> "json", stats |-> stats[r]]]
    BY <1>2 DEF ResultWritten
  <2>2. CASE key = ResultKey(Job(r))
    <3>1. store'[key] = [magic |-> "json", stats |-> stats[r]]
      BY <2>1, <2>2 DEF Typed, CommonTypeOK
    <3>2. WholeOf(fmt, stats[r], Job(r)) BY <2>1, CompleteIsWhole DEF Whole
    <3>3. \A j \in JobIds : key = ResultKey(j) => j = Job(r) BY <2>2 DEF ResultKey
    <3> QED BY <3>1, <3>2, <3>3 DEF Proper, Readable
  <2>3. CASE key # ResultKey(Job(r))
    BY <1>1, <2>1, <2>3 DEF Typed, CommonTypeOK
  <2> QED BY <2>2, <2>3
<1>3. CASE ResultExpired
  <2>1. store'[key] = store[key] \/ store'[key] = Nil
    BY <1>3 DEF ResultExpired, Typed, CommonTypeOK
  <2> QED BY <1>1, <2>1 DEF Proper, Readable, IsJson
<1>4. CASE SlicePut(fmt)
  <2>1. PICK j \in JobIds, v \in Vectors, i \in SliceIds :
          Submitted(j, v) /\ store' = [store EXCEPT ![SliceKey(j, i)] = SliceStat(fmt, v, i)]
    BY <1>4 DEF SlicePut
  <2>2. CASE key = SliceKey(j, i)
    <3>1. store'[key] = SliceStat(fmt, v, i) BY <2>1, <2>2 DEF Typed, CommonTypeOK
    <3>2. SliceOf(fmt, store'[key], j, i) BY <2>1, <3>1 DEF SliceOf
    <3>3. \A k \in JobIds, n \in SliceIds : key = SliceKey(k, n) => k = j /\ n = i
      BY <2>2, SliceKeyInjective
    <3>4. ~IsJson(store'[key]) BY <3>1 DEF IsJson, SliceStat
    <3> QED BY <3>2, <3>3, <3>4 DEF Proper
  <2>3. CASE key # SliceKey(j, i)
    BY <1>1, <2>1, <2>3 DEF Typed, CommonTypeOK
  <2> QED BY <2>2, <2>3
<1> QED BY <1>1, <1>2, <1>3, <1>4

LEMMA OriginsInit ==
  ASSUME CommonInit, GatewayInit, NEW fmt
  PROVE  StoredOrigin(fmt) /\ HeldOrigin(fmt) /\ StatsShape
<1>1. StoredOrigin(fmt) BY DEF CommonInit, StoredOrigin, Proper, Readable, IsJson
<1>2. HeldOrigin(fmt) /\ StatsShape
  BY DEF GatewayInit, HeldOrigin, StatsShape, Holding, Whole, Collecting
<1> QED BY <1>1, <1>2

=============================================================================
