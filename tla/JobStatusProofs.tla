--------------------------- MODULE JobStatusProofs ---------------------------
(***************************************************************************)
(* What GetResult may say, for every number of calls, pollers and faults:  *)
(* a result it hands out is whole and the job's own, and once a client     *)
(* knows that a job is done GetResult keeps saying so.                     *)
(***************************************************************************)
EXTENDS JobStatus, ServiceProofs

QueryTypeOK ==
  /\ qpc \in [Pollers -> {"idle", "final", "count", "done"}]
  /\ qjob \in [Pollers -> {Nil} \cup JobIds]
  /\ reply \in [Pollers -> {Nil, "not_found", "error", "ready", "failed", "pending", "running"}]
  /\ answer \in [Pollers -> {Nil} \cup StatsVectors]
  /\ promised \in [Pollers -> BOOLEAN]
  /\ \A q \in Pollers : qpc[q] # "idle" => qjob[q] \in JobIds
  /\ \A q \in Pollers : qpc[q] # "done" => reply[q] = Nil

(* A step of a query, or of the clock: Redis is only read, or loses a key. *)
QueryStep ==
  \E q \in Pollers :
    \/ \E j \in JobIds : GetResult(q, j)
    \/ ReadFinal(q) \/ CountSlice(q) \/ ReportProgress(q)

-----------------------------------------------------------------------------
(* Type correctness and the origin of the slices carry over: queries read, *)
(* and an expired key only disappears.                                     *)

LEMMA QueryFrame ==
  ASSUME QueryStep
  PROVE  ReadsRedis /\ (faults' = faults \/ \E kind \in AllFaults : Fault(kind))
  BY DEF QueryStep, GetResult, ReadFinal, CountSlice, ReportProgress, AllFaults

LEMMA BaseTypeKept ==
  ASSUME TypeOK, [StatusNext]_statusVars
  PROVE  TypeOK'
<1>1. CASE Step \/ (GatewayRestart /\ UNCHANGED <<slots, up>>) \/ UNCHANGED vars
  BY <1>1, TypeStep DEF Next
<1>2. CASE QueryStep
  <2>1. faults' \in 0 .. MaxFaults
    BY <1>2, QueryFrame, CommonAssumption DEF Fault, TypeOK, CommonTypeOK
  <2>2. ReadsRedis BY <1>2, QueryFrame
  <2>3. GatewayTypeOK' BY <2>2, TypeParts, GatewayFrame DEF ReadsRedis
  <2> QED BY <2>1, <2>2, <2>3
          DEF ReadsRedis, TypeOK, CommonTypeOK, WorkerTypeOK, PublisherTypeOK, workerVars
<1>3. ASSUME NEW j \in JobIds, Expire(j) PROVE TypeOK'
  <2>1. GatewayTypeOK' BY <1>3, TypeParts, GatewayFrame DEF Expire
  <2>2. CommonTypeOK' BY <1>3, ResultKeyFacts DEF Expire, TypeOK, CommonTypeOK
  <2>3. WorkerTypeOK' BY <1>3 DEF Expire, TypeOK, WorkerTypeOK, PublisherTypeOK, workerVars
  <2> QED BY <2>1, <2>2, <2>3 DEF TypeOK
<1> QED BY <1>1, <1>2, <1>3 DEF StatusNext, statusVars, QueryStep, RestartDuringQueries

LEMMA StatusMoves ==
  ASSUME [StatusNext]_statusVars
  PROVE  GatewayMoves
  BY DEF StatusNext, Step, RestartDuringQueries, GetResult, ReadFinal, CountSlice,
     ReportProgress, Expire, ReadsRedis, statusVars, vars, GatewayMoves

LEMMA OriginCarries ==
  ASSUME TypeOK, Origin, [StatusNext]_statusVars
  PROVE  Origin'
<1>1. TypeOK' /\ GatewayMoves BY BaseTypeKept, StatusMoves
<1>2. CASE Step \/ (GatewayRestart /\ UNCHANGED <<slots, up>>) \/ UNCHANGED vars
  BY <1>2, OriginStep DEF Next
<1>3. CASE QueryStep \/ \E j \in JobIds : Expire(j)
  <2>1. UNCHANGED <<gatewayVars, chan, inbox, slots>> /\ (store' = store \/ ResultExpired)
    BY <1>3, QueryFrame DEF ReadsRedis, Expire, workerVars, ResultExpired
  <2>2. QueuesOfCalls'
    BY <2>1 DEF Origin, QueuesOfCalls, OfCalls, Submitted, Job, gatewayVars
  <2>3. TasksOfCalls' BY <1>1, <2>1, TasksKept DEF Origin
  <2> QED BY <1>1, <2>1, <2>2, <2>3, OriginKept
<1> QED BY <1>2, <1>3 DEF StatusNext, statusVars, QueryStep, RestartDuringQueries

-----------------------------------------------------------------------------
LEMMA QueryTypeInit == StatusInit => QueryTypeOK
<1> SUFFICES ASSUME StatusInit PROVE QueryTypeOK OBVIOUS
<1>1. promised \in [Pollers -> BOOLEAN] BY DEF StatusInit
<1> QED BY <1>1 DEF StatusInit, QueryTypeOK

LEMMA QueryTypeStep ==
  ASSUME TypeOK, QueryTypeOK, [StatusNext]_statusVars
  PROVE  QueryTypeOK'
<1> USE DEF Reply, Continue
<1>1. ASSUME NEW q \in Pollers, NEW j \in JobIds, GetResult(q, j) PROVE QueryTypeOK'
  <2>1. promised' \in [Pollers -> BOOLEAN]
    <3>1. KnownReady(j) \in BOOLEAN BY DEF KnownReady
    <3>2. promised' = [promised EXCEPT ![q] = KnownReady(j)] BY <1>1 DEF GetResult
    <3> QED BY <3>1, <3>2 DEF QueryTypeOK
  <2> QED BY <1>1, <2>1 DEF GetResult, QueryTypeOK
<1>2. ASSUME NEW q \in Pollers, ReadFinal(q) PROVE QueryTypeOK'
  <2>1. qjob[q] \in JobIds BY <1>2 DEF ReadFinal, QueryTypeOK
  <2>2. IsResult(store[ResultKey(qjob[q])]) => store[ResultKey(qjob[q])].stats \in StatsVectors
    BY <2>1, ResultKeyFacts DEF IsResult, TypeOK, CommonTypeOK, SliceStats, Results
  <2>3. answer' \in [Pollers -> {Nil} \cup StatsVectors]
    BY <1>2, <2>2 DEF ReadFinal, QueryTypeOK
  <2>4. promised' = promised /\ qjob' = qjob BY <1>2 DEF ReadFinal
  <2> QED BY <1>2, <2>3, <2>4 DEF ReadFinal, QueryTypeOK
<1>3. ASSUME NEW q \in Pollers, CountSlice(q) PROVE QueryTypeOK'
  BY <1>3 DEF CountSlice, QueryTypeOK
<1>4. ASSUME NEW q \in Pollers, ReportProgress(q) PROVE QueryTypeOK'
  BY <1>4 DEF ReportProgress, QueryTypeOK
<1>5. CASE RestartDuringQueries BY <1>5 DEF RestartDuringQueries, QueryTypeOK
<1>6. CASE UNCHANGED queryVars BY <1>6 DEF queryVars, QueryTypeOK
<1> QED BY <1>1, <1>2, <1>3, <1>4, <1>5, <1>6 DEF StatusNext, statusVars, Expire

-----------------------------------------------------------------------------
(* A result in the hands of a client is the whole of some call's slices,   *)
(* and consists of numbers.                                                *)
AnswersWhole ==
  \A q \in Pollers : reply[q] = "ready" =>
    /\ answer[q] \in StatsVectors /\ WholeOf("0x01", answer[q], qjob[q])
    /\ ~HasNull(answer[q])

(* It was there before, or has just been read.                             *)
FoundResult(q) ==
  LET value == store[ResultKey(qjob[q])]
  IN /\ qpc[q] = "final" /\ qjob'[q] = qjob[q]
     /\ IsResult(value) /\ answer'[q] = value.stats /\ ~HasNull(value.stats)

LEMMA ReadyMoves ==
  ASSUME QueryTypeOK, [StatusNext]_statusVars, NEW q \in Pollers, reply'[q] = "ready"
  PROVE  \/ FoundResult(q)
         \/ /\ reply[q] = "ready" /\ qjob'[q] = qjob[q]
            /\ answer'[q] = answer[q] /\ promised'[q] = promised[q]
<1> USE StatusAssumption DEF Reply, Continue, QueryTypeOK
<1>1. ASSUME NEW p \in Pollers, NEW j \in JobIds, GetResult(p, j)
      PROVE  /\ reply[q] = "ready" /\ qjob'[q] = qjob[q]
             /\ answer'[q] = answer[q] /\ promised'[q] = promised[q]
  BY <1>1 DEF GetResult
<1>2. ASSUME NEW p \in Pollers, ReadFinal(p)
      PROVE  \/ FoundResult(q)
             \/ /\ reply[q] = "ready" /\ qjob'[q] = qjob[q]
                /\ answer'[q] = answer[q] /\ promised'[q] = promised[q]
  BY <1>2 DEF ReadFinal, FoundResult
<1>3. ASSUME NEW p \in Pollers, CountSlice(p) \/ ReportProgress(p)
      PROVE  /\ reply[q] = "ready" /\ qjob'[q] = qjob[q]
             /\ answer'[q] = answer[q] /\ promised'[q] = promised[q]
  BY <1>3 DEF CountSlice, ReportProgress
<1>4. CASE RestartDuringQueries BY <1>4 DEF RestartDuringQueries
<1>5. CASE UNCHANGED queryVars BY <1>5 DEF queryVars
<1> QED BY <1>1, <1>2, <1>3, <1>4, <1>5 DEF StatusNext, statusVars, Expire

LEMMA AnswersKept ==
  ASSUME TypeOK, Origin, QueryTypeOK, AnswersWhole, [StatusNext]_statusVars
  PROVE  AnswersWhole'
<1>1. Typed /\ Typed' /\ GatewayMoves
  BY BaseTypeKept, StatusMoves DEF TypeOK, Typed
<1> SUFFICES ASSUME NEW q \in Pollers, reply'[q] = "ready"
             PROVE  /\ answer'[q] \in StatsVectors /\ WholeOf("0x01", answer[q], qjob[q])'
                    /\ ~HasNull(answer'[q])
  BY DEF AnswersWhole
<1>2. /\ answer'[q] \in StatsVectors /\ WholeOf("0x01", answer'[q], qjob'[q])
      /\ ~HasNull(answer'[q])
  <2>1. CASE FoundResult(q)
    <3>1. qjob[q] \in JobIds BY <2>1 DEF FoundResult, QueryTypeOK
    <3>2. answer'[q] \in StatsVectors
      BY <2>1, <3>1, ResultKeyFacts
      DEF FoundResult, IsResult, TypeOK, CommonTypeOK, SliceStats, Results
    <3>3. WholeOf("0x01", answer'[q], qjob'[q])
      BY <2>1, <3>1, ResultKeyFacts
      DEF FoundResult, IsResult, IsJson, Origin, StoredOrigin, Proper
    <3> QED BY <2>1, <3>2, <3>3 DEF FoundResult
  <2> QED BY <2>1, ReadyMoves DEF AnswersWhole
<1> QED BY <1>1, <1>2, WholeOfPersists

StatusInv == TypeOK /\ Origin /\ QueryTypeOK /\ AnswersWhole

LEMMA StatusInvInit == StatusInit => StatusInv
<1> SUFFICES ASSUME StatusInit PROVE StatusInv OBVIOUS
<1>1. Init BY DEF StatusInit
<1>2. AnswersWhole BY StatusAssumption DEF StatusInit, AnswersWhole
<1> QED BY <1>1, <1>2, TypeInit, OriginInit, QueryTypeInit DEF StatusInv

LEMMA StatusInvStep == StatusInv /\ [StatusNext]_statusVars => StatusInv'
  BY BaseTypeKept, OriginCarries, QueryTypeStep, AnswersKept DEF StatusInv

(* What GetResult hands out as the result of a job is the whole softmax of *)
(* the job's vector, and numbers, whichever of the calls of that job stored it, also if *)
(* that call was answered with an error, cancelled or lost in a restart.   *)
THEOREM ReadyResultsAreOwnSoftmax == StatusSpec => []ReadyIsOwnSoftmax
<1>1. StatusInv => ReadyIsOwnSoftmax
  <2> SUFFICES ASSUME StatusInv, OneVectorPerJob, NEW q \in Pollers, reply[q] = "ready"
               PROVE  \E r \in Requests : /\ pc[r] # "idle" /\ Job(r) = qjob[q]
                                          /\ answer[q] = WholeSoftmax(args[r].vec)
                                          /\ ~args[r].vec.low
    BY DEF ReadyIsOwnSoftmax
  <2>1. answer[q] \in StatsVectors /\ WholeOf("0x01", answer[q], qjob[q]) /\ ~HasNull(answer[q])
    BY DEF StatusInv, AnswersWhole
  <2>2. PICK r \in Requests : pc[r] \notin {"idle", "invalid"} /\ Job(r) = qjob[q]
    BY <2>1 DEF WholeOf
  <2>3. answer[q] = WholeSoftmax(args[r].vec)
    BY <2>1, <2>2, WholeIsSoftmax, TypeParts DEF StatusInv, OneVectorPerJob
  <2>4. args[r].vec \in Vectors /\ TotalSlices(args[r].vec.len) \in 1 .. MaxSlices
    BY <2>2, CallFacts DEF StatusInv, VecLen
  <2>5. ~HasNull(WholeSoftmax(args[r].vec)) BY <2>1, <2>3
  <2> QED BY <2>2, <2>3, <2>4, <2>5, LowHasNull
<1> QED BY <1>1, StatusInvInit, StatusInvStep, PTL DEF StatusSpec

-----------------------------------------------------------------------------
(* What GetResult relies on stays in Redis, as far as nothing expires.     *)

HasMetadata(r) ==
  pc[r] \in {"publish", "register", "scan", "wait", "store", "progress", "ok"}

MetadataDue(j) ==
  \/ KnownReady(j)
  \/ \E r \in Requests : HasMetadata(r) /\ Job(r) = j
  \/ \E q \in Pollers : qpc[q] = "final" /\ qjob[q] = j

ResultDue(j) ==
  \/ KnownReady(j)
  \/ \E r \in Requests : pc[r] \in {"progress", "ok"} /\ Job(r) = j

KeysStay ==
  \A j \in JobIds \ gone :
    /\ MetadataDue(j) => metadata[j] # Nil
    /\ ResultDue(j) => IsResult(store[ResultKey(j)])

(* A query that began when the job was known to be done does not get to    *)
(* the point where it counts slices, and ends with "ready".                *)
PromisesKept ==
  \A q \in Pollers : promised[q] /\ qjob[q] \notin gone =>
    /\ qpc[q] # "count"
    /\ qpc[q] = "done" /\ Numeric(qjob[q]) => reply[q] \in {"ready", "error"}

(* A job all of whose vectors have a softmax keeps that property backwards *)
(* in time, and what is stored for it consists of numbers.                 *)
LEMMA NumericBefore ==
  ASSUME TypeOK, [StatusNext]_statusVars, NEW j, Numeric(j)'
  PROVE  Numeric(j)
  BY StatusMoves, TypeParts, CallsPersist DEF Numeric, Job

LEMMA NumericHasNoNull ==
  ASSUME NEW j, Numeric(j), NEW sliceStats, WholeOf("0x01", sliceStats, j)
  PROVE  ~HasNull(sliceStats)
<1> SUFFICES ASSUME NEW i \in SliceIds, sliceStats[i] # Nil
             PROVE  \E vec \in SummedUp(sliceStats, i) : ~vec.low
  BY DEF HasNull
<1>1. SliceOf("0x01", sliceStats[i], j, i) BY DEF WholeOf
<1>2. PICK v \in Vectors : Submitted(j, v) /\ sliceStats[i] = SliceStat("0x01", v, i)
  BY <1>1 DEF SliceOf
<1>3. v \in SummedUp(sliceStats, i) BY <1>2 DEF SummedUp, SliceStat
<1>4. ~v.low BY <1>2 DEF Submitted, Numeric
<1> QED BY <1>3, <1>4

(* Where the knowledge that a job is done comes from.                      *)
LEMMA KnownMoves ==
  ASSUME Typed, QueryTypeOK, [StatusNext]_statusVars, NEW j \in JobIds, KnownReady(j)'
  PROVE  \/ ResultDue(j)
         \/ \E q \in Pollers : FoundResult(q) /\ qjob[q] = j
<1>1. GatewayMoves BY StatusMoves
<1>2. ASSUME NEW r \in Requests, pc'[r] = "ok", Job(r)' = j PROVE ResultDue(j)
  <2>1. pc[r] \in {"progress", "ok"} BY <1>1, <1>2, PastStoreMoves
  <2>2. Job(r)' = Job(r) BY <1>1, <2>1, CallsPersist DEF Job
  <2> QED BY <1>2, <2>1, <2>2 DEF ResultDue
<1>3. ASSUME NEW q \in Pollers, qjob'[q] = j, reply'[q] = "ready"
      PROVE  KnownReady(j) \/ (FoundResult(q) /\ qjob[q] = j)
  BY <1>3, ReadyMoves DEF KnownReady, FoundResult
<1>4. ASSUME NEW q \in Pollers, qjob'[q] = j, promised'[q] PROVE KnownReady(j)
  <2>1. CASE UNCHANGED <<qjob, promised>> BY <1>4, <2>1 DEF KnownReady
  <2>2. ASSUME NEW p \in Pollers, NEW k \in JobIds, GetResult(p, k) PROVE KnownReady(j)
    <3>1. /\ qjob' = [qjob EXCEPT ![p] = k]
          /\ promised' = [promised EXCEPT ![p] = KnownReady(k)]
      BY <2>2 DEF GetResult
    <3>2. CASE p = q
      BY <1>4, <3>1, <3>2 DEF QueryTypeOK
    <3>3. CASE p # q
      BY <1>4, <3>1, <3>3 DEF QueryTypeOK, KnownReady
    <3> QED BY <3>2, <3>3
  <2> QED BY <2>1, <2>2 DEF StatusNext, statusVars, queryVars, RestartDuringQueries, ReadFinal,
             CountSlice, ReportProgress, Expire
<1> QED BY <1>2, <1>3, <1>4 DEF KnownReady, ResultDue

(* Metadata is written before anything is published, and only expires.     *)
MetadataStays(j) ==
  /\ metadata[j] # Nil => metadata'[j] # Nil
  /\ \A r \in Requests : HasMetadata(r)' /\ Job(r)' = j =>
       (HasMetadata(r) /\ Job(r) = j) \/ metadata'[j] # Nil

LEMMA MetadataMoves ==
  ASSUME TypeOK, [StatusNext]_statusVars, NEW j \in JobIds \ gone'
  PROVE  MetadataStays(j)
<1> USE DEF Goto, HasMetadata, Job, MetadataStays
<1>1. ASSUME NEW r \in Requests, SetJobMetadata(r) PROVE MetadataStays(j)
  <2>1. Job(r) \in JobIds /\ TotalSlices(VecLen(r)) \in Nat BY <1>1, CallFacts DEF SetJobMetadata
  <2>2. TotalSlices(VecLen(r)) # Nil BY <2>1, StatusAssumption
  <2>3. /\ pc' = [pc EXCEPT ![r] = "publish"] =>
              metadata' = [metadata EXCEPT ![Job(r)] = TotalSlices(VecLen(r))]
        /\ \/ metadata' = [metadata EXCEPT ![Job(r)] = TotalSlices(VecLen(r))]
           \/ metadata' = metadata
        /\ \E label \in {"publish", "failed", "cancelled"} : pc' = [pc EXCEPT ![r] = label]
        /\ args' = args
    BY <1>1 DEF SetJobMetadata, AwaitWrite, TypeOK, GatewayTypeOK
  <2>4. metadata \in [JobIds -> {Nil} \cup Nat] BY DEF TypeOK, CommonTypeOK
  <2> HIDE DEF HasMetadata
  <2>5. metadata[j] # Nil => metadata'[j] # Nil BY <2>1, <2>2, <2>3, <2>4
  <2>6. ASSUME NEW q \in Requests, HasMetadata(q)', Job(q)' = j
        PROVE  (HasMetadata(q) /\ Job(q) = j) \/ metadata'[j] # Nil
    BY <2>1, <2>2, <2>3, <2>4, <2>6 DEF HasMetadata, TypeOK, GatewayTypeOK
  <2> QED BY <2>5, <2>6
<1>2. ASSUME NEW r \in Requests, NEW a \in Args, SubmitTask(r, a) PROVE MetadataStays(j)
  BY <1>2 DEF SubmitTask, sharedVars, TypeOK, GatewayTypeOK
<1>3. ASSUME NEW r \in Requests,
             \/ PublishSlice(r) \/ RegisterJob(r) \/ Collected(r) \/ TimedOut(r) \/ Park(r)
             \/ Rescan(r) \/ AggregateFails(r) \/ StoreFinalResult(r) \/ UpdateProgress(r)
             \/ Deadline(r) \/ CancelCollecting(r)
             \/ \E i \in SliceIds : ReadSlice(r, i) \/ ReadSliceFails(r, i)
      PROVE  MetadataStays(j)
  <2>1. metadata' = metadata /\ args' = args
    BY <1>3 DEF PublishSlice, RegisterJob, ReadSlice, ReadSliceFails, Collected, TimedOut, Park,
       Rescan, AggregateFails, StoreFinalResult, UpdateProgress, AwaitWrite, Deadline,
       CancelCollecting, sharedVars
  <2>2. \/ pc' = pc
        \/ \E label : pc' = [pc EXCEPT ![r] = label] /\ HasMetadata(r)
    BY <1>3 DEF PublishSlice, RegisterJob, ReadSlice, ReadSliceFails, Collected, TimedOut, Park,
       Rescan, AggregateFails, StoreFinalResult, UpdateProgress, AwaitWrite, Deadline,
       CancelCollecting, EndOfPass, Collecting
  <2> QED BY <2>1, <2>2 DEF TypeOK, GatewayTypeOK
<1>4. CASE SubscriberStep \/ StreamEnds \/ (WorkerNext /\ UNCHANGED gatewayVars)
  <2>1. metadata' = metadata /\ pc' = pc /\ args' = args
    BY <1>4 DEF SubscriberStep, Subscribe, DeliverNotification, StreamEnds, gatewayVars,
       WorkerNext, PushStep, Push, PushFails, Start, Crash, TaskStep, StartTask, ComputeFails,
       WriteSlice, WriteFails, NotifySlice, NotifyFails, sharedVars
  <2> QED BY <2>1
<1>5. CASE GatewayRestart BY <1>5 DEF GatewayRestart
<1>6. CASE QueryStep \/ UNCHANGED vars
  <2>1. metadata' = metadata /\ pc' = pc /\ args' = args
    BY <1>6, QueryFrame DEF ReadsRedis, gatewayVars, vars, sharedVars
  <2> QED BY <2>1
<1>7. ASSUME NEW k \in JobIds, Expire(k) PROVE MetadataStays(j)
  BY <1>7 DEF Expire, gatewayVars, TypeOK, CommonTypeOK
<1> HIDE DEF Goto, HasMetadata, Job, MetadataStays
<1>8. CASE GatewayNext
  <2>1. ASSUME NEW r \in Requests, CallStep(r) PROVE MetadataStays(j)
    BY <1>1, <1>3, <2>1 DEF CallStep, WakeUp, RePoll
  <2> QED BY <1>2, <1>3, <1>4, <1>8, <2>1 DEF GatewayNext
<1> QED
  BY <1>4, <1>5, <1>6, <1>7, <1>8
  DEF StatusNext, statusVars, QueryStep, RestartDuringQueries, Step

(* A result only expires, or is replaced by another.                       *)
LEMMA ResultStays ==
  ASSUME KeysApart, TypeOK, Origin, [StatusNext]_statusVars, NEW j \in JobIds \ gone',
         IsResult(store[ResultKey(j)])
  PROVE  IsResult(store'[ResultKey(j)])
<1>1. CASE GatewayNext \/ GatewayRestart
  <2>1. ASSUME NEW r \in Requests, WritesResult(r) PROVE IsResult(store'[ResultKey(j)])
    <3>1. [magic |-> "json", stats |-> stats[r]] \in Results
      BY DEF TypeOK, GatewayTypeOK, Results
    <3>2. store'[ResultKey(j)] \in
            {store[ResultKey(j)], [magic |-> "json", stats |-> stats[r]]}
      BY <2>1, ResultKeyFacts DEF WritesResult, TypeOK, CommonTypeOK
    <3> QED BY <3>1, <3>2, NilAssumption DEF IsResult
  <2> QED BY <1>1, <2>1, StoreMoves DEF ResultWritten, WritesResult
<1>2. CASE WorkerNext /\ UNCHANGED gatewayVars
  BY <1>2, WorkerMoves, WorkerKeepsResults
<1>3. CASE QueryStep \/ UNCHANGED vars
  BY <1>3, QueryFrame DEF ReadsRedis, vars, sharedVars
<1>4. ASSUME NEW k \in JobIds, Expire(k) PROVE IsResult(store'[ResultKey(j)])
  BY <1>4, ResultKeyFacts DEF Expire, TypeOK, CommonTypeOK, ResultKey
<1> QED BY <1>1, <1>2, <1>3, <1>4
        DEF StatusNext, statusVars, QueryStep, RestartDuringQueries, Step

LEMMA GoneGrows == [StatusNext]_statusVars => gone \subseteq gone'
  BY DEF StatusNext, statusVars, RestartDuringQueries, GetResult, ReadFinal, CountSlice,
     ReportProgress, Expire

LEMMA FinalMoves ==
  ASSUME QueryTypeOK, [StatusNext]_statusVars, NEW q \in Pollers, qpc'[q] = "final"
  PROVE  (qjob'[q] = qjob[q] /\ qpc[q] = "final") \/ metadata[qjob'[q]] # Nil
<1> USE DEF Reply, Continue, QueryTypeOK
<1>1. ASSUME NEW p \in Pollers, NEW k \in JobIds, GetResult(p, k)
      PROVE  (qjob'[q] = qjob[q] /\ qpc[q] = "final") \/ metadata[qjob'[q]] # Nil
  BY <1>1 DEF GetResult
<1>2. ASSUME NEW p \in Pollers, ReadFinal(p) \/ CountSlice(p) \/ ReportProgress(p)
      PROVE  qjob'[q] = qjob[q] /\ qpc[q] = "final"
  BY <1>2 DEF ReadFinal, CountSlice, ReportProgress
<1>3. CASE RestartDuringQueries BY <1>3 DEF RestartDuringQueries
<1>4. CASE UNCHANGED queryVars BY <1>4 DEF queryVars
<1> QED BY <1>1, <1>2, <1>3, <1>4 DEF StatusNext, statusVars, Expire

LEMMA KeysStayStep ==
  ASSUME KeysApart, TypeOK, Origin, QueryTypeOK, KeysStay, [StatusNext]_statusVars
  PROVE  KeysStay'
<1> SUFFICES ASSUME NEW j \in JobIds \ gone'
             PROVE  /\ MetadataDue(j)' => metadata'[j] # Nil
                    /\ ResultDue(j)' => IsResult(store'[ResultKey(j)])
  BY DEF KeysStay, ResultKey
<1>1. j \in JobIds \ gone BY GoneGrows
<1>2. Typed /\ GatewayMoves BY TypeParts, StatusMoves
<1>3. MetadataStays(j) BY MetadataMoves
<1>4. IsResult(store[ResultKey(j)]) => IsResult(store'[ResultKey(j)]) BY ResultStays
<1>5. KnownReady(j)' => IsResult(store[ResultKey(j)]) /\ metadata[j] # Nil
  <2> SUFFICES ASSUME KnownReady(j)' PROVE IsResult(store[ResultKey(j)]) /\ metadata[j] # Nil
    OBVIOUS
  <2>1. CASE ResultDue(j)
    <3>1. MetadataDue(j) BY <2>1 DEF ResultDue, MetadataDue, HasMetadata
    <3> QED BY <1>1, <2>1, <3>1 DEF KeysStay
  <2>2. ASSUME NEW q \in Pollers, FoundResult(q), qjob[q] = j
        PROVE  IsResult(store[ResultKey(j)]) /\ metadata[j] # Nil
    BY <1>1, <2>2 DEF FoundResult, KeysStay, MetadataDue
  <2> QED BY <1>2, <2>1, <2>2, KnownMoves
<1>6. ASSUME MetadataDue(j)' PROVE metadata'[j] # Nil
  <2>1. CASE KnownReady(j)' BY <1>3, <1>5, <2>1 DEF MetadataStays
  <2>2. ASSUME NEW r \in Requests, HasMetadata(r)', Job(r)' = j PROVE metadata'[j] # Nil
    BY <1>1, <1>3, <2>2 DEF MetadataStays, KeysStay, MetadataDue
  <2>3. ASSUME NEW q \in Pollers, qpc'[q] = "final", qjob'[q] = j PROVE metadata'[j] # Nil
    BY <1>1, <1>3, <2>3, FinalMoves DEF MetadataStays, KeysStay, MetadataDue
  <2> QED BY <1>6, <2>1, <2>2, <2>3 DEF MetadataDue
<1>7. ASSUME ResultDue(j)' PROVE IsResult(store'[ResultKey(j)])
  <2>1. CASE KnownReady(j)' BY <1>4, <1>5, <2>1
  <2>2. ASSUME NEW r \in Requests, pc'[r] \in {"progress", "ok"}, Job(r)' = j
        PROVE  IsResult(store'[ResultKey(j)])
    <3>1. pc[r] \in {"progress", "ok"} \/ (WritesResult(r) /\ pc[r] = "store")
      BY <1>2, <2>2, PastStoreMoves
    <3>2. Job(r) = j BY <1>2, <2>2, <3>1, CallsPersist DEF Job
    <3>3. CASE pc[r] \in {"progress", "ok"} BY <1>1, <1>4, <3>2, <3>3 DEF KeysStay, ResultDue
    <3>4. CASE WritesResult(r)
      <4>1. [magic |-> "json", stats |-> stats[r]] \in Results
        BY DEF TypeOK, GatewayTypeOK, Results
      <4>2. store'[ResultKey(j)] = [magic |-> "json", stats |-> stats[r]]
        BY <3>2, <3>4, ResultKeyFacts DEF WritesResult, TypeOK, CommonTypeOK
      <4> QED BY <4>1, <4>2, NilAssumption DEF IsResult
    <3> QED BY <3>1, <3>3, <3>4
  <2> QED BY <1>7, <2>1, <2>2 DEF ResultDue
<1> QED BY <1>6, <1>7

LEMMA PromisesStep ==
  ASSUME TypeOK, Origin, QueryTypeOK, KeysStay, PromisesKept, [StatusNext]_statusVars
  PROVE  PromisesKept'
<1> DEFINE Goal(q) ==
             /\ qpc'[q] # "count"
             /\ qpc'[q] = "done" /\ Numeric(qjob'[q]) => reply'[q] \in {"ready", "error"}
<1> SUFFICES ASSUME NEW q \in Pollers, promised'[q], qjob'[q] \notin gone'
             PROVE  Goal(q)
  <2>1. \A j : Numeric(j)' => Numeric(j) BY NumericBefore
  <2> QED BY <2>1 DEF PromisesKept, Numeric
<1>1. gone \subseteq gone' BY GoneGrows
<1>2. ASSUME qpc'[q] = qpc[q], qjob'[q] = qjob[q], reply'[q] = reply[q], promised'[q] = promised[q]
      PROVE  Goal(q)
  BY <1>1, <1>2 DEF PromisesKept
<1>3. ASSUME NEW p \in Pollers, NEW j \in JobIds, GetResult(p, j) PROVE Goal(q)
  <2>1. CASE p # q BY <1>2, <1>3, <2>1 DEF GetResult, Reply, Continue, QueryTypeOK
  <2>2. CASE p = q
    <3>1. qjob'[q] = j /\ KnownReady(j)
      <4>1. /\ qjob' = [qjob EXCEPT ![q] = j]
            /\ promised' = [promised EXCEPT ![q] = KnownReady(j)]
        BY <1>3, <2>2 DEF GetResult
      <4> QED BY <4>1 DEF QueryTypeOK
    <3>2. metadata[j] # Nil BY <1>1, <3>1 DEF KeysStay, MetadataDue
    <3>3. QED BY <1>3, <2>2, <3>2 DEF GetResult, Reply, Continue, QueryTypeOK
  <2> QED BY <2>1, <2>2
<1>4. ASSUME NEW p \in Pollers, ReadFinal(p) PROVE Goal(q)
  <2>1. CASE p # q BY <1>2, <1>4, <2>1 DEF ReadFinal, Reply, Continue, QueryTypeOK
  <2>2. CASE p = q
    <3>1. qjob'[q] = qjob[q] /\ promised[q] /\ qjob[q] \in JobIds
      BY <1>4, <2>2 DEF ReadFinal, QueryTypeOK
    <3>2. IsResult(store[ResultKey(qjob[q])])
      BY <1>1, <3>1 DEF KeysStay, ResultDue, KnownReady
    <3>3. qjob[q] \notin gone' BY <3>1
    <3>4. WholeOf("0x01", store[ResultKey(qjob[q])].stats, qjob[q])
      BY <3>1, <3>2, ResultKeyFacts DEF IsResult, IsJson, Origin, StoredOrigin, Proper
    <3>5. Numeric(qjob[q]) => ~HasNull(store[ResultKey(qjob[q])].stats)
      BY <3>4, NumericHasNoNull
    <3> QED BY <1>4, <2>2, <3>1, <3>2, <3>3, <3>5 DEF ReadFinal, Reply, Continue, QueryTypeOK
  <2> QED BY <2>1, <2>2
<1>5. ASSUME NEW p \in Pollers, CountSlice(p) \/ ReportProgress(p) PROVE Goal(q)
  <2>1. CASE p # q BY <1>2, <1>5, <2>1 DEF CountSlice, ReportProgress, Reply, QueryTypeOK
  <2>2. CASE p = q
    BY <1>1, <1>5, <2>2 DEF CountSlice, ReportProgress, PromisesKept
  <2> QED BY <2>1, <2>2
<1>6. CASE RestartDuringQueries
  <2>1. CASE qpc[q] \in {"final", "count"} BY <1>6, <2>1 DEF RestartDuringQueries
  <2>2. CASE qpc[q] \notin {"final", "count"} BY <1>2, <1>6, <2>2 DEF RestartDuringQueries
  <2> QED BY <2>1, <2>2
<1>7. CASE UNCHANGED queryVars BY <1>2, <1>7 DEF queryVars
<1> QED BY <1>3, <1>4, <1>5, <1>6, <1>7 DEF StatusNext, statusVars, Expire

(* Once a client has been told that a job is done, by an OK reply or by    *)
(* "ready", every later GetResult says "ready" too, also while the job is  *)
(* submitted again, after failures and after restarts, until one of the    *)
(* job's keys expires, the read fails or a vector without a softmax is     *)
(* submitted under its id - if no job id is another's with ":<slice>"      *)
(* appended.                                                               *)
THEOREM DoneJobsStayReady ==
  ASSUME KeysApart
  PROVE  StatusSpec => []ReadyStaysReady
<1> DEFINE Ind == StatusInv /\ KeysStay /\ PromisesKept
<1>1. StatusInit => Ind
  <2> SUFFICES ASSUME StatusInit PROVE KeysStay /\ PromisesKept BY StatusInvInit
  <2>1. \A j \in JobIds : ~MetadataDue(j) /\ ~ResultDue(j)
    BY StatusAssumption DEF StatusInit, Init, GatewayInit, MetadataDue, ResultDue, KnownReady,
       HasMetadata
  <2> QED BY <2>1 DEF StatusInit, KeysStay, PromisesKept
<1>2. Ind /\ [StatusNext]_statusVars => Ind'
  BY StatusInvStep, KeysStayStep, PromisesStep DEF StatusInv
<1>3. Ind => ReadyStaysReady BY DEF PromisesKept, ReadyStaysReady
<1> QED BY <1>1, <1>2, <1>3, PTL DEF StatusSpec
=============================================================================
