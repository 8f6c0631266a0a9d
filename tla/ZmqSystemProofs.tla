-------------------------- MODULE ZmqSystemProofs --------------------------
(* Proofs about ZmqSystem, for every value of its constants.               *)
EXTENDS ZmqSystem, GatewayProofs

(* The facts of GatewayProofs under the type invariant of this system.     *)
LEMMA TypeParts == TypeOK => Typed /\ PublisherTypeOK
  BY DEF TypeOK, Typed, WorkerTypeOK

LEMMA CallFacts ==
  ASSUME TypeOK, NEW r \in Requests, pc[r] \notin {"idle", "invalid"}
  PROVE  /\ args[r] \in Args
         /\ Job(r) \in JobIds
         /\ args[r].vec \in Vectors
         /\ TotalSlices(VecLen(r)) \in 1 .. MaxSlices
         /\ MaxSlices \in Nat \ {0}
         /\ Slices(r) \subseteq SliceIds
  BY CallIsTyped, TypeParts

-----------------------------------------------------------------------------
(* Type correctness.                                                       *)

LEMMA TypeInit == Init => TypeOK
<1> SUFFICES ASSUME Init PROVE TypeOK OBVIOUS
<1>1. up \in [Workers -> BOOLEAN] BY DEF Init, WorkerInit
<1> QED
  BY <1>1, TypedInit
  DEF Init, TypeOK, Typed, WorkerInit, PublisherInit, WorkerTypeOK, PublisherTypeOK

(* The message a slot works on.                                            *)
LEMMA SlotFacts ==
  ASSUME TypeOK, NEW w \in Workers, NEW p \in Permits, slots[w][p] # Nil
  PROVE  /\ slots[w][p] \in Tasks
         /\ slots[w][p].msg \in TaskMessage
         /\ slots[w][p].msg.job \in JobIds
         /\ slots[w][p].msg.slice \in SliceIds
         /\ slots[w][p].msg.vec \in Vectors
  BY DEF TypeOK, WorkerTypeOK, Tasks, TaskMessage

LEMMA StartTaskType ==
  ASSUME TypeOK, NEW w \in Workers, NEW p \in Permits, StartTask(w, p),
         UNCHANGED gatewayVars
  PROVE  TypeOK'
<1> DEFINE task == Head(inbox[w])
<1> USE DEF StartTask, SetSlot
<1>1. inbox[w] \in Seq(TaskMessage) /\ inbox[w] # <<>>
  BY DEF TypeOK, WorkerTypeOK, PublisherTypeOK
<1>2. Tail(inbox[w]) \in Seq(TaskMessage) /\ task \in TaskMessage
  BY <1>1, HeadTailProperties
<1>3. inbox' \in [Workers -> Seq(TaskMessage)]
  BY <1>2 DEF TypeOK, WorkerTypeOK, PublisherTypeOK
<1>4. slots' \in [Workers -> [Permits -> {Nil} \cup Tasks]]
  <2>1. [stage |-> "compute", msg |-> task] \in Tasks BY <1>2 DEF Tasks
  <2>2. slots' = slots \/ slots' = [slots EXCEPT ![w][p] = [stage |-> "compute", msg |-> task]]
    OBVIOUS
  <2> HIDE DEF task
  <2> QED BY <2>1, <2>2 DEF TypeOK, WorkerTypeOK
<1>5. CommonTypeOK' BY DEF TypeOK, CommonTypeOK, sharedVars
<1> QED BY <1>3, <1>4, <1>5, TypeParts, GatewayFrame DEF TypeOK, WorkerTypeOK, PublisherTypeOK

LEMMA WriteSliceType ==
  ASSUME TypeOK, NEW w \in Workers, NEW p \in Permits,
         WriteSlice(w, p) \/ WriteFails(w, p) \/ ComputeFails(w, p), UNCHANGED gatewayVars
  PROVE  TypeOK'
<1> DEFINE m == slots[w][p].msg
<1> USE DEF WriteSlice, WriteFails, ComputeFails, Running, SetSlot, SetSlice
<1>1. /\ m \in TaskMessage /\ m.job \in JobIds
      /\ m.slice \in SliceIds /\ m.vec \in Vectors
  BY SlotFacts
<1>2. PartialStats(m) \in SliceStats BY <1>1 DEF PartialStats, SliceStats
<1>3. store' = store \/ store' = [store EXCEPT ![SliceKey(m.job, m.slice)] = PartialStats(m)]
  OBVIOUS
<1>4. slots' \in [Workers -> [Permits -> {Nil} \cup Tasks]]
  <2>1. [stage |-> "notify", msg |-> m] \in Tasks BY <1>1 DEF Tasks
  <2>2. \/ slots' = [slots EXCEPT ![w][p] = [stage |-> "notify", msg |-> m]]
        \/ slots' = [slots EXCEPT ![w][p] = Nil]
    OBVIOUS
  <2> HIDE DEF m
  <2> QED BY <2>1, <2>2 DEF TypeOK, WorkerTypeOK
<1>5. missed' \subseteq JobIds BY <1>1 DEF TypeOK, CommonTypeOK
<1>6. store' \in [Keys -> {Nil} \cup SliceStats \cup Results]
  <2> HIDE DEF m
  <2> QED BY <1>2, <1>3 DEF TypeOK, CommonTypeOK
<1>7. CommonTypeOK' BY <1>5, <1>6, CommonAssumption DEF TypeOK, CommonTypeOK, Fault
<1> QED BY <1>4, <1>7, TypeParts, GatewayFrame DEF TypeOK, WorkerTypeOK, PublisherTypeOK

LEMMA NotifyType ==
  ASSUME TypeOK, NEW w \in Workers, NEW p \in Permits,
         NotifySlice(w, p) \/ NotifyFails(w, p), UNCHANGED gatewayVars
  PROVE  TypeOK'
<1> DEFINE job == slots[w][p].msg.job
<1> USE DEF NotifySlice, NotifyFails, Running, SetSlot
<1>1. job \in JobIds BY SlotFacts
<1>2. slots' \in [Workers -> [Permits -> {Nil} \cup Tasks]] BY DEF TypeOK, WorkerTypeOK
<1>3. bus' \in [JobIds -> Nat]
  <2>1. bus' = bus \/ bus' = [bus EXCEPT ![job] = bus[job] + 1] OBVIOUS
  <2> HIDE DEF job
  <2> QED BY <1>1, <2>1 DEF TypeOK, CommonTypeOK
<1>4. missed' \subseteq JobIds BY <1>1 DEF TypeOK, CommonTypeOK
<1>5. CommonTypeOK' BY <1>3, <1>4, CommonAssumption DEF TypeOK, CommonTypeOK, Fault
<1> QED BY <1>2, <1>5, TypeParts, GatewayFrame DEF TypeOK, WorkerTypeOK, PublisherTypeOK

LEMMA ProcessType ==
  ASSUME TypeOK, NEW w \in Workers, Start(w) \/ Crash(w), UNCHANGED gatewayVars
  PROVE  TypeOK'
<1> USE DEF Start, Crash
<1>1. up' \in [Workers -> BOOLEAN]
  <2>1. PICK value \in BOOLEAN : up' = [up EXCEPT ![w] = value] OBVIOUS
  <2> QED BY <2>1 DEF TypeOK, WorkerTypeOK
<1>2. inbox' \in [Workers -> Seq(TaskMessage)]
  <2>1. inbox' = inbox \/ inbox' = [inbox EXCEPT ![w] = <<>>] OBVIOUS
  <2>2. <<>> \in Seq(TaskMessage) OBVIOUS
  <2> QED BY <2>1, <2>2, Zenon DEF TypeOK, WorkerTypeOK, PublisherTypeOK
<1>3. slots' \in [Workers -> [Permits -> {Nil} \cup Tasks]]
  <2>1. slots' = slots \/ slots' = [slots EXCEPT ![w] = [p \in Permits |-> Nil]] OBVIOUS
  <2> QED BY <2>1 DEF TypeOK, WorkerTypeOK
<1>4. WorkerTypeOK' BY <1>1, <1>2, <1>3 DEF WorkerTypeOK, PublisherTypeOK
<1>5. CommonTypeOK'
  BY CommonAssumption DEF TypeOK, CommonTypeOK, Fault, Unannounced, sharedVars
<1> QED BY <1>4, <1>5, TypeParts, GatewayFrame DEF TypeOK

LEMMA TypeStep == TypeOK /\ [Next]_vars => TypeOK'
<1> SUFFICES ASSUME TypeOK, [Next]_vars PROVE TypeOK' OBVIOUS
<1>1. CASE GatewayNext /\ UNCHANGED workerVars
  BY <1>1, TypeParts, GatewayNextType
  DEF TypeOK, Typed, WorkerTypeOK, PublisherTypeOK, workerVars
<1>2. CASE WorkerNext /\ UNCHANGED gatewayVars
  <2>1. ASSUME NEW c \in Channels, PushStep(c) PROVE TypeOK'
    BY <1>2, <2>1, TypeParts, PushType DEF PushStep, TypeOK, Typed, WorkerTypeOK
  <2>2. QED
    BY <1>2, <2>1, StartTaskType, WriteSliceType, NotifyType, ProcessType
    DEF WorkerNext, TaskStep
<1>3. CASE GatewayRestart /\ UNCHANGED <<slots, up>>
  BY <1>3, TypeParts, RestartType DEF TypeOK, Typed, WorkerTypeOK
<1>4. CASE UNCHANGED vars
  BY <1>4, TypeParts, GatewayFrame
  DEF TypeOK, CommonTypeOK, WorkerTypeOK, PublisherTypeOK, vars, sharedVars, workerVars
<1> QED BY <1>1, <1>2, <1>3, <1>4 DEF Next, Step

(* Every reachable state of the system is type correct: in particular no   *)
(* slice id, key or queue index is ever out of range, whatever NUM_SLICES, *)
(* the vectors and the faults are.                                         *)
THEOREM TypeCorrect == Spec => []TypeOK
  BY TypeInit, TypeStep, PTL DEF Spec

-----------------------------------------------------------------------------
(* No lost wakeup.  NoLostWakeup is inductive relative to TypeOK.          *)

LEMMA WakeupInit == Init => NoLostWakeup
  BY DEF Init, GatewayInit, NoLostWakeup, WillWakeUp, Collecting

(* A call that a gateway step leaves where it is stays covered, unless the *)
(* step makes a slice readable, takes a notification or takes its entry in *)
(* the map - and losing the entry is a wakeup of its own.                  *)
LEMMA WakeupFrame ==
  ASSUME NEW r \in Requests, WillWakeUp(r), UNCHANGED <<workerVars, bus>>,
         missed \subseteq missed',
         Collecting(r)' => Collecting(r), args'[r] = args[r],
         stats'[r] = stats[r], unread'[r] = unread[r], dirty'[r] = dirty[r],
         jobs'[Job(r)] = jobs[Job(r)] \/ jobs'[Job(r)] # r,
         \A i \in Slices(r) : Readable(store[SliceKey(Job(r), i)])'
                              => Readable(store[SliceKey(Job(r), i)])
  PROVE  WillWakeUp(r)'
<1>1. Job(r)' = Job(r) /\ Slices(r)' = Slices(r) /\ Missing(r)' = Missing(r)
  BY DEF Job, Slices, Missing, VecLen
<1>2. \A w \in Workers : Unannounced(w)' = Unannounced(w)
  BY DEF Unannounced, Running, workerVars
<1>3. WakeupPending(r) => WakeupPending(r)'
  BY <1>1, <1>2 DEF WakeupPending, Woken
<1>4. SUFFICES ASSUME Collecting(r)', Job(r) \notin missed',
                      NEW i \in Missing(r) \ unread[r],
                      Readable(store[SliceKey(Job(r), i)])'
               PROVE  WakeupPending(r)'
  BY <1>1 DEF WillWakeUp
<1>5. Collecting(r) /\ Job(r) \notin missed BY <1>4
<1>6. Readable(store[SliceKey(Job(r), i)]) BY <1>4 DEF Missing
<1> QED BY <1>3, <1>4, <1>5, <1>6 DEF WillWakeUp

(* A call that is not collecting after the step.                           *)
LEMMA NotCollecting ==
  ASSUME NEW r \in Requests, ~Collecting(r)'
  PROVE  WillWakeUp(r)'
  BY DEF WillWakeUp

LEMMA EarlyStepsKeepWakeup ==
  ASSUME TypeOK, NoLostWakeup, UNCHANGED workerVars, NEW q \in Requests,
         \/ \E a \in Args : SubmitTask(q, a)
         \/ SetJobMetadata(q) \/ PublishSlice(q)
  PROVE  NoLostWakeup'
<1> USE DEF SubmitTask, SetJobMetadata, AwaitWrite, PublishSlice, Goto
<1>1. ASSUME NEW r \in Requests PROVE WillWakeUp(r)'
  <2>1. CASE r = q
    <3>1. ~Collecting(q)' BY DEF Collecting, TypeOK, GatewayTypeOK
    <3>2. QED BY <2>1, <3>1, NotCollecting
  <2>2. CASE r # q
    <3>1. Collecting(r)' => Collecting(r) BY <2>2 DEF Collecting, TypeOK, GatewayTypeOK
    <3>2. args'[r] = args[r] BY <2>2 DEF TypeOK, GatewayTypeOK
    <3>3. UNCHANGED <<store, missed, bus, stats, unread, dirty, jobs>>
      BY DEF sharedVars
    <3>4. Job(r)' = Job(r) BY <3>2 DEF Job
    <3>5. QED BY <3>1, <3>2, <3>3, <3>4, WakeupFrame DEF NoLostWakeup
  <2> QED BY <2>1, <2>2
<1> QED BY <1>1 DEF NoLostWakeup

LEMMA RegisterKeepsWakeup ==
  ASSUME TypeOK, NoLostWakeup, UNCHANGED workerVars, NEW q \in Requests, RegisterJob(q)
  PROVE  NoLostWakeup'
<1> USE DEF RegisterJob, Goto
<1>1. ASSUME NEW r \in Requests PROVE WillWakeUp(r)'
  <2>1. CASE r = q
    <3>1. Missing(q)' \subseteq unread'[q]
      BY DEF Missing, Slices, VecLen, TypeOK, GatewayTypeOK
    <3>2. QED BY <2>1, <3>1 DEF WillWakeUp
  <2>2. CASE r # q
    <3>1. Collecting(r)' => Collecting(r) BY <2>2 DEF Collecting, TypeOK, GatewayTypeOK
    <3>2. /\ args'[r] = args[r] /\ stats'[r] = stats[r]
          /\ unread'[r] = unread[r] /\ dirty'[r] = dirty[r]
      BY <2>2 DEF TypeOK, GatewayTypeOK
    <3>3. UNCHANGED <<store, missed, bus>> BY DEF sharedVars
    <3>4. Job(r)' = Job(r) BY <3>2 DEF Job
    <3>5. jobs'[Job(r)] = jobs[Job(r)] \/ jobs'[Job(r)] # r
      <4>1. CASE Job(r) = Job(q)
        <5>1. Job(q) \in JobIds BY CallFacts
        <5>2. jobs'[Job(r)] = q BY <4>1, <5>1 DEF TypeOK, GatewayTypeOK
        <5>3. QED BY <2>2, <5>2
      <4>2. CASE Job(r) # Job(q) BY <4>2 DEF TypeOK, GatewayTypeOK
      <4> QED BY <4>1, <4>2
    <3>6. QED BY <3>1, <3>2, <3>3, <3>4, <3>5, WakeupFrame DEF NoLostWakeup
  <2> QED BY <2>1, <2>2
<1> QED BY <1>1 DEF NoLostWakeup

LEMMA ReadKeepsWakeup ==
  ASSUME TypeOK, TypeOK', NoLostWakeup, UNCHANGED workerVars, NEW q \in Requests,
         NEW k \in SliceIds, ReadSlice(q, k) \/ ReadSliceFails(q, k)
  PROVE  NoLostWakeup'
<1> DEFINE value == store[SliceKey(Job(q), k)]
<1> USE DEF ReadSlice, ReadSliceFails
<1>1. ASSUME NEW r \in Requests PROVE WillWakeUp(r)'
  <2>1. CASE r = q /\ ReadSliceFails(q, k) BY <2>1 DEF WillWakeUp, Job
  <2>2. CASE r = q /\ ReadSlice(q, k)
    <3>1. Job(q)' = Job(q) /\ Slices(q)' = Slices(q) /\ jobs' = jobs /\ dirty' = dirty
      BY <2>2 DEF Job, Slices, VecLen
    <3>2. UNCHANGED <<store, missed, bus, pc>> BY <2>2 DEF sharedVars
    <3>3. Job(q) \in JobIds BY <2>2, CallFacts
    <3>4. value \in {Nil} \cup SliceStats \cup Results
      BY <3>3, KeyFacts DEF TypeOK, CommonTypeOK
    <3>5. \A i \in SliceIds : i # k => stats'[q][i] = stats[q][i]
      BY <2>2 DEF TypeOK, GatewayTypeOK, StatsVectors
    <3>6. Readable(value) => stats'[q][k] = value /\ value # Nil
      BY <2>2, <3>4, ReadableIsSlice DEF TypeOK, GatewayTypeOK, StatsVectors
    <3>7. unread'[q] = unread[q] \ {k} BY <2>2 DEF TypeOK, GatewayTypeOK
    <3>8. \A w \in Workers : Unannounced(w)' = Unannounced(w)
      BY DEF Unannounced, Running, workerVars
    <3>9. WakeupPending(q)' = WakeupPending(q)
      BY <3>1, <3>2, <3>8 DEF WakeupPending, Woken
    <3>10. SUFFICES ASSUME Collecting(q)', Job(q) \notin missed,
                           NEW i \in Missing(q)' \ unread'[q],
                           Readable(store[SliceKey(Job(q), i)])
                    PROVE  WakeupPending(q)
      BY <2>2, <3>1, <3>2, <3>9 DEF WillWakeUp
    <3>11. i # k BY <3>6, <3>10 DEF Missing
    <3>12. Slices(q) \subseteq SliceIds BY <2>2, CallFacts
    <3>13. i \in Missing(q) \ unread[q] BY <3>1, <3>5, <3>7, <3>10, <3>11, <3>12 DEF Missing
    <3>14. Collecting(q) BY <3>2, <3>10 DEF Collecting
    <3>15. QED BY <3>10, <3>13, <3>14 DEF NoLostWakeup, WillWakeUp
  <2>3. CASE r # q
    <3>1. args' = args /\ stats'[r] = stats[r] /\ unread'[r] = unread[r] /\ dirty' = dirty
      BY <2>3 DEF TypeOK, GatewayTypeOK
    <3>2. UNCHANGED <<store, bus, pc, jobs>> /\ missed \subseteq missed'
      BY DEF sharedVars
    <3>3. Job(r)' = Job(r) /\ Collecting(r)' = Collecting(r) BY <3>1, <3>2 DEF Job, Collecting
    <3>4. QED BY <3>1, <3>2, <3>3, WakeupFrame DEF NoLostWakeup
  <2> QED BY <2>1, <2>2, <2>3
<1> QED BY <1>1 DEF NoLostWakeup

LEMMA RescanKeepsWakeup ==
  ASSUME TypeOK, NoLostWakeup, UNCHANGED workerVars, NEW q \in Requests, Rescan(q)
  PROVE  NoLostWakeup'
<1> USE DEF Rescan, Goto
<1>1. ASSUME NEW r \in Requests PROVE WillWakeUp(r)'
  <2>1. CASE r = q
    <3>1. Missing(q)' \subseteq unread'[q]
      BY DEF Missing, Slices, VecLen, TypeOK, GatewayTypeOK
    <3>2. QED BY <2>1, <3>1 DEF WillWakeUp
  <2>2. CASE r # q
    <3>1. Collecting(r)' => Collecting(r) BY <2>2 DEF Collecting, TypeOK, GatewayTypeOK
    <3>2. unread'[r] = unread[r] /\ dirty'[r] = dirty[r] BY <2>2 DEF TypeOK, GatewayTypeOK
    <3>3. UNCHANGED <<store, missed, bus, args, stats, jobs>> BY DEF sharedVars
    <3>4. Job(r)' = Job(r) BY <3>3 DEF Job
    <3>5. QED BY <3>1, <3>2, <3>3, <3>4, WakeupFrame DEF NoLostWakeup
  <2> QED BY <2>1, <2>2
<1> QED BY <1>1 DEF NoLostWakeup

(* The end of a pass, the clock and the ways to leave.                     *)
LEMMA LeavingKeepsWakeup ==
  ASSUME TypeOK, NoLostWakeup, UNCHANGED workerVars, NEW q \in Requests,
         \/ Collected(q) \/ TimedOut(q) \/ Park(q) \/ Deadline(q)
         \/ AggregateFails(q) \/ CancelCollecting(q)
  PROVE  NoLostWakeup'
<1> USE DEF Collected, TimedOut, Park, EndOfPass, Deadline, AggregateFails,
            CancelCollecting, UnregisterJob, LeaveWait, Goto
<1>1. UNCHANGED <<store, missed, bus, args>> BY DEF sharedVars
<1>2. \A r \in Requests : jobs'[Job(r)] = jobs[Job(r)] \/ jobs'[Job(r)] # r
  <2> SUFFICES ASSUME NEW r \in Requests
               PROVE  jobs'[Job(r)] = jobs[Job(r)] \/ jobs'[Job(r)] # r
    OBVIOUS
  <2>1. CASE jobs' = jobs BY <2>1
  <2>2. CASE jobs' = [jobs EXCEPT ![Job(q)] = Nil]
    BY <2>2, CommonAssumption DEF TypeOK, GatewayTypeOK
  <2> QED BY <2>1, <2>2
<1>3. ASSUME NEW r \in Requests PROVE WillWakeUp(r)'
  <2>1. CASE r = q /\ (Park(q) \/ Deadline(q))
    <3>1. Collecting(r)' => Collecting(r)
      BY <2>1 DEF Collecting, TypeOK, GatewayTypeOK
    <3>2. UNCHANGED <<stats, unread, dirty, jobs>> BY <2>1
    <3>3. Job(r)' = Job(r) BY <1>1 DEF Job
    <3>4. QED BY <1>1, <3>1, <3>2, <3>3, WakeupFrame DEF NoLostWakeup
  <2>2. CASE r = q /\ ~(Park(q) \/ Deadline(q))
    <3>1. ~Collecting(r)' BY <2>2 DEF Collecting, TypeOK, GatewayTypeOK
    <3>2. QED BY <3>1, NotCollecting
  <2>3. CASE r # q
    <3>1. Collecting(r)' => Collecting(r) BY <2>3 DEF Collecting, TypeOK, GatewayTypeOK
    <3>2. stats'[r] = stats[r] /\ unread'[r] = unread[r] /\ dirty'[r] = dirty[r]
      BY <2>3 DEF TypeOK, GatewayTypeOK
    <3>3. Job(r)' = Job(r) BY <1>1 DEF Job
    <3>4. QED BY <1>1, <1>2, <3>1, <3>2, <3>3, WakeupFrame DEF NoLostWakeup
  <2> QED BY <2>1, <2>2, <2>3
<1> QED BY <1>3 DEF NoLostWakeup

(* A final result stored under another job's slice key is not readable as  *)
(* a slice.                                                                *)
LEMMA StoreKeepsWakeup ==
  ASSUME TypeOK, NoLostWakeup, UNCHANGED workerVars, NEW q \in Requests,
         StoreFinalResult(q) \/ UpdateProgress(q)
  PROVE  NoLostWakeup'
<1> USE DEF StoreFinalResult, UpdateProgress, AwaitWrite, Goto
<1>1. UNCHANGED <<missed, bus, args, stats, unread, dirty, jobs>> OBVIOUS
<1>2. ASSUME NEW key \in Keys, Readable(store'[key]) PROVE Readable(store[key])
  <2>1. CASE store' = store BY <1>2, <2>1
  <2>2. CASE store' = [store EXCEPT ![ResultKey(Job(q))] = [magic |-> "json", stats |-> stats[q]]]
    BY <1>2, <2>2 DEF Readable, TypeOK, CommonTypeOK
  <2> QED BY <2>1, <2>2
<1>3. ASSUME NEW r \in Requests PROVE WillWakeUp(r)'
  <2>1. Collecting(r)' => Collecting(r) BY DEF Collecting, TypeOK, GatewayTypeOK
  <2>2. CASE ~Collecting(r)' BY <2>2, NotCollecting
  <2>3. CASE Collecting(r)'
    <3>1. Job(r) \in JobIds /\ Slices(r) \subseteq SliceIds
      BY <2>1, <2>3, CallFacts DEF Collecting
    <3>2. Job(r)' = Job(r) BY <1>1 DEF Job
    <3>3. \A i \in Slices(r) : SliceKey(Job(r), i) \in Keys BY <3>1, KeyFacts
    <3>4. QED BY <1>1, <1>2, <2>1, <3>2, <3>3, WakeupFrame DEF NoLostWakeup
  <2> QED BY <2>2, <2>3
<1> QED BY <1>3 DEF NoLostWakeup

LEMMA SubscriberKeepsWakeup ==
  ASSUME TypeOK, NoLostWakeup, UNCHANGED workerVars, SubscriberStep \/ StreamEnds
  PROVE  NoLostWakeup'
<1> USE DEF SubscriberStep, Subscribe, DeliverNotification, StreamEnds
<1>1. UNCHANGED <<store, pc, args, stats, unread, jobs>> BY DEF gatewayVars
<1>2. missed \subseteq missed' OBVIOUS
<1>3. ASSUME NEW r \in Requests PROVE WillWakeUp(r)'
  <2>1. CASE Subscribe
    <3>1. UNCHANGED <<bus, dirty>> BY <2>1 DEF gatewayVars
    <3>2. Job(r)' = Job(r) /\ Collecting(r)' = Collecting(r) BY <1>1 DEF Job, Collecting
    <3>3. QED BY <1>1, <1>2, <3>1, <3>2, WakeupFrame DEF NoLostWakeup
  <2>2. ASSUME Collecting(r), Job(r) \notin missed', StreamEnds \/ \E j \in JobIds : DeliverNotification(j)
        PROVE  WakeupPending(r) => WakeupPending(r)'
    <3>1. Job(r) \in JobIds BY <2>2, CallFacts DEF Collecting
    <3>2. Job(r)' = Job(r) BY <1>1 DEF Job
    <3>3. \A w \in Workers : Unannounced(w)' = Unannounced(w)
      BY DEF Unannounced, Running, workerVars
    <3>4. dirty[r] => dirty'[r] BY DEF gatewayVars, TypeOK, GatewayTypeOK
    <3>5. Woken(r) => Woken(r)' BY <1>1, <3>2, <3>4 DEF Woken
    <3>6. bus[Job(r)] > 0 => bus'[Job(r)] > 0 \/ Woken(r)'
      <4>1. CASE StreamEnds BY <2>2, <3>1, <4>1
      <4>2. ASSUME NEW j \in JobIds, DeliverNotification(j), bus[Job(r)] > 0
            PROVE  bus'[Job(r)] > 0 \/ Woken(r)'
        <5>1. CASE j = Job(r)
          <6>1. jobs[j] = r => dirty'[r] BY <2>2, <4>2
          <6>2. QED BY <1>1, <3>2, <5>1, <6>1 DEF Woken
        <5>2. CASE j # Job(r) BY <3>1, <4>2, <5>2 DEF TypeOK, CommonTypeOK
        <5> QED BY <5>1, <5>2
      <4> QED BY <2>2, <4>1, <4>2
    <3>7. QED BY <3>2, <3>3, <3>5, <3>6 DEF WakeupPending
  <2>3. CASE StreamEnds \/ \E j \in JobIds : DeliverNotification(j)
    <3>1. Job(r)' = Job(r) /\ Collecting(r)' = Collecting(r) /\ Missing(r)' = Missing(r)
      BY <1>1 DEF Job, Collecting, Missing, Slices, VecLen
    <3>2. QED BY <1>1, <1>2, <2>2, <2>3, <3>1 DEF NoLostWakeup, WillWakeUp
  <2> QED BY <2>1, <2>3
<1> QED BY <1>3 DEF NoLostWakeup

(* What a worker step has to respect, for every job it does not add to     *)
(* missed: notifications stay, an unannounced slice stays unannounced or   *)
(* becomes a notification, a slice that appears is unannounced.            *)
Announced(j) == bus[j] > 0 \/ \E w \in Workers : j \in Unannounced(w)

LEMMA WorkerWakeup ==
  ASSUME TypeOK, NoLostWakeup, UNCHANGED gatewayVars, missed \subseteq missed',
         \A j \in JobIds : j \notin missed' /\ Announced(j) => Announced(j)',
         \A j \in JobIds, i \in SliceIds :
           j \notin missed' /\ Readable(store'[SliceKey(j, i)])
             => Readable(store[SliceKey(j, i)]) \/ Announced(j)'
  PROVE  NoLostWakeup'
<1>1. ASSUME NEW r \in Requests PROVE WillWakeUp(r)'
  <2>1. /\ Job(r)' = Job(r) /\ Collecting(r)' = Collecting(r) /\ Missing(r)' = Missing(r)
        /\ unread' = unread /\ Woken(r)' = Woken(r)
    BY DEF gatewayVars, Job, Collecting, Missing, Slices, VecLen, Woken
  <2>2. WakeupPending(r) = (Woken(r) \/ Announced(Job(r))) BY DEF WakeupPending, Announced
  <2>3. WakeupPending(r)' = (Woken(r) \/ Announced(Job(r))')
    BY <2>1 DEF WakeupPending, Announced
  <2>4. SUFFICES ASSUME Collecting(r), Job(r) \notin missed', NEW i \in Missing(r) \ unread[r],
                        Readable(store'[SliceKey(Job(r), i)])
                 PROVE  WakeupPending(r)'
    BY <2>1 DEF WillWakeUp
  <2>5. Job(r) \in JobIds /\ i \in SliceIds
    BY <2>4, CallFacts DEF Collecting, Missing
  <2>6. CASE Readable(store[SliceKey(Job(r), i)])
    <3>1. WakeupPending(r) BY <2>4, <2>6 DEF NoLostWakeup, WillWakeUp
    <3>2. Announced(Job(r)) => Announced(Job(r))' BY <2>1, <2>4, <2>5
    <3>3. QED BY <2>2, <2>3, <3>1, <3>2
  <2>7. CASE Announced(Job(r))' BY <2>3, <2>7
  <2> QED BY <2>1, <2>4, <2>5, <2>6, <2>7
<1> QED BY <1>1 DEF NoLostWakeup

LEMMA QueueKeepsWakeup ==
  ASSUME TypeOK, NoLostWakeup, UNCHANGED gatewayVars,
         \/ \E c \in Channels : PushStep(c)
         \/ \E w \in Workers : Start(w)
         \/ \E w \in Workers, p \in Permits : StartTask(w, p) \/ ComputeFails(w, p)
  PROVE  NoLostWakeup'
<1> USE DEF PushStep, Push, PushFails, Start, StartTask, ComputeFails, SetSlot
<1>1. UNCHANGED <<store, missed, bus>> BY DEF sharedVars
<1>2. \A v \in Workers : Unannounced(v) \subseteq Unannounced(v)'
  <2> SUFFICES ASSUME NEW v \in Workers, NEW p \in Permits, Running(v, p, "notify")
               PROVE  slots'[v][p] = slots[v][p]
    BY DEF Unannounced, Running
  <2>1. CASE slots' = slots BY <2>1
  <2>2. ASSUME NEW w \in Workers, NEW k \in Permits, NEW task,
               slots' = [slots EXCEPT ![w][k] = task],
               slots[w][k] = Nil \/ Running(w, k, "compute")
        PROVE  slots'[v][p] = slots[v][p]
    BY <2>2 DEF Running, TypeOK, WorkerTypeOK
  <2> QED BY <2>1, <2>2
<1>3. \A j \in JobIds : Announced(j) => Announced(j)' BY <1>1, <1>2 DEF Announced
<1> QED BY <1>1, <1>3, WorkerWakeup

LEMMA WriteKeepsWakeup ==
  ASSUME TypeOK, TypeOK', NoLostWakeup, UNCHANGED gatewayVars,
         NEW w \in Workers, NEW p \in Permits, WriteSlice(w, p) \/ WriteFails(w, p)
  PROVE  NoLostWakeup'
<1> DEFINE m == slots[w][p].msg
<1> USE DEF WriteSlice, WriteFails, SetSlot, SetSlice
<1>1. m.job \in JobIds /\ m.slice \in SliceIds BY SlotFacts DEF Running
<1>2. \A v \in Workers : Unannounced(v) \subseteq Unannounced(v)'
  <2> SUFFICES ASSUME NEW v \in Workers, NEW k \in Permits, Running(v, k, "notify")
               PROVE  slots'[v][k] = slots[v][k]
    BY DEF Unannounced, Running
  <2>1. v # w \/ k # p BY DEF Running
  <2> QED BY <2>1 DEF TypeOK, WorkerTypeOK
<1>3. bus' = bus /\ missed \subseteq missed' OBVIOUS
<1>4. \A j \in JobIds : Announced(j) => Announced(j)' BY <1>2, <1>3 DEF Announced
<1>5. ASSUME NEW j \in JobIds, NEW i \in SliceIds, j \notin missed',
             Readable(store'[SliceKey(j, i)])
      PROVE  Readable(store[SliceKey(j, i)]) \/ Announced(j)'
  <2>1. CASE store' = store BY <1>5, <2>1
  <2>2. CASE store' # store
    <3>1. store' = [store EXCEPT ![SliceKey(m.job, m.slice)] = PartialStats(m)] BY <2>2
    <3>2. CASE j = m.job
      <4>1. WriteSlice(w, p) BY <1>5, <2>2, <3>2
      <4>2. slots'[w][p] = [stage |-> "notify", msg |-> m]
        BY <4>1 DEF TypeOK, WorkerTypeOK
      <4>3. [stage |-> "notify", msg |-> m] # Nil
        BY <4>1, <1>1, SlotFacts, TaskAssumption DEF Tasks, Running
      <4>4. j \in Unannounced(w)'
        <5>1. slots'[w][p].stage = "notify" /\ slots'[w][p].msg.job = j
          BY <3>2, <4>2
        <5>2. Running(w, p, "notify")' BY <4>2, <4>3, <5>1 DEF Running
        <5> HIDE DEF m
        <5> QED BY <5>1, <5>2 DEF Unannounced
      <4>5. QED BY <4>4 DEF Announced
    <3>3. CASE j # m.job
      <4>1. SliceKey(j, i) # SliceKey(m.job, m.slice) BY <1>1, <3>3, SliceKeyInjective
      <4>2. SliceKey(j, i) \in Keys BY KeyFacts
      <4>3. store'[SliceKey(j, i)] = store[SliceKey(j, i)]
        BY <3>1, <4>1, <4>2 DEF TypeOK, CommonTypeOK
      <4>4. QED BY <1>5, <4>3
    <3> QED BY <3>2, <3>3
  <2> QED BY <2>1, <2>2
<1> QED BY <1>3, <1>4, <1>5, WorkerWakeup

LEMMA NotifyKeepsWakeup ==
  ASSUME TypeOK, NoLostWakeup, UNCHANGED gatewayVars,
         NEW w \in Workers, NEW p \in Permits, NotifySlice(w, p) \/ NotifyFails(w, p)
  PROVE  NoLostWakeup'
<1> DEFINE job == slots[w][p].msg.job
<1> USE DEF NotifySlice, NotifyFails, SetSlot
<1>1. job \in JobIds BY SlotFacts DEF Running
<1>2. store' = store /\ missed \subseteq missed' OBVIOUS
<1>3. \A j \in JobIds : bus[j] > 0 => bus'[j] > 0
  <2>1. bus' = bus \/ bus' = [bus EXCEPT ![job] = bus[job] + 1] OBVIOUS
  <2> HIDE DEF job
  <2> QED BY <1>1, <2>1 DEF TypeOK, CommonTypeOK
<1>4. job \in missed' \/ bus'[job] > 0
  BY <1>1 DEF TypeOK, CommonTypeOK
<1>5. ASSUME NEW j \in JobIds, NEW v \in Workers, j \in Unannounced(v), j # job
      PROVE  j \in Unannounced(v)'
  <2>1. PICK k \in Permits : Running(v, k, "notify") /\ slots[v][k].msg.job = j
    BY <1>5 DEF Unannounced
  <2>2. v # w \/ k # p BY <1>5, <2>1
  <2>3. slots'[v][k] = slots[v][k] BY <2>2 DEF TypeOK, WorkerTypeOK
  <2>4. QED BY <2>1, <2>3 DEF Unannounced, Running
<1>6. \A j \in JobIds : j \notin missed' /\ Announced(j) => Announced(j)'
  <2> HIDE DEF job
  <2> QED BY <1>3, <1>4, <1>5 DEF Announced
<1> QED BY <1>2, <1>6, WorkerWakeup

LEMMA CrashKeepsWakeup ==
  ASSUME TypeOK, NoLostWakeup, UNCHANGED gatewayVars, NEW w \in Workers, Crash(w)
  PROVE  NoLostWakeup'
<1> USE DEF Crash
<1>1. store' = store /\ bus' = bus /\ missed \subseteq missed' OBVIOUS
<1>2. ASSUME NEW j \in JobIds, j \notin missed', NEW v \in Workers, j \in Unannounced(v)
      PROVE  j \in Unannounced(v)'
  <2>1. v # w BY <1>2
  <2>2. slots'[v] = slots[v] BY <2>1 DEF TypeOK, WorkerTypeOK
  <2>3. QED BY <1>2, <2>2 DEF Unannounced, Running
<1>3. \A j \in JobIds : j \notin missed' /\ Announced(j) => Announced(j)'
  BY <1>1, <1>2 DEF Announced
<1> QED BY <1>1, <1>3, WorkerWakeup

(* After a restart nobody is collecting.                                   *)
LEMMA RestartKeepsWakeup ==
  ASSUME TypeOK, GatewayRestart
  PROVE  NoLostWakeup'
<1>1. ASSUME NEW r \in Requests PROVE ~Collecting(r)'
  BY DEF GatewayRestart, Open, Answered, Collecting, TypeOK, GatewayTypeOK
<1>2. QED BY <1>1, NotCollecting DEF NoLostWakeup

LEMMA WakeupStep == TypeOK /\ TypeOK' /\ NoLostWakeup /\ [Next]_vars => NoLostWakeup'
<1> SUFFICES ASSUME TypeOK, TypeOK', NoLostWakeup, [Next]_vars PROVE NoLostWakeup' OBVIOUS
<1>1. CASE GatewayNext /\ UNCHANGED workerVars
  <2>1. ASSUME NEW r \in Requests, \E a \in Args : SubmitTask(r, a) PROVE NoLostWakeup'
    BY <1>1, <2>1, EarlyStepsKeepWakeup
  <2>2. ASSUME NEW r \in Requests, CallStep(r) PROVE NoLostWakeup'
    BY <1>1, <2>2, EarlyStepsKeepWakeup, RegisterKeepsWakeup, ReadKeepsWakeup,
       RescanKeepsWakeup, LeavingKeepsWakeup, StoreKeepsWakeup
    DEF CallStep, WakeUp, RePoll
  <2>3. ASSUME NEW r \in Requests, Deadline(r) \/ CancelCollecting(r) PROVE NoLostWakeup'
    BY <1>1, <2>3, LeavingKeepsWakeup
  <2>4. CASE SubscriberStep \/ StreamEnds BY <1>1, <2>4, SubscriberKeepsWakeup
  <2> QED BY <1>1, <2>1, <2>2, <2>3, <2>4 DEF GatewayNext
<1>2. CASE WorkerNext /\ UNCHANGED gatewayVars
  BY <1>2, QueueKeepsWakeup, WriteKeepsWakeup, NotifyKeepsWakeup, CrashKeepsWakeup
  DEF WorkerNext, TaskStep
<1>3. CASE GatewayRestart BY <1>3, RestartKeepsWakeup
<1>4. CASE UNCHANGED vars
  <2>1. UNCHANGED <<gatewayVars, store, missed, bus, slots>>
    BY <1>4 DEF vars, sharedVars, workerVars
  <2>2. \A j \in JobIds : Announced(j) => Announced(j)'
    BY <2>1 DEF Announced, Unannounced, Running
  <2>3. QED BY <2>1, <2>2, WorkerWakeup
<1> QED BY <1>1, <1>2, <1>3, <1>4 DEF Next, Step

(* aggregator.rs relies on registering before the first read, on SET       *)
(* before PUBLISH in write_result, and on a replaced or removed sender     *)
(* ending changed(): together they leave no slice unnoticed, for any       *)
(* number of calls, workers and jobs, with job ids shared or not.          *)
THEOREM NoWakeupIsLost == Spec => []NoLostWakeup
  BY TypeInit, TypeStep, WakeupInit, WakeupStep, PTL DEF Spec

-----------------------------------------------------------------------------
(* The notifier's map.                                                     *)

(* A step that removes entries, or registers q, and ends no other call     *)
(* keeps the map in order.                                                 *)
LEMMA EntryFrame ==
  ASSUME TypeOK, OnlyCancelledLeak, NEW q \in Requests,
         \A r \in Requests : r # q => args'[r] = args[r] /\ pc'[r] = pc[r],
         \A j \in JobIds : \/ jobs'[j] \in {Nil, jobs[j]} /\ jobs'[j] # q
                           \/ jobs'[j] = q /\ Job(q)' = j /\ Collecting(q)'
                           \/ jobs'[j] = q /\ Job(q)' = j /\ pc'[q] = "cancelled"
  PROVE  OnlyCancelledLeak'
<1> SUFFICES ASSUME NEW j \in JobIds, jobs'[j] # Nil
             PROVE  args'[jobs'[j]].job = j /\ pc'[jobs'[j]] \in {"scan", "wait", "cancelled"}
  BY DEF OnlyCancelledLeak, Job, Collecting
<1>1. CASE jobs'[j] = q BY <1>1 DEF Job, Collecting
<1>2. CASE jobs'[j] # q
  <2>1. jobs'[j] = jobs[j] /\ jobs[j] \in Requests BY <1>2 DEF TypeOK, GatewayTypeOK
  <2>2. Job(jobs[j]) = j /\ (Collecting(jobs[j]) \/ pc[jobs[j]] = "cancelled")
    BY <2>1 DEF OnlyCancelledLeak
  <2>3. args'[jobs[j]] = args[jobs[j]] /\ pc'[jobs[j]] = pc[jobs[j]] BY <1>2, <2>1
  <2>4. QED BY <2>1, <2>2, <2>3 DEF Job, Collecting
<1> QED BY <1>1, <1>2

(* Before it registers a call has no entry, and after it has left neither. *)
LEMMA OutsideKeepsEntries ==
  ASSUME TypeOK, OnlyCancelledLeak, NEW q \in Requests,
         \/ \E a \in Args : SubmitTask(q, a)
         \/ SetJobMetadata(q) \/ PublishSlice(q) \/ AggregateFails(q)
         \/ StoreFinalResult(q) \/ UpdateProgress(q)
  PROVE  OnlyCancelledLeak'
<1> USE DEF SubmitTask, SetJobMetadata, PublishSlice, AggregateFails, StoreFinalResult,
            UpdateProgress, AwaitWrite, Goto
<1>1. pc[q] \in {"idle", "metadata", "publish", "store", "progress"} /\ jobs' = jobs OBVIOUS
<1>2. \A r \in Requests : r # q => args'[r] = args[r] /\ pc'[r] = pc[r]
  BY DEF TypeOK, GatewayTypeOK
<1>3. \A j \in JobIds : jobs[j] # q
  BY <1>1, CommonAssumption DEF OnlyCancelledLeak, Collecting
<1> QED BY <1>1, <1>2, <1>3, EntryFrame

LEMMA CollectingKeepsEntries ==
  ASSUME TypeOK, OnlyCancelledLeak, NEW q \in Requests,
         \/ RegisterJob(q) \/ Park(q) \/ Rescan(q) \/ Deadline(q) \/ CancelCollecting(q)
         \/ \E i \in SliceIds : ReadSlice(q, i) \/ ReadSliceFails(q, i)
  PROVE  OnlyCancelledLeak'
<1> USE DEF RegisterJob, Park, EndOfPass, Rescan, Deadline, CancelCollecting, ReadSlice,
            ReadSliceFails, Goto, Collecting
<1>1. args' = args /\ \A r \in Requests : r # q => pc'[r] = pc[r]
  BY DEF TypeOK, GatewayTypeOK
<1>2. Job(q)' = Job(q) BY <1>1 DEF Job
<1>3. Collecting(q)' \/ pc'[q] = "cancelled" BY DEF TypeOK, GatewayTypeOK
<1>4. jobs' = jobs \/ jobs' = [jobs EXCEPT ![Job(q)] = q] OBVIOUS
<1>5. ASSUME NEW j \in JobIds, jobs[j] = q PROVE Job(q) = j
  BY <1>5, CommonAssumption DEF OnlyCancelledLeak
<1>6. ASSUME NEW j \in JobIds
      PROVE  (jobs'[j] = jobs[j] /\ jobs'[j] # q) \/ (jobs'[j] = q /\ Job(q) = j)
  <2>1. CASE jobs' = jobs BY <1>5, <2>1
  <2>2. CASE jobs' = [jobs EXCEPT ![Job(q)] = q] BY <1>5, <2>2 DEF TypeOK, GatewayTypeOK
  <2> QED BY <1>4, <2>1, <2>2
<1> QED BY <1>1, <1>2, <1>3, <1>6, EntryFrame

LEMMA LeavingKeepsEntries ==
  ASSUME TypeOK, OnlyCancelledLeak, NEW q \in Requests, Collected(q) \/ TimedOut(q)
  PROVE  OnlyCancelledLeak'
<1> USE DEF Collected, TimedOut, UnregisterJob, Goto
<1>1. args' = args /\ \A r \in Requests : r # q => pc'[r] = pc[r]
  BY DEF TypeOK, GatewayTypeOK
<1>2. jobs' = [jobs EXCEPT ![Job(q)] = Nil] OBVIOUS
<1>3. ASSUME NEW j \in JobIds PROVE jobs'[j] \in {Nil, jobs[j]} /\ jobs'[j] # q
  <2>1. Nil # q BY CommonAssumption
  <2>2. jobs[j] = q => Job(q) = j BY <2>1 DEF OnlyCancelledLeak
  <2>3. QED BY <1>2, <2>1, <2>2 DEF TypeOK, GatewayTypeOK
<1> QED BY <1>1, <1>3, EntryFrame

LEMMA LeakStep == TypeOK /\ OnlyCancelledLeak /\ [Next]_vars => OnlyCancelledLeak'
<1> SUFFICES ASSUME TypeOK, OnlyCancelledLeak, [Next]_vars PROVE OnlyCancelledLeak' OBVIOUS
<1>1. ASSUME NEW r \in Requests,
             \/ \E a \in Args : SubmitTask(r, a)
             \/ CallStep(r) \/ Deadline(r) \/ CancelCollecting(r)
      PROVE  OnlyCancelledLeak'
  BY <1>1, OutsideKeepsEntries, CollectingKeepsEntries, LeavingKeepsEntries
  DEF CallStep, WakeUp, RePoll
<1>2. ASSUME UNCHANGED <<pc, args, jobs>> PROVE OnlyCancelledLeak'
  BY <1>2 DEF OnlyCancelledLeak, Job, Collecting
<1>3. CASE SubscriberStep \/ StreamEnds
  BY <1>2, <1>3 DEF SubscriberStep, StreamEnds, Subscribe, DeliverNotification, gatewayVars
<1>4. CASE UNCHANGED gatewayVars BY <1>2, <1>4 DEF gatewayVars
<1>5. CASE GatewayRestart BY <1>5 DEF GatewayRestart, OnlyCancelledLeak
<1>6. CASE UNCHANGED vars BY <1>4, <1>6 DEF vars
<1> QED BY <1>1, <1>3, <1>4, <1>5, <1>6 DEF Next, Step, GatewayNext

(* For any number of calls that share job ids: the notifier's map holds    *)
(* nothing but calls that collect, and what cancelled ones left behind.    *)
THEOREM OnlyCancelledCallsLeak == Spec => []OnlyCancelledLeak
<1>1. Init => OnlyCancelledLeak BY DEF Init, GatewayInit, OnlyCancelledLeak
<1>2. QED BY <1>1, TypeInit, TypeStep, LeakStep, PTL DEF Spec
=============================================================================
