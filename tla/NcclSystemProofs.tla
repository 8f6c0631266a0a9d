-------------------------- MODULE NcclSystemProofs --------------------------
(***************************************************************************)
(* Proofs about NcclSystem, for any number of ranks and of jobs: type      *)
(* correctness, and what the order of the per-rank queues is worth.        *)
(***************************************************************************)
EXTENDS NcclSystem, GatewayProofs

(* A rank that is past recv_bytes has a message; one that is about to      *)
(* write has something to write.                                           *)
RanksBusy ==
  \A w \in Workers :
    /\ stage[w] \in {"reduce", "set", "notify"} => msg[w] \in TaskMessage
    /\ stage[w] \in {"set", "notify"} => probs[w] \in SliceStats

RanksOK == TypeOK /\ RanksBusy

LEMMA RankFacts == Workers = SliceIds /\ Channels = SliceIds /\ NcclDispatch
  BY NcclAssumption, PublisherAssumption, SlicingAssumption DEF SliceIds, Channels, MaxSlices

LEMMA NcclTypeParts == TypeOK => Typed /\ PublisherTypeOK
  BY DEF TypeOK, Typed, RanksTypeOK

-----------------------------------------------------------------------------
(* Type correctness.                                                       *)

LEMMA RanksTypeInit == Init => RanksOK
<1> SUFFICES ASSUME Init PROVE RanksOK OBVIOUS
<1>1. Typed BY TypedInit DEF Init
<1>2. overlap \in BOOLEAN BY DEF Init
<1> QED BY <1>1, <1>2
        DEF Init, RanksOK, TypeOK, Typed, RanksBusy, RanksInit, RanksTypeOK, PublisherInit,
            PublisherTypeOK

(* What a step of the ranks has to respect.                                *)
LEMMA RanksFrame ==
  ASSUME RanksOK, UNCHANGED gatewayVars, CommonTypeOK', RanksTypeOK', RanksBusy',
         overlap' \in BOOLEAN
  PROVE  RanksOK'
  BY NcclTypeParts, GatewayFrame DEF RanksOK, TypeOK

LEMMA RankPushType ==
  ASSUME RanksOK, UNCHANGED gatewayVars, overlap' \in BOOLEAN,
         NEW c \in Channels, PushRankStep(c)
  PROVE  RanksOK'
<1>1. c \in Workers BY RankFacts
<1> DEFINE peers == { w \in Workers : stage[w] # "exited" }
<1>2. PushFails(c) \/ \E w \in Workers : Push(c, w, peers)
  BY <1>1 DEF PushRankStep, PushToRank, PushToRankFails
<1>3. Typed' /\ PublisherTypeOK' BY <1>2, NcclTypeParts, PushType DEF RanksOK
<1>4. UNCHANGED <<stage, msg, probs>> BY DEF PushRankStep, PushToRank, PushToRankFails
<1> QED BY <1>3, <1>4 DEF RanksOK, TypeOK, Typed, RanksTypeOK, RanksBusy

LEMMA ReceiveType ==
  ASSUME RanksOK, UNCHANGED gatewayVars, overlap' \in BOOLEAN,
         NEW w \in Workers, Receive(w)
  PROVE  RanksOK'
<1> USE DEF Receive, At, RanksOK, TypeOK, RanksTypeOK
<1>1. inbox[w] \in Seq(TaskMessage) /\ inbox[w] # <<>> BY DEF PublisherTypeOK
<1>2. PICK m \in TaskMessage : m = Head(inbox[w]) BY <1>1, HeadTailProperties
<1>3. Tail(inbox[w]) \in Seq(TaskMessage) BY <1>1, HeadTailProperties
<1>4. PublisherTypeOK' BY <1>3 DEF PublisherTypeOK
<1>5. CommonTypeOK' BY DEF CommonTypeOK, sharedVars
<1>6. \/ UNCHANGED <<stage, msg, probs>>
      \/ /\ stage' = [stage EXCEPT ![w] = "reduce"]
         /\ msg' = [msg EXCEPT ![w] = m]
         /\ probs' = probs
  BY <1>2
<1>7. RanksTypeOK' /\ RanksBusy' BY <1>4, <1>6 DEF RanksBusy
<1> QED BY <1>5, <1>7, RanksFrame

LEMMA AllReduceType ==
  ASSUME RanksOK, UNCHANGED gatewayVars, overlap' \in BOOLEAN, AllReduce
  PROVE  RanksOK'
<1> DEFINE peers == { <<msg[w].vec, msg[w].slice>> : w \in Workers }
<1> USE DEF AllReduce, RanksOK, TypeOK, RanksTypeOK
<1>1. \A w \in Workers : /\ msg[w] \in TaskMessage /\ msg[w].vec \in Vectors
                         /\ msg[w].slice \in SliceIds
  BY DEF RanksBusy, TaskMessage
<1>2. peers \in SUBSET (Vectors \X SliceIds) BY <1>1
<1>3. \A w \in Workers : Normalized(msg[w], peers) \in SliceStats
  <2> HIDE DEF peers
  <2> QED BY <1>1, <1>2 DEF Normalized, SliceStats
<1>4. probs' = [w \in Workers |-> Normalized(msg[w], peers)] OBVIOUS
<1>5. stage' = [w \in Workers |-> "set"] /\ msg' = msg /\ inbox' = inbox OBVIOUS
<1> HIDE DEF peers, AllReduce
<1>6. RanksTypeOK' BY <1>3, <1>4, <1>5 DEF PublisherTypeOK
<1>7. RanksBusy' BY <1>1, <1>3, <1>4, <1>5 DEF RanksBusy
<1>8. CommonTypeOK' BY DEF AllReduce, CommonTypeOK, sharedVars
<1> QED BY <1>6, <1>7, <1>8, RanksFrame

LEMMA RankWriteType ==
  ASSUME RanksOK, UNCHANGED gatewayVars, overlap' \in BOOLEAN,
         NEW w \in Workers, WriteProbs(w) \/ NotifyProbs(w) \/ RankEnds(w)
  PROVE  RanksOK'
<1> USE DEF WriteProbs, NotifyProbs, RankEnds, WriteProbsFails, NotifyProbsFails, RankFails,
            At, Done, Exit, SetProbs, RanksOK, TypeOK, RanksTypeOK
<1>1. stage[w] \in {"set", "notify"} =>
        msg[w] \in TaskMessage /\ msg[w].job \in JobIds /\ probs[w] \in SliceStats
  BY DEF RanksBusy, TaskMessage
<1>2. \/ stage' = [stage EXCEPT ![w] = "notify"] /\ stage[w] = "set"
         /\ UNCHANGED <<inbox, msg, probs>>
      \/ /\ \E label \in {"recv", "exited"} : stage' = [stage EXCEPT ![w] = label]
         /\ msg' = [msg EXCEPT ![w] = Nil]
         /\ probs' = [probs EXCEPT ![w] = Nil]
         /\ inbox' = inbox \/ inbox' = [inbox EXCEPT ![w] = <<>>]
  OBVIOUS
<1>3. inbox' \in [Workers -> Seq(TaskMessage)]
  <2>1. inbox' = inbox \/ inbox' = [inbox EXCEPT ![w] = <<>>] BY <1>2
  <2>2. <<>> \in Seq(TaskMessage) OBVIOUS
  <2>3. inbox \in [Workers -> Seq(TaskMessage)] BY DEF PublisherTypeOK
  <2> HIDE DEF WriteProbs, NotifyProbs, RankEnds, WriteProbsFails, NotifyProbsFails, RankFails,
               RanksOK
  <2> QED BY <2>1, <2>2, <2>3
<1>4. RanksTypeOK' /\ RanksBusy' BY <1>2, <1>3 DEF RanksBusy, PublisherTypeOK
<1>5. store' \in [Keys -> {Nil} \cup SliceStats \cup Results]
  <2>1. \/ store' = store
        \/ stage[w] = "set" /\ store' = [store EXCEPT ![SliceKey(msg[w].job, msg[w].slice)] = probs[w]]
    OBVIOUS
  <2> QED BY <1>1, <2>1 DEF CommonTypeOK
<1>6. missed' \subseteq JobIds BY <1>1 DEF CommonTypeOK
<1>7. faults' \in 0 .. MaxFaults BY CommonAssumption DEF CommonTypeOK, Fault
<1>8. bus' \in [JobIds -> Nat]
  <2>1. \/ bus' = bus
        \/ stage[w] = "notify" /\ bus' = [bus EXCEPT ![msg[w].job] = bus[msg[w].job] + 1]
    OBVIOUS
  <2>2. bus \in [JobIds -> Nat] BY DEF CommonTypeOK
  <2> HIDE DEF WriteProbs, NotifyProbs, RankEnds, WriteProbsFails, NotifyProbsFails, RankFails,
               RanksOK
  <2> QED BY <1>1, <2>1, <2>2
<1>9. UNCHANGED <<metadata, progress, subscribed, chan>> OBVIOUS
<1>10. CommonTypeOK' BY <1>5, <1>6, <1>7, <1>8, <1>9 DEF CommonTypeOK
<1> QED BY <1>4, <1>10, RanksFrame

LEMMA RanksNextType ==
  ASSUME RanksOK, UNCHANGED gatewayVars, overlap' \in BOOLEAN, RanksNext
  PROVE  RanksOK'
  BY RankPushType, ReceiveType, AllReduceType, RankWriteType DEF RanksNext, RanksRun, RankStep

LEMMA GatewayRanksType ==
  ASSUME RanksOK, overlap' \in BOOLEAN,
         \/ GatewayNext /\ UNCHANGED rankVars
         \/ GatewayRestart /\ UNCHANGED <<stage, msg, probs>>
  PROVE  RanksOK'
<1>1. Typed /\ PublisherTypeOK BY NcclTypeParts DEF RanksOK
<1>2. CASE GatewayNext /\ UNCHANGED rankVars
  BY <1>1, <1>2, GatewayNextType
  DEF RanksOK, TypeOK, Typed, RanksTypeOK, RanksBusy, PublisherTypeOK, rankVars
<1>3. CASE GatewayRestart /\ UNCHANGED <<stage, msg, probs>>
  BY <1>1, <1>3, RestartType DEF RanksOK, TypeOK, Typed, RanksTypeOK, RanksBusy
<1> QED BY <1>2, <1>3

LEMMA RanksTypeStep == RanksOK /\ [Next]_vars => RanksOK'
<1> SUFFICES ASSUME RanksOK, [Next]_vars PROVE RanksOK' OBVIOUS
<1>1. Track => overlap' \in BOOLEAN BY DEF Track
<1>2. CASE UNCHANGED vars
  BY <1>2, RanksFrame
  DEF vars, sharedVars, rankVars, RanksOK, TypeOK, CommonTypeOK, RanksTypeOK, RanksBusy,
      PublisherTypeOK
<1> QED BY <1>1, <1>2, RanksNextType, GatewayRanksType DEF Next

(* Every reachable state of the NCCL system is type correct: a rank never  *)
(* reduces, writes or announces without a message.                         *)
THEOREM NcclTypeCorrect == Spec => []TypeOK
<1>1. RanksOK => TypeOK BY DEF RanksOK
<1> QED BY <1>1, RanksTypeInit, RanksTypeStep, PTL DEF Spec

-----------------------------------------------------------------------------
(* The per-rank queues.  What rank w still has to reduce, oldest first: in *)
(* its hands, in its socket, in its channel.                               *)

InHand(w) == IF stage[w] = "reduce" THEN <<msg[w]>> ELSE <<>>

Pending(w) == (InHand(w) \o inbox[w]) \o chan[w]

Live(w) == stage[w] # "exited"

(* The job of a message; the job of a call.                                *)
Label(m) == [job |-> m.job, vec |-> m.vec]

Labels == [job : JobIds, vec : Vectors]

CallLabel(r) == [job |-> Job(r), vec |-> args[r].vec]

(* A dispatch loop is under way and has served rank w.                     *)
Served(r, w) == Dispatching(r) /\ w < sent[r]

(* The ranks that live have the same jobs before them, in the same order;  *)
(* those that a dispatch loop has served have one more, the last.          *)
Follows(w, order) ==
  /\ Len(Pending(w)) = Len(order) + (IF \E r \in Requests : Served(r, w) THEN 1 ELSE 0)
  /\ \A k \in 1 .. Len(order) : Label(Pending(w)[k]) = order[k]
  /\ \A r \in Requests : Served(r, w) => Label(Pending(w)[Len(order) + 1]) = CallLabel(r)

Aligned(order) == \A w \in Workers : Live(w) => Follows(w, order)

(* Every message is for the rank it is sent to, and of some call.          *)
Lane(queue, w) == \A k \in 1 .. Len(queue) : queue[k].slice = w

Lanes == \A w \in Workers : Lane(chan[w], w) /\ Lane(inbox[w], w)

HeldInLane ==
  \A w \in Workers : stage[w] \in {"reduce", "set", "notify"} =>
    msg[w].slice = w /\ Submitted(msg[w].job, msg[w].vec)

Serial == ~overlap /\ AllFinite

QueueInv ==
  /\ RanksOK /\ QueuesOfCalls /\ Lanes /\ HeldInLane
  /\ Overlapping => overlap
  /\ Serial => \E order \in Seq(Labels) : Aligned(order)

(* What the theorems below assume of the environment: no slice is lost     *)
(* between the gateway and a rank, and the gateway is not restarted.       *)
NothingLost == FaultKinds \cap {"push", "gateway"} = {}

LEMMA PendingTyped ==
  ASSUME RanksOK, NEW w \in Workers
  PROVE  /\ InHand(w) \in Seq(TaskMessage) /\ inbox[w] \in Seq(TaskMessage)
         /\ chan[w] \in Seq(TaskMessage) /\ Pending(w) \in Seq(TaskMessage)
<1>1. InHand(w) \in Seq(TaskMessage) BY DEF InHand, RanksOK, RanksBusy
<1>2. inbox[w] \in Seq(TaskMessage) /\ chan[w] \in Seq(TaskMessage)
  BY RankFacts DEF RanksOK, TypeOK, CommonTypeOK, RanksTypeOK, PublisherTypeOK
<1> QED BY <1>1, <1>2, ConcatProperties DEF Pending

(* A message that moves from one queue to the next keeps its place.        *)
LEMMA MovesAcross ==
  ASSUME NEW S, NEW a \in Seq(S), NEW b \in Seq(S), b # <<>>
  PROVE  Append(a, Head(b)) \o Tail(b) = a \o b
<1>1. PICK h \in S : h = Head(b) BY HeadTailProperties
<1>2. PICK t \in Seq(S) : t = Tail(b) BY HeadTailProperties
<1>3. Len(b) \in Nat \ {0} /\ h = b[1] BY <1>1, EmptySeq
<1>4. b = SubSeq(b, 1, Len(b)) /\ t = SubSeq(b, 2, Len(b)) BY <1>2, SubSeqFull, TailIsSubSeq
<1>5. SubSeq(b, 1, Len(b)) = <<b[1]>> \o SubSeq(b, 1 + 1, Len(b)) BY <1>3, SubSeqRecursiveFirst
<1>6. b = <<h>> \o t BY <1>3, <1>4, <1>5
<1>7. Append(a, h) = a \o <<h>> BY AppendIsConcat
<1>8. <<h>> \in Seq(S) OBVIOUS
<1>9. (a \o <<h>>) \o t = a \o (<<h>> \o t) BY <1>8, ConcatAssociative
<1> QED BY <1>1, <1>2, <1>6, <1>7, <1>9

LEMMA ConcatAppend ==
  ASSUME NEW S, NEW a \in Seq(S), NEW b \in Seq(S), NEW e \in S
  PROVE  a \o Append(b, e) = Append(a \o b, e)
<1>1. Append(b, e) = b \o <<e>> /\ <<e>> \in Seq(S) BY AppendIsConcat
<1>2. Append(a \o b, e) = (a \o b) \o <<e>> BY AppendIsConcat, ConcatProperties
<1>3. (a \o b) \o <<e>> = a \o (b \o <<e>>) BY <1>1, ConcatAssociative
<1> QED BY <1>1, <1>2, <1>3

LEMMA ConcatTail ==
  ASSUME NEW S, NEW e \in S, NEW a \in Seq(S), NEW b \in Seq(S)
  PROVE  /\ (<<>> \o a) \o b = Tail((<<e>> \o a) \o b)
         /\ (<<e>> \o a) \o b # <<>> /\ ((<<e>> \o a) \o b)[1] = e
<1>1. PICK c \in Seq(S) : c = a \o b /\ c = (<<>> \o a) \o b
  BY ConcatProperties, ConcatEmptySeq
<1>2. (<<e>> \o a) \o b = <<e>> \o c BY <1>1, ConcatAssociative
<1>3. PICK d \in Seq(S) : d = <<e>> \o c
  <2>1. <<e>> \in Seq(S) OBVIOUS
  <2> QED BY <2>1, ConcatProperties
<1>4. Len(d) = 1 + Len(c) /\ d[1] = e /\ \A i \in 1 .. Len(c) : d[i + 1] = c[i]
  BY <1>3, ConcatProperties
<1>5. d # <<>> BY <1>4
<1>6. /\ Tail(d) \in Seq(S) /\ Len(Tail(d)) = Len(c)
      /\ \A i \in 1 .. Len(c) : Tail(d)[i] = c[i]
  BY <1>4, <1>5, HeadTailProperties
<1>7. Tail(d) = c BY <1>6, SeqEqual
<1> QED BY <1>1, <1>2, <1>3, <1>4, <1>5, <1>7

(* Sending and receiving a slice leave what a rank has before it alone.    *)
LEMMA PushKeepsPending ==
  ASSUME RanksOK, NEW c \in Workers, NEW peers, Push(c, c, peers), UNCHANGED <<stage, msg>>,
         NEW w \in Workers
  PROVE  Pending(w)' = Pending(w)
<1>1. CASE w # c
  BY <1>1, RankFacts
  DEF Push, Pending, InHand, RanksOK, TypeOK, CommonTypeOK, RanksTypeOK, PublisherTypeOK
<1>2. CASE w = c
  <2>1. PICK a \in Seq(TaskMessage), b \in Seq(TaskMessage), d \in Seq(TaskMessage) :
          a = InHand(w) /\ b = inbox[w] /\ d = chan[w] /\ d # <<>>
    BY <1>2, PendingTyped DEF Push
  <2>2. PICK h \in TaskMessage : h = Head(d) BY <2>1, HeadTailProperties
  <2>3. InHand(w)' = a /\ inbox'[w] = Append(b, h) /\ chan'[w] = Tail(d)
    BY <1>2, <2>1, <2>2, RankFacts
    DEF Push, InHand, RanksOK, TypeOK, CommonTypeOK, RanksTypeOK, PublisherTypeOK
  <2>4. a \o Append(b, h) = Append(a \o b, h) BY ConcatAppend
  <2>5. a \o b \in Seq(TaskMessage) BY ConcatProperties
  <2>6. Append(a \o b, Head(d)) \o Tail(d) = (a \o b) \o d BY <2>1, <2>5, MovesAcross
  <2> QED BY <2>1, <2>2, <2>3, <2>4, <2>6 DEF Pending
<1> QED BY <1>1, <1>2

LEMMA ReceiveKeepsPending ==
  ASSUME RanksOK, NEW v \in Workers, Receive(v), Parses(Head(inbox[v])), NEW w \in Workers
  PROVE  Pending(w)' = Pending(w)
<1>1. chan' = chan BY DEF Receive, sharedVars
<1>2. CASE w # v
  BY <1>1, <1>2 DEF Receive, At, Pending, InHand, RanksOK, TypeOK, RanksTypeOK, PublisherTypeOK
<1>3. CASE w = v
  <2>1. PICK b \in Seq(TaskMessage) : b = inbox[w] /\ b # <<>>
    BY <1>3, PendingTyped DEF Receive
  <2>2. PICK h \in TaskMessage : h = Head(b) BY <2>1, HeadTailProperties
  <2>3. InHand(w) = <<>> BY <1>3 DEF Receive, InHand
  <2>4. InHand(w)' = <<h>> /\ inbox'[w] = Tail(b)
    BY <1>3, <2>1, <2>2 DEF Receive, At, InHand, RanksOK, TypeOK, RanksTypeOK, PublisherTypeOK
  <2>5. <<>> \in Seq(TaskMessage) BY EmptySeq
  <2>6. Append(<<>>, Head(b)) \o Tail(b) = <<>> \o b BY <2>1, <2>5, MovesAcross
  <2>7. Append(<<>>, h) = <<h>> OBVIOUS
  <2> QED BY <1>1, <2>1, <2>2, <2>3, <2>4, <2>6, <2>7 DEF Pending
<1> QED BY <1>2, <1>3

(* A collective takes the first message of every rank.                     *)
LEMMA AllReducePending ==
  ASSUME RanksOK, AllReduce, NEW w \in Workers
  PROVE  Pending(w) # <<>> /\ Pending(w)' = Tail(Pending(w))
<1>1. PICK m \in TaskMessage : m = msg[w] BY DEF AllReduce, RanksOK, RanksBusy
<1>2. InHand(w) = <<m>> /\ InHand(w)' = <<>> BY <1>1 DEF AllReduce, InHand
<1>3. inbox' = inbox /\ chan' = chan BY DEF AllReduce, sharedVars
<1>4. PICK b \in Seq(TaskMessage), d \in Seq(TaskMessage) : b = inbox[w] /\ d = chan[w]
  BY PendingTyped
<1>5. Pending(w) = (<<m>> \o b) \o d /\ Pending(w)' = (<<>> \o b) \o d
  BY <1>2, <1>3, <1>4 DEF Pending
<1>6. (<<>> \o b) \o d = Tail((<<m>> \o b) \o d) /\ (<<m>> \o b) \o d # <<>>
  BY ConcatTail
<1> QED BY <1>5, <1>6

(* Publishing a slice makes it the last one that its rank has to reduce.   *)
LEMMA PublishPending ==
  ASSUME RanksOK, NEW c \in Workers, NEW m \in TaskMessage,
         chan' = [chan EXCEPT ![c] = Append(@, m)], UNCHANGED rankVars, NEW w \in Workers
  PROVE  Pending(w)' = IF w = c THEN Append(Pending(w), m) ELSE Pending(w)
<1>1. chan'[w] = IF w = c THEN Append(chan[w], m) ELSE chan[w]
  BY RankFacts DEF RanksOK, TypeOK, CommonTypeOK
<1>2. InHand(w)' = InHand(w) /\ inbox' = inbox BY DEF rankVars, InHand
<1>3. PICK a \in Seq(TaskMessage), d \in Seq(TaskMessage) :
        a = InHand(w) \o inbox[w] /\ d = chan[w]
  BY PendingTyped, ConcatProperties
<1>4. a \o Append(d, m) = Append(a \o d, m) BY ConcatAppend
<1>5. Pending(w) = a \o d BY <1>3 DEF Pending
<1>6. CASE w = c
  <2>1. chan'[w] = Append(d, m) BY <1>1, <1>3, <1>6
  <2>2. Pending(w)' = a \o Append(d, m) BY <1>2, <1>3, <2>1 DEF Pending
  <2> QED BY <1>4, <1>5, <1>6, <2>2
<1>7. CASE w # c
  <2>1. chan'[w] = d BY <1>1, <1>3, <1>7
  <2>2. Pending(w)' = a \o d BY <1>2, <1>3, <2>1 DEF Pending
  <2> QED BY <1>5, <1>7, <2>2
<1> QED BY <1>6, <1>7

-----------------------------------------------------------------------------
(* How the order of the jobs is kept.                                      *)

(* Every dispatch loop goes on as it was.                                  *)
SameDispatch ==
  \A q \in Requests :
    /\ Dispatching(q)' <=> Dispatching(q)
    /\ Dispatching(q) => sent'[q] = sent[q] /\ args'[q] = args[q]

LEMMA DispatchMoves ==
  ASSUME Typed, GatewayNext
  PROVE  (\E r \in Requests : PublishSlice(r)) \/ (SameDispatch /\ chan' = chan)
<1>1. \A q \in Requests : pc[q] # "idle" => args'[q] = args[q]
  BY CallsPersist DEF GatewayMoves
<1>2. ASSUME sent' = sent, \A q \in Requests : Dispatching(q)' <=> Dispatching(q)
      PROVE  SameDispatch
  BY <1>1, <1>2 DEF SameDispatch, Dispatching
<1> USE DEF Typed, GatewayTypeOK, CallTypeOK, Goto, Dispatching
<1>3. ASSUME NEW r \in Requests,
             (\E a \in Args : SubmitTask(r, a)) \/ SetJobMetadata(r) \/ RegisterJob(r)
      PROVE  SameDispatch /\ chan' = chan
  BY <1>2, <1>3 DEF SubmitTask, SetJobMetadata, AwaitWrite, RegisterJob, sharedVars
<1>4. ASSUME NEW r \in Requests,
             \/ \E i \in SliceIds : ReadSlice(r, i) \/ ReadSliceFails(r, i)
             \/ Collected(r) \/ TimedOut(r) \/ Park(r) \/ WakeUp(r) \/ RePoll(r)
      PROVE  SameDispatch /\ chan' = chan
  BY <1>2, <1>4
  DEF ReadSlice, ReadSliceFails, Collected, TimedOut, Park, WakeUp, RePoll, Rescan, EndOfPass,
      sharedVars
<1>5. ASSUME NEW r \in Requests,
             \/ AggregateFails(r) \/ StoreFinalResult(r) \/ UpdateProgress(r)
             \/ Deadline(r) \/ CancelCollecting(r)
      PROVE  SameDispatch /\ chan' = chan
  BY <1>2, <1>5
  DEF AggregateFails, StoreFinalResult, UpdateProgress, AwaitWrite, Deadline, CancelCollecting,
      Collecting, sharedVars
<1>6. CASE SubscriberStep \/ StreamEnds
  BY <1>2, <1>6 DEF SubscriberStep, StreamEnds, Subscribe, DeliverNotification, gatewayVars
<1> QED BY <1>3, <1>4, <1>5, <1>6 DEF GatewayNext, CallStep

LEMMA AlignedKept ==
  ASSUME SameDispatch, NEW order \in Seq(Labels), Aligned(order),
         \A w \in Workers : Live(w)' => Live(w) /\ Pending(w)' = Pending(w)
  PROVE  Aligned(order)'
<1> SUFFICES ASSUME NEW w \in Workers, Live(w)' PROVE Follows(w, order)' BY DEF Aligned
<1>1. Follows(w, order) /\ Pending(w)' = Pending(w) BY DEF Aligned
<1>2. \A r \in Requests :
        /\ Served(r, w)' <=> Served(r, w)
        /\ Served(r, w) => CallLabel(r)' = CallLabel(r)
  BY DEF SameDispatch, Served, CallLabel, Job
<1>3. /\ (\E r \in Requests : Served(r, w))' <=> (\E r \in Requests : Served(r, w))
      /\ order' = order
  BY <1>2
<1>4. /\ Len(Pending(w))' = Len(order) + (IF \E r \in Requests : Served(r, w)' THEN 1 ELSE 0)
      /\ \A k \in 1 .. Len(order) : Label(Pending(w)[k])' = order[k]
  BY <1>1, <1>3 DEF Follows, Label
<1>5. ASSUME NEW r \in Requests, Served(r, w)'
      PROVE  Label(Pending(w)[Len(order) + 1])' = CallLabel(r)'
  BY <1>1, <1>2, <1>5 DEF Follows, Label
<1> QED BY <1>4, <1>5 DEF Follows

(* A slice is published while no other dispatch loop is under way.         *)
LEMMA PublishAlone ==
  ASSUME RanksOK, NEW r \in Requests, PublishSlice(r), Overlapping => overlap, Track, ~overlap'
  PROVE  /\ sent[r] \in Workers /\ Task(r, sent[r]) \in TaskMessage
         /\ chan' = [chan EXCEPT ![sent[r]] = Append(@, Task(r, sent[r]))]
         /\ \A q \in Requests, w \in Workers :
              /\ Served(q, w) <=> q = r /\ w < sent[r]
              /\ Served(q, w)' <=> q = r /\ sent[r] + 1 # WorldSize /\ w < sent[r] + 1
         /\ CallLabel(r)' = CallLabel(r) /\ CallLabel(r) = Label(Task(r, sent[r]))
<1>1. Typed /\ pc[r] = "publish" BY NcclTypeParts DEF RanksOK, PublishSlice
<1>2. /\ \A len : TotalSlices(len) = WorldSize
      /\ WorldSize \in Nat \ {0} /\ Workers = 0 .. (WorldSize - 1)
  BY RankFacts, SlicingAssumption, PublisherAssumption DEF TotalSlices
<1>3. \A q \in Requests : sent[q] \in Nat /\ (pc[q] = "publish" => sent[q] < WorldSize)
  BY <1>1, <1>2 DEF Typed, GatewayTypeOK, CallTypeOK
<1>4. sent[r] \in Workers /\ sent[r] \in SliceIds
  BY <1>1, <1>2, <1>3, RankFacts
<1>5. Job(r) \in JobIds /\ args[r].vec \in Vectors BY <1>1, CallIsTyped
<1>6. Task(r, sent[r]) \in TaskMessage BY <1>4, <1>5 DEF Task, TaskMessage
<1>7. /\ chan' = [chan EXCEPT ![sent[r]] = Append(@, Task(r, sent[r]))] /\ args' = args
      /\ sent' = [sent EXCEPT ![r] = sent[r] + 1]
      /\ pc' = [pc EXCEPT ![r] = IF sent[r] + 1 = WorldSize THEN "register" ELSE "publish"]
  BY <1>2, RankFacts DEF PublishSlice, Task, Goto
<1>8. DOMAIN sent = Requests /\ DOMAIN pc = Requests BY <1>1 DEF Typed, GatewayTypeOK
<1>9. /\ \A q \in Requests \ {r} :
           (Dispatching(q)' <=> Dispatching(q)) /\ sent'[q] = sent[q]
      /\ Dispatching(r)' <=> sent[r] + 1 # WorldSize
      /\ Dispatching(r) <=> sent[r] > 0
      /\ sent'[r] = sent[r] + 1
  <2>1. ASSUME NEW q \in Requests \ {r} PROVE pc'[q] = pc[q] /\ sent'[q] = sent[q]
    BY <1>7, <1>8
  <2>2. /\ sent'[r] = sent[r] + 1
        /\ pc'[r] = IF sent[r] + 1 = WorldSize THEN "register" ELSE "publish"
    BY <1>7, <1>8
  <2> QED BY <1>1, <1>3, <2>1, <2>2 DEF Dispatching
<1>10. ASSUME NEW q \in Requests \ {r} PROVE ~Dispatching(q)
  <2>1. overlap' = (overlap \/ Overlapping') BY DEF Track
  <2>2. ~Overlapping /\ ~Overlapping' BY <2>1
  <2>3. CASE sent[r] + 1 # WorldSize BY <1>9, <2>2, <2>3 DEF Overlapping
  <2>4. CASE sent[r] > 0 BY <1>9, <2>2, <2>4 DEF Overlapping
  <2>5. CASE sent[r] + 1 = WorldSize /\ sent[r] = 0 BY <1>3, <2>5 DEF Dispatching
  <2> QED BY <1>3, <2>3, <2>4, <2>5
<1>11. ASSUME NEW q \in Requests, NEW w \in Workers
       PROVE  /\ Served(q, w) <=> q = r /\ w < sent[r]
              /\ Served(q, w)' <=> q = r /\ sent[r] + 1 # WorldSize /\ w < sent[r] + 1
  <2>1. w \in Nat BY <1>2
  <2>2. CASE q = r BY <1>3, <1>9, <2>1, <2>2 DEF Served
  <2>3. CASE q # r BY <1>9, <1>10, <2>3 DEF Served
  <2> QED BY <2>2, <2>3
<1>12. CallLabel(r)' = CallLabel(r) /\ CallLabel(r) = Label(Task(r, sent[r]))
  BY <1>7 DEF CallLabel, Label, Task, Job
<1> QED BY <1>4, <1>6, <1>7, <1>11, <1>12

LEMMA AlignedByPublish ==
  ASSUME RanksOK, NEW r \in Requests, PublishSlice(r), UNCHANGED rankVars,
         Overlapping => overlap, Track, ~overlap',
         NEW order \in Seq(Labels), Aligned(order)
  PROVE  \E next \in Seq(Labels) : Aligned(next)'
<1> DEFINE k == sent[r]
           m == Task(r, sent[r])
           last == sent[r] + 1 = WorldSize
<1>1. /\ k \in Workers /\ m \in TaskMessage
      /\ chan' = [chan EXCEPT ![k] = Append(@, m)]
      /\ \A q \in Requests, w \in Workers :
           /\ Served(q, w) <=> q = r /\ w < k
           /\ Served(q, w)' <=> q = r /\ ~last /\ w < k + 1
      /\ CallLabel(r)' = CallLabel(r) /\ CallLabel(r) = Label(m)
  BY PublishAlone
<1>2. WorldSize \in Nat \ {0} /\ Workers = 0 .. (WorldSize - 1)
  BY RankFacts, SlicingAssumption, PublisherAssumption
<1>3. CallLabel(r) \in Labels BY <1>1 DEF Label, Labels, TaskMessage
<1>4. PICK next \in Seq(Labels) :
      /\ Len(order) \in Nat
      /\ Len(next) = Len(order) + (IF last THEN 1 ELSE 0)
      /\ \A i \in 1 .. Len(order) : next[i] = order[i]
      /\ last => next[Len(order) + 1] = CallLabel(r)
  <2>1. CASE last
    <3>1. PICK next \in Seq(Labels) : next = Append(order, CallLabel(r))
      BY <1>3, AppendProperties
    <3> QED BY <1>3, <2>1, <3>1, AppendProperties
  <2>2. CASE ~last BY <2>2
  <2> QED BY <2>1, <2>2
<1> HIDE DEF last, m, k
<1>5. ASSUME NEW w \in Workers, Live(w)' PROVE Follows(w, next)'
  <2> DEFINE p == Pending(w)
             n == Len(order)
  <2>1. p \in Seq(TaskMessage) /\ Pending(w)' = IF w = k THEN Append(p, m) ELSE p
    BY <1>1, PendingTyped, PublishPending
  <2>2. Follows(w, order) BY <1>5 DEF Aligned, Live, rankVars
  <2>3. /\ Len(p) = n + (IF w < k THEN 1 ELSE 0)
        /\ \A i \in 1 .. n : Label(p[i]) = order[i]
        /\ w < k => Label(p[n + 1]) = CallLabel(r)
    BY <1>1, <2>2 DEF Follows
  <2>4. PICK s \in Seq(TaskMessage) : s = Pending(w)'
    <3>1. Append(p, m) \in Seq(TaskMessage) BY <1>1, <2>1, AppendProperties
    <3> QED BY <2>1, <3>1
  <2>5. w \in Nat /\ k \in Nat /\ (last => w <= k) /\ n \in Nat BY <1>1, <1>2, <1>4 DEF last, k
  <2> HIDE DEF p, n
  <2>6. /\ Len(s) = n + (IF w < k + 1 THEN 1 ELSE 0)
        /\ \A i \in 1 .. n : Label(s[i]) = order[i]
        /\ w < k + 1 => Label(s[n + 1]) = CallLabel(r)
    <3>1. CASE w = k
      <4>1. Len(p) = n BY <2>3, <2>5, <3>1
      <4>2. /\ Len(s) = n + 1 /\ s[n + 1] = m
            /\ \A i \in 1 .. n : s[i] = p[i]
        BY <1>1, <2>1, <2>4, <3>1, <4>1, AppendProperties
      <4> QED BY <1>1, <2>3, <2>5, <3>1, <4>2
    <3>2. CASE w # k BY <2>1, <2>3, <2>4, <2>5, <3>2
    <3> QED BY <3>1, <3>2
  <2>7. Len(s) = Len(next) + (IF \E q \in Requests : Served(q, w)' THEN 1 ELSE 0)
    <3>1. (\E q \in Requests : Served(q, w)') <=> ~last /\ w < k + 1 BY <1>1
    <3>2. Len(next) = n + (IF last THEN 1 ELSE 0) BY <1>4 DEF n
    <3>3. CASE last BY <2>5, <2>6, <3>1, <3>2, <3>3
    <3>4. CASE ~last BY <2>5, <2>6, <3>1, <3>2, <3>4
    <3> QED BY <3>3, <3>4
  <2>8. ASSUME NEW i \in 1 .. Len(next) PROVE Label(s[i]) = next[i]
    <3>1. CASE i \in 1 .. n BY <1>4, <2>6, <3>1 DEF n
    <3>2. CASE last /\ i = n + 1 BY <1>4, <2>5, <2>6, <3>2 DEF n
    <3> QED BY <1>4, <2>5, <3>1, <3>2 DEF n
  <2>9. \A q \in Requests : Served(q, w)' => Label(s[Len(next) + 1]) = CallLabel(q)'
    BY <1>1, <1>4, <2>5, <2>6 DEF n
  <2> QED BY <2>4, <2>7, <2>8, <2>9 DEF Follows, Label
<1> QED BY <1>4, <1>5 DEF Aligned

LEMMA AlignedByReduce ==
  ASSUME RanksOK, AllReduce, UNCHANGED gatewayVars, ~Overlapping,
         NEW order \in Seq(Labels), Aligned(order)
  PROVE  order # <<>> /\ Aligned(Tail(order))'
<1>1. /\ \A len : TotalSlices(len) = WorldSize
      /\ WorldSize \in Nat \ {0} /\ Workers = 0 .. (WorldSize - 1)
  BY RankFacts, SlicingAssumption, PublisherAssumption DEF TotalSlices
<1>2. \A w \in Workers : Live(w) /\ Follows(w, order) BY DEF AllReduce, Live, Aligned
<1>3. \A w \in Workers :
        /\ Pending(w) \in Seq(TaskMessage) /\ Pending(w) # <<>>
        /\ Pending(w)' = Tail(Pending(w))
  BY PendingTyped, AllReducePending
<1>4. PICK v \in Workers : \A q \in Requests : ~Served(q, v)
  <2>1. CASE \E r \in Requests : Dispatching(r)
    <3>1. PICK r \in Requests : Dispatching(r) BY <2>1
    <3>2. sent[r] \in Nat /\ sent[r] < WorldSize
      BY <1>1, <3>1 DEF Dispatching, RanksOK, TypeOK, GatewayTypeOK, CallTypeOK
    <3>3. \A q \in Requests : Dispatching(q) => q = r BY <3>1 DEF Overlapping
    <3> QED BY <1>1, <3>2, <3>3 DEF Served
  <2>2. CASE \A r \in Requests : ~Dispatching(r) BY <1>1, <2>2 DEF Served
  <2> QED BY <2>1, <2>2
<1>5. Len(order) \in Nat /\ Len(order) # 0
  <2>1. Len(Pending(v)) = Len(order) BY <1>2, <1>4 DEF Follows
  <2> QED BY <1>3, <2>1, EmptySeq
<1>6. order # <<>> BY <1>5
<1>7. PICK rest \in Seq(Labels) : rest = Tail(order) BY <1>6, HeadTailProperties
<1>8. Len(rest) = Len(order) - 1 /\ \A i \in 1 .. Len(rest) : rest[i] = order[i + 1]
  BY <1>6, <1>7, HeadTailProperties
<1>9. ASSUME NEW w \in Workers PROVE Follows(w, rest)'
  <2>1. PICK p \in Seq(TaskMessage) : p = Pending(w) /\ p # <<>> /\ Pending(w)' = Tail(p)
    BY <1>3
  <2>2. PICK s \in Seq(TaskMessage) : s = Pending(w)' /\ s = Tail(p) BY <2>1, HeadTailProperties
  <2>3. Len(s) = Len(p) - 1 /\ \A i \in 1 .. Len(s) : s[i] = p[i + 1]
    BY <2>1, <2>2, HeadTailProperties
  <2>4. /\ Len(p) = Len(order) + (IF \E r \in Requests : Served(r, w) THEN 1 ELSE 0)
        /\ \A i \in 1 .. Len(order) : Label(p[i]) = order[i]
        /\ \A r \in Requests : Served(r, w) => Label(p[Len(order) + 1]) = CallLabel(r)
    BY <1>2, <2>1 DEF Follows
  <2>5. \A r \in Requests : (Served(r, w)' <=> Served(r, w)) /\ CallLabel(r)' = CallLabel(r)
    BY DEF gatewayVars, Served, Dispatching, CallLabel, Job
  <2>6. Len(s) = Len(rest) + (IF \E r \in Requests : Served(r, w)' THEN 1 ELSE 0)
    BY <1>5, <1>8, <2>3, <2>4, <2>5
  <2>7. \A i \in 1 .. Len(rest) : Label(s[i]) = rest[i]
    BY <1>5, <1>8, <2>3, <2>4, <2>6
  <2>8. \A r \in Requests : Served(r, w)' => Label(s[Len(rest) + 1]) = CallLabel(r)'
    BY <1>5, <1>8, <2>3, <2>4, <2>5, <2>6
  <2> QED BY <2>2, <2>6, <2>7, <2>8 DEF Follows, Label
<1> QED BY <1>6, <1>7, <1>9 DEF Aligned

-----------------------------------------------------------------------------
(* Whose message is in which queue.                                        *)

LEMMA LanesByGateway ==
  ASSUME QueueInv, GatewayNext, UNCHANGED rankVars
  PROVE  QueuesOfCalls' /\ Lanes' /\ HeldInLane'
<1>1. Typed /\ PublisherTypeOK BY NcclTypeParts DEF QueueInv, RanksOK
<1>2. UNCHANGED inbox /\ UNCHANGED <<stage, msg>> BY DEF rankVars
<1>3. QueuesOfCalls' BY <1>1, <1>2, QueuesKeptByGateway DEF QueueInv
<1>4. Lanes'
  <2>1. CASE chan' = chan BY <1>2, <2>1 DEF QueueInv, Lanes, Lane
  <2>2. CASE SlicePublished
    <3>1. PICK r \in Requests, c \in Channels :
            c = sent[r] /\ chan' = [chan EXCEPT ![c] = Append(@, Task(r, sent[r]))]
      BY <2>2, RankFacts DEF SlicePublished
    <3>2. ASSUME NEW w \in Workers PROVE Lane(chan[w], w)'
      <4>1. chan[w] \in Seq(TaskMessage) /\ Lane(chan[w], w)
        BY PendingTyped DEF QueueInv, Lanes
      <4>2. chan'[w] = IF w = c THEN Append(chan[w], Task(r, w)) ELSE chan[w]
        BY <1>1, <3>1, RankFacts DEF Typed, CommonTypeOK
      <4>3. CASE w = c
        <5>1. chan'[w] = Append(chan[w], Task(r, w)) /\ Task(r, w).slice = w
          BY <4>2, <4>3 DEF Task
        <5> HIDE DEF Task
        <5> QED BY <4>1, <5>1 DEF Lane
      <4>4. CASE w # c BY <4>1, <4>2, <4>4 DEF Lane
      <4> QED BY <4>3, <4>4
    <3> QED BY <1>2, <3>2 DEF QueueInv, Lanes, Lane
  <2> QED BY <1>1, <2>1, <2>2, ChanMoves
<1>5. HeldInLane' BY <1>1, <1>2, SubmittedPersists DEF QueueInv, HeldInLane, GatewayMoves
<1> QED BY <1>3, <1>4, <1>5

LEMMA LanesByPush ==
  ASSUME QueueInv, UNCHANGED gatewayVars, NEW c \in Channels, PushToRank(c)
  PROVE  QueuesOfCalls' /\ Lanes' /\ HeldInLane'
<1>1. Typed /\ PublisherTypeOK /\ c \in Workers BY NcclTypeParts, RankFacts DEF QueueInv, RanksOK
<1>2. QueuesOfCalls' BY <1>1, QueuesKeptByPush DEF QueueInv, PushToRank
<1>3. ASSUME NEW w \in Workers PROVE Lane(chan[w], w)' /\ Lane(inbox[w], w)'
  <2>1. /\ chan[w] \in Seq(TaskMessage) /\ Lane(chan[w], w)
        /\ inbox[w] \in Seq(TaskMessage) /\ Lane(inbox[w], w)
    BY PendingTyped DEF QueueInv, Lanes
  <2>2. CASE w # c
    BY <1>1, <2>1, <2>2, RankFacts
    DEF Push, PushToRank, Lane, Typed, CommonTypeOK, PublisherTypeOK
  <2>3. CASE w = c
    <3>1. /\ chan[w] # <<>> /\ chan'[w] = Tail(chan[w])
          /\ inbox'[w] = Append(inbox[w], Head(chan[w]))
      BY <1>1, <2>3, RankFacts DEF Push, PushToRank, Typed, CommonTypeOK, PublisherTypeOK
    <3>2. PICK h \in TaskMessage : h = Head(chan[w]) /\ h.slice = w
      BY <2>1, <3>1, HeadTailProperties DEF Lane
    <3>3. Lane(Tail(chan[w]), w) BY <2>1, <3>1 DEF Lane
    <3>4. Lane(Append(inbox[w], h), w) BY <2>1, <3>2 DEF Lane
    <3> QED BY <3>1, <3>2, <3>3, <3>4 DEF Lane
  <2> QED BY <2>2, <2>3
<1>4. HeldInLane' BY DEF PushToRank, QueueInv, HeldInLane, gatewayVars, Submitted, Job
<1> QED BY <1>2, <1>3, <1>4 DEF Lanes

LEMMA LanesByReceive ==
  ASSUME QueueInv, UNCHANGED gatewayVars, NEW v \in Workers, Receive(v)
  PROVE  /\ QueuesOfCalls' /\ Lanes' /\ HeldInLane'
         /\ Serial => Parses(Head(inbox[v]))
<1>1. Typed /\ PublisherTypeOK BY NcclTypeParts DEF QueueInv, RanksOK
<1>2. chan' = chan /\ inbox' = [inbox EXCEPT ![v] = Tail(@)] /\ inbox[v] # <<>>
  BY DEF Receive, sharedVars
<1>3. QueuesOfCalls' BY <1>1, <1>2, QueuesKeptByTaking DEF QueueInv
<1>4. inbox[v] \in Seq(TaskMessage) /\ Lane(inbox[v], v) /\ OfCalls(inbox[v])
  BY PendingTyped DEF QueueInv, Lanes, QueuesOfCalls
<1>5. PICK h \in TaskMessage :
        h = Head(inbox[v]) /\ h.slice = v /\ Submitted(h.job, h.vec)
  BY <1>2, <1>4, HeadTailProperties, OfCallsTail DEF Lane
<1>6. Lane(Tail(inbox[v]), v) BY <1>2, <1>4 DEF Lane
<1>7. Lanes'
  BY <1>1, <1>2, <1>6 DEF PublisherTypeOK, Lanes, Lane, QueueInv
<1>8. Submitted(h.job, h.vec)' BY <1>5 DEF gatewayVars, Submitted, Job
<1>9. \/ UNCHANGED <<stage, msg>>
      \/ stage' = [stage EXCEPT ![v] = "reduce"] /\ msg' = [msg EXCEPT ![v] = h]
  BY <1>5 DEF Receive, At
<1>10. HeldInLane'
  BY <1>5, <1>8, <1>9
  DEF HeldInLane, QueueInv, gatewayVars, Submitted, Job, RanksOK, TypeOK, RanksTypeOK
<1>11. Serial => Parses(h) BY <1>5 DEF Serial, AllFinite, Submitted, Parses
<1> QED BY <1>3, <1>5, <1>7, <1>10, <1>11

(* The steps of the ranks that take nothing from a queue.                  *)
LEMMA LanesByRanks ==
  ASSUME QueueInv, UNCHANGED gatewayVars,
         AllReduce \/ \E w \in Workers : WriteProbs(w) \/ NotifyProbs(w) \/ RankEnds(w)
  PROVE  QueuesOfCalls' /\ Lanes' /\ HeldInLane'
<1>1. Typed /\ PublisherTypeOK BY NcclTypeParts DEF QueueInv, RanksOK
<1>2. CASE AllReduce
  <2>1. chan' = chan /\ inbox' = inbox /\ msg' = msg /\ \A w \in Workers : stage[w] = "reduce"
    BY <1>2 DEF AllReduce, sharedVars
  <2>2. \A j, v : Submitted(j, v)' <=> Submitted(j, v) BY DEF gatewayVars, Submitted, Job
  <2>3. QueuesOfCalls' BY <2>1, <2>2 DEF QueueInv, QueuesOfCalls, OfCalls
  <2>4. Lanes' BY <2>1 DEF QueueInv, Lanes, Lane
  <2>5. HeldInLane' BY <2>1, <2>2 DEF QueueInv, HeldInLane
  <2> QED BY <2>3, <2>4, <2>5
<1>3. ASSUME NEW w \in Workers, WriteProbs(w) \/ NotifyProbs(w) \/ RankEnds(w)
      PROVE  QueuesOfCalls' /\ Lanes' /\ HeldInLane'
  <2>1. /\ chan' = chan /\ (inbox' = inbox \/ inbox' = [inbox EXCEPT ![w] = <<>>])
        /\ \/ stage[w] = "set" /\ stage' = [stage EXCEPT ![w] = "notify"] /\ msg' = msg
           \/ \E label \in {"recv", "exited"} :
                /\ stage' = [stage EXCEPT ![w] = label]
                /\ msg' = [msg EXCEPT ![w] = Nil]
    BY <1>3
    DEF WriteProbs, NotifyProbs, RankEnds, WriteProbsFails, NotifyProbsFails, RankFails, At, Done,
        Exit
  <2>2. QueuesOfCalls' BY <1>1, <2>1, QueuesKeptByTaking DEF QueueInv
  <2>3. Lanes' BY <1>1, <2>1 DEF QueueInv, Lanes, Lane, PublisherTypeOK
  <2>4. HeldInLane'
    BY <2>1 DEF HeldInLane, QueueInv, gatewayVars, Submitted, Job, RanksOK, TypeOK, RanksTypeOK
  <2> QED BY <2>2, <2>3, <2>4
<1> QED BY <1>2, <1>3

-----------------------------------------------------------------------------
(* All ranks see all jobs in one order.                                    *)

LEMMA OrderByGateway ==
  ASSUME QueueInv, GatewayNext, UNCHANGED rankVars, Track, Serial, Serial'
  PROVE  \E order \in Seq(Labels) : Aligned(order)'
<1>1. PICK order \in Seq(Labels) : Aligned(order) BY DEF QueueInv
<1>2. Typed /\ RanksOK BY NcclTypeParts DEF QueueInv, RanksOK
<1>3. ASSUME NEW r \in Requests, PublishSlice(r)
      PROVE  \E next \in Seq(Labels) : Aligned(next)'
  BY <1>1, <1>2, <1>3, AlignedByPublish DEF QueueInv, Serial
<1>4. CASE SameDispatch /\ chan' = chan
  <2>1. \A w \in Workers : (Live(w)' <=> Live(w)) /\ Pending(w)' = Pending(w)
    BY <1>4 DEF rankVars, Live, Pending, InHand
  <2> QED BY <1>1, <1>4, <2>1, AlignedKept
<1> QED BY <1>2, <1>3, <1>4, DispatchMoves

LEMMA OrderByRanks ==
  ASSUME NothingLost, QueueInv, RanksNext, UNCHANGED gatewayVars, Serial
  PROVE  \E order \in Seq(Labels) : Aligned(order)'
<1>1. PICK order \in Seq(Labels) : Aligned(order) BY DEF QueueInv, Serial
<1>2. RanksOK /\ ~Overlapping BY DEF QueueInv, Serial
<1>3. SameDispatch BY DEF SameDispatch, gatewayVars, Dispatching
<1>4. ASSUME \A w \in Workers : Live(w)' => Live(w) /\ Pending(w)' = Pending(w)
      PROVE  Aligned(order)'
  BY <1>1, <1>3, <1>4, AlignedKept
<1>5. ASSUME NEW c \in Channels, PushRankStep(c) PROVE Aligned(order)'
  <2>1. PushToRank(c) /\ c \in Workers
    BY <1>5, RankFacts DEF PushRankStep, PushToRankFails, PushFails, Fault, NothingLost
  <2>2. \A w \in Workers : Pending(w)' = Pending(w)
    BY <1>2, <2>1, PushKeepsPending DEF PushToRank
  <2> QED BY <1>4, <2>1, <2>2 DEF PushToRank, Live
<1>6. ASSUME NEW v \in Workers, Receive(v) PROVE Aligned(order)'
  <2>1. Parses(Head(inbox[v])) BY <1>6, LanesByReceive
  <2>2. \A w \in Workers : Pending(w)' = Pending(w) BY <1>2, <1>6, <2>1, ReceiveKeepsPending
  <2>3. \A w \in Workers : Live(w)' => Live(w)
    BY <1>2, <1>6 DEF Receive, At, Live, RanksOK, TypeOK, RanksTypeOK
  <2> QED BY <1>4, <2>2, <2>3
<1>7. CASE AllReduce
  <2>1. order # <<>> /\ Aligned(Tail(order))' BY <1>1, <1>2, <1>7, AlignedByReduce
  <2>2. Tail(order) \in Seq(Labels) BY <2>1, HeadTailProperties
  <2> QED BY <2>1, <2>2
<1>8. ASSUME NEW v \in Workers, WriteProbs(v) \/ NotifyProbs(v) \/ RankEnds(v)
      PROVE  Aligned(order)'
  <2>1. /\ chan' = chan
        /\ msg' = msg \/ msg' = [msg EXCEPT ![v] = Nil]
        /\ \/ /\ inbox' = inbox /\ stage[v] \in {"set", "notify"}
              /\ \E label \in {"notify", "recv"} : stage' = [stage EXCEPT ![v] = label]
           \/ /\ stage' = [stage EXCEPT ![v] = "exited"]
              /\ inbox' = [inbox EXCEPT ![v] = <<>>]
    BY <1>8
    DEF WriteProbs, NotifyProbs, RankEnds, WriteProbsFails, NotifyProbsFails, RankFails, At, Done,
        Exit
  <2>2. ASSUME NEW w \in Workers, Live(w)' PROVE Live(w) /\ Pending(w)' = Pending(w)
    <3>1. /\ inbox \in [Workers -> Seq(TaskMessage)]
          /\ DOMAIN stage = Workers /\ DOMAIN msg = Workers
      BY <1>2 DEF RanksOK, TypeOK, RanksTypeOK, PublisherTypeOK
    <3>2. CASE w # v
      <4>1. chan'[w] = chan[w] /\ inbox'[w] = inbox[w] /\ stage'[w] = stage[w] /\ msg'[w] = msg[w]
        BY <2>1, <3>1, <3>2
      <4>2. InHand(w)' = InHand(w) /\ Live(w) BY <2>2, <4>1 DEF InHand, Live
      <4> QED BY <4>1, <4>2 DEF Pending
    <3>3. CASE w = v
      <4>1. /\ inbox' = inbox /\ stage[v] \in {"set", "notify"}
            /\ stage'[v] \in {"notify", "recv"}
        BY <2>1, <2>2, <3>1, <3>3 DEF Live
      <4>2. InHand(w) = <<>> /\ InHand(w)' = <<>> BY <3>3, <4>1 DEF InHand
      <4> QED BY <2>1, <3>3, <4>1, <4>2 DEF Live, Pending
    <3> QED BY <3>2, <3>3
  <2> QED BY <1>4, <2>2
<1> QED BY <1>1, <1>5, <1>6, <1>7, <1>8 DEF RanksNext, RanksRun, RankStep

LEMMA QueueInit == Init => QueueInv
<1> SUFFICES ASSUME Init PROVE QueueInv OBVIOUS
<1>1. RanksOK /\ QueuesOfCalls BY RanksTypeInit, QueuesInit DEF Init, RanksInit
<1>2. Lanes /\ HeldInLane
  BY RankFacts DEF Init, CommonInit, RanksInit, PublisherInit, Lanes, Lane, HeldInLane
<1>3. \A r \in Requests : ~Dispatching(r) BY DEF Init, GatewayInit, Dispatching
<1>4. <<>> \in Seq(Labels) /\ Len(<<>>) = 0 BY EmptySeq
<1>5. ASSUME NEW w \in Workers PROVE Follows(w, <<>>)
  <2>1. InHand(w) = <<>> /\ inbox[w] = <<>> /\ chan[w] = <<>>
    BY RankFacts DEF Init, RanksInit, PublisherInit, CommonInit, InHand
  <2>2. Pending(w) = <<>> BY <2>1, EmptySeq, ConcatEmptySeq DEF Pending
  <2> QED BY <1>3, <1>4, <2>2 DEF Follows, Served
<1> QED BY <1>1, <1>2, <1>3, <1>4, <1>5 DEF QueueInv, Overlapping, Aligned

LEMMA QueueStep == NothingLost /\ QueueInv /\ [Next]_vars => QueueInv'
<1> SUFFICES ASSUME NothingLost, QueueInv, [Next]_vars PROVE QueueInv' OBVIOUS
<1>1. RanksOK' BY RanksTypeStep DEF QueueInv
<1>2. CASE UNCHANGED vars
  <2>1. /\ \A j, v : Submitted(j, v)' <=> Submitted(j, v)
        /\ (Overlapping' <=> Overlapping) /\ (Serial' <=> Serial) /\ overlap' = overlap
    BY <1>2
    DEF vars, gatewayVars, Submitted, Job, Overlapping, Dispatching, Serial, AllFinite
  <2>2. QueuesOfCalls' /\ Lanes' /\ HeldInLane'
    BY <1>2, <2>1
    DEF vars, sharedVars, rankVars, QueueInv, QueuesOfCalls, OfCalls, Lanes, Lane, HeldInLane
  <2>3. SameDispatch /\ \A w \in Workers : (Live(w)' <=> Live(w)) /\ Pending(w)' = Pending(w)
    BY <1>2
    DEF vars, sharedVars, gatewayVars, rankVars, SameDispatch, Dispatching, Live, Pending, InHand
  <2>4. Serial => \E order \in Seq(Labels) : Aligned(order)'
    BY <2>3, AlignedKept DEF QueueInv
  <2> QED BY <1>1, <2>1, <2>2, <2>4 DEF QueueInv
<1>3. ASSUME Track, (GatewayNext /\ UNCHANGED rankVars) \/ (RanksNext /\ UNCHANGED gatewayVars)
      PROVE  QueueInv'
  <2>1. QueuesOfCalls' /\ Lanes' /\ HeldInLane'
    <3>1. \A c \in Channels : PushRankStep(c) => PushToRank(c)
      BY DEF PushRankStep, PushToRankFails, PushFails, Fault, NothingLost
    <3> QED BY <1>3, <3>1, LanesByGateway, LanesByPush, LanesByReceive, LanesByRanks
            DEF RanksNext, RanksRun, RankStep
  <2>2. Overlapping' => overlap' BY <1>3 DEF Track
  <2>3. Serial' => Serial
    <3>1. Typed /\ GatewayMoves BY <1>3, NcclTypeParts DEF GatewayMoves, QueueInv, RanksOK
    <3>2. \A q \in Requests : pc[q] # "idle" => pc'[q] # "idle" /\ args'[q] = args[q]
      BY <3>1, CallsPersist
    <3> QED BY <1>3, <3>2 DEF Serial, AllFinite, Track
  <2>4. Serial' => \E order \in Seq(Labels) : Aligned(order)'
    BY <1>3, <2>3, OrderByGateway, OrderByRanks
  <2> QED BY <1>1, <2>1, <2>2, <2>4 DEF QueueInv
<1>4. ~GatewayRestart BY DEF GatewayRestart, Fault, NothingLost
<1> QED BY <1>2, <1>3, <1>4 DEF Next

(* Two ranks that wait in a collective hold the first messages of their    *)
(* queues, and those are of one job.                                       *)
LEMMA AlignedAgrees ==
  ASSUME RanksOK, ~Overlapping, NEW order \in Seq(Labels), Aligned(order)
  PROVE  RanksAgree
<1> SUFFICES ASSUME NEW v \in Workers, NEW w \in Workers,
                    stage[v] = "reduce", stage[w] = "reduce"
             PROVE  msg[v].job = msg[w].job /\ msg[v].vec = msg[w].vec
  BY DEF RanksAgree
<1>1. ASSUME NEW u \in Workers, stage[u] = "reduce"
      PROVE  /\ Len(Pending(u)) \in Nat /\ Len(Pending(u)) # 0 /\ Pending(u)[1] = msg[u]
             /\ Follows(u, order)
  <2>1. PICK m \in TaskMessage : m = msg[u] BY <1>1 DEF RanksOK, RanksBusy
  <2>2. PICK b \in Seq(TaskMessage), d \in Seq(TaskMessage) : b = inbox[u] /\ d = chan[u]
    BY PendingTyped
  <2>3. Pending(u) = (<<m>> \o b) \o d BY <1>1, <2>1, <2>2 DEF Pending, InHand
  <2>4. Pending(u) # <<>> /\ Pending(u)[1] = m BY <2>3, ConcatTail
  <2>5. Pending(u) \in Seq(TaskMessage) BY PendingTyped
  <2> QED BY <1>1, <2>1, <2>4, <2>5, EmptySeq DEF Aligned, Live
<1>2. Label(msg[v]) = Label(msg[w])
  <2>1. Len(order) \in Nat OBVIOUS
  <2>2. CASE Len(order) # 0
    <3>1. 1 \in 1 .. Len(order) BY <2>1, <2>2
    <3> QED BY <1>1, <3>1 DEF Follows
  <2>3. CASE Len(order) = 0
    <3>1. PICK q \in Requests : Served(q, v) BY <1>1, <2>3 DEF Follows
    <3>2. PICK r \in Requests : Served(r, w) BY <1>1, <2>3 DEF Follows
    <3>3. q = r BY <3>1, <3>2 DEF Overlapping, Served
    <3> QED BY <1>1, <2>3, <3>1, <3>2, <3>3 DEF Follows
  <2> QED BY <2>2, <2>3
<1> QED BY <1>2 DEF Label

(* worker-rs/src/main.rs 162-163: the per-rank sockets give all ranks the  *)
(* same order of jobs.  Whatever ranks fail, whatever calls are cancelled  *)
(* or time out: if no slice is lost on the way and the gateway stays up,   *)
(* dispatch loops that do not overlap never let two ranks meet in a        *)
(* collective with slices of different vectors.                            *)
THEOREM SerialDispatchIsOrdered ==
  ASSUME NothingLost
  PROVE  Spec => []SerialDispatchAgrees
<1>1. QueueInv => SerialDispatchAgrees
  BY AlignedAgrees DEF QueueInv, SerialDispatchAgrees, Serial
<1>2. QueueInv /\ [Next]_vars => QueueInv' BY QueueStep
<1> QED BY <1>1, <1>2, QueueInit, PTL DEF Spec

-----------------------------------------------------------------------------
(* What the collective computes, what Redis stores and what a call reads.  *)

(* What a rank is about to write: its slice, normalised over all slices of *)
(* the same vector.                                                        *)
ProbsOwn ==
  \A w \in Workers : stage[w] \in {"set", "notify"} =>
    probs[w] = SliceStat("0x02", msg[w].vec, w)

ResultInv ==
  /\ QueueInv /\ StatsShape
  /\ Serial => ProbsOwn /\ StoredOrigin("0x02") /\ HeldOrigin("0x02")

LEMMA ReducedOwn ==
  ASSUME QueueInv, Serial, AllReduce
  PROVE  ProbsOwn'
<1>1. RanksAgree
  <2>1. PICK order \in Seq(Labels) : Aligned(order) BY DEF QueueInv
  <2> QED BY <2>1, AlignedAgrees DEF QueueInv, Serial
<1>2. \A w \in Workers : stage[w] = "reduce" /\ msg[w].slice = w
  BY DEF AllReduce, QueueInv, HeldInLane
<1> SUFFICES ASSUME NEW u \in Workers PROVE probs'[u] = SliceStat("0x02", msg'[u].vec, u)
  BY DEF ProbsOwn
<1> DEFINE peers == { <<msg[w].vec, msg[w].slice>> : w \in Workers }
<1>3. \A w \in Workers : msg[w].vec = msg[u].vec BY <1>1, <1>2 DEF RanksAgree
<1>4. peers = {msg[u].vec} \X SliceIds BY <1>2, <1>3, RankFacts
<1>5. probs'[u] = Normalized(msg[u], peers) /\ msg' = msg BY DEF AllReduce
<1> HIDE DEF peers
<1> QED BY <1>2, <1>4, <1>5 DEF Normalized, SliceStat

LEMMA ProbsOwnKept ==
  ASSUME QueueInv, Serial, ProbsOwn, RanksNext
  PROVE  ProbsOwn'
<1> USE DEF RanksOK, TypeOK, RanksTypeOK
<1>1. CASE AllReduce BY <1>1, ReducedOwn
<1>2. CASE \E c \in Channels : PushRankStep(c)
  BY <1>2 DEF PushRankStep, PushToRank, PushToRankFails, ProbsOwn
<1>3. ASSUME NEW v \in Workers, Receive(v) PROVE ProbsOwn'
  BY <1>3 DEF Receive, At, ProbsOwn, QueueInv
<1>4. ASSUME NEW v \in Workers, WriteProbs(v) \/ NotifyProbs(v) \/ RankEnds(v) PROVE ProbsOwn'
  BY <1>4
  DEF WriteProbs, NotifyProbs, RankEnds, WriteProbsFails, NotifyProbsFails, RankFails, At, Done,
      Exit, ProbsOwn, QueueInv
<1> QED BY <1>1, <1>2, <1>3, <1>4 DEF RanksNext, RanksRun, RankStep

(* A rank writes nothing but its own slice of a submitted vector.          *)
LEMMA RankStores ==
  ASSUME QueueInv, ProbsOwn, RanksNext
  PROVE  store' = store \/ SlicePut("0x02")
<1>1. ASSUME NEW w \in Workers, stage[w] = "set", SetProbs(w) PROVE SlicePut("0x02")
  <2>1. /\ msg[w] \in TaskMessage /\ msg[w].slice = w /\ Submitted(msg[w].job, msg[w].vec)
        /\ probs[w] = SliceStat("0x02", msg[w].vec, w)
    BY <1>1 DEF QueueInv, RanksOK, RanksBusy, HeldInLane, ProbsOwn
  <2>2. msg[w].job \in JobIds /\ msg[w].vec \in Vectors /\ w \in SliceIds
    BY <2>1, RankFacts DEF TaskMessage
  <2> QED BY <1>1, <2>1, <2>2 DEF SetProbs, SlicePut
<1>2. ASSUME NEW w \in Workers, RankStep(w) \/ RankEnds(w)
      PROVE  store' = store \/ (stage[w] = "set" /\ SetProbs(w))
  BY <1>2 DEF RankStep, RankEnds, Receive, WriteProbs, NotifyProbs, WriteProbsFails,
     NotifyProbsFails, RankFails, sharedVars
<1> QED BY <1>1, <1>2 DEF RanksNext, RanksRun, PushRankStep, PushToRank, PushToRankFails, Push,
        PushFails, AllReduce, sharedVars

LEMMA ResultInit == Init => ResultInv
<1> SUFFICES ASSUME Init PROVE ResultInv OBVIOUS
<1>1. ProbsOwn BY DEF Init, RanksInit, ProbsOwn
<1> QED BY <1>1, QueueInit, OriginsInit DEF Init, ResultInv

LEMMA ResultStep == NothingLost /\ ResultInv /\ [Next]_vars => ResultInv'
<1> SUFFICES ASSUME NothingLost, ResultInv, [Next]_vars PROVE ResultInv' OBVIOUS
<1>1. QueueInv /\ QueueInv' BY QueueStep DEF ResultInv
<1>2. Typed /\ Typed' BY <1>1 DEF QueueInv, RanksOK, TypeOK, Typed
<1>3. GatewayMoves
  <2>1. UNCHANGED vars => UNCHANGED gatewayVars BY DEF vars
  <2> QED BY <2>1 DEF GatewayMoves, Next
<1>4. StatsShape' BY <1>2, <1>3, StatsShapeStep DEF ResultInv
<1>5. Serial' => Serial
  <2>1. \A q \in Requests : pc[q] # "idle" => pc'[q] # "idle" /\ args'[q] = args[q]
    BY <1>2, <1>3, CallsPersist
  <2>2. overlap => overlap' BY DEF Next, Track, vars
  <2> QED BY <2>1, <2>2 DEF Serial, AllFinite
<1>6. ASSUME Serial PROVE ProbsOwn' /\ (store' = store \/ ResultWritten \/ SlicePut("0x02"))
  <2>1. ProbsOwn BY <1>6 DEF ResultInv
  <2>2. CASE RanksNext BY <1>1, <1>6, <2>1, <2>2, ProbsOwnKept, RankStores
  <2>3. CASE GatewayNext /\ UNCHANGED rankVars
    BY <2>1, <2>3, StoreMoves DEF rankVars, ProbsOwn
  <2>4. CASE UNCHANGED vars BY <2>1, <2>4 DEF vars, sharedVars, rankVars, ProbsOwn
  <2>5. ~GatewayRestart BY DEF GatewayRestart, Fault, NothingLost
  <2> QED BY <2>2, <2>3, <2>4, <2>5 DEF Next
<1>7. Serial => StoredOrigin("0x02")' /\ HeldOrigin("0x02")'
  BY <1>2, <1>3, <1>6, StoredKept, HeldKept DEF ResultInv
<1> QED BY <1>1, <1>4, <1>5, <1>6, <1>7 DEF ResultInv

(* The reply of submit_task when the ranks normalise: under the same       *)
(* conditions every OK reply is made of the slices of the call's own       *)
(* vector, each divided by the sum over all the slices of that vector.     *)
THEOREM NcclRepliesAreOwnSoftmax ==
  ASSUME NothingLost
  PROVE  Spec => []NcclOkIsOwnSoftmax
<1>1. ResultInv => NcclOkIsOwnSoftmax
  <2> SUFFICES ASSUME ResultInv, Serial, NEW r \in Requests, pc[r] = "ok",
                      \A q \in Requests : pc[q] # "idle" /\ Job(q) = Job(r)
                                            => args[q].vec = args[r].vec
               PROVE  stats[r] = NcclSoftmax(args[r].vec)
    BY DEF NcclOkIsOwnSoftmax, Serial
  <2>1. Typed BY NcclTypeParts DEF ResultInv, QueueInv, RanksOK
  <2>2. HeldOrigin("0x02") /\ StatsShape /\ Whole(r) /\ Holding(r)
    BY DEF ResultInv, Whole, Holding
  <2>3. Slices(r) = SliceIds BY RankFacts DEF Slices, SliceIds, TotalSlices, MaxSlices
  <2>4. \A i \in SliceIds : stats[r][i] # Nil BY <2>2, <2>3 DEF StatsShape, Missing
  <2>5. ASSUME NEW i \in SliceIds PROVE stats[r][i] = NcclSoftmax(args[r].vec)[i]
    <3>1. PICK v \in Vectors : Submitted(Job(r), v) /\ stats[r][i] = SliceStat("0x02", v, i)
      BY <2>2, <2>4 DEF HeldOrigin, SliceOf
    <3>2. v = args[r].vec BY <3>1 DEF Submitted
    <3> QED BY <3>1, <3>2 DEF NcclSoftmax, Normalized, SliceStat
  <2>6. stats[r] \in [SliceIds -> {Nil} \cup SliceStats]
    BY <2>1 DEF Typed, GatewayTypeOK, StatsVectors
  <2>7. DOMAIN NcclSoftmax(args[r].vec) = SliceIds BY DEF NcclSoftmax
  <2> QED BY <2>5, <2>6, <2>7 DEF NcclSoftmax
<1>2. ResultInv /\ [Next]_vars => ResultInv' BY ResultStep
<1> QED BY <1>1, <1>2, ResultInit, PTL DEF Spec
=============================================================================
