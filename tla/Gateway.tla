------------------------------- MODULE Gateway -------------------------------
(***************************************************************************)
(* The Rust gateway: the SubmitTask handler (service.rs), the aggregation  *)
(* loop it runs (aggregator.rs), the pub/sub subscriber (slice_notifier.rs)*)
(* and the writes it makes to Redis (redis_manager.rs).                    *)
(*                                                                         *)
(* Every SubmitTask call is a tokio task of its own.  An action is the     *)
(* stretch of code between two awaits, so the calls interleave exactly     *)
(* where the executor can switch between them; the synchronous stretch     *)
(* that dispatches the slices is split further because several executor    *)
(* threads run at once.                                                    *)
(***************************************************************************)
EXTENDS Common

VARIABLES
  pc,        (* where each SubmitTask call is                              *)
  args,      (* its request                                                *)
  sent,      (* number of slices it has published                          *)
  stats,     (* the slices it has read so far                              *)
  unread,    (* slices that its current pass over Redis still has to read  *)
  dirty,     (* its watch::Receiver has a count it has not seen            *)
  expired,   (* its deadline has passed                                    *)
  jobs       (* DashMap job id -> call that holds the receiver, or Nil     *)

gatewayVars == <<pc, args, sent, stats, unread, dirty, expired, jobs>>

Job(r) == args[r].job

VecLen(r) == args[r].vec.len

Slices(r) == 0 .. (TotalSlices(VecLen(r)) - 1)

Missing(r) == { i \in Slices(r) : stats[r][i] = Nil }

Collecting(r) == pc[r] \in {"scan", "wait"}

Answered(r) == pc[r] \in {"ok", "invalid", "failed", "cancelled"}

(* service.rs: the early returns of submit_task.                           *)
Valid(a) ==
  /\ a.task = "softmax"
  /\ a.vec.len > 0
  /\ NcclDispatch => a.vec.len >= WorldSize

Goto(r, label) == pc' = [pc EXCEPT ![r] = label]

-----------------------------------------------------------------------------
(* A Redis command awaited by call r ends in one of four ways: it succeeds;*)
(* it fails with or without having been applied; the client disconnects    *)
(* and tonic drops the handler, again with or without the effect.  `write' *)
(* is the effect, `skip' its absence, `next' the label after success.      *)

AwaitWrite(r, write, skip, next) ==
  \/ write /\ Goto(r, next) /\ UNCHANGED faults
  \/ Fault("redis_write") /\ (write \/ skip) /\ Goto(r, "failed")
  \/ Fault("cancel") /\ (write \/ skip) /\ Goto(r, "cancelled")

SubmitTask(r, a) ==
  /\ pc[r] = "idle"
  /\ args' = [args EXCEPT ![r] = a]
  /\ Goto(r, IF Valid(a) THEN "metadata" ELSE "invalid")
  /\ UNCHANGED <<sharedVars, sent, stats, unread, dirty, expired, jobs>>

(* Mutant: a new submission drops the result of the previous one.          *)
SetJobMetadata_DropResult(r) ==
  /\ pc[r] = "metadata"
  /\ AwaitWrite(r, /\ metadata' = [metadata EXCEPT ![Job(r)] = TotalSlices(VecLen(r))]
                   /\ store' = [store EXCEPT ![ResultKey(Job(r))] = Nil],
                   UNCHANGED <<metadata, store>>, "publish")
  /\ UNCHANGED <<progress, bus, subscribed, chan, missed,
                 args, sent, stats, unread, dirty, expired, jobs>>

SetJobMetadata(r) ==
  /\ pc[r] = "metadata"
  /\ AwaitWrite(r, metadata' = [metadata EXCEPT ![Job(r)] = TotalSlices(VecLen(r))],
                   UNCHANGED metadata, "publish")
  /\ UNCHANGED <<store, progress, bus, subscribed, chan, missed,
                 args, sent, stats, unread, dirty, expired, jobs>>

(* Mutant: try_send, which drops the slice when the channel is full.       *)
PublishSlice_TrySend(r) ==
  LET slice == sent[r]
      c     == IF NcclDispatch THEN slice ELSE 0
  IN /\ pc[r] = "publish"
     /\ chan' = IF Len(chan[c]) < ChanCap
                  THEN [chan EXCEPT ![c] =
                         Append(@, [job |-> Job(r), slice |-> slice, vec |-> args[r].vec])]
                  ELSE chan
     /\ sent' = [sent EXCEPT ![r] = slice + 1]
     /\ Goto(r, IF slice + 1 = TotalSlices(VecLen(r)) THEN "register" ELSE "publish")
     /\ UNCHANGED <<store, metadata, progress, bus, subscribed, missed, faults,
                    args, stats, unread, dirty, expired, jobs>>

(* publisher.publish: SyncSender::send blocks the thread while the channel *)
(* is full.  It would return an error only if the push thread had ended,   *)
(* and that thread's loop has no exit.                                     *)
PublishSlice(r) ==
  LET slice == sent[r]
      c     == IF NcclDispatch THEN slice ELSE 0
  IN /\ pc[r] = "publish"
     /\ Len(chan[c]) < ChanCap
     /\ chan' = [chan EXCEPT ![c] =
                   Append(@, [job |-> Job(r), slice |-> slice, vec |-> args[r].vec])]
     /\ sent' = [sent EXCEPT ![r] = slice + 1]
     /\ Goto(r, IF slice + 1 = TotalSlices(VecLen(r)) THEN "register" ELSE "publish")
     /\ UNCHANGED <<store, metadata, progress, bus, subscribed, missed, faults,
                    args, stats, unread, dirty, expired, jobs>>

(* Mutant: wait for a notification before the first read.                  *)
RegisterJob_NoFirstRead(r) ==
  /\ pc[r] = "register"
  /\ jobs' = [jobs EXCEPT ![Job(r)] = r]
  /\ dirty' = [dirty EXCEPT ![r] = FALSE]
  /\ Goto(r, "wait")
  /\ UNCHANGED <<sharedVars, args, sent, stats, unread, expired>>

(* wait_for_all_slices up to its first read.  Inserting into the map drops *)
(* the sender of an earlier registration under the same job id.            *)
RegisterJob(r) ==
  /\ pc[r] = "register"
  /\ jobs' = [jobs EXCEPT ![Job(r)] = r]
  /\ dirty' = [dirty EXCEPT ![r] = FALSE]
  /\ stats' = [stats EXCEPT ![r] = NoStats]
  /\ unread' = [unread EXCEPT ![r] = Slices(r)]
  /\ Goto(r, "scan")
  /\ UNCHANGED <<sharedVars, args, sent, expired>>

(* One read_slice of the pass, in the order of the slice ids.  An error is *)
(* treated like an absent slice.                                           *)
NextRead(r, i) == i \in unread[r] /\ \A k \in unread[r] : i <= k

ReadSlice(r, i) ==
  LET value == store[SliceKey(Job(r), i)]
  IN /\ pc[r] = "scan"
     /\ NextRead(r, i)
     /\ unread' = [unread EXCEPT ![r] = @ \ {i}]
     /\ stats' = IF Readable(value) THEN [stats EXCEPT ![r][i] = value] ELSE stats
     /\ UNCHANGED <<sharedVars, pc, args, sent, dirty, expired, jobs>>

ReadSliceFails(r, i) ==
  /\ pc[r] = "scan"
  /\ NextRead(r, i)
  /\ Fault("redis_read")
  /\ unread' = [unread EXCEPT ![r] = @ \ {i}]
  /\ missed' = missed \cup {Job(r)}
  /\ UNCHANGED <<store, metadata, progress, bus, subscribed, chan,
                 pc, args, sent, stats, dirty, expired, jobs>>

(* The end of a pass: everything is there, or the deadline has passed, or  *)
(* the call parks in timeout(step, rx.changed()).                          *)
EndOfPass(r) == pc[r] = "scan" /\ unread[r] = {}

UnregisterJob(r) == jobs' = [jobs EXCEPT ![Job(r)] = Nil]

(* The receiver and the deadline go out of scope.                          *)
LeaveWait(r) ==
  /\ dirty' = [dirty EXCEPT ![r] = FALSE]
  /\ expired' = [expired EXCEPT ![r] = FALSE]

(* Mutant: one slice counts for all of them.                               *)
Collected_Early(r) ==
  /\ EndOfPass(r)
  /\ Missing(r) # Slices(r)
  /\ UnregisterJob(r)
  /\ LeaveWait(r)
  /\ Goto(r, "store")
  /\ UNCHANGED <<sharedVars, args, sent, stats, unread>>

Collected(r) ==
  /\ EndOfPass(r)
  /\ Missing(r) = {}
  /\ UnregisterJob(r)
  /\ LeaveWait(r)
  /\ Goto(r, "store")
  /\ UNCHANGED <<sharedVars, args, sent, stats, unread>>

(* Mutant: the error return skips unregister_job.                          *)
TimedOut_NoUnregister(r) ==
  /\ EndOfPass(r)
  /\ Missing(r) # {}
  /\ expired[r]
  /\ LeaveWait(r)
  /\ stats' = [stats EXCEPT ![r] = NoStats]
  /\ Goto(r, "failed")
  /\ UNCHANGED <<sharedVars, args, sent, unread, jobs>>

(* Mutant: at the deadline, aggregate what there is.                       *)
TimedOut_Partial(r) ==
  /\ EndOfPass(r)
  /\ Missing(r) # {}
  /\ expired[r]
  /\ UnregisterJob(r)
  /\ LeaveWait(r)
  /\ Goto(r, "store")
  /\ UNCHANGED <<sharedVars, args, sent, stats, unread>>

TimedOut(r) ==
  /\ EndOfPass(r)
  /\ Missing(r) # {}
  /\ expired[r]
  /\ UnregisterJob(r)
  /\ LeaveWait(r)
  /\ stats' = [stats EXCEPT ![r] = NoStats]
  /\ Goto(r, "failed")
  /\ UNCHANGED <<sharedVars, args, sent, unread>>

(* Mutant: the deadline is not looked at before waiting again.             *)
Park_Forever(r) ==
  /\ EndOfPass(r)
  /\ Missing(r) # {}
  /\ Goto(r, "wait")
  /\ UNCHANGED <<sharedVars, args, sent, stats, unread, dirty, expired, jobs>>

Park(r) ==
  /\ EndOfPass(r)
  /\ Missing(r) # {}
  /\ ~expired[r]
  /\ Goto(r, "wait")
  /\ UNCHANGED <<sharedVars, args, sent, stats, unread, dirty, expired, jobs>>

(* rx.changed() returns: there is an unseen count, or the sender is gone   *)
(* because another call registered or unregistered the same job id.        *)
Woken(r) == dirty[r] \/ jobs[Job(r)] # r

Rescan(r) ==
  /\ pc[r] = "wait"
  /\ dirty' = [dirty EXCEPT ![r] = FALSE]
  /\ unread' = [unread EXCEPT ![r] = Missing(r)]
  /\ Goto(r, "scan")
  /\ UNCHANGED <<sharedVars, args, sent, stats, expired, jobs>>

WakeUp(r) == Rescan(r) /\ Woken(r)

(* Mutant: the timer runs until the deadline instead of 100 ms.            *)
RePoll_AtDeadline(r) == Rescan(r) /\ ~Woken(r) /\ expired[r]

(* The timer of at most 100 ms fires with nothing to see on the receiver.  *)
RePoll(r) == Rescan(r) /\ ~Woken(r)

(* SLICE_TIMEOUT_MS have passed since registration.                        *)
Deadline(r) ==
  /\ Collecting(r)
  /\ ~expired[r]
  /\ expired' = [expired EXCEPT ![r] = TRUE]
  /\ UNCHANGED <<sharedVars, pc, args, sent, stats, unread, dirty, jobs>>

(* aggregate: with a CUDA device the normalisation itself may fail.        *)
AggregateFails(r) ==
  /\ pc[r] = "store"
  /\ Fault("gpu")
  /\ Goto(r, "failed")
  /\ UNCHANGED <<store, metadata, progress, bus, subscribed, chan, missed,
                 args, sent, stats, unread, dirty, expired, jobs>>

(* Mutant: an error of the first SETEX is ignored.                         *)
StoreFinalResult_IgnoreError(r) ==
  /\ pc[r] = "store"
  /\ \/ /\ store' = [store EXCEPT ![ResultKey(Job(r))] =
                       [magic |-> "json", stats |-> stats[r]]]
        /\ UNCHANGED faults
     \/ Fault("redis_write") /\ UNCHANGED store
  /\ Goto(r, "progress")
  /\ UNCHANGED <<metadata, progress, bus, subscribed, chan, missed,
                 args, sent, stats, unread, dirty, expired, jobs>>

(* store_final_result: two SETEX.                                          *)
StoreFinalResult(r) ==
  LET result == [magic |-> "json", stats |-> stats[r]]
  IN /\ pc[r] = "store"
     /\ AwaitWrite(r, store' = [store EXCEPT ![ResultKey(Job(r))] = result],
                      UNCHANGED store, "progress")
     /\ UNCHANGED <<metadata, progress, bus, subscribed, chan, missed,
                    args, sent, stats, unread, dirty, expired, jobs>>

(* update_progress, the second one, and the reply, which is parsed back    *)
(* from the string that the first one stored (service.rs 173-182).         *)
UpdateProgress(r) ==
  /\ pc[r] = "progress"
  /\ AwaitWrite(r, progress' = [progress EXCEPT ![Job(r)] = "completed"],
                   UNCHANGED progress,
                   IF HasNull(stats[r]) THEN "failed" ELSE "ok")
  /\ UNCHANGED <<store, metadata, bus, subscribed, chan, missed,
                 args, sent, stats, unread, dirty, expired, jobs>>

(* The client goes away while the call collects: the future is dropped at  *)
(* its await, and unregister_job is not reached.                           *)
CancelCollecting(r) ==
  /\ Collecting(r)
  /\ Fault("cancel")
  /\ Goto(r, "cancelled")
  /\ LeaveWait(r)
  /\ stats' = [stats EXCEPT ![r] = NoStats]
  /\ unread' = [unread EXCEPT ![r] = {}]
  /\ UNCHANGED <<store, metadata, progress, bus, subscribed, chan, missed,
                 args, sent, jobs>>

-----------------------------------------------------------------------------
(* subscriber_loop, a task of its own.                                     *)

Subscribe ==
  /\ ~subscribed
  /\ subscribed' = TRUE
  /\ UNCHANGED <<store, metadata, progress, bus, chan, missed, faults, gatewayVars>>

DeliverNotification(j) ==
  /\ subscribed
  /\ bus[j] > 0
  /\ bus' = [bus EXCEPT ![j] = @ - 1]
  /\ dirty' = [r \in Requests |-> dirty[r] \/ (jobs[j] = r /\ Collecting(r))]
  /\ UNCHANGED <<store, metadata, progress, subscribed, chan, missed, faults,
                 pc, args, sent, stats, unread, expired, jobs>>

(* The pub/sub stream ends; what was on its way is gone.                   *)
StreamEnds ==
  /\ subscribed
  /\ Fault("pubsub")
  /\ subscribed' = FALSE
  /\ missed' = missed \cup { j \in JobIds : bus[j] > 0 }
  /\ bus' = [j \in JobIds |-> 0]
  /\ UNCHANGED <<store, metadata, progress, chan, gatewayVars>>

-----------------------------------------------------------------------------
GatewayInit ==
  /\ pc = [r \in Requests |-> "idle"]
  /\ args = [r \in Requests |-> Nil]
  /\ sent = [r \in Requests |-> 0]
  /\ stats = [r \in Requests |-> NoStats]
  /\ unread = [r \in Requests |-> {}]
  /\ dirty = [r \in Requests |-> FALSE]
  /\ expired = [r \in Requests |-> FALSE]
  /\ jobs = [j \in JobIds |-> Nil]

(* What the executor does for a call; the clock and the client are apart.  *)
CallStep(r) ==
  \/ SetJobMetadata(r)
  \/ PublishSlice(r)
  \/ RegisterJob(r)
  \/ \E i \in SliceIds : ReadSlice(r, i) \/ ReadSliceFails(r, i)
  \/ Collected(r)
  \/ TimedOut(r)
  \/ Park(r)
  \/ WakeUp(r)
  \/ RePoll(r)
  \/ AggregateFails(r)
  \/ StoreFinalResult(r)
  \/ UpdateProgress(r)

SubscriberStep == Subscribe \/ \E j \in JobIds : DeliverNotification(j)

GatewayNext ==
  \/ \E r \in Requests :
       \/ \E a \in Args : SubmitTask(r, a)
       \/ CallStep(r)
       \/ Deadline(r)
       \/ CancelCollecting(r)
  \/ SubscriberStep
  \/ StreamEnds

CallTypeOK(r) ==
  /\ pc[r] # "idle" => args[r] \in Args
  /\ pc[r] \notin {"idle", "invalid"} => Valid(args[r])
  /\ pc[r] \in {"idle", "metadata"} => sent[r] = 0
  /\ pc[r] = "publish" => sent[r] < TotalSlices(VecLen(r))
  /\ Collecting(r) => unread[r] \subseteq Missing(r)

GatewayTypeOK ==
  /\ pc \in [Requests -> {"idle", "metadata", "publish", "register", "scan", "wait",
                          "store", "progress", "ok", "invalid", "failed", "cancelled"}]
  /\ args \in [Requests -> {Nil} \cup Args]
  /\ sent \in [Requests -> 0 .. MaxSlices]
  /\ stats \in [Requests -> StatsVectors]
  /\ unread \in [Requests -> SUBSET SliceIds]
  /\ dirty \in [Requests -> BOOLEAN]
  /\ expired \in [Requests -> BOOLEAN]
  /\ jobs \in [JobIds -> {Nil} \cup Requests]
  /\ \A r \in Requests : CallTypeOK(r)
=============================================================================
