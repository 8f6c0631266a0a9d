------------------------------- MODULE Worker -------------------------------
(***************************************************************************)
(* The workers that compute one slice at a time and write it to Redis      *)
(* (worker-rs: transport/zmq.rs, handler.rs).                              *)
(***************************************************************************)
EXTENDS Publisher

CONSTANT Permits   (* of a worker's semaphore, NUM_WORKERS of them         *)

VARIABLES
  slots,    (* the task that runs under each permit, or Nil                *)
  up        (* the process runs and its socket is connected                *)

workerVars == <<inbox, slots, up>>

(* A task is about to SET its result ("compute") or about to PUBLISH that  *)
(* it has done so ("notify").                                              *)
Tasks == [stage : {"compute", "notify"}, msg : TaskMessage]

ASSUME TaskAssumption == Nil \notin Tasks

Running(w, p, stage) == slots[w][p] # Nil /\ slots[w][p].stage = stage

SetSlot(w, p, task) == slots' = [slots EXCEPT ![w][p] = task]

(* Jobs whose slice is written but not announced by worker w.              *)
Unannounced(w) ==
  { j \in JobIds : \E p \in Permits : Running(w, p, "notify") /\ slots[w][p].msg.job = j }

-----------------------------------------------------------------------------
(* transport/zmq.rs run and handler.rs handle_task.  A message that does   *)
(* not deserialize, or has no data, gives its permit back at once.         *)

Accepts(msg) == Parses(msg) /\ Positions(msg.vec.len, msg.slice) # {}

StartTask(w, p) ==
  LET msg == Head(inbox[w])
  IN /\ inbox[w] # <<>>
     /\ slots[w][p] = Nil
     /\ inbox' = [inbox EXCEPT ![w] = Tail(@)]
     /\ IF Accepts(msg)
          THEN SetSlot(w, p, [stage |-> "compute", msg |-> msg])
          ELSE UNCHANGED slots
     /\ UNCHANGED <<sharedVars, up>>

ComputeFails(w, p) ==
  /\ Running(w, p, "compute")
  /\ Fault("gpu")
  /\ SetSlot(w, p, Nil)
  /\ UNCHANGED <<store, metadata, progress, bus, subscribed, chan, missed, inbox, up>>

(* compute_partial, encode_partial and the SET of write_result.            *)
PartialStats(msg) ==
  [magic |-> "0x01", vec |-> msg.vec, slice |-> msg.slice, reduced |-> {}]

SetSlice(msg) ==
  store' = [store EXCEPT ![SliceKey(msg.job, msg.slice)] = PartialStats(msg)]

WriteSlice(w, p) ==
  LET msg == slots[w][p].msg
  IN /\ Running(w, p, "compute")
     /\ SetSlice(msg)
     /\ SetSlot(w, p, [stage |-> "notify", msg |-> msg])
     /\ UNCHANGED <<metadata, progress, bus, subscribed, chan, missed, faults, inbox, up>>

(* The SET reports an error, applied or not: write_result stops there.     *)
WriteFails(w, p) ==
  LET msg == slots[w][p].msg
  IN /\ Running(w, p, "compute")
     /\ Fault("redis_write")
     /\ \/ SetSlice(msg) /\ missed' = missed \cup {msg.job}
        \/ UNCHANGED <<store, missed>>
     /\ SetSlot(w, p, Nil)
     /\ UNCHANGED <<metadata, progress, bus, subscribed, chan, inbox, up>>

(* The PUBLISH of write_result; Redis drops it when nobody is subscribed.  *)
NotifySlice(w, p) ==
  LET job == slots[w][p].msg.job
  IN /\ Running(w, p, "notify")
     /\ IF subscribed
          THEN bus' = [bus EXCEPT ![job] = @ + 1] /\ UNCHANGED missed
          ELSE missed' = missed \cup {job} /\ UNCHANGED bus
     /\ SetSlot(w, p, Nil)
     /\ UNCHANGED <<store, metadata, progress, subscribed, chan, faults, inbox, up>>

NotifyFails(w, p) ==
  /\ Running(w, p, "notify")
  /\ Fault("pubsub")
  /\ missed' = missed \cup {slots[w][p].msg.job}
  /\ SetSlot(w, p, Nil)
  /\ UNCHANGED <<store, metadata, progress, bus, subscribed, chan, inbox, up>>

(* The process is started, also again after its end, and connects.  That   *)
(* is up to an operator: nothing in the deployment sees to it.             *)
Start(w) ==
  /\ ~up[w]
  /\ up' = [up EXCEPT ![w] = TRUE]
  /\ UNCHANGED <<sharedVars, inbox, slots>>

(* The process dies.  Nothing it held is sent again, and its socket is one *)
(* peer less for the push threads.                                         *)
Crash(w) ==
  /\ up[w]
  /\ Fault("worker")
  /\ up' = [up EXCEPT ![w] = FALSE]
  /\ missed' = missed \cup Unannounced(w)
  /\ inbox' = [inbox EXCEPT ![w] = <<>>]
  /\ slots' = [slots EXCEPT ![w] = [p \in Permits |-> Nil]]
  /\ UNCHANGED <<store, metadata, progress, bus, subscribed, chan>>

-----------------------------------------------------------------------------
WorkerInit ==
  /\ PublisherInit
  /\ slots = [w \in Workers |-> [p \in Permits |-> Nil]]
  /\ up = [w \in Workers |-> FALSE]

Connected == { w \in Workers : up[w] }

PushStep(c) ==
  /\ PushFails(c) \/ \E w \in Workers : Push(c, w, Connected)
  /\ UNCHANGED <<slots, up>>

TaskStep(w, p) ==
  \/ StartTask(w, p)
  \/ ComputeFails(w, p)
  \/ WriteSlice(w, p)
  \/ WriteFails(w, p)
  \/ NotifySlice(w, p)
  \/ NotifyFails(w, p)

WorkerNext ==
  \/ \E c \in Channels : PushStep(c)
  \/ \E w \in Workers : Start(w) \/ Crash(w) \/ \E p \in Permits : TaskStep(w, p)

WorkerTypeOK ==
  /\ PublisherTypeOK
  /\ slots \in [Workers -> [Permits -> {Nil} \cup Tasks]]
  /\ up \in [Workers -> BOOLEAN]
=============================================================================
