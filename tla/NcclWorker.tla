----------------------------- MODULE NcclWorker -----------------------------
(***************************************************************************)
(* The CUDA workers of TRANSPORT=zmq_nccl (worker-rs: run_nccl in main.rs, *)
(* all_reduce_softmax in gpu_worker.rs).  Rank w takes one message at a    *)
(* time from its own socket, joins the collective, then writes.  The       *)
(* n-th AllReduce of one rank meets the n-th of every other, whatever job  *)
(* they belong to: that is all a communicator knows.                       *)
(***************************************************************************)
EXTENDS Publisher

VARIABLES
  stage,    (* "recv", "reduce", "set", "notify", or "exited"              *)
  msg,      (* the message rank w is working on, or Nil                    *)
  probs     (* what the collective gave rank w, or Nil                     *)

rankVars == <<inbox, stage, msg, probs>>

At(w, label) == stage' = [stage EXCEPT ![w] = label]

(* Back to recv_bytes.                                                     *)
Done(w) ==
  /\ At(w, "recv")
  /\ msg' = [msg EXCEPT ![w] = Nil]
  /\ probs' = [probs EXCEPT ![w] = Nil]

(* Any error after the message was parsed leaves the loop through `?': the *)
(* process ends, and the other ranks wait for it in their next collective. *)
Exit(w) ==
  /\ At(w, "exited")
  /\ msg' = [msg EXCEPT ![w] = Nil]
  /\ probs' = [probs EXCEPT ![w] = Nil]
  /\ inbox' = [inbox EXCEPT ![w] = <<>>]

-----------------------------------------------------------------------------
(* The push thread blocks in send while its only peer is gone.             *)
PushToRank(c) ==
  /\ Push(c, c, { w \in Workers : stage[w] # "exited" })
  /\ UNCHANGED <<stage, msg, probs>>

PushToRankFails(c) == PushFails(c) /\ UNCHANGED <<stage, msg, probs>>

(* recv_bytes; a message that does not parse is skipped, and the rank does *)
(* not join the collective for it.                                         *)
Receive(w) ==
  LET m == Head(inbox[w])
  IN /\ stage[w] = "recv"
     /\ inbox[w] # <<>>
     /\ inbox' = [inbox EXCEPT ![w] = Tail(@)]
     /\ IF Parses(m)
          THEN At(w, "reduce") /\ msg' = [msg EXCEPT ![w] = m]
          ELSE UNCHANGED <<stage, msg>>
     /\ UNCHANGED <<sharedVars, probs>>

(* The MAX and the SUM AllReduce and the normalisation between and after   *)
(* them, when every rank has joined: each rank's probabilities are its own *)
(* slice over the sum of whatever the ranks brought.                       *)
(* Mutant: a format byte that read_slice does not know.                    *)
Normalized_WrongMagic(m, peers) ==
  [magic |-> "0x03", vec |-> m.vec, slice |-> m.slice, reduced |-> peers]

Normalized(m, peers) ==
  [magic |-> "0x02", vec |-> m.vec, slice |-> m.slice, reduced |-> peers]

AllReduce ==
  LET peers == { <<msg[w].vec, msg[w].slice>> : w \in Workers }
  IN /\ \A w \in Workers : stage[w] = "reduce"
     /\ stage' = [w \in Workers |-> "set"]
     /\ probs' = [w \in Workers |-> Normalized(msg[w], peers)]
     /\ UNCHANGED <<sharedVars, inbox, msg>>

(* A CUDA or NCCL error on one rank, or the death of its process.          *)
RankFails(w) ==
  /\ stage[w] # "exited"
  /\ Fault("worker")
  /\ missed' = IF stage[w] = "notify" THEN missed \cup {msg[w].job} ELSE missed
  /\ Exit(w)
  /\ UNCHANGED <<store, metadata, progress, bus, subscribed, chan>>

(* write_result, as in the standard worker.                                *)
SetProbs(w) ==
  store' = [store EXCEPT ![SliceKey(msg[w].job, msg[w].slice)] = probs[w]]

WriteProbs(w) ==
  /\ stage[w] = "set"
  /\ SetProbs(w)
  /\ At(w, "notify")
  /\ UNCHANGED <<metadata, progress, bus, subscribed, chan, missed, faults,
                 inbox, msg, probs>>

WriteProbsFails(w) ==
  /\ stage[w] = "set"
  /\ Fault("redis_write")
  /\ \/ SetProbs(w) /\ missed' = missed \cup {msg[w].job}
     \/ UNCHANGED <<store, missed>>
  /\ Exit(w)
  /\ UNCHANGED <<metadata, progress, bus, subscribed, chan>>

NotifyProbs(w) ==
  LET job == msg[w].job
  IN /\ stage[w] = "notify"
     /\ IF subscribed
          THEN bus' = [bus EXCEPT ![job] = @ + 1] /\ UNCHANGED missed
          ELSE missed' = missed \cup {job} /\ UNCHANGED bus
     /\ Done(w)
     /\ UNCHANGED <<store, metadata, progress, subscribed, chan, faults, inbox>>

NotifyProbsFails(w) ==
  /\ stage[w] = "notify"
  /\ Fault("pubsub")
  /\ missed' = missed \cup {msg[w].job}
  /\ Exit(w)
  /\ UNCHANGED <<store, metadata, progress, bus, subscribed, chan>>

-----------------------------------------------------------------------------
RanksInit ==
  /\ PublisherInit
  /\ stage = [w \in Workers |-> "recv"]
  /\ msg = [w \in Workers |-> Nil]
  /\ probs = [w \in Workers |-> Nil]

PushRankStep(c) == PushToRank(c) \/ PushToRankFails(c)

RankStep(w) == Receive(w) \/ WriteProbs(w) \/ NotifyProbs(w)

RankEnds(w) == WriteProbsFails(w) \/ NotifyProbsFails(w) \/ RankFails(w)

RanksRun ==
  \/ \E c \in Channels : PushRankStep(c)
  \/ \E w \in Workers : RankStep(w)
  \/ AllReduce

RanksNext == RanksRun \/ \E w \in Workers : RankEnds(w)

RanksTypeOK ==
  /\ PublisherTypeOK
  /\ stage \in [Workers -> {"recv", "reduce", "set", "notify", "exited"}]
  /\ msg \in [Workers -> {Nil} \cup TaskMessage]
  /\ probs \in [Workers -> {Nil} \cup SliceStats]
=============================================================================
