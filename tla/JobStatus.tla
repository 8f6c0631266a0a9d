------------------------------ MODULE JobStatus ------------------------------
(***************************************************************************)
(* GetResult (service.rs) and the expiry of the keys it reads, next to the *)
(* SubmitTask calls of ZmqSystem.  A GetResult call is a sequence of Redis *)
(* reads with an await between any two: the metadata, the result, then     *)
(* one EXISTS per slice.  A client polls: it has one call open at a time   *)
(* and may ask again after every reply.                                    *)
(***************************************************************************)
EXTENDS ZmqSystem

CONSTANT Pollers   (* clients that call GetResult                          *)

ASSUME StatusAssumption == Nil \notin Nat /\ Nil # "ready"

VARIABLES
  qpc,        (* "idle", "final", "count" or "done", per client            *)
  qjob,       (* the job id asked for                                      *)
  total,      (* total_slices of the metadata that was read                *)
  counted,    (* slice keys looked at so far                               *)
  completed,  (* and how many of them exist                                *)
  reply,      (* status, or "error"                                        *)
  answer,     (* the result that was sent, or Nil                          *)
  promised,   (* history: when the call began, a result was known to exist *)
  gone        (* history: jobs of which a key expired or a read failed     *)

queryVars == <<qpc, qjob, total, counted, completed, reply, answer, promised>>

statusVars == <<vars, queryVars, gone>>

(* A client has been told that the job is done.                            *)
KnownReady(j) ==
  \/ \E r \in Requests : pc[r] = "ok" /\ Job(r) = j
  \/ \E q \in Pollers : qjob[q] = j /\ (reply[q] = "ready" \/ promised[q])

IsResult(value) == value # Nil /\ value.magic = "json"

(* The locals of the call go out of scope with the reply.                  *)
Reply(q, status) ==
  /\ qpc' = [qpc EXCEPT ![q] = "done"]
  /\ reply' = [reply EXCEPT ![q] = status]
  /\ total' = [total EXCEPT ![q] = 0]
  /\ counted' = [counted EXCEPT ![q] = 0]
  /\ completed' = [completed EXCEPT ![q] = 0]

Continue(q, label) ==
  /\ qpc' = [qpc EXCEPT ![q] = label]
  /\ reply' = [reply EXCEPT ![q] = Nil]
  /\ UNCHANGED <<counted, completed>>

ReadsRedis == UNCHANGED <<store, metadata, progress, bus, subscribed, chan, missed,
                          gatewayVars, workerVars>>

-----------------------------------------------------------------------------
GetResult(q, j) ==
  /\ qpc[q] \in {"idle", "done"}
  /\ qjob' = [qjob EXCEPT ![q] = j]
  /\ promised' = [promised EXCEPT ![q] = KnownReady(j)]
  /\ \/ metadata[j] = Nil /\ Reply(q, "not_found") /\ UNCHANGED faults
     \/ /\ metadata[j] # Nil
        /\ total' = [total EXCEPT ![q] = metadata[j]]
        /\ Continue(q, "final") /\ UNCHANGED faults
     \/ Fault("redis_read") /\ Reply(q, "error")
  /\ answer' = [answer EXCEPT ![q] = Nil]
  /\ ReadsRedis /\ UNCHANGED gone

(* Anything but a JSON array is not taken for a result: a read that fails, *)
(* and a slice of another job under the same key, whose bytes are not      *)
(* UTF-8, count as no result yet.  An array that has a null does not       *)
(* parse: the job has failed, as the call that stored it has.              *)
ReadFinal(q) ==
  LET value == store[ResultKey(qjob[q])]
  IN /\ qpc[q] = "final"
     /\ \/ /\ IsResult(value) /\ ~HasNull(value.stats)
           /\ Reply(q, "ready")
           /\ answer' = [answer EXCEPT ![q] = value.stats]
           /\ UNCHANGED <<faults, gone>>
        \/ /\ IsResult(value) /\ HasNull(value.stats)
           /\ Reply(q, "failed") /\ UNCHANGED <<answer, faults, gone>>
        \/ /\ ~IsResult(value)
           /\ Continue(q, "count") /\ UNCHANGED <<total, answer, faults, gone>>
        \/ /\ Fault("redis_read")
           /\ gone' = gone \cup {qjob[q]}
           /\ Continue(q, "count") /\ UNCHANGED <<total, answer>>
     /\ ReadsRedis /\ UNCHANGED <<qjob, promised>>

(* get_completed_slice_count; an EXISTS that fails counts as a miss.       *)
CountSlice(q) ==
  /\ qpc[q] = "count" /\ counted[q] < total[q]
  /\ counted' = [counted EXCEPT ![q] = @ + 1]
  /\ \/ /\ store[SliceKey(qjob[q], counted[q])] # Nil
        /\ completed' = [completed EXCEPT ![q] = @ + 1] /\ UNCHANGED faults
     \/ store[SliceKey(qjob[q], counted[q])] = Nil /\ UNCHANGED <<completed, faults>>
     \/ Fault("redis_read") /\ UNCHANGED completed
  /\ ReadsRedis /\ UNCHANGED <<qpc, qjob, total, reply, answer, promised, gone>>

ReportProgress(q) ==
  /\ qpc[q] = "count" /\ counted[q] = total[q]
  /\ Reply(q, IF completed[q] = 0 THEN "pending" ELSE "running")
  /\ ReadsRedis /\ UNCHANGED <<faults, qjob, answer, promised, gone>>

(* The TTLs are configured independently, so the keys expire in any order. *)
(* The progress key, which nobody reads, is left alone.                    *)
Expire(j) ==
  /\ \/ /\ IsResult(store[ResultKey(j)])
        /\ store' = [store EXCEPT ![ResultKey(j)] = Nil] /\ UNCHANGED metadata
     \/ /\ metadata[j] # Nil
        /\ metadata' = [metadata EXCEPT ![j] = Nil] /\ UNCHANGED store
  /\ gone' = gone \cup {j}
  /\ UNCHANGED <<progress, bus, subscribed, chan, missed, faults,
                 gatewayVars, workerVars, queryVars>>

(* The restart of the gateway breaks the open GetResult calls as well.     *)
RestartDuringQueries ==
  LET Asking(q) == qpc[q] \in {"final", "count"}
      Reset(f, value) == [q \in Pollers |-> IF Asking(q) THEN value ELSE f[q]]
  IN /\ GatewayRestart /\ UNCHANGED <<slots, up>>
     /\ qpc' = Reset(qpc, "done")
     /\ reply' = Reset(reply, "error")
     /\ total' = Reset(total, 0)
     /\ counted' = Reset(counted, 0)
     /\ completed' = Reset(completed, 0)
     /\ UNCHANGED <<qjob, answer, promised, gone>>

-----------------------------------------------------------------------------
StatusInit ==
  /\ Init
  /\ qpc = [q \in Pollers |-> "idle"]
  /\ qjob = [q \in Pollers |-> Nil]
  /\ total = [q \in Pollers |-> 0]
  /\ counted = [q \in Pollers |-> 0]
  /\ completed = [q \in Pollers |-> 0]
  /\ reply = [q \in Pollers |-> Nil]
  /\ answer = [q \in Pollers |-> Nil]
  /\ promised = [q \in Pollers |-> FALSE]
  /\ gone = {}

StatusNext ==
  \/ Step /\ UNCHANGED <<queryVars, gone>>
  \/ RestartDuringQueries
  \/ \E q \in Pollers :
       \/ \E j \in JobIds : GetResult(q, j)
       \/ ReadFinal(q)
       \/ CountSlice(q)
       \/ ReportProgress(q)
  \/ \E j \in JobIds : Expire(j)

StatusSpec == StatusInit /\ [][StatusNext]_statusVars

-----------------------------------------------------------------------------
(* A result that GetResult hands out is complete, consists of numbers and  *)
(* is that of the job's vector, whichever call stored it and however that  *)
(* call ended: the result key is written once per call, after everything   *)
(* was collected, and not read before it is parsed.                        *)
ReadyIsOwnSoftmax ==
  OneVectorPerJob =>
    \A q \in Pollers : reply[q] = "ready" =>
      \E r \in Requests :
        /\ pc[r] # "idle" /\ Job(r) = qjob[q]
        /\ answer[q] = WholeSoftmax(args[r].vec) /\ ~args[r].vec.low

(* Once a client has been told that a job is done, by an OK reply or by    *)
(* "ready", GetResult says so as well, also while the same job is being    *)
(* submitted again and after the gateway has been restarted - until a key  *)
(* expires, the read of the result fails, or a vector whose softmax is not *)
(* numbers is submitted under the same id.  (Job ids none of which is      *)
(* another's with ":<slice>" appended; otherwise that job's slice replaces *)
(* the result.)                                                            *)
Numeric(j) == \A r \in Requests : pc[r] # "idle" /\ Job(r) = j => ~args[r].vec.low

ReadyStaysReady ==
  \A q \in Pollers :
    qpc[q] = "done" /\ promised[q] /\ qjob[q] \notin gone /\ Numeric(qjob[q])
      => reply[q] \in {"ready", "error"}
=============================================================================
