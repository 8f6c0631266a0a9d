--------------------------- MODULE SoftmaxService ---------------------------
(***************************************************************************)
(* What the service promises its clients, with no slices, workers, queues  *)
(* or notifications in sight: a call is accepted or rejected, the softmax  *)
(* of the vector it carries becomes available under its job id, and only   *)
(* then may it be answered OK, if it consists of numbers.  Every call is   *)
(* answered at most once.                                                  *)
(***************************************************************************)
CONSTANTS Requests, Args, Valid(_), Nil

VARIABLES
  status,   (* of each call: "new", "open", or how it was answered          *)
  request,  (* what each call asked for                                     *)
  result    (* job id -> the vector whose softmax GetResult returns, or Nil *)

serviceVars == <<status, request, result>>

Submit(r, a) ==
  /\ status[r] = "new"
  /\ status' = [status EXCEPT ![r] = IF Valid(a) THEN "open" ELSE "invalid"]
  /\ request' = [request EXCEPT ![r] = a]
  /\ UNCHANGED result

Publish(r) ==
  /\ status[r] = "open"
  /\ result' = [result EXCEPT ![request[r].job] = request[r].vec]
  /\ UNCHANGED <<status, request>>

AnswerOk(r) ==
  /\ status[r] = "open"
  /\ result[request[r].job] = request[r].vec
  /\ ~request[r].vec.low
  /\ status' = [status EXCEPT ![r] = "ok"]
  /\ UNCHANGED <<request, result>>

(* A failed or abandoned call may have published its result all the same.  *)
GiveUp(r) ==
  /\ status[r] = "open"
  /\ \E how \in {"failed", "cancelled"} : status' = [status EXCEPT ![r] = how]
  /\ result' \in {result, [result EXCEPT ![request[r].job] = request[r].vec]}
  /\ UNCHANGED request

Respond(r) == AnswerOk(r) \/ GiveUp(r)

(* The service goes down: the calls that are open all give up, and what    *)
(* was published stays.                                                    *)
Outage ==
  /\ status' = [r \in Requests |-> IF status[r] = "open" THEN "failed" ELSE status[r]]
  /\ UNCHANGED <<request, result>>

ServiceInit ==
  /\ status = [r \in Requests |-> "new"]
  /\ request = [r \in Requests |-> Nil]
  /\ result = [j \in { a.job : a \in Args } |-> Nil]

ServiceNext ==
  \/ \E r \in Requests :
       (\E a \in Args : Submit(r, a)) \/ Publish(r) \/ Respond(r)
  \/ Outage

ServiceSpec == ServiceInit /\ [][ServiceNext]_serviceVars

LiveServiceSpec ==
  ServiceSpec /\ \A r \in Requests : WF_serviceVars(Respond(r))
=============================================================================
