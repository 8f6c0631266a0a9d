--------------------------- MODULE GatewayProcess ---------------------------
(***************************************************************************)
(* The gateway as a process.  docker-compose runs it with                  *)
(* "restart: unless-stopped": it may die at any await and comes back with  *)
(* main.rs from the top - a new DashMap, new channels, new sockets and a   *)
(* subscriber that has not connected yet - next to workers and a Redis     *)
(* that never noticed.                                                     *)
(***************************************************************************)
EXTENDS Gateway, Publisher

(* Calls whose client is still waiting.                                    *)
Open(r) == pc[r] # "idle" /\ ~Answered(r)

(* What the push threads had handed to ZeroMQ is lost as far as it had not *)
(* reached the worker: some prefix of its inbox survives.                  *)
Prefixes(q) == { SubSeq(q, 1, n) : n \in 0 .. Len(q) }

ZmqPipesBreak ==
  \E kept \in [Workers -> UNION { Prefixes(inbox[w]) : w \in Workers }] :
    /\ \A w \in Workers : kept[w] \in Prefixes(inbox[w])
    /\ inbox' = kept

(* The open calls fail with their connections.  What the workers hold and  *)
(* what Redis stores stays.                                                *)
GatewayRestart ==
  LET Reset(f, value) == [r \in Requests |-> IF Open(r) THEN value ELSE f[r]]
  IN /\ Fault("gateway")
     /\ pc' = Reset(pc, "failed")
     /\ stats' = Reset(stats, NoStats)
     /\ unread' = Reset(unread, {})
     /\ dirty' = Reset(dirty, FALSE)
     /\ expired' = Reset(expired, FALSE)
     /\ jobs' = [j \in JobIds |-> Nil]
     /\ chan' = [c \in Channels |-> <<>>]
     /\ ZmqPipesBreak
     /\ subscribed' = FALSE
     /\ missed' = missed \cup { j \in JobIds : bus[j] > 0 }
     /\ bus' = [j \in JobIds |-> 0]
     /\ UNCHANGED <<store, metadata, progress, args, sent>>
=============================================================================
