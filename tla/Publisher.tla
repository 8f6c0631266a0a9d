----------------------------- MODULE Publisher -----------------------------
(***************************************************************************)
(* The push threads of the gateway (publisher/zmq.rs: ZmqPublisher with    *)
(* one socket, ZmqMultiPublisher with one per rank).  The other end of the *)
(* bounded channels, publish, is PublishSlice of Gateway.                  *)
(*                                                                         *)
(* inbox[w] is everything between a socket of the gateway and the loop of  *)
(* worker w that starts a task: the ZeroMQ pipe and, in the standard       *)
(* worker, the unbounded channel of its receive thread and the message the *)
(* loop holds while it waits for a permit.                                 *)
(***************************************************************************)
EXTENDS Common

CONSTANT Workers   (* worker processes; in NCCL mode, the ranks            *)

ASSUME PublisherAssumption ==
  NcclDispatch => Workers = 0 .. (WorldSize - 1)

VARIABLE inbox     (* messages a worker has not started yet                *)

(* Mutant: the latest message is delivered first.                          *)
Push_Unordered(c, w, peers) ==
  /\ chan[c] # <<>>
  /\ w \in peers
  /\ NcclDispatch => w = c
  /\ chan' = [chan EXCEPT ![c] = Tail(@)]
  /\ inbox' = [inbox EXCEPT ![w] = <<Head(chan[c])>> \o @]
  /\ UNCHANGED <<store, metadata, progress, bus, subscribed, missed, faults>>

(* ZeroMQ picks one of the peers that are connected to the socket of       *)
(* channel c; while there is none, send blocks.                            *)
Push(c, w, peers) ==
  /\ chan[c] # <<>>
  /\ w \in peers
  /\ NcclDispatch => w = c
  /\ chan' = [chan EXCEPT ![c] = Tail(@)]
  /\ inbox' = [inbox EXCEPT ![w] = Append(@, Head(chan[c]))]
  /\ UNCHANGED <<store, metadata, progress, bus, subscribed, missed, faults>>

(* sock.send fails: the error is logged and the slice dropped.             *)
PushFails(c) ==
  /\ chan[c] # <<>>
  /\ Fault("push")
  /\ chan' = [chan EXCEPT ![c] = Tail(@)]
  /\ UNCHANGED <<store, metadata, progress, bus, subscribed, missed, inbox>>

PublisherInit == inbox = [w \in Workers |-> <<>>]

PublisherTypeOK == inbox \in [Workers -> Seq(TaskMessage)]
=============================================================================
