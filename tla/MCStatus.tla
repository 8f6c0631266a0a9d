------------------------------ MODULE MCStatus ------------------------------
(* Small instances of JobStatus.                                           *)
EXTENDS JobStatus, TLC

(* A job that may be sent again, with the same vector or with one whose    *)
(* softmax is not numbers.                                                 *)
RetryJob ==
  { [job |-> <<7>>, task |-> "softmax",
     vec |-> [id |-> "x", len |-> 2, nulls |-> {}, low |-> low]] : low \in BOOLEAN }

(* Nothing reads progress keys, and missed is history of no concern here.  *)
StatusView ==
  <<store, metadata, bus, subscribed, chan, faults, gatewayVars, workerVars, queryVars, gone>>

Symmetry == Permutations(Requests)
=============================================================================
