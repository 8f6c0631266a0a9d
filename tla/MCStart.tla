------------------------------ MODULE MCStart ------------------------------
(* Small instances of NcclStart: two ranks.                                *)
EXTENDS NcclStart, TLC

Softmax(job, id, len, nulls) ==
  [job |-> job, task |-> "softmax",
   vec |-> [id |-> id, len |-> len, nulls |-> nulls, low |-> FALSE]]

(* A vector, one whose first element is not finite, and one too short for  *)
(* the ranks.                                                              *)
OddJobs ==
  { Softmax(<<7>>, "x", 2, {}), Softmax(<<8>>, "y", 2, {1}), Softmax(<<7>>, "s", 1, {}) }
=============================================================================
