------------------------------- MODULE MCNccl -------------------------------
(* Small instances of NcclSystem: two ranks.                               *)
EXTENDS NcclSystem, TLC

Vec(id, len) == [id |-> id, len |-> len, nulls |-> {}, low |-> FALSE]

Softmax(job, vec) == [job |-> job, task |-> "softmax", vec |-> vec]

(* Two jobs.                                                               *)
TwoJobs == { Softmax(<<7>>, Vec("x", 2)), Softmax(<<8>>, Vec("y", 2)) }

(* The first element of the second job's vector is not finite; the first   *)
(* job may have all its elements below the padding of the kernels; a       *)
(* vector too short for the ranks.                                         *)
OddJobs ==
  { Softmax(<<7>>, Vec("x", 2)),
    Softmax(<<8>>, [Vec("y", 2) EXCEPT !.nulls = {1}]),
    Softmax(<<7>>, [Vec("l", 2) EXCEPT !.low = TRUE]),
    Softmax(<<7>>, Vec("s", 1)) }

Symmetry == Permutations(Requests)
=============================================================================
