------------------------------- MODULE MCZmq -------------------------------
(***************************************************************************)
(* Small instances of ZmqSystem.  Component 7 of a job id stands for an    *)
(* arbitrary name, so <<7>> is "a" and <<7, 0>> is "a:0".                  *)
(***************************************************************************)
EXTENDS ZmqSystem, TLC

Vec(id, len) == [id |-> id, len |-> len, nulls |-> {}, low |-> FALSE]

(* All its elements are below the padding of the CUDA kernels.             *)
LowVec(id, len) == [Vec(id, len) EXCEPT !.low = TRUE]

Softmax(job, vec) == [job |-> job, task |-> "softmax", vec |-> vec]

(* One job id used for two vectors, of two slices and of one, and job      *)
(* "a:0", whose result key is the key of slice 0 of job "a".               *)
ClashArgs ==
  { Softmax(<<7>>, Vec("x", 2)), Softmax(<<7>>, Vec("y", 1)),
    Softmax(<<7, 0>>, Vec("y", 1)) }

(* The same request sent again, as a client does after an error, and a     *)
(* request of another job, whose softmax is not numbers.                   *)
RetryArgs == { Softmax(<<7>>, Vec("x", 2)), Softmax(<<8>>, LowVec("y", 1)) }

(* The same request over and over.                                         *)
SameArgs == { Softmax(<<7>>, Vec("x", 2)) }

(* Requests that are rejected, and one whose element 2 is not finite.      *)
OddArgs ==
  { Softmax(<<7>>, Vec("x", 0)),
    [job |-> <<7>>, task |-> "argmax", vec |-> Vec("x", 2)],
    Softmax(<<7>>, [Vec("z", 2) EXCEPT !.nulls = {2}]),
    Softmax(<<8>>, Vec("y", 1)) }

Symmetry == Permutations(Requests) \cup Permutations(Workers) \cup Permutations(Permits)
=============================================================================
