---------------------------- MODULE SoftmaxKernel ----------------------------
(***************************************************************************)
(* GpuWorker::partial_softmax (gpu_worker.rs) and the two kernels it       *)
(* launches (kernels/partial_softmax.cu): pass 1 finds the maximum of      *)
(* every block, the host the maximum of those; pass 2 takes the            *)
(* exponentials and sums them up the same way.                             *)
(*                                                                         *)
(* A block reduces its BLOCK_SIZE shared cells in rounds: in the round     *)
(* with stride s, thread t < s combines its cell with cell t + s.          *)
(* Between two rounds all threads of the block meet in __syncthreads;      *)
(* within a round, and among blocks, they run in any order.                *)
(***************************************************************************)
EXTENDS PartialSoftmax

CONSTANTS
  Values,       (* the elements a slice may have                           *)
  MaxLen        (* bound on its length                                     *)

(* Around the padding, two numbers that differ are more than 10^22 apart   *)
(* in f64 and 10^30 in f32.                                                *)
ASSUME KernelAssumption ==
  /\ Values \subseteq Int
  /\ \A v \in Values : v < Pad => v + Tiny32 + Tiny64 < Pad
  /\ MaxLen \in Nat

VARIABLES
  data,         (* the slice                                               *)
  pass,         (* "max", "sum" or "done"                                  *)
  global_max,   (* passed to the second kernel                             *)
  exp_out,      (* written by the second kernel                            *)
  partial_sum,
  phase,        (* of each block: "load", "reduce" or "written"            *)
  stride,       (* of its current round                                    *)
  todo,         (* threads that have not done their part of the round      *)
  sdata,        (* its shared cells                                        *)
  block_out     (* block_maxes or block_sums                               *)

kernelVars == <<data, pass, global_max, exp_out, partial_sum,
                phase, stride, todo, sdata, block_out>>

n == Len(data)

Blocks == 0 .. ((n + BlockSize - 1) \div BlockSize - 1)

Threads == 0 .. (BlockSize - 1)

(* The element of thread t of block b, 1-based.                            *)
Element(b, t) == b * BlockSize + t + 1

Combine(x, y) == IF pass = "max" THEN Max({x, y}) ELSE x + y

Launch ==
  /\ phase' = [b \in Blocks |-> "load"]
  /\ stride' = [b \in Blocks |-> 0]
  /\ todo' = [b \in Blocks |-> {}]
  /\ sdata' = [b \in Blocks |-> [t \in Threads |-> 0]]
  /\ block_out' = [b \in Blocks |-> 0]

-----------------------------------------------------------------------------
(* Every thread fills its own cell, up to the first barrier.               *)
LoadCells(b) ==
  LET InRange(t) == Element(b, t) <= n
      val(t) == IF InRange(t) THEN Exp32(data[Element(b, t)] - global_max) ELSE 0
      max(t) == IF InRange(t) THEN data[Element(b, t)] ELSE Pad
  IN /\ phase[b] = "load"
     /\ sdata' = [sdata EXCEPT ![b] = [t \in Threads |-> IF pass = "max" THEN max(t) ELSE val(t)]]
     /\ exp_out' = IF pass = "max" THEN exp_out
                   ELSE [k \in 1 .. n |->
                           IF \E t \in Threads : k = Element(b, t)
                             THEN Exp32(data[k] - global_max) ELSE exp_out[k]]
     /\ phase' = [phase EXCEPT ![b] = "reduce"]
     /\ stride' = [stride EXCEPT ![b] = BlockSize \div 2]
     /\ todo' = [todo EXCEPT ![b] = 0 .. (BlockSize \div 2 - 1)]
     /\ UNCHANGED <<data, pass, global_max, partial_sum, block_out>>

ReduceCell(b, t) ==
  /\ phase[b] = "reduce"
  /\ t \in todo[b]
  /\ sdata' = [sdata EXCEPT ![b][t] = Combine(@, sdata[b][t + stride[b]])]
  /\ todo' = [todo EXCEPT ![b] = @ \ {t}]
  /\ UNCHANGED <<data, pass, global_max, exp_out, partial_sum, phase, stride, block_out>>

(* Mutant: no __syncthreads at the end of a round.                         *)
Syncthreads_Missing(b) ==
  /\ phase[b] = "reduce"
  /\ stride[b] > 0
  /\ stride' = [stride EXCEPT ![b] = @ \div 2]
  /\ todo' = [todo EXCEPT ![b] = @ \cup 0 .. (stride[b] \div 2 - 1)]
  /\ UNCHANGED <<data, pass, global_max, exp_out, partial_sum, phase, sdata, block_out>>

Syncthreads(b) ==
  /\ phase[b] = "reduce"
  /\ stride[b] > 0
  /\ todo[b] = {}
  /\ stride' = [stride EXCEPT ![b] = @ \div 2]
  /\ todo' = [todo EXCEPT ![b] = 0 .. (stride[b] \div 2 - 1)]
  /\ UNCHANGED <<data, pass, global_max, exp_out, partial_sum, phase, sdata, block_out>>

WriteBlock(b) ==
  /\ phase[b] = "reduce"
  /\ stride[b] = 0
  /\ block_out' = [block_out EXCEPT ![b] = sdata[b][0]]
  /\ phase' = [phase EXCEPT ![b] = "written"]
  /\ UNCHANGED <<data, pass, global_max, exp_out, partial_sum, stride, todo, sdata>>

Written == \A b \in Blocks : phase[b] = "written"

(* The host copies the block results back, which waits for the kernel.     *)
HostMax ==
  /\ pass = "max" /\ Written
  /\ global_max' = Greatest(block_out)
  /\ pass' = "sum"
  /\ Launch
  /\ UNCHANGED <<data, exp_out, partial_sum>>

HostSum ==
  /\ pass = "sum" /\ Written
  /\ partial_sum' = Total(block_out)
  /\ pass' = "done"
  /\ UNCHANGED <<data, global_max, exp_out, phase, stride, todo, sdata, block_out>>

KernelInit ==
  /\ data \in UNION { [1 .. len -> Values] : len \in 1 .. MaxLen }
  /\ pass = "max"
  /\ global_max = 0
  /\ exp_out = [k \in 1 .. n |-> 0]
  /\ partial_sum = 0
  /\ phase = [b \in Blocks |-> "load"]
  /\ stride = [b \in Blocks |-> 0]
  /\ todo = [b \in Blocks |-> {}]
  /\ sdata = [b \in Blocks |-> [t \in Threads |-> 0]]
  /\ block_out = [b \in Blocks |-> 0]

KernelNext ==
  \/ \E b \in Blocks :
       \/ LoadCells(b)
       \/ \E t \in Threads : ReduceCell(b, t)
       \/ Syncthreads(b)
       \/ WriteBlock(b)
  \/ HostMax
  \/ HostSum
  \/ pass = "done" /\ UNCHANGED kernelVars

KernelSpec == KernelInit /\ [][KernelNext]_kernelVars

-----------------------------------------------------------------------------
(* A block is incomplete, and its padding is above all elements of the     *)
(* slice.                                                                  *)
PadWins == n % BlockSize # 0 /\ Greatest(data) < Pad

(* kernels/partial_softmax.cu: "matching Python worker's                   *)
(* softmax_partial()".  Whatever the order of the threads, the kernels     *)
(* compute partial_softmax, which is what the CPU worker computes unless   *)
(* the padding wins.                                                       *)
KernelMatchesCpu ==
  pass = "done" =>
    LET computed ==
          [local_max |-> global_max, exp_values |-> exp_out, partial_sum |-> partial_sum]
    IN /\ computed = partial_softmax(data)
       /\ computed = softmax_partial(data) \/ PadWins

(* The softmax of the whole vector, exact, scaled to integers.             *)
Exact(vec) ==
  LET least == Min({ vec[k] : k \in DOMAIN vec })
      num == [k \in DOMAIN vec |-> 2 ^ (vec[k] - least)]
  IN [num |-> num, den |-> Total(num)]

Distance(x, y) == IF x < y THEN y - x ELSE x - y

IsSoftmax(p, vec) ==
  LET exact == Exact(vec)
  IN /\ p.den > 0
     /\ Len(p.num) = Len(vec)
     /\ \A k \in 1 .. Len(vec) :
          Distance(p.num[k] * exact.den, exact.num[k] * p.den) * 2 ^ Tiny32
            <= Len(vec) * p.den * exact.den

(* A division by zero that the padding of the CUDA kernels explains: all   *)
(* elements are below it, and one of the slices has an incomplete block.   *)
PadDecides(slices) ==
  /\ \A i \in DOMAIN slices : Greatest(slices[i]) < Pad
  /\ \E i \in DOMAIN slices : Len(slices[i]) % BlockSize # 0

(* For every way to slice and to aggregate, and whichever workers computed *)
(* the slices, the reply has one probability per element, in the order of  *)
(* the elements, and each is off the exact softmax by at most Len(vec)     *)
(* times the smallest number of f32: cutting the vector, and taking maxima *)
(* per slice, costs nothing but underflow.  The only other outcome is an   *)
(* error, and only below the padding.                                      *)
ReplyIsSoftmax ==
  pass = "done" =>
    /\ \A p \in ZmqReplies(data) :
         IsSoftmax(p, data) \/ (p.den = 0 /\ PadDecides(ChunkSlices(data)))
    /\ \A p \in NcclReplies(data) :
         IsSoftmax(p, data) \/ (p.den = 0 /\ PadDecides(EvenSlices(data)))
=============================================================================
