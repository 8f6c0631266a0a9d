--------------------------- MODULE PartialSoftmax ---------------------------
(***************************************************************************)
(* What the numbers are: the partial softmax of a slice, and the three     *)
(* ways to make a whole softmax of the slices - on the CPU of the gateway  *)
(* (aggregator.rs), on its GPU (gpu_aggregator.rs) and by AllReduce among  *)
(* the ranks (gpu_worker.rs).                                              *)
(*                                                                         *)
(* A partial softmax is computed by a CPU or by the CUDA kernels, whose    *)
(* maximum is that of blocks filled up with a padding.                     *)
(*                                                                         *)
(* Elements are integers and exp is a power of two: softmax is the same    *)
(* algebra in every base.  Floating point is exact except that it          *)
(* underflows: exp(-d) is 0 for d > Tiny32 in f32 and for d > Tiny64 in    *)
(* f64, and an f32 product or quotient below 2^-Tiny32 is 0.  Numbers are  *)
(* integer multiples of the smallest one of their format.                  *)
(***************************************************************************)
EXTENDS Slicing, SequencesExt

CONSTANTS
  Tiny32, Tiny64,
  BlockSize,    (* BLOCK_SIZE                                              *)
  Pad           (* -1e38f, which fills the last block                      *)

ASSUME TinyAssumption == Tiny32 \in Nat /\ Tiny64 \in Nat /\ Tiny32 <= Tiny64

ASSUME PadAssumption ==
  /\ BlockSize \in Nat
  /\ \E k \in 0 .. BlockSize : BlockSize = 2 ^ k
  /\ Pad \in Int

Exp32(d) == IF d < -Tiny32 THEN 0 ELSE 2 ^ (Tiny32 + d)

Exp64(d) == IF d < -Tiny64 THEN 0 ELSE 2 ^ (Tiny64 + d)

Total(f) == MapThenSumSet(LAMBDA k : f[k], DOMAIN f)

Greatest(f) == Max({ f[k] : k \in DOMAIN f })

-----------------------------------------------------------------------------
(* The slices of a vector under the two transports.                        *)

Part(vec, positions) == SubSeq(vec, Min(positions), Max(positions))

ChunkSlices(vec) ==
  [i \in 1 .. ChunkCount(Len(vec)) |-> Part(vec, ChunkPositions(Len(vec), i - 1))]

EvenSlices(vec) == [i \in 1 .. WorldSize |-> Part(vec, EvenPositions(Len(vec), i - 1))]

-----------------------------------------------------------------------------
(* The statistics of a slice, relative to what counts as its maximum.      *)
PartialStats(data, local_max) ==
  LET exp_values == [k \in DOMAIN data |-> Exp32(data[k] - local_max)]
  IN [local_max |-> local_max, exp_values |-> exp_values, partial_sum |-> Total(exp_values)]

(* softmax.rs, the CPU worker.                                             *)
softmax_partial(data) == PartialStats(data, Greatest(data))

(* Kernel block_max_f32 and the maximum over the blocks: a thread without  *)
(* an element brings the padding.                                          *)
block_max(data) ==
  IF Len(data) % BlockSize = 0 THEN Greatest(data) ELSE Max({Greatest(data), Pad})

(* gpu_worker.rs, the CUDA worker.                                         *)
partial_softmax(data) == PartialStats(data, block_max(data))

(* A vector of probabilities is a sequence of numerators over one common   *)
(* denominator.  The reply, and GetResult, convert it to f32.              *)
AsF32(p) ==
  [p EXCEPT !.num = [k \in DOMAIN p.num |-> IF p.num[k] * 2 ^ Tiny32 < p.den THEN 0 ELSE p.num[k]]]

GlobalMax(stats) == Max({ stats[i].local_max : i \in DOMAIN stats })

Scaled(seq, a) == [k \in DOMAIN seq |-> seq[k] * a]

(* Mutant: the slices are scaled by their own maximum only.                *)
aggregate_softmax_cpu_NoAdjust(stats) ==
  LET adjust == [i \in DOMAIN stats |-> Exp64(0)]
  IN [num |-> FlattenSeq([i \in DOMAIN stats |-> Scaled(stats[i].exp_values, adjust[i])]),
      den |-> Total([i \in DOMAIN stats |-> stats[i].partial_sum * adjust[i]])]

aggregate_softmax_cpu(stats) ==
  LET adjust == [i \in DOMAIN stats |-> Exp64(stats[i].local_max - GlobalMax(stats))]
  IN [num |-> FlattenSeq([i \in DOMAIN stats |-> Scaled(stats[i].exp_values, adjust[i])]),
      den |-> Total([i \in DOMAIN stats |-> stats[i].partial_sum * adjust[i]])]

(* gpu_aggregator.rs, the same in f32 throughout.                          *)
Product32(x, y) == IF x * y < 2 ^ Tiny32 THEN 0 ELSE x * y

aggregate_gpu(stats) ==
  LET adjust == [i \in DOMAIN stats |-> Exp32(stats[i].local_max - GlobalMax(stats))]
      Piece(i) == [k \in DOMAIN stats[i].exp_values |->
                     Product32(stats[i].exp_values[k], adjust[i])]
  IN [num |-> FlattenSeq([i \in DOMAIN stats |-> Piece(i)]),
      den |-> Total([i \in DOMAIN stats |-> Product32(stats[i].partial_sum, adjust[i])])]

(* gpu_worker.rs all_reduce_softmax on every rank: the MAX of the local    *)
(* maxima, then the SUM of the local sums.                                 *)
all_reduce_softmax(slices) ==
  LET global_max == Max({ block_max(slices[i]) : i \in DOMAIN slices })
      exps == [i \in DOMAIN slices |->
                 [k \in DOMAIN slices[i] |-> Exp32(slices[i][k] - global_max)]]
  IN [num |-> FlattenSeq(exps), den |-> Total([i \in DOMAIN exps |-> Total(exps[i])])]

(* What a call ends with, for each way to compute it.  Any slice may have  *)
(* been computed by a CUDA worker.  With a denominator of zero it is NaN,  *)
(* stored as null: the client gets an error.                               *)
Partials(slices, cuda) ==
  [i \in DOMAIN slices |->
     IF i \in cuda THEN partial_softmax(slices[i]) ELSE softmax_partial(slices[i])]

ZmqReplies(vec) ==
  LET slices == ChunkSlices(vec)
      Aggregated(cuda) == { AsF32(aggregate_softmax_cpu(Partials(slices, cuda))),
                            AsF32(aggregate_gpu(Partials(slices, cuda))) }
  IN UNION { Aggregated(cuda) : cuda \in SUBSET DOMAIN slices }

NcclReplies(vec) ==
  IF Len(vec) < WorldSize THEN {} ELSE { AsF32(all_reduce_softmax(EvenSlices(vec))) }
=============================================================================
