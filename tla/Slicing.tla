------------------------------ MODULE Slicing ------------------------------
(***************************************************************************)
(* How SubmitTask cuts a vector into slices (gateway-rs/src/service.rs).   *)
(* A slice is the set of positions (1-based) of the elements it carries.   *)
(***************************************************************************)
EXTENDS Integers, FiniteSets

CONSTANTS
  NumSlices,     (* NUM_SLICES, filtered to be positive                    *)
  WorldSize,     (* NCCL_WORLD_SIZE, filtered to be positive               *)
  NcclDispatch   (* TRUE iff TRANSPORT=zmq_nccl                            *)

ASSUME SlicingAssumption ==
  /\ NumSlices \in Nat \ {0}
  /\ WorldSize \in Nat \ {0}
  /\ NcclDispatch \in BOOLEAN

(* TRANSPORT=zmq: vector.chunks(slice_size), the last one may be shorter.  *)
SliceSize(len) == (len + NumSlices - 1) \div NumSlices

(* Mutant: a chunk too many when the slices come out even.                 *)
ChunkCount_OneMore(len) == len \div SliceSize(len) + 1

ChunkCount(len) == (len + SliceSize(len) - 1) \div SliceSize(len)

ChunkPositions(len, i) ==
  { k \in 1 .. len : i * SliceSize(len) < k /\ k <= (i + 1) * SliceSize(len) }

(* TRANSPORT=zmq_nccl: even_chunks, whose loop carries `start`.            *)
EvenTake(len, i) ==
  (len \div WorldSize) + (IF i < len % WorldSize THEN 1 ELSE 0)

EvenStart(len) ==
  LET start[i \in 0 .. WorldSize] ==
        IF i = 0 THEN 0 ELSE start[i - 1] + EvenTake(len, i - 1)
  IN start

EvenPositions(len, i) ==
  (EvenStart(len)[i] + 1) .. (EvenStart(len)[i] + EvenTake(len, i))

-----------------------------------------------------------------------------
(* The choice SubmitTask makes between the two.                            *)

TotalSlices(len) == IF NcclDispatch THEN WorldSize ELSE ChunkCount(len)

Positions(len, i) ==
  IF NcclDispatch THEN EvenPositions(len, i) ELSE ChunkPositions(len, i)

(* An upper bound on TotalSlices, for the domain of the store.             *)
MaxSlices == IF NcclDispatch THEN WorldSize ELSE NumSlices
=============================================================================
