--------------------------- MODULE SlicingProofs ---------------------------
(* What the two ways of slicing a vector guarantee for every length.       *)
EXTENDS Slicing, WellFoundedInduction, TLAPS

(* Euclid's division, as far as the slicing arithmetic needs it.           *)
LEMMA DivBounds ==
  ASSUME NEW a \in Nat, NEW b \in Nat \ {0}
  PROVE  /\ a \div b \in Nat
         /\ b * (a \div b) <= a
         /\ a < b * (a \div b) + b
  OBVIOUS

LEMMA MulMonotone ==
  ASSUME NEW a \in Nat, NEW b \in Nat, NEW c \in Nat, a <= b
  PROVE  c * a <= c * b
  OBVIOUS

(* vector.chunks(slice_size) of a non-empty vector is never asked for      *)
(* chunks of size 0, and yields at least one and at most NUM_SLICES of     *)
(* them.                                                                   *)
LEMMA ChunkCountBounds ==
  ASSUME NEW len \in Nat \ {0}
  PROVE  /\ SliceSize(len) \in Nat \ {0}
         /\ ChunkCount(len) \in 1 .. NumSlices
<1> DEFINE s == SliceSize(len)
           q == ChunkCount(len)
           N == NumSlices
<1>1. N \in Nat \ {0} BY SlicingAssumption
<1>2. s \in Nat /\ N * s <= len + N - 1 /\ len + N - 1 < N * s + N
  <2>1. len + N - 1 \in Nat BY <1>1
  <2> QED BY <1>1, <2>1, DivBounds DEF SliceSize
<1>3. len <= N * s BY <1>1, <1>2
<1>4. s # 0 BY <1>1, <1>3
<1>5. q \in Nat /\ s * q <= len + s - 1 /\ len + s - 1 < s * q + s
  <2>1. len + s - 1 \in Nat /\ s \in Nat \ {0} BY <1>2, <1>4
  <2> QED BY <2>1, DivBounds DEF ChunkCount
<1>6. q # 0
  <2> SUFFICES ASSUME q = 0 PROVE FALSE OBVIOUS
  <2>1. s * q = 0 BY <1>2
  <2> QED BY <2>1, <1>2, <1>5
<1>7. q <= N
  <2> SUFFICES ASSUME N + 1 <= q PROVE FALSE BY <1>1, <1>5
  <2>1. s * (N + 1) <= s * q BY <1>1, <1>2, <1>5, MulMonotone
  <2>2. s * (N + 1) = N * s + s BY <1>1, <1>2
  <2>3. s * q \in Nat /\ N * s \in Nat BY <1>1, <1>2, <1>5
  <2> HIDE DEF s, q
  <2> QED BY <2>1, <2>2, <2>3, <1>2, <1>3, <1>5
<1> QED BY <1>1, <1>2, <1>4, <1>5, <1>6, <1>7

(* The number of chunks is the length divided by their size, rounded up.   *)
LEMMA ChunkCountIsCeiling ==
  ASSUME NEW len \in Nat \ {0}
  PROVE  /\ SliceSize(len) * (ChunkCount(len) - 1) < len
         /\ len <= SliceSize(len) * ChunkCount(len)
<1> DEFINE s == SliceSize(len)
           q == ChunkCount(len)
<1>1. s \in Nat \ {0} /\ q \in Nat BY ChunkCountBounds, SlicingAssumption
<1>2. s * q <= len + s - 1 /\ len + s - 1 < s * q + s
  <2>1. len + s - 1 \in Nat BY <1>1
  <2> QED BY <1>1, <2>1, DivBounds DEF ChunkCount
<1>3. s * (q - 1) = s * q - s BY <1>1
<1>4. s * q \in Nat BY <1>1
<1> HIDE DEF s, q
<1>5. s * (q - 1) < len /\ len <= s * q BY <1>1, <1>2, <1>3, <1>4
<1> QED BY <1>5 DEF s, q

(* Chunk i begins right after the first i chunks.                          *)
LEMMA InChunk ==
  ASSUME NEW len \in Nat \ {0}, NEW i \in Nat, NEW k \in 1 .. len
  PROVE  k \in ChunkPositions(len, i)
           <=> SliceSize(len) * i < k /\ k <= SliceSize(len) * i + SliceSize(len)
<1>1. SliceSize(len) \in Nat BY ChunkCountBounds
<1>2. /\ i * SliceSize(len) = SliceSize(len) * i
      /\ (i + 1) * SliceSize(len) = SliceSize(len) * i + SliceSize(len)
  BY <1>1
<1> QED BY <1>2 DEF ChunkPositions

(* vector.chunks(slice_size): every element is in exactly one of the       *)
(* chunks that service.rs counts and sends, and none of them is empty - an *)
(* empty one would be dropped by the worker and waited for in vain.        *)
THEOREM ChunksPartition ==
  ASSUME NEW len \in Nat \ {0}
  PROVE  /\ \A i \in 0 .. (ChunkCount(len) - 1) : ChunkPositions(len, i) # {}
         /\ \A k \in 1 .. len :
              \E i \in 0 .. (ChunkCount(len) - 1) : k \in ChunkPositions(len, i)
         /\ \A i, j \in Nat : i # j => ChunkPositions(len, i) \cap ChunkPositions(len, j) = {}
<1> DEFINE s == SliceSize(len)
           q == ChunkCount(len)
<1>1. s \in Nat \ {0} /\ q \in Nat \ {0} BY ChunkCountBounds, SlicingAssumption
<1>2. s * (q - 1) < len /\ len <= s * q BY ChunkCountIsCeiling
<1> HIDE DEF s, q
<1>3. ASSUME NEW i \in 0 .. (q - 1) PROVE ChunkPositions(len, i) # {}
  <2>1. q - 1 \in Nat /\ i \in Nat /\ i <= q - 1 BY <1>1
  <2>2. s * i <= s * (q - 1) BY <1>1, <2>1, MulMonotone
  <2>3. PICK a \in Nat : a = s * i BY <1>1, <2>1
  <2>4. a < len
    <3>1. PICK b \in Nat : b = s * (q - 1) BY <1>1, <2>1
    <3> QED BY <1>2, <2>2, <2>3, <3>1
  <2>5. a + 1 \in 1 .. len /\ a < a + 1 /\ a + 1 <= a + s BY <1>1, <2>4
  <2>6. a + 1 \in ChunkPositions(len, i) BY <2>1, <2>3, <2>5, InChunk DEF s
  <2> QED BY <2>6
<1>4. ASSUME NEW k \in 1 .. len
      PROVE  \E i \in 0 .. (q - 1) : k \in ChunkPositions(len, i)
  <2>1. PICK i \in Nat : i = (k - 1) \div s BY <1>1, DivBounds
  <2>2. s * i <= k - 1 /\ k - 1 < s * i + s BY <1>1, <2>1, DivBounds
  <2>3. s * i \in Nat BY <1>1
  <2>4. s * i < k /\ k <= s * i + s BY <1>1, <2>2, <2>3
  <2>5. k \in ChunkPositions(len, i) BY <2>4, InChunk DEF s
  <2>6. i < q
    <3> SUFFICES ASSUME q <= i PROVE FALSE BY <1>1
    <3>1. s * q <= s * i BY <1>1, MulMonotone
    <3>2. s * q \in Nat BY <1>1
    <3> QED BY <1>2, <2>2, <2>3, <3>1, <3>2
  <2> QED BY <1>1, <2>5, <2>6
<1>5. ASSUME NEW i \in Nat, NEW j \in Nat, i < j
      PROVE  ChunkPositions(len, i) \cap ChunkPositions(len, j) = {}
  <2> SUFFICES ASSUME NEW k \in 1 .. len, k \in ChunkPositions(len, i), k \in ChunkPositions(len, j)
               PROVE  FALSE
    BY DEF ChunkPositions
  <2>1. k <= s * i + s /\ s * j < k BY InChunk DEF s
  <2>2. s * (i + 1) <= s * j BY <1>1, <1>5, MulMonotone
  <2>3. s * (i + 1) = s * i + s BY <1>1
  <2>4. s * i \in Nat /\ s * j \in Nat BY <1>1
  <2> QED BY <1>1, <2>1, <2>2, <2>3, <2>4
<1>6. \A i, j \in Nat : i # j => ChunkPositions(len, i) \cap ChunkPositions(len, j) = {}
  <2> TAKE i, j \in Nat
  <2>1. i < j \/ j < i \/ i = j OBVIOUS
  <2> QED BY <1>5, <2>1
<1> QED BY <1>3, <1>4, <1>6 DEF q

-----------------------------------------------------------------------------
(* Induction over the natural numbers, for a set instead of a predicate.   *)

LEMMA LeastNatural ==
  ASSUME NEW S \in SUBSET Nat, S # {}
  PROVE  \E x \in S : \A y \in S : x <= y
<1> DEFINE R == OpToRel(<, Nat)
<1>1. IsWellFoundedOn(R, Nat) BY NatLessThanWellFounded
<1>2. R = { ss \in Nat \X Nat : ss[1] < ss[2] } BY DEF OpToRel
<1> HIDE DEF R
<1>3. PICK x \in S : \A y \in S : <<y, x>> \notin R BY <1>1, WFMin
<1>4. \A y \in S : x <= y
  <2> TAKE y \in S
  <2>1. <<y, x>> \in R <=> y < x BY <1>2
  <2> QED BY <1>3, <2>1
<1> QED BY <1>4

LEMMA SetInduction ==
  ASSUME NEW S, 0 \in S, \A k \in Nat : k \in S => k + 1 \in S
  PROVE  \A k \in Nat : k \in S
<1> SUFFICES ASSUME Nat \ S # {} PROVE FALSE OBVIOUS
<1>1. PICK x \in Nat \ S : \A y \in Nat \ S : x <= y BY LeastNatural
<1>2. x - 1 \in Nat /\ x - 1 \notin Nat \ S BY <1>1
<1>3. (x - 1) + 1 \in S BY <1>2
<1> QED BY <1>3

-----------------------------------------------------------------------------
(* even_chunks: where slice i starts, in closed form.                      *)

EvenOffset(len, i) ==
  (len \div WorldSize) * i + (IF i < len % WorldSize THEN i ELSE len % WorldSize)

LEMMA EvenShare ==
  ASSUME NEW len \in Nat
  PROVE  /\ len \div WorldSize \in Nat
         /\ len % WorldSize \in 0 .. (WorldSize - 1)
         /\ len = (len \div WorldSize) * WorldSize + (len % WorldSize)
         /\ len >= WorldSize => len \div WorldSize # 0
<1>1. WorldSize \in Nat \ {0} BY SlicingAssumption
<1>2. PICK q \in Nat : q = len \div WorldSize BY <1>1, DivBounds
<1>3. PICK r \in 0 .. (WorldSize - 1) : r = len % WorldSize BY <1>1
<1>4. len = q * WorldSize + r BY <1>1, <1>2, <1>3
<1>5. ASSUME len >= WorldSize PROVE len \div WorldSize # 0
  <2> SUFFICES ASSUME q = 0 PROVE FALSE BY <1>2
  <2>1. q * WorldSize = 0 BY <1>1
  <2> QED BY <1>1, <1>3, <1>4, <1>5, <2>1
<1>6. len = (len \div WorldSize) * WorldSize + (len % WorldSize) BY <1>2, <1>3, <1>4
<1> QED BY <1>2, <1>3, <1>5, <1>6

LEMMA EvenOffsetStep ==
  ASSUME NEW len \in Nat, NEW i \in Nat
  PROVE  /\ EvenOffset(len, 0) = 0
         /\ EvenOffset(len, i) \in Nat
         /\ EvenTake(len, i) \in Nat
         /\ EvenOffset(len, i + 1) = EvenOffset(len, i) + EvenTake(len, i)
<1>1. PICK q \in Nat : q = len \div WorldSize BY EvenShare
<1>2. PICK r \in Nat : r = len % WorldSize BY EvenShare, SlicingAssumption
<1>3. /\ EvenOffset(len, i) = q * i + (IF i < r THEN i ELSE r)
      /\ EvenOffset(len, i + 1) = q * (i + 1) + (IF i + 1 < r THEN i + 1 ELSE r)
      /\ EvenOffset(len, 0) = q * 0 + (IF 0 < r THEN 0 ELSE r)
      /\ EvenTake(len, i) = q + (IF i < r THEN 1 ELSE 0)
  BY <1>1, <1>2 DEF EvenOffset, EvenTake
<1>4. q * (i + 1) = q * i + q /\ q * 0 = 0 /\ q * i \in Nat OBVIOUS
<1> QED BY <1>3, <1>4

(* The loop of even_chunks computes it.                                    *)
LEMMA EvenStartIs ==
  ASSUME NEW len \in Nat
  PROVE  \A i \in 0 .. WorldSize : EvenStart(len)[i] = EvenOffset(len, i)
<1> DEFINE Fills(f) ==
             f = [i \in 0 .. WorldSize |-> IF i = 0 THEN 0 ELSE f[i - 1] + EvenTake(len, i - 1)]
           closed == [i \in 0 .. WorldSize |-> EvenOffset(len, i)]
<1>1. WorldSize \in Nat \ {0} BY SlicingAssumption
<1>2. Fills(closed)
  <2> SUFFICES ASSUME NEW i \in 0 .. WorldSize
               PROVE  EvenOffset(len, i) =
                        IF i = 0 THEN 0 ELSE closed[i - 1] + EvenTake(len, i - 1)
    OBVIOUS
  <2>1. CASE i = 0 BY <2>1, EvenOffsetStep
  <2>2. CASE i # 0
    <3>1. i - 1 \in Nat /\ i - 1 \in 0 .. WorldSize /\ (i - 1) + 1 = i BY <1>1, <2>2
    <3>2. EvenOffset(len, (i - 1) + 1) = EvenOffset(len, i - 1) + EvenTake(len, i - 1)
      BY <3>1, EvenOffsetStep
    <3> QED BY <2>2, <3>1, <3>2
  <2> QED BY <2>1, <2>2
<1>3. PICK start : start = EvenStart(len) /\ Fills(start)
  <2>1. EvenStart(len) = CHOOSE f : Fills(f) BY DEF EvenStart
  <2>2. \E f : Fills(f) BY <1>2
  <2> HIDE DEF Fills
  <2>3. Fills(CHOOSE f : Fills(f)) BY <2>2
  <2> QED BY <2>1, <2>3
<1> DEFINE S == { i \in Nat : i <= WorldSize => start[i] = EvenOffset(len, i) }
<1>4. 0 \in S
  <2>1. start[0] = 0 BY <1>1, <1>3
  <2> QED BY <2>1, EvenOffsetStep
<1>5. ASSUME NEW i \in Nat, i \in S PROVE i + 1 \in S
  <2> SUFFICES ASSUME i + 1 <= WorldSize PROVE start[i + 1] = EvenOffset(len, i + 1) OBVIOUS
  <2>1. i + 1 \in 0 .. WorldSize /\ i + 1 # 0 /\ (i + 1) - 1 = i BY <1>1
  <2>2. start[i + 1] = start[i] + EvenTake(len, i) BY <1>3, <2>1
  <2>3. start[i] = EvenOffset(len, i) BY <1>1, <1>5
  <2> QED BY <2>2, <2>3, EvenOffsetStep
<1> HIDE DEF S
<1>6. \A i \in Nat : i \in S BY <1>4, <1>5, SetInduction
<1> QED BY <1>1, <1>3, <1>6 DEF S

LEMMA EvenOffsetGrows ==
  ASSUME NEW len \in Nat, NEW i \in Nat, NEW j \in Nat, i <= j
  PROVE  EvenOffset(len, i) <= EvenOffset(len, j)
<1>1. PICK q \in Nat : q = len \div WorldSize BY EvenShare
<1>2. PICK r \in Nat : r = len % WorldSize BY EvenShare, SlicingAssumption
<1>3. /\ EvenOffset(len, i) = q * i + (IF i < r THEN i ELSE r)
      /\ EvenOffset(len, j) = q * j + (IF j < r THEN j ELSE r)
  BY <1>1, <1>2 DEF EvenOffset
<1>4. q * i <= q * j BY MulMonotone
<1>5. q * i \in Nat /\ q * j \in Nat OBVIOUS
<1> QED BY <1>3, <1>4, <1>5

LEMMA EvenOffsetEnd ==
  ASSUME NEW len \in Nat
  PROVE  EvenOffset(len, WorldSize) = len
<1>1. WorldSize \in Nat \ {0} BY SlicingAssumption
<1>2. ~(WorldSize < len % WorldSize) BY <1>1, EvenShare
<1> QED BY <1>2, EvenShare DEF EvenOffset

LEMMA InEvenChunk ==
  ASSUME NEW len \in Nat, NEW i \in 0 .. (WorldSize - 1)
  PROVE  EvenPositions(len, i) = { k \in 1 .. len : EvenOffset(len, i) < k
                                                   /\ k <= EvenOffset(len, i + 1) }
<1>1. WorldSize \in Nat \ {0} /\ i \in Nat BY SlicingAssumption
<1>2. EvenStart(len)[i] = EvenOffset(len, i) BY <1>1, EvenStartIs
<1>3. /\ EvenOffset(len, i) \in Nat /\ EvenTake(len, i) \in Nat
      /\ EvenOffset(len, i + 1) = EvenOffset(len, i) + EvenTake(len, i)
  BY <1>1, EvenOffsetStep
<1>4. EvenOffset(len, i + 1) <= len
  <2>1. EvenOffset(len, i + 1) <= EvenOffset(len, WorldSize) BY <1>1, EvenOffsetGrows
  <2> QED BY <1>1, <2>1, EvenOffsetEnd
<1> QED BY <1>2, <1>3, <1>4 DEF EvenPositions

(* even_chunks: every element is in exactly one of the WORLD_SIZE slices,  *)
(* and none of them is empty once the vector has an element per rank,      *)
(* which is what submit_task checks before it dispatches.                  *)
THEOREM EvenChunksPartition ==
  ASSUME NEW len \in Nat
  PROVE  /\ len >= WorldSize =>
              \A i \in 0 .. (WorldSize - 1) : EvenPositions(len, i) # {}
         /\ \A k \in 1 .. len :
              \E i \in 0 .. (WorldSize - 1) : k \in EvenPositions(len, i)
         /\ \A i, j \in 0 .. (WorldSize - 1) :
              i # j => EvenPositions(len, i) \cap EvenPositions(len, j) = {}
<1>1. WorldSize \in Nat \ {0} BY SlicingAssumption
<1>2. ASSUME len >= WorldSize, NEW i \in 0 .. (WorldSize - 1)
      PROVE  EvenPositions(len, i) # {}
  <2>1. i \in Nat BY <1>1
  <2>2. EvenTake(len, i) # 0
    <3>1. PICK q \in Nat : q = len \div WorldSize BY EvenShare
    <3>2. q # 0 BY <1>2, <3>1, EvenShare
    <3>3. EvenTake(len, i) = q \/ EvenTake(len, i) = q + 1 BY <3>1 DEF EvenTake
    <3> QED BY <3>2, <3>3
  <2>3. /\ EvenOffset(len, i) \in Nat /\ EvenTake(len, i) \in Nat
        /\ EvenStart(len)[i] = EvenOffset(len, i)
    BY <1>1, <2>1, EvenOffsetStep, EvenStartIs
  <2>4. EvenOffset(len, i) + 1 \in EvenPositions(len, i) BY <2>2, <2>3 DEF EvenPositions
  <2> QED BY <2>4
<1>3. ASSUME NEW k \in 1 .. len
      PROVE  \E i \in 0 .. (WorldSize - 1) : k \in EvenPositions(len, i)
  <2> DEFINE Beyond == { i \in Nat : k <= EvenOffset(len, i) }
  <2>1. WorldSize \in Beyond BY <1>1, EvenOffsetEnd
  <2>2. PICK m \in Beyond : \A i \in Beyond : m <= i BY <2>1, LeastNatural
  <2>3. m # 0 BY <2>2, EvenOffsetStep
  <2>4. m - 1 \in 0 .. (WorldSize - 1) BY <1>1, <2>1, <2>2, <2>3
  <2>5. EvenOffset(len, m - 1) < k /\ k <= EvenOffset(len, (m - 1) + 1)
    <3>1. m - 1 \notin Beyond /\ m - 1 \in Nat BY <2>2, <2>3
    <3>2. EvenOffset(len, m - 1) \in Nat BY <3>1, EvenOffsetStep
    <3> QED BY <2>2, <3>1, <3>2
  <2> QED BY <2>4, <2>5, InEvenChunk
<1>4. ASSUME NEW i \in 0 .. (WorldSize - 1), NEW j \in 0 .. (WorldSize - 1), i < j
      PROVE  EvenPositions(len, i) \cap EvenPositions(len, j) = {}
  <2> SUFFICES ASSUME NEW k \in EvenPositions(len, i), k \in EvenPositions(len, j) PROVE FALSE
    OBVIOUS
  <2>1. k \in 1 .. len /\ k <= EvenOffset(len, i + 1) /\ EvenOffset(len, j) < k
    BY InEvenChunk
  <2>2. EvenOffset(len, i + 1) <= EvenOffset(len, j) BY <1>4, EvenOffsetGrows
  <2>3. EvenOffset(len, i + 1) \in Nat /\ EvenOffset(len, j) \in Nat BY EvenOffsetStep
  <2> QED BY <2>1, <2>2, <2>3
<1>5. \A i, j \in 0 .. (WorldSize - 1) :
        i # j => EvenPositions(len, i) \cap EvenPositions(len, j) = {}
  <2> TAKE i, j \in 0 .. (WorldSize - 1)
  <2>1. i < j \/ j < i \/ i = j BY <1>1
  <2> QED BY <1>4, <2>1
<1> QED BY <1>2, <1>3, <1>5
=============================================================================
