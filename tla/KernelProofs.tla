---------------------------- MODULE KernelProofs ----------------------------
(***************************************************************************)
(* The two kernels compute partial_softmax, for every slice, every block   *)
(* size that is a power of two and every order of the threads; and, for    *)
(* every vector, number of slices or ranks and pair of formats, each of    *)
(* the three ways to put the slices together is off the softmax of the     *)
(* whole vector by no more than underflow, unless the padding of the       *)
(* kernels decides.                                                        *)
(***************************************************************************)
EXTENDS SoftmaxKernel, SlicingProofs, FiniteSetTheorems, SequenceTheorems

(* Induction over the subsets of a finite set, for a set of sets F.        *)
LEMMA FiniteInduction ==
  ASSUME NEW S, IsFiniteSet(S), NEW F, {} \in F,
         \A T \in SUBSET S : \A x \in S \ T : T \in F => T \cup {x} \in F
  PROVE  \A T \in SUBSET S : T \in F
<1> DEFINE K == { m \in Nat : \A T \in SUBSET S : Cardinality(T) = m => T \in F }
<1>1. 0 \in K
  <2> SUFFICES ASSUME NEW T \in SUBSET S, Cardinality(T) = 0 PROVE T \in F OBVIOUS
  <2>1. IsFiniteSet(T) BY FS_Subset
  <2>2. T = {} BY <2>1, FS_EmptySet
  <2> QED BY <2>2
<1>2. ASSUME NEW m \in Nat, m \in K PROVE m + 1 \in K
  <2> SUFFICES ASSUME NEW T \in SUBSET S, Cardinality(T) = m + 1 PROVE T \in F OBVIOUS
  <2>1. IsFiniteSet(T) BY FS_Subset
  <2>2. PICK x \in T : TRUE BY <2>1, FS_EmptySet
  <2>3. Cardinality(T \ {x}) = m
    <3>1. Cardinality(T \ {x}) = Cardinality(T) - 1 BY <2>1, <2>2, FS_RemoveElement
    <3> QED BY <3>1
  <2>4. T \ {x} \in SUBSET S /\ x \in S \ (T \ {x}) /\ (T \ {x}) \cup {x} = T BY <2>2
  <2>5. T \ {x} \in F BY <1>2, <2>3, <2>4
  <2>6. (T \ {x}) \cup {x} \in F BY <2>4, <2>5
  <2> QED BY <2>4, <2>6
<1> HIDE DEF K
<1>3. \A m \in Nat : m \in K BY <1>1, <1>2, SetInduction
<1> SUFFICES ASSUME NEW T \in SUBSET S PROVE T \in F OBVIOUS
<1>4. Cardinality(T) \in Nat BY FS_Subset, FS_CardinalityType
<1> QED BY <1>3, <1>4 DEF K

-----------------------------------------------------------------------------
(* Sums.  Total adds up a function by taking out one element after the     *)
(* other, in an order that CHOOSE fixes; the lemmas show that the order    *)
(* does not matter.                                                        *)

SumOver(f, S) == MapThenSumSet(LAMBDA k : f[k], S)

Picked(s) == CHOOSE x \in s : TRUE

SumStep(g, f, s) == IF s = {} THEN 0 ELSE f[Picked(s)] + g[s \ {Picked(s)}]

Fills(g, f, S) == g = [s \in SUBSET S |-> SumStep(g, f, s)]

LEMMA TotalIsSum ==
  ASSUME NEW f
  PROVE  Total(f) = SumOver(f, DOMAIN f)
BY DEF SumOver, Total, MapThenSumSet, MapThenFoldSet

LEMMA SumOverIs ==
  ASSUME NEW f, NEW S
  PROVE  SumOver(f, S) = (CHOOSE g : Fills(g, f, S))[S]
BY DEF SumOver, MapThenSumSet, MapThenFoldSet, Fills, SumStep, Picked

LEMMA PickedIn ==
  ASSUME NEW s, s # {}
  PROVE  Picked(s) \in s
BY DEF Picked

(* A function that is right for the sets with up to m elements makes one   *)
(* that is right for those with m + 1.                                     *)
LEMMA FillsExists ==
  ASSUME NEW f, NEW S, IsFiniteSet(S)
  PROVE  \E g : Fills(g, f, S)
<1> DEFINE Upto(g, m) ==
             /\ g = [s \in SUBSET S |-> g[s]]
             /\ \A s \in SUBSET S : Cardinality(s) <= m => g[s] = SumStep(g, f, s)
           K == { m \in Nat : \E g : Upto(g, m) }
           Next1(g) == [s \in SUBSET S |-> SumStep(g, f, s)]
<1>0. ASSUME NEW s \in SUBSET S
      PROVE  /\ Cardinality(s) \in Nat
             /\ s # {} => /\ s \ {Picked(s)} \in SUBSET S
                          /\ Cardinality(s \ {Picked(s)}) = Cardinality(s) - 1
  <2>1. IsFiniteSet(s) BY FS_Subset
  <2> QED BY <2>1, FS_CardinalityType, FS_RemoveElement, PickedIn
<1>1. 0 \in K
  <2> DEFINE g == [s \in SUBSET S |-> 0]
  <2>1. \A s \in SUBSET S : Cardinality(s) <= 0 => s = {}
    <3> TAKE s \in SUBSET S
    <3>1. IsFiniteSet(s) /\ Cardinality(s) \in Nat BY <1>0, FS_Subset
    <3>2. Cardinality(s) = 0 => s = {} BY <3>1, FS_EmptySet
    <3> QED BY <3>1, <3>2
  <2>2. Upto(g, 0) BY <2>1 DEF SumStep
  <2> QED BY <2>2
<1>2. ASSUME NEW m \in Nat, m \in K PROVE m + 1 \in K
  <2>1. PICK g : Upto(g, m) BY <1>2
  <2> DEFINE h == Next1(g)
  <2>2. \A s \in SUBSET S : Cardinality(s) <= m => h[s] = g[s] BY <2>1
  <2>3. ASSUME NEW s \in SUBSET S, Cardinality(s) <= m + 1
        PROVE  h[s] = SumStep(h, f, s)
    <3>1. CASE s = {} BY <3>1 DEF SumStep
    <3>2. CASE s # {}
      <4>1. /\ s \ {Picked(s)} \in SUBSET S
            /\ Cardinality(s \ {Picked(s)}) <= m
        BY <1>0, <2>3, <3>2
      <4>2. h[s \ {Picked(s)}] = g[s \ {Picked(s)}] BY <2>2, <4>1
      <4>3. h[s] = SumStep(g, f, s) OBVIOUS
      <4> HIDE DEF h
      <4> QED BY <3>2, <4>2, <4>3 DEF SumStep
    <3> QED BY <3>1, <3>2
  <2>4. h = [s \in SUBSET S |-> h[s]] OBVIOUS
  <2>5. Upto(h, m + 1)
    <3> HIDE DEF h
    <3> QED BY <2>3, <2>4
  <2> HIDE DEF h, Upto
  <2>6. \E g1 : Upto(g1, m + 1) BY <2>5
  <2> QED BY <2>6
<1>3. \A m \in Nat : m \in K
  <2> HIDE DEF K
  <2> QED BY <1>1, <1>2, SetInduction
<1>4. Cardinality(S) \in Nat BY FS_CardinalityType
<1>5. PICK g : Upto(g, Cardinality(S)) BY <1>3, <1>4
<1>6. \A s \in SUBSET S : Cardinality(s) <= Cardinality(S) BY FS_Subset
<1>7. Fills(g, f, S) BY <1>5, <1>6 DEF Fills
<1> QED BY <1>7

LEMMA SumFills ==
  ASSUME NEW f, NEW S, IsFiniteSet(S)
  PROVE  \E g : Fills(g, f, S) /\ SumOver(f, S) = g[S]
<1>1. Fills(CHOOSE g : Fills(g, f, S), f, S) BY FillsExists
<1> QED BY <1>1, SumOverIs

(* Whatever the whole set is, the sum over a part of it is the same.       *)
LEMMA FillsAgree ==
  ASSUME NEW f, NEW S, IsFiniteSet(S), NEW S2 \in SUBSET S,
         NEW g, Fills(g, f, S), NEW h, Fills(h, f, S2)
  PROVE  g[S2] = h[S2]
<1> DEFINE K == { m \in Nat : \A s \in SUBSET S2 : Cardinality(s) = m => g[s] = h[s] }
<1>0. ASSUME NEW s \in SUBSET S2
      PROVE  /\ IsFiniteSet(s)
             /\ Cardinality(s) \in Nat
             /\ g[s] = SumStep(g, f, s) /\ h[s] = SumStep(h, f, s)
  <2>1. IsFiniteSet(s) /\ s \in SUBSET S BY FS_Subset
  <2> QED BY <2>1, FS_CardinalityType DEF Fills
<1>1. 0 \in K
  <2> SUFFICES ASSUME NEW s \in SUBSET S2, Cardinality(s) = 0 PROVE g[s] = h[s] OBVIOUS
  <2>1. s = {} BY <1>0, FS_EmptySet
  <2> QED BY <1>0, <2>1 DEF SumStep
<1>2. ASSUME NEW m \in Nat, m \in K PROVE m + 1 \in K
  <2> SUFFICES ASSUME NEW s \in SUBSET S2, Cardinality(s) = m + 1 PROVE g[s] = h[s] OBVIOUS
  <2>1. s # {} BY FS_EmptySet
  <2>2. Picked(s) \in s BY <2>1, PickedIn
  <2>3. Cardinality(s \ {Picked(s)}) = m /\ s \ {Picked(s)} \in SUBSET S2
    BY <1>0, <2>2, FS_RemoveElement
  <2>4. g[s \ {Picked(s)}] = h[s \ {Picked(s)}] BY <1>2, <2>3
  <2> QED BY <1>0, <2>1, <2>4 DEF SumStep
<1> HIDE DEF K
<1>3. \A m \in Nat : m \in K BY <1>1, <1>2, SetInduction
<1> QED BY <1>0, <1>3 DEF K

LEMMA SumRec ==
  ASSUME NEW f, NEW S, IsFiniteSet(S)
  PROVE  /\ S = {} => SumOver(f, S) = 0
         /\ S # {} => SumOver(f, S) = f[Picked(S)] + SumOver(f, S \ {Picked(S)})
<1>1. PICK g : Fills(g, f, S) /\ SumOver(f, S) = g[S] BY SumFills
<1>2. g[S] = SumStep(g, f, S) BY <1>1 DEF Fills
<1>3. ASSUME S # {} PROVE g[S \ {Picked(S)}] = SumOver(f, S \ {Picked(S)})
  <2> DEFINE R == S \ {Picked(S)}
  <2>1. IsFiniteSet(R) /\ R \in SUBSET S BY FS_RemoveElement
  <2> HIDE DEF R
  <2>2. PICK h : Fills(h, f, R) /\ SumOver(f, R) = h[R] BY <2>1, SumFills
  <2>3. g[R] = h[R] BY <1>1, <2>1, <2>2, FillsAgree
  <2> QED BY <2>2, <2>3 DEF R
<1> QED BY <1>1, <1>2, <1>3 DEF SumStep

(* The sum of integers is one, and any element may be taken out first.     *)
LEMMA SumTakeAll ==
  ASSUME NEW S, IsFiniteSet(S), NEW f, \A k \in S : f[k] \in Int
  PROVE  \A T \in SUBSET S : /\ SumOver(f, T) \in Int
                             /\ \A x \in T : SumOver(f, T) = f[x] + SumOver(f, T \ {x})
<1> DEFINE Right(T) == /\ SumOver(f, T) \in Int
                       /\ \A x \in T : SumOver(f, T) = f[x] + SumOver(f, T \ {x})
           K == { m \in Nat : \A T \in SUBSET S : Cardinality(T) <= m => Right(T) }
<1>0. ASSUME NEW T \in SUBSET S
      PROVE  IsFiniteSet(T) /\ Cardinality(T) \in Nat
  <2>1. IsFiniteSet(T) BY FS_Subset
  <2> QED BY <2>1, FS_CardinalityType
<1>1. 0 \in K
  <2> SUFFICES ASSUME NEW T \in SUBSET S, Cardinality(T) <= 0 PROVE Right(T) OBVIOUS
  <2>0. Cardinality(T) = 0 BY <1>0
  <2>1. T = {} BY <1>0, <2>0, FS_EmptySet
  <2>2. SumOver(f, T) = 0 BY <1>0, <2>1, SumRec
  <2> QED BY <2>1, <2>2
<1>2. ASSUME NEW m \in Nat, m \in K PROVE m + 1 \in K
  <2> SUFFICES ASSUME NEW T \in SUBSET S, Cardinality(T) = m + 1 PROVE Right(T)
    BY <1>0, <1>2
  <2>1. T # {} BY FS_EmptySet
  <2>2. PICK c \in T : SumOver(f, T) = f[c] + SumOver(f, T \ {c})
    BY <1>0, <2>1, PickedIn, SumRec
  <2>3. ASSUME NEW x \in T PROVE T \ {x} \in SUBSET S /\ Cardinality(T \ {x}) = m
    <3>1. IsFiniteSet(T) BY <1>0
    <3>2. Cardinality(T \ {x}) = Cardinality(T) - 1 BY <3>1, FS_RemoveElement
    <3> QED BY <3>2
  <2>4. ASSUME NEW x \in T PROVE Right(T \ {x}) BY <1>2, <2>3
  <2>5. SumOver(f, T) \in Int BY <2>2, <2>4
  <2>6. ASSUME NEW x \in T PROVE SumOver(f, T) = f[x] + SumOver(f, T \ {x})
    <3>1. CASE x = c BY <2>2, <3>1
    <3>2. CASE x # c
      <4> DEFINE R == (T \ {c}) \ {x}
      <4>1. R = (T \ {x}) \ {c} OBVIOUS
      <4>2. SumOver(f, T \ {c}) = f[x] + SumOver(f, R) BY <2>4, <3>2
      <4>3. SumOver(f, T \ {x}) = f[c] + SumOver(f, R) BY <2>4, <3>2, <4>1
      <4>4. SumOver(f, R) \in Int
        <5>1. R \in SUBSET S /\ IsFiniteSet(T \ {c}) /\ x \in T \ {c} BY <1>0, <2>3, <3>2
        <5>2. Cardinality(R) = Cardinality(T \ {c}) - 1 BY <5>1, FS_RemoveElement
        <5>3. Cardinality(R) <= m BY <2>3, <5>2
        <5> QED BY <1>2, <5>1, <5>3
      <4> HIDE DEF R
      <4>5. f[x] \in Int /\ f[c] \in Int OBVIOUS
      <4> QED BY <2>2, <4>2, <4>3, <4>4, <4>5
    <3> QED BY <3>1, <3>2
  <2> QED BY <2>5, <2>6
<1> HIDE DEF K
<1>3. \A m \in Nat : m \in K BY <1>1, <1>2, SetInduction
<1> QED BY <1>0, <1>3 DEF K

LEMMA SumTake ==
  ASSUME NEW S, IsFiniteSet(S), NEW f, \A k \in S : f[k] \in Int, NEW x \in S
  PROVE  SumOver(f, S) = f[x] + SumOver(f, S \ {x})
BY SumTakeAll

LEMMA SumType ==
  ASSUME NEW S, IsFiniteSet(S), NEW f, \A k \in S : f[k] \in Int
  PROVE  SumOver(f, S) \in Int
BY SumTakeAll

LEMMA SumSame ==
  ASSUME NEW S, IsFiniteSet(S), NEW f, NEW g, \A k \in S : f[k] \in Int /\ f[k] = g[k]
  PROVE  SumOver(f, S) = SumOver(g, S)
<1> DEFINE F == { T \in SUBSET S : SumOver(f, T) = SumOver(g, T) }
<1>1. {} \in F BY SumRec, FS_EmptySet
<1>2. ASSUME NEW T \in SUBSET S, NEW x \in S \ T, T \in F PROVE T \cup {x} \in F
  <2> DEFINE U == T \cup {x}
  <2>1. U \in SUBSET S /\ IsFiniteSet(U) /\ x \in U /\ U \ {x} = T BY FS_Subset
  <2>2. \A k \in U : f[k] \in Int /\ g[k] \in Int OBVIOUS
  <2> HIDE DEF U
  <2>3. SumOver(f, U) = f[x] + SumOver(f, T) /\ SumOver(g, U) = g[x] + SumOver(g, T)
    BY <2>1, <2>2, SumTake
  <2>4. U \in F BY <1>2, <2>1, <2>3
  <2> QED BY <2>4 DEF U
<1> HIDE DEF F
<1>3. \A T \in SUBSET S : T \in F BY <1>1, <1>2, FiniteInduction
<1> QED BY <1>3 DEF F

LEMMA SumInterval ==
  ASSUME NEW a \in Nat, NEW b \in Int, a <= b + 1, NEW f, \A k \in a .. (b + 1) : f[k] \in Int
  PROVE  SumOver(f, a .. (b + 1)) = SumOver(f, a .. b) + f[b + 1]
<1> DEFINE U == a .. (b + 1)
           R == a .. b
           x == b + 1
<1>1. IsFiniteSet(U) /\ x \in U /\ U \ {x} = R BY FS_Interval
<1>2. IsFiniteSet(R) /\ \A k \in R : f[k] \in Int BY FS_Interval
<1>3. \A k \in U : f[k] \in Int OBVIOUS
<1> HIDE DEF U, R, x
<1>4. SumOver(f, U) = f[x] + SumOver(f, R) BY <1>1, <1>3, SumTake
<1>5. SumOver(f, R) \in Int /\ f[x] \in Int BY <1>1, <1>2, <1>3, SumType
<1>6. SumOver(f, U) = SumOver(f, R) + f[x] BY <1>4, <1>5
<1> QED BY <1>6 DEF U, R, x

LEMMA SumNone ==
  ASSUME NEW f
  PROVE  SumOver(f, {}) = 0
BY SumRec, FS_EmptySet

(* Zeros at the end do not count.                                          *)
LEMMA SumZeroTail ==
  ASSUME NEW f, NEW len \in Nat, \A k \in 1 .. len : f[k] \in Int,
         \A k \in Nat : k > len => f[k] = 0
  PROVE  \A m \in Nat : SumOver(f, 1 .. (len + m)) = SumOver(f, 1 .. len)
<1> DEFINE K == { m \in Nat : SumOver(f, 1 .. (len + m)) = SumOver(f, 1 .. len) }
<1>1. 0 \in K OBVIOUS
<1>2. ASSUME NEW m \in Nat, m \in K PROVE m + 1 \in K
  <2>1. \A k \in 1 .. ((len + m) + 1) : f[k] \in Int OBVIOUS
  <2>2. SumOver(f, 1 .. ((len + m) + 1)) = SumOver(f, 1 .. (len + m)) + f[(len + m) + 1]
    BY <2>1, SumInterval
  <2>3. f[(len + m) + 1] = 0 /\ (len + m) + 1 = len + (m + 1) OBVIOUS
  <2>4. SumOver(f, 1 .. len) \in Int
    <3>1. IsFiniteSet(1 .. len) BY FS_Interval
    <3> QED BY <3>1, SumType
  <2> QED BY <1>2, <2>2, <2>3, <2>4
<1> HIDE DEF K
<1>3. \A m \in Nat : m \in K BY <1>1, <1>2, SetInduction
<1> QED BY <1>3 DEF K

(* Adding up a sequence block by block.                                    *)
LEMMA SumRow ==
  ASSUME NEW f, \A k \in Nat : f[k] \in Int, NEW a \in Nat, NEW row, NEW w \in Nat,
         \A t \in 0 .. (w - 1) : row[t] = f[a + t + 1]
  PROVE  SumOver(f, 1 .. (a + w)) = SumOver(f, 1 .. a) + SumOver(row, 0 .. (w - 1))
<1> DEFINE K == { m \in Nat : m <= w =>
                    SumOver(f, 1 .. (a + m)) = SumOver(f, 1 .. a) + SumOver(row, 0 .. (m - 1)) }
<1>0. SumOver(f, 1 .. a) \in Int
  <2>1. IsFiniteSet(1 .. a) BY FS_Interval
  <2> QED BY <2>1, SumType
<1>1. 0 \in K
  <2>1. 0 .. (0 - 1) = {} /\ a + 0 = a OBVIOUS
  <2>2. SumOver(row, 0 .. (0 - 1)) = 0 BY <2>1, SumNone
  <2> QED BY <1>0, <2>1, <2>2
<1>2. ASSUME NEW m \in Nat, m \in K PROVE m + 1 \in K
  <2> SUFFICES ASSUME m + 1 <= w
               PROVE  SumOver(f, 1 .. (a + (m + 1)))
                        = SumOver(f, 1 .. a) + SumOver(row, 0 .. ((m + 1) - 1))
    OBVIOUS
  <2>1. SumOver(f, 1 .. (a + m)) = SumOver(f, 1 .. a) + SumOver(row, 0 .. (m - 1)) BY <1>2
  <2>2. SumOver(f, 1 .. ((a + m) + 1)) = SumOver(f, 1 .. (a + m)) + f[(a + m) + 1]
    BY SumInterval
  <2>3. \A t \in 0 .. ((m - 1) + 1) : row[t] \in Int
    <3> TAKE t \in 0 .. ((m - 1) + 1)
    <3>1. t \in 0 .. (w - 1) /\ a + t + 1 \in Nat OBVIOUS
    <3> QED BY <3>1
  <2>4. SumOver(row, 0 .. ((m - 1) + 1)) = SumOver(row, 0 .. (m - 1)) + row[(m - 1) + 1]
    BY <2>3, SumInterval
  <2>5. (a + m) + 1 = a + (m + 1) /\ (m - 1) + 1 = m /\ (m + 1) - 1 = m OBVIOUS
  <2>6. row[m] = f[a + m + 1] /\ f[a + m + 1] \in Int
    <3>1. m \in 0 .. (w - 1) /\ a + m + 1 \in Nat OBVIOUS
    <3> QED BY <3>1
  <2>7. SumOver(row, 0 .. (m - 1)) \in Int
    <3>1. IsFiniteSet(0 .. (m - 1)) BY FS_Interval
    <3>2. \A t \in 0 .. (m - 1) : row[t] \in Int BY <2>3
    <3> QED BY <3>1, <3>2, SumType
  <2>8. (a + m) + 1 = a + m + 1 OBVIOUS
  <2> QED BY <1>0, <2>1, <2>2, <2>4, <2>5, <2>6, <2>7, <2>8
<1> HIDE DEF K
<1>3. \A m \in Nat : m \in K BY <1>1, <1>2, SetInduction
<1> QED BY <1>3 DEF K

LEMMA SumBlocks ==
  ASSUME NEW f, \A k \in Nat : f[k] \in Int, NEW w \in Nat, NEW q \in Nat,
         NEW out,
         \A b \in 0 .. (q - 1) :
           out[b] = SumOver([t \in 0 .. (w - 1) |-> f[b * w + t + 1]], 0 .. (w - 1))
  PROVE  SumOver(out, 0 .. (q - 1)) = SumOver(f, 1 .. (q * w))
<1> DEFINE K == { m \in Nat : m <= q => SumOver(out, 0 .. (m - 1)) = SumOver(f, 1 .. (m * w)) }
<1>1. 0 \in K
  <2>1. 0 .. (0 - 1) = {} /\ 1 .. (0 * w) = {} OBVIOUS
  <2> QED BY <2>1, SumNone
<1>2. ASSUME NEW m \in Nat, m \in K PROVE m + 1 \in K
  <2> SUFFICES ASSUME m + 1 <= q
               PROVE  SumOver(out, 0 .. ((m + 1) - 1)) = SumOver(f, 1 .. ((m + 1) * w))
    OBVIOUS
  <2>1. SumOver(out, 0 .. (m - 1)) = SumOver(f, 1 .. (m * w)) BY <1>2
  <2>2. \A b \in 0 .. (q - 1) : out[b] \in Int
    <3> SUFFICES ASSUME NEW b \in 0 .. (q - 1)
                 PROVE  SumOver([t \in 0 .. (w - 1) |-> f[b * w + t + 1]], 0 .. (w - 1)) \in Int
      OBVIOUS
    <3> DEFINE r == [t \in 0 .. (w - 1) |-> f[b * w + t + 1]]
    <3>1. IsFiniteSet(0 .. (w - 1))
      <4>1. w - 1 \in Int /\ 0 \in Int OBVIOUS
      <4> QED BY <4>1, FS_Interval
    <3>2. ASSUME NEW t \in 0 .. (w - 1) PROVE r[t] \in Int
      <4>1. b * w \in Nat OBVIOUS
      <4>2. b * w + t + 1 \in Nat BY <4>1
      <4> QED BY <4>2
    <3> HIDE DEF r
    <3>3. SumOver(r, 0 .. (w - 1)) \in Int BY <3>1, <3>2, SumType
    <3> QED BY <3>3 DEF r
  <2>3. SumOver(out, 0 .. ((m - 1) + 1)) = SumOver(out, 0 .. (m - 1)) + out[(m - 1) + 1]
    BY <2>2, SumInterval
  <2>4. PICK a \in Nat : a = m * w OBVIOUS
  <2>5. (m + 1) * w = a + w BY <2>4
  <2>6. m \in 0 .. (q - 1) OBVIOUS
  <2> DEFINE r == [t \in 0 .. (w - 1) |-> f[m * w + t + 1]]
  <2>7. \A t \in 0 .. (w - 1) : r[t] = f[a + t + 1] BY <2>4
  <2>8. out[m] = SumOver(r, 0 .. (w - 1)) BY <2>6
  <2> HIDE DEF r
  <2>9. SumOver(f, 1 .. (a + w)) = SumOver(f, 1 .. a) + SumOver(r, 0 .. (w - 1))
    BY <2>7, SumRow
  <2>10. (m - 1) + 1 = m /\ (m + 1) - 1 = m OBVIOUS
  <2> QED BY <2>1, <2>3, <2>4, <2>5, <2>8, <2>9, <2>10
<1> HIDE DEF K
<1>3. \A m \in Nat : m \in K BY <1>1, <1>2, SetInduction
<1> QED BY <1>3 DEF K

-----------------------------------------------------------------------------
(* Powers of two, from the size of the power set.                          *)
LEMMA PowerCount ==
  ASSUME NEW k \in Nat
  PROVE  /\ IsFiniteSet(SUBSET (1 .. k))
         /\ Cardinality(SUBSET (1 .. k)) = 2 ^ k
<1>1. IsFiniteSet(1 .. k) /\ Cardinality(1 .. k) = k BY FS_Interval
<1> QED BY <1>1, FS_SUBSET

LEMMA PowerStep ==
  ASSUME NEW k \in Nat
  PROVE  2 ^ k \in Nat \ {0} /\ 2 ^ (k + 1) = 2 * 2 ^ k
<1> DEFINE A == SUBSET (1 .. k)
           f == [T \in A |-> T \cup {k + 1}]
           B == { f[T] : T \in A }
<1>1. IsFiniteSet(A) /\ Cardinality(A) = 2 ^ k /\ Cardinality(A) \in Nat
  BY PowerCount, FS_CardinalityType
<1>2. {} \in A OBVIOUS
<1>3. Cardinality(A) # 0 BY <1>1, <1>2, FS_EmptySet
<1>4. \A T \in A : k + 1 \notin T OBVIOUS
<1>5. f \in Bijection(A, B)
  <2>1. f \in [A -> B] OBVIOUS
  <2>2. ASSUME NEW T \in A, NEW U \in A, f[T] = f[U] PROVE T = U
    <3>1. T = f[T] \ {k + 1} /\ U = f[U] \ {k + 1} BY <1>4
    <3> QED BY <2>2, <3>1
  <2>3. \A y \in B : \E T \in A : f[T] = y OBVIOUS
  <2> HIDE DEF f, A, B
  <2> QED BY <2>1, <2>2, <2>3 DEF Bijection, Injection, Surjection, IsInjective
<1>6. IsFiniteSet(B) /\ Cardinality(B) = Cardinality(A)
  <2>1. ExistsBijection(A, B) BY <1>5 DEF ExistsBijection
  <2> HIDE DEF A, B
  <2> QED BY <1>1, <2>1, FS_Bijection
<1>7. SUBSET (1 .. (k + 1)) = A \cup B
  <2>1. ASSUME NEW T \in SUBSET (1 .. (k + 1)), k + 1 \in T PROVE T \in B
    <3>1. T \ {k + 1} \in A BY <2>1
    <3>2. f[T \ {k + 1}] = T BY <2>1, <3>1
    <3> QED BY <3>1, <3>2
  <2>2. ASSUME NEW T \in SUBSET (1 .. (k + 1)), k + 1 \notin T PROVE T \in A BY <2>2
  <2>3. \A T \in A : T \in SUBSET (1 .. (k + 1)) OBVIOUS
  <2>4. ASSUME NEW T \in B PROVE T \in SUBSET (1 .. (k + 1))
    <3>1. PICK U \in A : T = U \cup {k + 1} OBVIOUS
    <3>2. k + 1 \in 1 .. (k + 1) /\ U \subseteq 1 .. (k + 1) OBVIOUS
    <3> QED BY <3>1, <3>2
  <2> HIDE DEF A, B
  <2> QED BY <2>1, <2>2, <2>3, <2>4
<1>8. A \cap B = {} BY <1>4
<1>9. Cardinality(SUBSET (1 .. (k + 1))) = 2 ^ (k + 1)
  <2>1. k + 1 \in Nat OBVIOUS
  <2> QED BY <2>1, PowerCount
<1> HIDE DEF A, B
<1>10. Cardinality(A \cup B) = Cardinality(A) + Cardinality(B) - Cardinality(A \cap B)
  BY <1>1, <1>6, FS_Union
<1>11. Cardinality(A \cap B) = 0 BY <1>8, FS_EmptySet
<1>12. PICK p \in Nat : p = Cardinality(A) BY <1>1
<1>13. p = 2 ^ k /\ p # 0 /\ Cardinality(A \cup B) = 2 * p
  BY <1>1, <1>3, <1>6, <1>10, <1>11, <1>12
<1>14. 2 ^ (k + 1) = 2 * p BY <1>7, <1>9, <1>13
<1> QED BY <1>13, <1>14

-----------------------------------------------------------------------------
(* Maxima.                                                                 *)
LEMMA GreatestAt ==
  ASSUME NEW S, IsFiniteSet(S), S # {}, NEW f, \A k \in S : f[k] \in Int
  PROVE  \E d \in S : \A e \in S : f[e] <= f[d]
<1> DEFINE F == { T \in SUBSET S : T = {} \/ \E d \in T : \A e \in T : f[e] <= f[d] }
<1>1. {} \in F OBVIOUS
<1>2. ASSUME NEW T \in SUBSET S, NEW x \in S \ T, T \in F PROVE T \cup {x} \in F
  <2>1. CASE T = {} BY <2>1
  <2>2. CASE T # {}
    <3>1. PICK d \in T : \A e \in T : f[e] <= f[d] BY <1>2, <2>2
    <3>2. CASE f[x] <= f[d] BY <3>1, <3>2
    <3>3. CASE f[d] <= f[x]
      <4>1. \A e \in T : f[e] <= f[x] BY <3>1, <3>3
      <4> QED BY <4>1
    <3> QED BY <3>1, <3>2, <3>3
  <2> QED BY <2>1, <2>2
<1> HIDE DEF F
<1>3. \A T \in SUBSET S : T \in F BY <1>1, <1>2, FiniteInduction
<1> QED BY <1>3 DEF F

LEMMA MaxIs ==
  ASSUME NEW S \in SUBSET Int, NEW m \in S, \A x \in S : x <= m
  PROVE  Max(S) = m
<1>1. \A x \in S : m >= x OBVIOUS
<1>2. PICK y \in S : y = Max(S) /\ \A x \in S : y >= x BY <1>1 DEF Max
<1>3. y >= m /\ y <= m /\ y \in Int /\ m \in Int BY <1>2
<1> QED BY <1>2, <1>3

LEMMA GreatestIs ==
  ASSUME NEW f, \A k \in DOMAIN f : f[k] \in Int,
         NEW d \in DOMAIN f, \A e \in DOMAIN f : f[e] <= f[d]
  PROVE  Greatest(f) = f[d]
BY MaxIs DEF Greatest

LEMMA MaxOfTwo ==
  ASSUME NEW x \in Int, NEW y \in Int
  PROVE  \/ x <= y /\ Max({x, y}) = y
         \/ y <= x /\ Max({x, y}) = x
<1>1. CASE x <= y
  <2>1. Max({x, y}) = y BY <1>1, MaxIs
  <2> QED BY <1>1, <2>1
<1>2. CASE y <= x
  <2>1. Max({x, y}) = x BY <1>2, MaxIs
  <2> QED BY <1>2, <2>1
<1> QED BY <1>1, <1>2

LEMMA VectorMax ==
  ASSUME NEW len \in Nat \ {0}, NEW vec \in [1 .. len -> Int]
  PROVE  \E d \in 1 .. len : Greatest(vec) = vec[d] /\ \A k \in 1 .. len : vec[k] <= vec[d]
<1>1. IsFiniteSet(1 .. len) /\ 1 \in 1 .. len BY FS_Interval
<1>2. DOMAIN vec = 1 .. len /\ \A k \in 1 .. len : vec[k] \in Int OBVIOUS
<1>3. PICK d \in 1 .. len : \A k \in 1 .. len : vec[k] <= vec[d] BY <1>1, <1>2, GreatestAt
<1>4. Greatest(vec) = vec[d] BY <1>2, <1>3, GreatestIs
<1> QED BY <1>3, <1>4

(* The maximum that the CUDA kernels find is one, and never too small.     *)
LEMMA BlockMaxIs ==
  ASSUME NEW len \in Nat \ {0}, NEW vec \in [1 .. len -> Int]
  PROVE  /\ Greatest(vec) \in Int /\ block_max(vec) \in Int
         /\ Greatest(vec) <= block_max(vec)
         /\ \/ block_max(vec) = Greatest(vec)
            \/ len % BlockSize # 0 /\ Greatest(vec) < Pad /\ block_max(vec) = Pad
         /\ len % BlockSize = 0 => block_max(vec) = Greatest(vec)
         /\ len % BlockSize # 0 /\ Greatest(vec) <= Pad => block_max(vec) = Pad
<1>1. PICK g \in Int : g = Greatest(vec) BY VectorMax
<1>2. Pad \in Int BY PadAssumption
<1>3. Len(vec) = len OBVIOUS
<1>4. CASE len % BlockSize = 0 BY <1>1, <1>3, <1>4 DEF block_max
<1>5. CASE len % BlockSize # 0
  <2>1. block_max(vec) = Max({g, Pad}) BY <1>1, <1>3, <1>5 DEF block_max
  <2>2. \/ g <= Pad /\ Max({g, Pad}) = Pad
        \/ Pad <= g /\ Max({g, Pad}) = g
    BY <1>2, MaxOfTwo
  <2>3. PICK m \in Int : m = block_max(vec) BY <1>2, <2>1, <2>2
  <2> QED BY <1>1, <1>2, <1>5, <2>1, <2>2, <2>3
<1> QED BY <1>4, <1>5

-----------------------------------------------------------------------------
(* The inductive invariant.  While a block reduces, the cells that still   *)
(* matter are those below the stride and the partners of the threads that  *)
(* have not had their turn.                                                *)

Cell(b, t) ==
  IF Element(b, t) <= n
    THEN IF pass = "max" THEN data[Element(b, t)] ELSE Exp32(data[Element(b, t)] - global_max)
    ELSE IF pass = "max" THEN Pad ELSE 0

Row(b) == [t \in Threads |-> Cell(b, t)]

Live(b) ==
  IF stride[b] = 0 THEN {0}
  ELSE (0 .. (stride[b] - 1)) \cup { t + stride[b] : t \in todo[b] }

(* The cells S of f give the same maximum, or sum, as the whole row.       *)
Carries(p, row, f, S) ==
  IF p = "max"
    THEN /\ \A t \in Threads : \E s \in S : row[t] <= f[s]
         /\ \A s \in S : \E t \in Threads : f[s] = row[t]
    ELSE SumOver(f, S) = SumOver(row, Threads)

KernelType ==
  /\ n \in Nat \ {0}
  /\ data \in [1 .. n -> Int]
  /\ \A k \in 1 .. n : data[k] \in Values
  /\ pass \in {"max", "sum", "done"}
  /\ global_max \in Int
  /\ exp_out \in [1 .. n -> Int]
  /\ phase \in [Blocks -> {"load", "reduce", "written"}]
  /\ stride \in [Blocks -> Nat]
  /\ todo \in [Blocks -> SUBSET Nat]
  /\ sdata \in [Blocks -> [Threads -> Int]]
  /\ block_out \in [Blocks -> Int]

BlockInv(b) ==
  /\ phase[b] # "load" =>
       /\ \/ stride[b] = 0
          \/ 2 * stride[b] <= BlockSize /\ \E k \in 0 .. BlockSize : stride[b] = 2 ^ k
       /\ todo[b] \subseteq 0 .. (stride[b] - 1)
       /\ Carries(pass, Row(b), sdata[b], Live(b))
  /\ phase[b] # "load" /\ pass # "max" =>
       \A t \in Threads : Element(b, t) <= n => exp_out[Element(b, t)] = Cell(b, t)
  /\ phase[b] = "written" => stride[b] = 0 /\ block_out[b] = sdata[b][0]

KernelInv ==
  /\ KernelType
  /\ \A b \in Blocks : BlockInv(b)
  /\ pass # "max" => global_max = block_max(data)
  /\ pass = "done" => Written /\ partial_sum = Total(block_out)
-----------------------------------------------------------------------------
(* Sizes, powers and types.                                                *)

LEMMA BlockSizePositive == BlockSize \in Nat \ {0}
<1>1. PICK k \in 0 .. BlockSize : BlockSize = 2 ^ k BY PadAssumption
<1>2. k \in Nat BY PadAssumption
<1> QED BY <1>1, <1>2, PowerStep

LEMMA ThreadsFinite == IsFiniteSet(Threads) /\ Threads \in SUBSET Nat /\ 0 \in Threads
<1>1. BlockSize \in Nat \ {0} BY BlockSizePositive
<1>2. IsFiniteSet(0 .. (BlockSize - 1)) BY <1>1, FS_Interval
<1> QED BY <1>1, <1>2 DEF Threads

(* s >>= 1 halves a power of two exactly until it is 1, and then ends.     *)
LEMMA Halve ==
  ASSUME NEW s \in Nat, NEW k \in Nat, s = 2 ^ k, k <= BlockSize
  PROVE  \/ s = 1 /\ s \div 2 = 0
         \/ /\ s \div 2 \in Nat \ {0} /\ s = 2 * (s \div 2)
            /\ \E j \in 0 .. BlockSize : s \div 2 = 2 ^ j
<1>1. CASE k = 0
  <2>1. 2 ^ 0 = 1 OBVIOUS
  <2> QED BY <1>1, <2>1
<1>2. CASE k # 0
  <2>1. PICK j \in Nat : k = j + 1 BY <1>2
  <2>2. PICK h \in Nat \ {0} : h = 2 ^ j BY <2>1, PowerStep
  <2>3. s = 2 * h BY <2>1, <2>2, PowerStep
  <2>4. s \div 2 = h BY <2>3
  <2>5. j \in 0 .. BlockSize BY <2>1, PadAssumption
  <2> QED BY <2>2, <2>3, <2>4, <2>5
<1> QED BY <1>1, <1>2

LEMMA Exp32Type ==
  ASSUME NEW d \in Int
  PROVE  Exp32(d) \in Nat
<1>1. Tiny32 \in Nat BY TinyAssumption
<1>2. CASE d < -Tiny32 BY <1>2 DEF Exp32
<1>3. CASE ~(d < -Tiny32)
  <2>1. PICK e \in Nat : e = Tiny32 + d BY <1>1, <1>3
  <2>2. 2 ^ e \in Nat BY PowerStep
  <2> QED BY <1>3, <2>1, <2>2 DEF Exp32
<1> QED BY <1>2, <1>3

LEMMA ElementType ==
  ASSUME NEW b \in Nat, NEW t \in Threads
  PROVE  Element(b, t) \in Nat \ {0}
<1>1. BlockSize \in Nat /\ t \in Nat BY BlockSizePositive, ThreadsFinite
<1>2. b * BlockSize \in Nat BY <1>1
<1> QED BY <1>1, <1>2 DEF Element

(* The grid has a block for every BLOCK_SIZE elements, or part of it.      *)
LEMMA Grid ==
  ASSUME n \in Nat \ {0}
  PROVE  \E q \in Nat \ {0} :
           /\ Blocks = 0 .. (q - 1)
           /\ n <= q * BlockSize
           /\ (q - 1) * BlockSize < n
<1>1. BlockSize \in Nat \ {0} BY BlockSizePositive
<1>2. n + BlockSize - 1 \in Nat BY <1>1
<1>3. PICK q \in Nat : q = (n + BlockSize - 1) \div BlockSize BY <1>1, <1>2, DivBounds
<1>4. PICK m \in Nat : m = BlockSize * q BY <1>1
<1>5. m <= n + BlockSize - 1 /\ n + BlockSize - 1 < m + BlockSize
  BY <1>1, <1>2, <1>3, <1>4, DivBounds
<1>6. q # 0
  <2> SUFFICES ASSUME q = 0 PROVE FALSE OBVIOUS
  <2>1. m = 0 BY <1>1, <1>4
  <2> QED BY <1>1, <1>5, <2>1
<1>7. q * BlockSize = m /\ (q - 1) * BlockSize = m - BlockSize BY <1>1, <1>4
<1>8. n <= m /\ m - BlockSize < n BY <1>1, <1>5
<1> QED BY <1>3, <1>6, <1>7, <1>8 DEF Blocks

LEMMA BlocksNat ==
  ASSUME n \in Nat \ {0}
  PROVE  Blocks \in SUBSET Nat /\ IsFiniteSet(Blocks) /\ Blocks # {}
<1>1. PICK q \in Nat \ {0} : Blocks = 0 .. (q - 1) BY Grid
<1>2. IsFiniteSet(0 .. (q - 1)) BY FS_Interval
<1>3. 0 \in 0 .. (q - 1) OBVIOUS
<1> QED BY <1>1, <1>2, <1>3

(* Every element has a thread.                                             *)
LEMMA ElementThread ==
  ASSUME n \in Nat \ {0}, NEW k \in 1 .. n
  PROVE  \E b \in Blocks : \E t \in Threads : Element(b, t) = k
<1>1. BlockSize \in Nat \ {0} BY BlockSizePositive
<1>2. PICK q \in Nat \ {0} : Blocks = 0 .. (q - 1) /\ n <= q * BlockSize BY Grid
<1>3. k - 1 \in Nat OBVIOUS
<1>4. PICK b \in Nat : b = (k - 1) \div BlockSize BY <1>1, <1>3, DivBounds
<1>5. PICK a \in Nat : a = BlockSize * b BY <1>1
<1>6. a <= k - 1 /\ k - 1 < a + BlockSize BY <1>1, <1>3, <1>4, <1>5, DivBounds
<1>7. b < q
  <2> SUFFICES ASSUME q <= b PROVE FALSE OBVIOUS
  <2>1. BlockSize * q <= BlockSize * b BY <1>1, MulMonotone
  <2>2. BlockSize * q = q * BlockSize BY <1>1
  <2>3. PICK m \in Nat : m = q * BlockSize BY <1>1
  <2> QED BY <1>2, <1>5, <1>6, <2>1, <2>2, <2>3
<1>8. PICK t \in Threads : t = (k - 1) - a BY <1>1, <1>3, <1>6 DEF Threads
<1>9. b * BlockSize = a BY <1>1, <1>5
<1>10. Element(b, t) = k BY <1>8, <1>9 DEF Element
<1> QED BY <1>2, <1>7, <1>10

(* Only an incomplete last block has threads without an element.           *)
LEMMA Incomplete ==
  ASSUME n \in Nat \ {0}, NEW b \in Blocks, NEW t \in Threads, ~(Element(b, t) <= n)
  PROVE  n % BlockSize # 0
<1> SUFFICES ASSUME n % BlockSize = 0 PROVE FALSE OBVIOUS
<1>1. BlockSize \in Nat \ {0} BY BlockSizePositive
<1>2. PICK q \in Nat \ {0} : Blocks = 0 .. (q - 1) /\ (q - 1) * BlockSize < n BY Grid
<1>3. PICK m \in Nat : m = n \div BlockSize BY <1>1, DivBounds
<1>4. n = BlockSize * m BY <1>1, <1>3
<1>5. q - 1 < m
  <2> SUFFICES ASSUME m <= q - 1 PROVE FALSE OBVIOUS
  <2>1. BlockSize * m <= BlockSize * (q - 1) BY <1>1, MulMonotone
  <2>2. BlockSize * (q - 1) = (q - 1) * BlockSize BY <1>1
  <2>3. PICK a \in Nat : a = (q - 1) * BlockSize BY <1>1
  <2> QED BY <1>2, <1>4, <2>1, <2>2, <2>3
<1>6. b + 1 <= m /\ b \in Nat BY <1>2, <1>5
<1>7. BlockSize * (b + 1) <= BlockSize * m BY <1>1, <1>6, MulMonotone
<1>8. PICK a \in Nat : a = b * BlockSize BY <1>1, <1>6
<1>9. BlockSize * (b + 1) = a + BlockSize BY <1>1, <1>6, <1>8
<1>10. Element(b, t) <= a + BlockSize
  BY <1>1, <1>8 DEF Element, Threads
<1>11. a + BlockSize <= n BY <1>4, <1>7, <1>9
<1>12. Element(b, t) \in Nat BY <1>6, ElementType
<1> QED BY <1>1, <1>10, <1>11, <1>12

LEMMA Padded ==
  ASSUME n \in Nat \ {0}, n % BlockSize # 0
  PROVE  \E b \in Blocks : \E t \in Threads : ~(Element(b, t) <= n)
<1>1. BlockSize \in Nat \ {0} BY BlockSizePositive
<1>2. PICK q \in Nat \ {0} : Blocks = 0 .. (q - 1) /\ n <= q * BlockSize BY Grid
<1>3. PICK m \in Nat : m = q * BlockSize BY <1>1
<1>4. n # m
  <2>1. m % BlockSize = 0 BY <1>1, <1>3
  <2> QED BY <2>1
<1>5. q - 1 \in Blocks /\ BlockSize - 1 \in Threads BY <1>1, <1>2 DEF Threads
<1>6. Element(q - 1, BlockSize - 1) = m
  <2>1. (q - 1) * BlockSize = m - BlockSize BY <1>1, <1>3
  <2> QED BY <1>1, <2>1 DEF Element
<1>7. ~(m <= n) BY <1>2, <1>3, <1>4
<1> QED BY <1>5, <1>6, <1>7

LEMMA CellType ==
  ASSUME KernelType, NEW b \in Blocks, NEW t \in Threads
  PROVE  Cell(b, t) \in Int
<1>1. b \in Nat BY BlocksNat DEF KernelType
<1>2. Element(b, t) \in Nat \ {0} BY <1>1, ElementType
<1>3. Pad \in Int BY PadAssumption
<1>4. CASE Element(b, t) <= n
  <2>1. Element(b, t) \in 1 .. n BY <1>2, <1>4 DEF KernelType
  <2>2. data[Element(b, t)] \in Int BY <2>1 DEF KernelType
  <2>3. PICK e \in Int : e = data[Element(b, t)] - global_max BY <2>2 DEF KernelType
  <2>4. Exp32(e) \in Int BY Exp32Type
  <2> QED BY <1>4, <2>2, <2>3, <2>4 DEF Cell
<1>5. CASE ~(Element(b, t) <= n) BY <1>3, <1>5 DEF Cell
<1> QED BY <1>4, <1>5

LEMMA RowType ==
  ASSUME KernelType, NEW b \in Blocks
  PROVE  Row(b) \in [Threads -> Int]
BY CellType DEF Row

-----------------------------------------------------------------------------
(* The reduction of one row.                                               *)

LEMMA CarriesAll ==
  ASSUME NEW p, NEW row \in [Threads -> Int]
  PROVE  Carries(p, row, row, Threads)
<1>1. \A t \in Threads : row[t] \in Int /\ row[t] <= row[t] OBVIOUS
<1> QED BY <1>1 DEF Carries

(* One thread combines its cell x with cell y, which nobody needs then.    *)
LEMMA CarriesStep ==
  ASSUME NEW p, NEW row \in [Threads -> Int], NEW f \in [Threads -> Int],
         NEW S \in SUBSET Threads, NEW x \in S, NEW y \in S, x # y,
         Carries(p, row, f, S),
         NEW g \in [Threads -> Int],
         g[x] = IF p = "max" THEN Max({f[x], f[y]}) ELSE f[x] + f[y],
         \A s \in Threads \ {x} : g[s] = f[s]
  PROVE  Carries(p, row, g, S \ {y})
<1>1. f[x] \in Int /\ f[y] \in Int OBVIOUS
<1>2. PICK c \in Int : c = g[x] OBVIOUS
<1>3. g[x] = c /\ \A s \in Threads \ {x} : g[s] = f[s] BY <1>2
<1>4. CASE p = "max"
  <2>1. c = Max({f[x], f[y]}) BY <1>2, <1>4
  <2>2. f[x] <= c /\ f[y] <= c /\ (c = f[x] \/ c = f[y]) BY <1>1, <2>1, MaxOfTwo
  <2>3. ASSUME NEW t \in Threads PROVE \E s \in S \ {y} : row[t] <= g[s]
    <3>1. PICK s \in S : row[t] <= f[s] BY <1>4 DEF Carries
    <3>2. CASE s = x \/ s = y
      <4>1. row[t] \in Int BY DEF Threads
      <4>2. row[t] <= c BY <1>1, <1>2, <2>2, <3>1, <3>2, <4>1
      <4> QED BY <1>3, <4>2
    <3>3. CASE s # x /\ s # y BY <1>3, <3>1, <3>3
    <3> QED BY <3>2, <3>3
  <2>4. ASSUME NEW s \in S \ {y} PROVE \E t \in Threads : g[s] = row[t]
    <3>1. g[s] = f[x] \/ g[s] = f[y] \/ g[s] = f[s] BY <1>3, <2>2
    <3>2. \A r \in S : \E t \in Threads : f[r] = row[t] BY <1>4 DEF Carries
    <3> QED BY <3>1, <3>2
  <2> QED BY <1>3, <1>4, <2>3, <2>4 DEF Carries
<1>5. CASE p # "max"
  <2> DEFINE U == S \ {y}
             R == U \ {x}
  <2>1. IsFiniteSet(S) BY ThreadsFinite, FS_Subset
  <2>2. IsFiniteSet(U) /\ x \in U /\ IsFiniteSet(R) BY <2>1, FS_RemoveElement
  <2>3. /\ \A s \in S : f[s] \in Int
        /\ \A s \in U : f[s] \in Int /\ g[s] \in Int
        /\ \A s \in R : f[s] \in Int /\ f[s] = g[s]
    BY <1>3
  <2>4. SumOver(f, S) = f[y] + SumOver(f, U) BY <2>1, <2>3, SumTake
  <2> HIDE DEF U
  <2>5. SumOver(f, U) = f[x] + SumOver(f, R) BY <2>2, <2>3, SumTake
  <2>6. SumOver(g, U) = g[x] + SumOver(g, R) BY <2>2, <2>3, SumTake
  <2> HIDE DEF R
  <2>7. SumOver(f, R) = SumOver(g, R) /\ SumOver(f, R) \in Int
    BY <2>2, <2>3, SumSame, SumType
  <2>8. g[x] = f[x] + f[y] BY <1>3, <1>5
  <2>9. SumOver(g, U) = SumOver(f, S) BY <1>1, <2>4, <2>5, <2>6, <2>7, <2>8
  <2>10. SumOver(f, S) = SumOver(row, Threads) BY <1>5 DEF Carries
  <2>11. SumOver(g, U) = SumOver(row, Threads) BY <2>9, <2>10
  <2> QED BY <1>3, <1>5, <2>11 DEF Carries, U
<1> QED BY <1>4, <1>5

(* What a single cell carries is the result of the row.                    *)
LEMMA CarriesOne ==
  ASSUME NEW p, NEW row \in [Threads -> Int], NEW f \in [Threads -> Int],
         Carries(p, row, f, {0})
  PROVE  /\ p = "max" => /\ \A t \in Threads : row[t] <= f[0]
                         /\ \E t \in Threads : f[0] = row[t]
         /\ p # "max" => f[0] = SumOver(row, Threads)
<1>1. CASE p = "max" BY <1>1 DEF Carries
<1>2. CASE p # "max"
  <2>1. 0 \in Threads BY ThreadsFinite
  <2>2. IsFiniteSet({0}) BY FS_Singleton
  <2>3. f[0] \in Int BY <2>1
  <2>4. SumOver(f, {0}) = f[0] + SumOver(f, {0} \ {0}) BY <2>2, <2>3, SumTake
  <2>5. PICK z : z = {0} \ {0} OBVIOUS
  <2>6. SumOver(f, z) = 0
    <3>1. z = {} BY <2>5
    <3> QED BY <3>1, SumNone
  <2>7. SumOver(f, {0}) = f[0] BY <2>3, <2>4, <2>5, <2>6
  <2> QED BY <1>2, <2>7 DEF Carries
<1> QED BY <1>1, <1>2
-----------------------------------------------------------------------------
(* Every step keeps the invariant.                                         *)

(* A step of one block leaves the others as they are.                      *)
LEMMA BlockKept ==
  ASSUME KernelType, NEW b \in Blocks, BlockInv(b),
         data' = data, pass' = pass, global_max' = global_max,
         phase'[b] = phase[b], stride'[b] = stride[b], todo'[b] = todo[b],
         sdata'[b] = sdata[b], block_out'[b] = block_out[b],
         \A t \in Threads : Element(b, t) <= n => exp_out'[Element(b, t)] = exp_out[Element(b, t)]
  PROVE  BlockInv(b)'
<1>1. n' = n BY DEF n
<1>2. \A t : Cell(b, t)' = Cell(b, t) BY <1>1 DEF Cell, Element
<1>3. Row(b)' = Row(b) BY <1>2 DEF Row, Threads
<1>4. Live(b)' = Live(b) BY DEF Live
<1>5. Carries(pass, Row(b), sdata[b], Live(b))' = Carries(pass, Row(b), sdata[b], Live(b))
  BY <1>3, <1>4 DEF Carries, Threads
<1>6. \A t \in Threads : Element(b, t)' = Element(b, t) BY DEF Element
<1> QED BY <1>1, <1>2, <1>5 DEF BlockInv, Element, Threads

(* What the steps of a block have in common.                               *)
LEMMA BlockStep ==
  ASSUME KernelInv, NEW b \in Blocks, pass # "done",
         data' = data, pass' = pass, global_max' = global_max,
         KernelType', BlockInv(b)',
         \A c \in Blocks \ {b} :
           /\ phase'[c] = phase[c] /\ stride'[c] = stride[c] /\ todo'[c] = todo[c]
           /\ sdata'[c] = sdata[c] /\ block_out'[c] = block_out[c]
           /\ \A t \in Threads :
                Element(c, t) <= n => exp_out'[Element(c, t)] = exp_out[Element(c, t)]
  PROVE  KernelInv'
<1>1. n' = n /\ Blocks' = Blocks BY DEF n, Blocks
<1>2. \A c \in Blocks' : BlockInv(c)'
  <2> TAKE c \in Blocks'
  <2>1. CASE c = b BY <2>1
  <2>2. CASE c # b BY <1>1, <2>2, BlockKept DEF KernelInv
  <2> QED BY <2>1, <2>2
<1>3. pass' # "max" => global_max' = block_max(data') BY DEF KernelInv
<1> QED BY <1>2, <1>3 DEF KernelInv
LEMMA NotDone ==
  ASSUME KernelInv, NEW b \in Blocks, phase[b] # "written"
  PROVE  pass # "done"
BY DEF KernelInv, Written

(* A thread has one element, and no other thread has it.                   *)
LEMMA ElementOwner ==
  ASSUME NEW b \in Nat, NEW c \in Nat, NEW t \in Threads, NEW u \in Threads,
         Element(b, t) = Element(c, u)
  PROVE  b = c /\ t = u
<1>1. BlockSize \in Nat \ {0} /\ t \in 0 .. (BlockSize - 1) /\ u \in 0 .. (BlockSize - 1)
  BY BlockSizePositive DEF Threads
<1>2. ASSUME NEW i \in Nat, NEW j \in Nat, NEW v \in 0 .. (BlockSize - 1),
             NEW w \in 0 .. (BlockSize - 1), i < j
      PROVE  i * BlockSize + v + 1 # j * BlockSize + w + 1
  <2>1. BlockSize * (i + 1) <= BlockSize * j BY <1>1, <1>2, MulMonotone
  <2>2. PICK x \in Nat : x = i * BlockSize BY <1>1
  <2>3. PICK y \in Nat : y = j * BlockSize BY <1>1
  <2>4. BlockSize * (i + 1) = x + BlockSize /\ BlockSize * j = y BY <1>1, <2>2, <2>3
  <2>5. v < BlockSize /\ v \in Nat /\ w \in Nat BY <1>1
  <2>6. x + v + 1 # y + w + 1 BY <1>1, <2>1, <2>4, <2>5
  <2> QED BY <2>2, <2>3, <2>6
<1>3. b = c
  <2>1. b < c \/ c < b \/ b = c OBVIOUS
  <2> QED BY <1>1, <1>2, <2>1 DEF Element
<1>4. PICK x \in Nat : x = b * BlockSize BY <1>1
<1>5. x + t + 1 = x + u + 1 BY <1>3, <1>4 DEF Element
<1> QED BY <1>1, <1>3, <1>5

LEMMA LoadCellsKeeps ==
  ASSUME KernelInv, NEW b \in Blocks, LoadCells(b)
  PROVE  KernelInv'
<1>1. KernelType /\ n \in Nat \ {0} /\ b \in Nat BY BlocksNat DEF KernelInv, KernelType
<1>2. /\ data' = data /\ pass' = pass /\ global_max' = global_max /\ block_out' = block_out
      /\ phase[b] = "load" /\ phase' = [phase EXCEPT ![b] = "reduce"]
      /\ stride' = [stride EXCEPT ![b] = BlockSize \div 2]
      /\ todo' = [todo EXCEPT ![b] = 0 .. (BlockSize \div 2 - 1)]
  BY DEF LoadCells
<1>3. n' = n /\ Blocks' = Blocks BY <1>2 DEF n, Blocks
<1>4. pass # "done" BY <1>2, NotDone
<1>5. sdata' = [sdata EXCEPT ![b] = Row(b)] BY DEF LoadCells, Row, Cell
<1>6. Row(b) \in [Threads -> Int] BY <1>1, RowType
<1>7. BlockSize \in Nat \ {0} /\ BlockSize \div 2 \in Nat BY BlockSizePositive
<1>8. exp_out' \in [1 .. n -> Int]
  <2>1. CASE pass = "max" BY <1>1, <2>1 DEF LoadCells, KernelType
  <2>2. CASE pass # "max"
    <3>1. exp_out' = [k \in 1 .. n |->
                        IF \E t \in Threads : k = Element(b, t)
                          THEN Exp32(data[k] - global_max) ELSE exp_out[k]]
      BY <2>2 DEF LoadCells
    <3>2. ASSUME NEW k \in 1 .. n PROVE Exp32(data[k] - global_max) \in Int
      <4>1. PICK e \in Int : e = data[k] - global_max BY <1>1 DEF KernelType
      <4> QED BY <4>1, Exp32Type
    <3>3. \A k \in 1 .. n : exp_out[k] \in Int BY <1>1 DEF KernelType
    <3> QED BY <3>1, <3>2, <3>3
  <2> QED BY <2>1, <2>2
<1>9. KernelType'
  <2>1. /\ phase' \in [Blocks -> {"load", "reduce", "written"}]
        /\ stride' \in [Blocks -> Nat]
        /\ todo' \in [Blocks -> SUBSET Nat]
        /\ sdata' \in [Blocks -> [Threads -> Int]]
    BY <1>1, <1>2, <1>5, <1>6, <1>7 DEF KernelType
  <2> QED BY <1>1, <1>2, <1>3, <1>8, <2>1 DEF KernelType, Threads
<1>10. Row(b)' = Row(b)
  <2>1. \A t : Cell(b, t)' = Cell(b, t) BY <1>2, <1>3 DEF Cell, Element
  <2> QED BY <2>1 DEF Row, Threads
<1>11. /\ Live(b)' = Threads
       /\ \/ stride'[b] = 0
          \/ 2 * stride'[b] <= BlockSize /\ \E k \in 0 .. BlockSize : stride'[b] = 2 ^ k
  <2>1. stride'[b] = BlockSize \div 2 /\ todo'[b] = 0 .. (BlockSize \div 2 - 1)
    BY <1>1, <1>2 DEF KernelType
  <2>2. PICK k \in Nat : BlockSize = 2 ^ k /\ k <= BlockSize BY PadAssumption
  <2>3. CASE BlockSize = 1 /\ BlockSize \div 2 = 0
    BY <2>1, <2>3 DEF Live, Threads
  <2>4. CASE /\ BlockSize \div 2 \in Nat \ {0} /\ BlockSize = 2 * (BlockSize \div 2)
             /\ \E j \in 0 .. BlockSize : BlockSize \div 2 = 2 ^ j
    <3>1. PICK h \in Nat \ {0} : h = BlockSize \div 2 BY <2>4
    <3>2. BlockSize = 2 * h /\ stride'[b] = h /\ todo'[b] = 0 .. (h - 1) BY <2>1, <2>4, <3>1
    <3>3. (0 .. (h - 1)) \cup { t + h : t \in 0 .. (h - 1) } = 0 .. (BlockSize - 1)
      <4>1. ASSUME NEW x \in 0 .. (BlockSize - 1), ~(x \in 0 .. (h - 1))
            PROVE  x \in { t + h : t \in 0 .. (h - 1) }
        <5>1. x - h \in 0 .. (h - 1) /\ (x - h) + h = x BY <3>2, <4>1
        <5> QED BY <5>1
      <4>2. (0 .. (h - 1)) \subseteq 0 .. (BlockSize - 1) BY <3>2
      <4>3. ASSUME NEW t \in 0 .. (h - 1) PROVE t + h \in 0 .. (BlockSize - 1) BY <3>2
      <4> QED BY <4>1, <4>2, <4>3
    <3>4. Live(b)' = Threads BY <3>2, <3>3 DEF Live, Threads
    <3>5. 2 * stride'[b] <= BlockSize BY <3>2
    <3>6. PICK j \in 0 .. BlockSize : h = 2 ^ j BY <2>4, <3>1
    <3>7. stride'[b] = 2 ^ j BY <3>2, <3>6
    <3> QED BY <3>4, <3>5, <3>7
  <2>5. \/ BlockSize = 1 /\ BlockSize \div 2 = 0
        \/ /\ BlockSize \div 2 \in Nat \ {0} /\ BlockSize = 2 * (BlockSize \div 2)
           /\ \E j \in 0 .. BlockSize : BlockSize \div 2 = 2 ^ j
    <3>1. PICK s \in Nat : s = BlockSize BY <1>7
    <3> QED BY <2>2, <3>1, Halve
  <2> QED BY <2>3, <2>4, <2>5
<1>12. BlockInv(b)'
  <2>1. phase'[b] = "reduce" /\ sdata'[b] = Row(b)
    BY <1>1, <1>2, <1>5 DEF KernelType
  <2>2. todo'[b] \subseteq 0 .. (stride'[b] - 1) BY <1>1, <1>2 DEF KernelType
  <2>3. Carries(pass, Row(b), sdata[b], Live(b))'
    <3>1. Carries(pass, Row(b), Row(b), Threads) BY <1>6, CarriesAll
    <3> QED BY <1>2, <1>10, <1>11, <2>1, <3>1 DEF Carries, Threads
  <2>4. ASSUME pass # "max", NEW t \in Threads, Element(b, t) <= n
        PROVE  exp_out'[Element(b, t)] = Cell(b, t)
    <3>1. exp_out' = [k \in 1 .. n |->
                        IF \E u \in Threads : k = Element(b, u)
                          THEN Exp32(data[k] - global_max) ELSE exp_out[k]]
      BY <2>4 DEF LoadCells
    <3>2. Element(b, t) \in 1 .. n BY <1>1, <2>4, ElementType
    <3> QED BY <2>4, <3>1, <3>2 DEF Cell
  <2>5. \A t \in Threads' : Cell(b, t)' = Cell(b, t) /\ Element(b, t)' = Element(b, t)
    BY <1>2, <1>3 DEF Cell, Element
  <2> QED BY <1>2, <1>3, <1>11, <2>1, <2>2, <2>3, <2>4, <2>5 DEF BlockInv, Threads
<1>13. ASSUME NEW c \in Blocks \ {b}
       PROVE  /\ phase'[c] = phase[c] /\ stride'[c] = stride[c] /\ todo'[c] = todo[c]
              /\ sdata'[c] = sdata[c] /\ block_out'[c] = block_out[c]
              /\ \A t \in Threads :
                   Element(c, t) <= n => exp_out'[Element(c, t)] = exp_out[Element(c, t)]
  <2>1. /\ phase'[c] = phase[c] /\ stride'[c] = stride[c] /\ todo'[c] = todo[c]
        /\ sdata'[c] = sdata[c] /\ block_out'[c] = block_out[c]
    BY <1>1, <1>2, <1>5 DEF KernelType
  <2>2. ASSUME NEW t \in Threads, Element(c, t) <= n
        PROVE  exp_out'[Element(c, t)] = exp_out[Element(c, t)]
    <3>1. CASE pass = "max" BY <3>1 DEF LoadCells
    <3>2. CASE pass # "max"
      <4>1. exp_out' = [k \in 1 .. n |->
                          IF \E u \in Threads : k = Element(b, u)
                            THEN Exp32(data[k] - global_max) ELSE exp_out[k]]
        BY <3>2 DEF LoadCells
      <4>2. c \in Nat /\ c # b BY <1>1, BlocksNat
      <4>3. Element(c, t) \in 1 .. n BY <1>1, <2>2, <4>2, ElementType
      <4>4. ~ \E u \in Threads : Element(c, t) = Element(b, u)
        BY <1>1, <4>2, ElementOwner
      <4> QED BY <4>1, <4>3, <4>4
    <3> QED BY <3>1, <3>2
  <2> QED BY <2>1, <2>2
<1> QED BY <1>2, <1>4, <1>9, <1>12, <1>13, BlockStep

LEMMA ReduceCellKeeps ==
  ASSUME KernelInv, NEW b \in Blocks, NEW t \in Threads, ReduceCell(b, t)
  PROVE  KernelInv'
<1> DEFINE s == stride[b]
           c == Combine(sdata[b][t], sdata[b][t + s])
           g == [sdata[b] EXCEPT ![t] = c]
<1>1. KernelType /\ n \in Nat \ {0} /\ b \in Nat BY BlocksNat DEF KernelInv, KernelType
<1>2. /\ data' = data /\ pass' = pass /\ global_max' = global_max /\ block_out' = block_out
      /\ phase' = phase /\ stride' = stride /\ exp_out' = exp_out
      /\ phase[b] = "reduce" /\ t \in todo[b]
      /\ todo' = [todo EXCEPT ![b] = @ \ {t}]
  BY DEF ReduceCell
<1>3. n' = n /\ Blocks' = Blocks BY <1>2 DEF n, Blocks
<1>4. pass # "done" BY <1>2, NotDone
<1>5. sdata \in [Blocks -> [Threads -> Int]] BY <1>1 DEF KernelType
<1>6. sdata' = [sdata EXCEPT ![b] = g]
  <2>1. sdata' = [sdata EXCEPT ![b][t] = c] BY <1>5 DEF ReduceCell
  <2> HIDE DEF c
  <2> QED BY <1>5, <2>1
<1>7. /\ s \in Nat \ {0} /\ 2 * s <= BlockSize /\ todo[b] \subseteq 0 .. (s - 1)
      /\ \E k \in 0 .. BlockSize : s = 2 ^ k
      /\ Carries(pass, Row(b), sdata[b], Live(b))
  <2>1. BlockInv(b) BY DEF KernelInv
  <2>2. s \in Nat BY <1>1 DEF KernelType
  <2>3. t \in 0 .. (s - 1) BY <1>2, <2>1 DEF BlockInv
  <2> QED BY <1>2, <2>1, <2>2, <2>3 DEF BlockInv
<1>8. /\ Live(b) \in SUBSET Threads /\ t \in Live(b) /\ t + s \in Live(b) /\ t # t + s
      /\ Live(b)' = Live(b) \ {t + s}
      /\ todo'[b] = todo[b] \ {t}
  <2>1. BlockSize \in Nat BY BlockSizePositive
  <2>2. t \in 0 .. (s - 1) BY <1>2, <1>7
  <2>3. PICK D \in SUBSET (0 .. (s - 1)) : D = todo[b] BY <1>7
  <2>4. todo'[b] = D \ {t} /\ stride'[b] = s BY <1>1, <1>2, <2>3 DEF KernelType
  <2>5. Live(b) = (0 .. (s - 1)) \cup { u + s : u \in D } BY <1>7, <2>3 DEF Live
  <2>6. Live(b)' = (0 .. (s - 1)) \cup { u + s : u \in D \ {t} } BY <1>7, <2>4 DEF Live
  <2> HIDE DEF s
  <2>7. { u + s : u \in D \ {t} } = { u + s : u \in D } \ {t + s} BY <1>7, <2>2
  <2>8. t + s \notin 0 .. (s - 1) /\ t # t + s BY <1>7, <2>2
  <2>9. Live(b) \in SUBSET Threads BY <1>7, <2>1, <2>5 DEF Threads
  <2>10. t \in Live(b) /\ t + s \in Live(b) BY <1>2, <2>2, <2>3, <2>5
  <2> QED BY <2>3, <2>4, <2>5, <2>6, <2>7, <2>8, <2>9, <2>10
<1>9. g \in [Threads -> Int] /\ Carries(pass, Row(b), g, Live(b) \ {t + s})
  <2>1. sdata[b] \in [Threads -> Int] BY <1>5
  <2>2. Row(b) \in [Threads -> Int] BY <1>1, RowType
  <2>3. c = IF pass = "max" THEN Max({sdata[b][t], sdata[b][t + s]})
            ELSE sdata[b][t] + sdata[b][t + s]
    BY DEF Combine
  <2>4. PICK y : y = t + s OBVIOUS
  <2>5. PICK f \in [Threads -> Int] : f = sdata[b] BY <2>1
  <2>6. PICK r \in [Threads -> Int] : r = Row(b) BY <2>2
  <2>7. PICK S \in SUBSET Threads : S = Live(b) BY <1>8
  <2>8. t \in S /\ y \in S /\ t # y /\ Carries(pass, r, f, S)
    BY <1>7, <1>8, <2>4, <2>5, <2>6, <2>7
  <2>9. g = [f EXCEPT ![t] = c] /\ c = IF pass = "max" THEN Max({f[t], f[y]}) ELSE f[t] + f[y]
    BY <2>3, <2>4, <2>5
  <2> HIDE DEF g, c
  <2>10. g \in [Threads -> Int] /\ Carries(pass, r, g, S \ {y})
    <3>1. f[t] \in Int /\ f[y] \in Int BY <2>8
    <3>2. c \in Int BY <2>9, <3>1, MaxOfTwo
    <3>3. PICK h \in [Threads -> Int] : h = g BY <2>9, <3>2
    <3>4. h[t] = c /\ \A u \in Threads \ {t} : h[u] = f[u] BY <2>8, <2>9, <3>3
    <3>5. h[t] = IF pass = "max" THEN Max({f[t], f[y]}) ELSE f[t] + f[y] BY <2>9, <3>4
    <3>6. Carries(pass, r, h, S \ {y}) BY <2>8, <3>4, <3>5, CarriesStep
    <3> QED BY <3>3, <3>6
  <2> QED BY <2>4, <2>6, <2>7, <2>10
<1> HIDE DEF g, c
<1>10. KernelType'
  <2>1. /\ todo' \in [Blocks -> SUBSET Nat]
        /\ sdata' \in [Blocks -> [Threads -> Int]]
    BY <1>1, <1>2, <1>6, <1>9 DEF KernelType
  <2> QED BY <1>1, <1>2, <1>3, <2>1 DEF KernelType, Threads
<1>11. BlockInv(b)'
  <2>1. \A u : Cell(b, u)' = Cell(b, u) /\ Element(b, u)' = Element(b, u)
    BY <1>2, <1>3 DEF Cell, Element
  <2>2. Row(b)' = Row(b) BY <2>1 DEF Row, Threads
  <2>3. sdata'[b] = g BY <1>5, <1>6
  <2>4. Carries(pass, Row(b), sdata[b], Live(b))'
    BY <1>2, <1>8, <1>9, <2>2, <2>3 DEF Carries, Threads
  <2>5. BlockInv(b) BY DEF KernelInv
  <2>6. todo'[b] \subseteq 0 .. (stride'[b] - 1) BY <1>2, <1>7, <1>8
  <2>7. phase'[b] = "reduce" /\ stride'[b] = s BY <1>2
  <2>8. pass' # "max" => \A u \in Threads : Element(b, u) <= n => exp_out'[Element(b, u)] = Cell(b, u)
    BY <1>2, <2>5 DEF BlockInv
  <2> QED BY <1>3, <1>7, <2>1, <2>4, <2>6, <2>7, <2>8 DEF BlockInv, Threads
<1>12. \A d \in Blocks \ {b} :
         /\ phase'[d] = phase[d] /\ stride'[d] = stride[d] /\ todo'[d] = todo[d]
         /\ sdata'[d] = sdata[d] /\ block_out'[d] = block_out[d]
         /\ \A u \in Threads :
              Element(d, u) <= n => exp_out'[Element(d, u)] = exp_out[Element(d, u)]
  BY <1>1, <1>2, <1>5, <1>6 DEF KernelType
<1> QED BY <1>2, <1>4, <1>10, <1>11, <1>12, BlockStep
LEMMA SyncthreadsKeeps ==
  ASSUME KernelInv, NEW b \in Blocks, Syncthreads(b)
  PROVE  KernelInv'
<1> DEFINE s == stride[b]
<1>1. KernelType /\ n \in Nat \ {0} /\ b \in Nat /\ BlockInv(b)
  BY BlocksNat DEF KernelInv, KernelType
<1>2. /\ data' = data /\ pass' = pass /\ global_max' = global_max /\ block_out' = block_out
      /\ phase' = phase /\ sdata' = sdata /\ exp_out' = exp_out
      /\ phase[b] = "reduce" /\ s > 0 /\ todo[b] = {}
      /\ stride' = [stride EXCEPT ![b] = s \div 2]
      /\ todo' = [todo EXCEPT ![b] = 0 .. (s \div 2 - 1)]
  BY DEF Syncthreads
<1>3. n' = n /\ Blocks' = Blocks BY <1>2 DEF n, Blocks
<1>4. pass # "done" BY <1>2, NotDone
<1>5. s \in Nat \ {0} /\ s \div 2 \in Nat BY <1>1, <1>2 DEF KernelType
<1>6. /\ 2 * s <= BlockSize /\ Carries(pass, Row(b), sdata[b], Live(b))
      /\ \E k \in 0 .. BlockSize : s = 2 ^ k
  BY <1>1, <1>2, <1>5 DEF BlockInv
<1>7. stride'[b] = s \div 2 /\ todo'[b] = 0 .. (s \div 2 - 1)
  BY <1>1, <1>2 DEF KernelType
<1>8. Live(b) = 0 .. (s - 1)
  <2>1. { t + stride[b] : t \in todo[b] } = {} BY <1>2
  <2> QED BY <1>5, <2>1 DEF Live
<1>9. /\ Live(b)' = Live(b)
      /\ \/ stride'[b] = 0
         \/ 2 * stride'[b] <= BlockSize /\ \E k \in 0 .. BlockSize : stride'[b] = 2 ^ k
  <2>1. PICK k \in Nat : s = 2 ^ k /\ k <= BlockSize BY <1>6, PadAssumption
  <2>2. CASE s = 1 /\ s \div 2 = 0
    <3>1. Live(b)' = {0} BY <1>7, <2>2 DEF Live
    <3>2. 0 .. (s - 1) = {0} BY <2>2
    <3> QED BY <1>7, <1>8, <2>2, <3>1, <3>2
  <2>3. CASE /\ s \div 2 \in Nat \ {0} /\ s = 2 * (s \div 2)
             /\ \E j \in 0 .. BlockSize : s \div 2 = 2 ^ j
    <3>1. PICK h \in Nat \ {0} : h = s \div 2 BY <2>3
    <3>2. s = 2 * h /\ stride'[b] = h /\ todo'[b] = 0 .. (h - 1) BY <1>7, <2>3, <3>1
    <3> HIDE DEF s
    <3>3. (0 .. (h - 1)) \cup { t + h : t \in 0 .. (h - 1) } = 0 .. (s - 1)
      <4>1. ASSUME NEW x \in 0 .. (s - 1), ~(x \in 0 .. (h - 1))
            PROVE  x \in { t + h : t \in 0 .. (h - 1) }
        <5>1. x - h \in 0 .. (h - 1) /\ (x - h) + h = x BY <3>2, <4>1
        <5> QED BY <5>1
      <4>2. (0 .. (h - 1)) \subseteq 0 .. (s - 1) BY <3>2
      <4>3. ASSUME NEW t \in 0 .. (h - 1) PROVE t + h \in 0 .. (s - 1) BY <3>2
      <4> QED BY <4>1, <4>2, <4>3
    <3>4. Live(b)' = 0 .. (s - 1) BY <3>2, <3>3 DEF Live
    <3>5. 2 * h <= BlockSize BY <1>6, <3>2, BlockSizePositive
    <3> QED BY <1>8, <2>3, <3>1, <3>2, <3>4, <3>5
  <2> HIDE DEF s
  <2> QED BY <1>5, <2>1, <2>2, <2>3, Halve
<1>10. KernelType'
  <2>1. /\ stride' \in [Blocks -> Nat] /\ todo' \in [Blocks -> SUBSET Nat]
    BY <1>1, <1>2, <1>5 DEF KernelType
  <2> QED BY <1>1, <1>2, <1>3, <2>1 DEF KernelType, Threads
<1>11. BlockInv(b)'
  <2>1. \A u : Cell(b, u)' = Cell(b, u) /\ Element(b, u)' = Element(b, u)
    BY <1>2, <1>3 DEF Cell, Element
  <2>2. Row(b)' = Row(b) BY <2>1 DEF Row, Threads
  <2>3. Carries(pass, Row(b), sdata[b], Live(b))'
    BY <1>2, <1>6, <1>9, <2>2 DEF Carries, Threads
  <2>4. phase'[b] = "reduce" /\ todo'[b] \subseteq 0 .. (stride'[b] - 1) BY <1>2, <1>7
  <2>5. pass' # "max" => \A u \in Threads : Element(b, u) <= n => exp_out'[Element(b, u)] = Cell(b, u)
    BY <1>1, <1>2 DEF BlockInv
  <2> QED BY <1>3, <1>9, <2>1, <2>3, <2>4, <2>5 DEF BlockInv, Threads
<1>12. \A d \in Blocks \ {b} :
         /\ phase'[d] = phase[d] /\ stride'[d] = stride[d] /\ todo'[d] = todo[d]
         /\ sdata'[d] = sdata[d] /\ block_out'[d] = block_out[d]
         /\ \A u \in Threads :
              Element(d, u) <= n => exp_out'[Element(d, u)] = exp_out[Element(d, u)]
  BY <1>1, <1>2 DEF KernelType
<1> QED BY <1>2, <1>4, <1>10, <1>11, <1>12, BlockStep

LEMMA WriteBlockKeeps ==
  ASSUME KernelInv, NEW b \in Blocks, WriteBlock(b)
  PROVE  KernelInv'
<1>1. KernelType /\ n \in Nat \ {0} /\ b \in Nat /\ BlockInv(b)
  BY BlocksNat DEF KernelInv, KernelType
<1>2. /\ data' = data /\ pass' = pass /\ global_max' = global_max
      /\ stride' = stride /\ todo' = todo /\ sdata' = sdata /\ exp_out' = exp_out
      /\ phase[b] = "reduce" /\ stride[b] = 0
      /\ block_out' = [block_out EXCEPT ![b] = sdata[b][0]]
      /\ phase' = [phase EXCEPT ![b] = "written"]
  BY DEF WriteBlock
<1>3. n' = n /\ Blocks' = Blocks BY <1>2 DEF n, Blocks
<1>4. pass # "done" BY <1>2, NotDone
<1>5. sdata[b][0] \in Int BY <1>1, ThreadsFinite DEF KernelType
<1>6. KernelType'
  <2>1. /\ phase' \in [Blocks -> {"load", "reduce", "written"}] /\ block_out' \in [Blocks -> Int]
    BY <1>1, <1>2, <1>5 DEF KernelType
  <2> QED BY <1>1, <1>2, <1>3, <2>1 DEF KernelType, Threads
<1>7. BlockInv(b)'
  <2>1. \A u : Cell(b, u)' = Cell(b, u) /\ Element(b, u)' = Element(b, u)
    BY <1>2, <1>3 DEF Cell, Element
  <2>2. Row(b)' = Row(b) BY <2>1 DEF Row, Threads
  <2>3. Live(b)' = Live(b) BY <1>2 DEF Live
  <2>4. Carries(pass, Row(b), sdata[b], Live(b)) BY <1>1, <1>2 DEF BlockInv
  <2>5. Carries(pass, Row(b), sdata[b], Live(b))'
    BY <1>2, <2>2, <2>3, <2>4 DEF Carries, Threads
  <2>6. /\ phase'[b] = "written" /\ stride'[b] = 0 /\ block_out'[b] = sdata'[b][0]
        /\ todo'[b] \subseteq 0 .. (stride'[b] - 1)
    BY <1>1, <1>2 DEF KernelType, BlockInv
  <2>7. pass' # "max" => \A u \in Threads : Element(b, u) <= n => exp_out'[Element(b, u)] = Cell(b, u)
    BY <1>1, <1>2 DEF BlockInv
  <2> QED BY <1>3, <2>1, <2>5, <2>6, <2>7 DEF BlockInv, Threads
<1>8. \A d \in Blocks \ {b} :
         /\ phase'[d] = phase[d] /\ stride'[d] = stride[d] /\ todo'[d] = todo[d]
         /\ sdata'[d] = sdata[d] /\ block_out'[d] = block_out[d]
         /\ \A u \in Threads :
              Element(d, u) <= n => exp_out'[Element(d, u)] = exp_out[Element(d, u)]
  BY <1>1, <1>2 DEF KernelType
<1> QED BY <1>2, <1>4, <1>6, <1>7, <1>8, BlockStep

(* What a written block has put out.                                       *)
LEMMA BlockResult ==
  ASSUME KernelInv, Written, NEW b \in Blocks
  PROVE  /\ pass = "max" => /\ \A t \in Threads : Cell(b, t) <= block_out[b]
                            /\ \E t \in Threads : block_out[b] = Cell(b, t)
         /\ pass # "max" => /\ block_out[b] = SumOver(Row(b), Threads)
                            /\ \A t \in Threads :
                                 Element(b, t) <= n => exp_out[Element(b, t)] = Cell(b, t)
<1>1. KernelType /\ BlockInv(b) /\ phase[b] = "written" BY DEF KernelInv, Written
<1>2. stride[b] = 0 /\ block_out[b] = sdata[b][0] /\ Carries(pass, Row(b), sdata[b], Live(b))
  BY <1>1 DEF BlockInv
<1>3. Live(b) = {0} BY <1>2 DEF Live
<1>4. sdata[b] \in [Threads -> Int] /\ Row(b) \in [Threads -> Int] BY <1>1, RowType DEF KernelType
<1>5. /\ pass = "max" => /\ \A t \in Threads : Row(b)[t] <= sdata[b][0]
                         /\ \E t \in Threads : sdata[b][0] = Row(b)[t]
      /\ pass # "max" => sdata[b][0] = SumOver(Row(b), Threads)
  <2>1. Carries(pass, Row(b), sdata[b], {0}) BY <1>2, <1>3
  <2> QED BY <1>4, <2>1, CarriesOne
<1>6. \A t \in Threads : Row(b)[t] = Cell(b, t) BY DEF Row
<1>7. pass # "max" => \A t \in Threads : Element(b, t) <= n => exp_out[Element(b, t)] = Cell(b, t)
  BY <1>1 DEF BlockInv
<1> QED BY <1>2, <1>5, <1>6, <1>7

(* The host finds the maximum of the slice and of the padding there is.    *)
LEMMA HostMaxFinds ==
  ASSUME KernelInv, pass = "max", Written
  PROVE  /\ Greatest(block_out) \in Int
         /\ Greatest(block_out) = block_max(data)
<1>1. KernelType /\ n \in Nat \ {0} BY DEF KernelInv, KernelType
<1>2. /\ block_out \in [Blocks -> Int] /\ data \in [1 .. n -> Int]
      /\ DOMAIN block_out = Blocks /\ DOMAIN data = 1 .. n
  BY <1>1 DEF KernelType
<1>3. PICK d \in 1 .. n : \A k \in 1 .. n : data[k] <= data[d]
  <2>1. IsFiniteSet(1 .. n) /\ 1 .. n # {}
    <3>1. PICK m \in Nat \ {0} : m = n BY <1>1
    <3>2. IsFiniteSet(1 .. m) /\ 1 \in 1 .. m BY FS_Interval
    <3> QED BY <3>1, <3>2
  <2>2. \A k \in 1 .. n : data[k] \in Int BY <1>2
  <2> HIDE DEF n
  <2> QED BY <2>1, <2>2, GreatestAt
<1>4. Greatest(data) = data[d] BY <1>2, <1>3, GreatestIs
<1>5. PICK m \in Blocks : \A b \in Blocks : block_out[b] <= block_out[m]
  <2>1. \A b \in Blocks : block_out[b] \in Int BY <1>2
  <2> QED BY <1>1, <2>1, BlocksNat, GreatestAt
<1>6. Greatest(block_out) = block_out[m] BY <1>2, <1>5, GreatestIs
<1>7. block_out[m] \in Int /\ data[d] \in Int BY <1>2
<1>8. data[d] <= block_out[m]
  <2>1. PICK b \in Blocks, t \in Threads : Element(b, t) = d BY <1>1, ElementThread
  <2>2. d <= n BY <1>1
  <2>3. Cell(b, t) = data[d] BY <2>1, <2>2 DEF Cell
  <2>4. Cell(b, t) <= block_out[b] BY BlockResult
  <2>5. block_out[b] <= block_out[m] /\ block_out[b] \in Int BY <1>2, <1>5
  <2> QED BY <1>7, <2>3, <2>4, <2>5
<1>9. PICK t \in Threads : block_out[m] = Cell(m, t) BY BlockResult
<1>12. /\ \/ block_max(data) = Greatest(data)
          \/ n % BlockSize # 0 /\ Greatest(data) < Pad /\ block_max(data) = Pad
       /\ n % BlockSize = 0 => block_max(data) = Greatest(data)
       /\ n % BlockSize # 0 /\ Greatest(data) <= Pad => block_max(data) = Pad
  <2> HIDE DEF n
  <2> QED BY <1>1, <1>2, BlockMaxIs
<1>10. CASE Element(m, t) <= n
  <2>1. m \in Nat BY <1>1, BlocksNat
  <2>2. Element(m, t) \in 1 .. n BY <1>1, <1>10, <2>1, ElementType
  <2>3. block_out[m] = data[Element(m, t)] BY <1>9, <1>10 DEF Cell
  <2>4. block_out[m] <= data[d] BY <1>3, <2>2, <2>3
  <2>5. block_out[m] = data[d] BY <1>7, <1>8, <2>4
  <2>6. CASE n % BlockSize = 0 BY <1>4, <1>6, <1>7, <1>12, <2>5, <2>6
  <2>7. CASE n % BlockSize # 0
    <3>1. PICK b \in Blocks, s \in Threads : ~(Element(b, s) <= n) BY <1>1, <2>7, Padded
    <3>2. Cell(b, s) = Pad BY <3>1 DEF Cell
    <3>3. Pad <= block_out[b] BY <3>2, BlockResult
    <3>4. block_out[b] <= block_out[m] /\ block_out[b] \in Int BY <1>2, <1>5
    <3>5. Pad \in Int BY PadAssumption
    <3>6. ~(data[d] < Pad) BY <1>7, <2>5, <3>3, <3>4, <3>5
    <3> QED BY <1>4, <1>6, <1>7, <1>12, <2>5, <3>6
  <2> QED BY <2>6, <2>7
<1>11. CASE ~(Element(m, t) <= n)
  <2>1. block_out[m] = Pad BY <1>9, <1>11 DEF Cell
  <2>2. n % BlockSize # 0 BY <1>1, <1>11, Incomplete
  <2>3. data[d] <= Pad BY <1>8, <2>1
  <2> QED BY <1>4, <1>6, <1>7, <1>12, <2>1, <2>2, <2>3
<1> QED BY <1>10, <1>11

LEMMA HostMaxKeeps ==
  ASSUME KernelInv, HostMax
  PROVE  KernelInv'
<1>1. KernelType /\ pass = "max" /\ Written /\ pass' = "sum" /\ data' = data /\ exp_out' = exp_out
      /\ global_max' = Greatest(block_out)
  BY DEF HostMax, KernelInv
<1>2. n' = n /\ Blocks' = Blocks BY <1>1 DEF n, Blocks
<1>3. global_max' \in Int /\ global_max' = block_max(data) BY <1>1, HostMaxFinds
<1>4. block_max(data') = block_max(data) BY <1>1
<1>5. /\ phase' = [b \in Blocks |-> "load"]
      /\ stride' = [b \in Blocks |-> 0]
      /\ todo' = [b \in Blocks |-> {}]
      /\ sdata' = [b \in Blocks |-> [t \in Threads |-> 0]]
      /\ block_out' = [b \in Blocks |-> 0]
  BY DEF HostMax, Launch
<1>6. KernelType' BY <1>1, <1>2, <1>3, <1>5 DEF KernelType, Threads
<1>7. \A b \in Blocks' : BlockInv(b)' BY <1>2, <1>5 DEF BlockInv
<1> QED BY <1>1, <1>3, <1>4, <1>6, <1>7 DEF KernelInv

LEMMA HostSumKeeps ==
  ASSUME KernelInv, HostSum
  PROVE  KernelInv'
<1>1. /\ KernelType /\ pass = "sum" /\ Written /\ pass' = "done" /\ data' = data /\ exp_out' = exp_out
      /\ global_max' = global_max /\ partial_sum' = Total(block_out)
      /\ phase' = phase /\ stride' = stride /\ todo' = todo /\ sdata' = sdata
      /\ block_out' = block_out
  BY DEF HostSum, KernelInv
<1>2. n' = n /\ Blocks' = Blocks BY <1>1 DEF n, Blocks
<1>3. KernelType' BY <1>1, <1>2 DEF KernelType, Threads
<1>4. ASSUME NEW b \in Blocks PROVE BlockInv(b)'
  <2>1. BlockInv(b) BY DEF KernelInv
  <2>2. \A t : Cell(b, t)' = Cell(b, t) /\ Element(b, t)' = Element(b, t)
    BY <1>1, <1>2 DEF Cell, Element
  <2>3. Row(b)' = Row(b) BY <2>2 DEF Row, Threads
  <2>4. Live(b)' = Live(b) BY <1>1 DEF Live
  <2>5. Carries("done", Row(b), sdata[b], Live(b)) = Carries("sum", Row(b), sdata[b], Live(b))
    BY DEF Carries
  <2>6. Carries(pass, Row(b), sdata[b], Live(b))' = Carries("done", Row(b), sdata[b], Live(b))
    BY <1>1, <2>3, <2>4 DEF Carries, Threads
  <2> QED BY <1>1, <1>2, <2>1, <2>2, <2>5, <2>6 DEF BlockInv, Threads
<1>5. block_max(data') = block_max(data) BY <1>1
<1>6. Written' BY <1>1, <1>2 DEF Written
<1>7. partial_sum' = Total(block_out') BY <1>1
<1> QED BY <1>1, <1>2, <1>3, <1>4, <1>5, <1>6, <1>7 DEF KernelInv

LEMMA KernelInitInv ==
  ASSUME KernelInit
  PROVE  KernelInv
<1>1. PICK len \in 1 .. MaxLen : data \in [1 .. len -> Values] BY DEF KernelInit
<1>2. len \in Nat \ {0} /\ Values \subseteq Int BY <1>1, KernelAssumption
<1>3. n = len BY <1>1, <1>2 DEF n
<1>4. data \in [1 .. n -> Int] /\ \A k \in 1 .. n : data[k] \in Values BY <1>1, <1>2, <1>3
<1>5. KernelType BY <1>2, <1>3, <1>4 DEF KernelInit, KernelType, Threads
<1>6. \A b \in Blocks : BlockInv(b) BY DEF KernelInit, BlockInv
<1> QED BY <1>5, <1>6 DEF KernelInv, KernelInit

LEMMA KernelInvStep ==
  ASSUME KernelInv, [KernelNext]_kernelVars
  PROVE  KernelInv'
<1>1. ASSUME NEW b \in Blocks, LoadCells(b) PROVE KernelInv' BY <1>1, LoadCellsKeeps
<1>2. ASSUME NEW b \in Blocks, NEW t \in Threads, ReduceCell(b, t) PROVE KernelInv'
  BY <1>2, ReduceCellKeeps
<1>3. ASSUME NEW b \in Blocks, Syncthreads(b) PROVE KernelInv' BY <1>3, SyncthreadsKeeps
<1>4. ASSUME NEW b \in Blocks, WriteBlock(b) PROVE KernelInv' BY <1>4, WriteBlockKeeps
<1>5. CASE HostMax BY <1>5, HostMaxKeeps
<1>6. CASE HostSum BY <1>6, HostSumKeeps
<1>7. CASE UNCHANGED kernelVars
  <2>1. /\ data' = data /\ pass' = pass /\ global_max' = global_max /\ exp_out' = exp_out
        /\ partial_sum' = partial_sum /\ phase' = phase /\ stride' = stride /\ todo' = todo
        /\ sdata' = sdata /\ block_out' = block_out
    BY <1>7 DEF kernelVars
  <2>2. n' = n /\ Blocks' = Blocks BY <2>1 DEF n, Blocks
  <2>3. KernelType /\ KernelType' BY <2>1, <2>2 DEF KernelInv, KernelType, Threads
  <2>4. ASSUME NEW b \in Blocks PROVE BlockInv(b)'
    <3>1. BlockInv(b) BY DEF KernelInv
    <3> QED BY <2>1, <2>3, <3>1, BlockKept
  <2>5. block_max(data') = block_max(data) /\ Written' = Written
    BY <2>1, <2>2 DEF Written
  <2> QED BY <2>1, <2>2, <2>3, <2>4, <2>5 DEF KernelInv
<1> QED BY <1>1, <1>2, <1>3, <1>4, <1>5, <1>6, <1>7 DEF KernelNext

-----------------------------------------------------------------------------
(* At the end the block sums add up to the sum of the exponentials.        *)
LEMMA KernelSums ==
  ASSUME KernelInv, pass = "done"
  PROVE  /\ exp_out = [k \in 1 .. n |-> Exp32(data[k] - global_max)]
         /\ partial_sum = Total(exp_out)
<1>1. KernelType /\ n \in Nat \ {0} /\ Written /\ partial_sum = Total(block_out)
  BY DEF KernelInv, KernelType
<1>2. exp_out \in [1 .. n -> Int] /\ DOMAIN block_out = Blocks BY <1>1 DEF KernelType
<1>3. ASSUME NEW k \in 1 .. n PROVE exp_out[k] = Exp32(data[k] - global_max)
  <2>1. PICK b \in Blocks, t \in Threads : Element(b, t) = k BY <1>1, ElementThread
  <2>2. k <= n BY <1>1
  <2>3. exp_out[k] = Cell(b, t) BY <1>1, <2>1, <2>2, BlockResult
  <2> QED BY <2>1, <2>2, <2>3 DEF Cell
<1>4. exp_out = [k \in 1 .. n |-> Exp32(data[k] - global_max)] BY <1>2, <1>3
<1>5. PICK q \in Nat \ {0} : Blocks = 0 .. (q - 1) /\ n <= q * BlockSize BY <1>1, Grid
<1> DEFINE f == [k \in Nat |-> IF k \in 1 .. n THEN exp_out[k] ELSE 0]
<1>6. BlockSize \in Nat \ {0} /\ Threads = 0 .. (BlockSize - 1) BY BlockSizePositive DEF Threads
<1>7. \A k \in Nat : f[k] \in Int BY <1>2
<1>8. ASSUME NEW b \in Blocks, NEW t \in Threads
      PROVE  Cell(b, t) = f[b * BlockSize + t + 1]
  <2>1. PICK e \in Nat \ {0} : e = Element(b, t) BY <1>1, BlocksNat, ElementType
  <2>3. CASE e <= n
    <3>1. e \in 1 .. n BY <1>1, <2>3
    <3>2. exp_out[e] = Cell(b, t) BY <1>1, <2>1, <2>3, BlockResult
    <3>3. f[e] = exp_out[e] BY <3>1
    <3> HIDE DEF f
    <3> QED BY <2>1, <3>2, <3>3 DEF Element
  <2>4. CASE ~(e <= n)
    <3>1. f[e] = 0 BY <1>1, <2>4
    <3>2. Cell(b, t) = 0 BY <2>1, <2>4 DEF Cell
    <3> HIDE DEF f
    <3> QED BY <2>1, <3>1, <3>2 DEF Element
  <2> QED BY <2>3, <2>4
<1>9. \A b \in Blocks : block_out[b] = SumOver(Row(b), Threads) BY <1>1, BlockResult
<1>10. \A k \in 1 .. n : f[k] = exp_out[k] BY <1>1
<1>11. \A k \in Nat : k > n => f[k] = 0 BY <1>1
<1> HIDE DEF f
<1>12. SumOver(block_out, 0 .. (q - 1)) = SumOver(f, 1 .. (q * BlockSize))
  <2>1. ASSUME NEW b \in 0 .. (q - 1)
        PROVE  block_out[b] = SumOver([t \in 0 .. (BlockSize - 1) |-> f[b * BlockSize + t + 1]],
                                      0 .. (BlockSize - 1))
    <3>1. Row(b) = [t \in 0 .. (BlockSize - 1) |-> f[b * BlockSize + t + 1]]
      BY <1>5, <1>6, <1>8 DEF Row
    <3>2. block_out[b] = SumOver(Row(b), 0 .. (BlockSize - 1)) BY <1>5, <1>6, <1>9
    <3> QED BY <3>1, <3>2
  <2> QED BY <1>6, <1>7, <2>1, SumBlocks
<1>13. SumOver(f, 1 .. (q * BlockSize)) = SumOver(f, 1 .. n)
  <2>1. PICK a \in Nat : a = q * BlockSize BY <1>6
  <2>2. PICK m \in Nat : a = n + m BY <1>1, <1>5, <2>1
  <2>3. \A k \in 1 .. n : f[k] \in Int BY <1>1, <1>7
  <2>4. SumOver(f, 1 .. (n + m)) = SumOver(f, 1 .. n) BY <1>1, <1>11, <2>3, SumZeroTail
  <2> QED BY <2>1, <2>2, <2>4
<1>14. SumOver(f, 1 .. n) = SumOver(exp_out, 1 .. n)
  <2>1. IsFiniteSet(1 .. n) BY <1>1, FS_Interval
  <2>2. \A k \in 1 .. n : f[k] \in Int /\ f[k] = exp_out[k] BY <1>1, <1>7, <1>10
  <2> QED BY <2>1, <2>2, SumSame
<1>15. Total(block_out) = SumOver(block_out, 0 .. (q - 1)) BY <1>2, <1>5, TotalIsSum
<1>16. Total(exp_out) = SumOver(exp_out, 1 .. n)
  <2>1. DOMAIN exp_out = 1 .. n BY <1>2
  <2> QED BY <2>1, TotalIsSum
<1> QED BY <1>1, <1>4, <1>12, <1>13, <1>14, <1>15, <1>16

LEMMA KernelInvMatches ==
  ASSUME KernelInv
  PROVE  KernelMatchesCpu
<1> DEFINE computed ==
             [local_max |-> global_max, exp_values |-> exp_out, partial_sum |-> partial_sum]
<1> SUFFICES ASSUME pass = "done"
             PROVE  /\ computed = partial_softmax(data)
                    /\ computed = softmax_partial(data) \/ PadWins
  BY DEF KernelMatchesCpu
<1>1. global_max = block_max(data) BY DEF KernelInv
<1>2. DOMAIN data = 1 .. n BY DEF KernelInv, KernelType
<1>3. exp_out = [k \in DOMAIN data |-> Exp32(data[k] - global_max)]
  BY <1>2, KernelSums
<1>4. partial_sum = Total(exp_out) BY KernelSums
<1>5. computed = PartialStats(data, global_max) BY <1>3, <1>4 DEF PartialStats
<1>6. block_max(data) = Greatest(data) \/ PadWins
  <2>1. n \in Nat \ {0} /\ data \in [1 .. n -> Int] BY DEF KernelInv, KernelType
  <2>2. PICK len \in Nat \ {0} : len = n BY <2>1
  <2>3. \/ block_max(data) = Greatest(data)
        \/ len % BlockSize # 0 /\ Greatest(data) < Pad
    BY <2>1, <2>2, BlockMaxIs
  <2> QED BY <2>2, <2>3 DEF PadWins
<1> HIDE DEF computed
<1> QED BY <1>1, <1>5, <1>6 DEF partial_softmax, softmax_partial

(* partial_softmax of gpu_worker.rs: for every slice, every BLOCK_SIZE     *)
(* that is a power of two, every order in which blocks and threads run,    *)
(* the maximum, the exponentials and their sum that the two kernels leave  *)
(* are those of partial_softmax, and so those of softmax_partial in        *)
(* softmax.rs unless the padding of an incomplete block is above all       *)
(* elements.                                                               *)
THEOREM KernelIsPartialSoftmax == KernelSpec => []KernelMatchesCpu
<1>1. KernelInit => KernelInv BY KernelInitInv
<1>2. KernelInv /\ [KernelNext]_kernelVars => KernelInv' BY KernelInvStep
<1>3. KernelInv => KernelMatchesCpu BY KernelInvMatches
<1> QED BY <1>1, <1>2, <1>3, PTL DEF KernelSpec
-----------------------------------------------------------------------------
(* From here on: the reply.  Powers of two first.                          *)

LEMMA PowerAdd ==
  ASSUME NEW a \in Nat
  PROVE  \A b \in Nat : 2 ^ (a + b) = 2 ^ a * 2 ^ b
<1> DEFINE K == { b \in Nat : 2 ^ (a + b) = 2 ^ a * 2 ^ b }
<1>1. 0 \in K
  <2>1. 2 ^ 0 = 1 /\ a + 0 = a OBVIOUS
  <2>2. 2 ^ a \in Nat BY PowerStep
  <2> QED BY <2>1, <2>2
<1>2. ASSUME NEW b \in Nat, b \in K PROVE b + 1 \in K
  <2>1. PICK p \in Nat : p = 2 ^ a BY PowerStep
  <2>2. PICK r \in Nat : r = 2 ^ b BY PowerStep
  <2>3. 2 ^ (b + 1) = 2 * r BY <2>2, PowerStep
  <2>4. PICK m \in Nat : m = a + b OBVIOUS
  <2>5. 2 ^ m = p * r BY <1>2, <2>1, <2>2, <2>4
  <2>6. 2 ^ (m + 1) = 2 * (p * r) BY <2>5, PowerStep
  <2>7. 2 * (p * r) = p * (2 * r) OBVIOUS
  <2>8. a + (b + 1) = m + 1 BY <2>4
  <2>9. 2 ^ (a + (b + 1)) = 2 ^ a * 2 ^ (b + 1) BY <2>1, <2>3, <2>6, <2>7, <2>8
  <2> QED BY <2>9
<1> HIDE DEF K
<1>3. \A b \in Nat : b \in K BY <1>1, <1>2, SetInduction
<1> QED BY <1>3 DEF K

LEMMA PowerLess ==
  ASSUME NEW a \in Nat, NEW b \in Nat
  PROVE  a < b <=> 2 ^ a < 2 ^ b
<1>1. ASSUME NEW x \in Nat, NEW y \in Nat, x < y PROVE 2 ^ x < 2 ^ y
  <2>1. PICK d \in Nat : y = (x + 1) + d
    <3>1. y - (x + 1) \in Nat /\ y = (x + 1) + (y - (x + 1)) BY <1>1
    <3> QED BY <3>1
  <2>2. PICK p \in Nat \ {0} : p = 2 ^ x BY PowerStep
  <2>3. PICK r \in Nat \ {0} : r = 2 ^ d BY PowerStep
  <2>4. 2 ^ (x + 1) = 2 * p BY <2>2, PowerStep
  <2>5. 2 ^ y = (2 * p) * r
    <3>1. x + 1 \in Nat OBVIOUS
    <3>2. 2 ^ ((x + 1) + d) = 2 ^ (x + 1) * 2 ^ d BY <3>1, PowerAdd
    <3> QED BY <2>1, <2>3, <2>4, <3>2
  <2>6. (2 * p) * 1 <= (2 * p) * r BY MulMonotone
  <2> QED BY <2>2, <2>5, <2>6
<1>2. PICK p \in Nat : p = 2 ^ a BY PowerStep
<1>3. PICK r \in Nat : r = 2 ^ b BY PowerStep
<1>4. a < b => p < r BY <1>1, <1>2, <1>3
<1>5. b < a => r < p BY <1>1, <1>2, <1>3
<1>6. a = b => p = r BY <1>2, <1>3
<1>7. a < b <=> p < r BY <1>4, <1>5, <1>6
<1> QED BY <1>2, <1>3, <1>7

(* Sums of natural numbers.                                                *)

LEMMA SumNat ==
  ASSUME NEW S, IsFiniteSet(S), NEW f, \A k \in S : f[k] \in Nat
  PROVE  SumOver(f, S) \in Nat
<1> DEFINE F == { T \in SUBSET S : SumOver(f, T) \in Nat }
<1>1. {} \in F BY SumNone
<1>2. ASSUME NEW T \in SUBSET S, NEW x \in S \ T, T \in F PROVE T \cup {x} \in F
  <2> DEFINE U == T \cup {x}
  <2>1. U \in SUBSET S /\ IsFiniteSet(U) /\ x \in U /\ U \ {x} = T BY FS_Subset
  <2>2. \A k \in U : f[k] \in Int OBVIOUS
  <2> HIDE DEF U
  <2>3. SumOver(f, U) = f[x] + SumOver(f, T) BY <2>1, <2>2, SumTake
  <2>4. U \in F BY <1>2, <2>1, <2>3
  <2> QED BY <2>4 DEF U
<1> HIDE DEF F
<1>3. \A T \in SUBSET S : T \in F BY <1>1, <1>2, FiniteInduction
<1> QED BY <1>3 DEF F

LEMMA SumAtLeast ==
  ASSUME NEW S, IsFiniteSet(S), NEW f, \A k \in S : f[k] \in Nat, NEW x \in S
  PROVE  f[x] <= SumOver(f, S)
<1>1. SumOver(f, S) = f[x] + SumOver(f, S \ {x}) BY SumTake
<1>2. IsFiniteSet(S \ {x}) BY FS_RemoveElement
<1>3. SumOver(f, S \ {x}) \in Nat BY <1>2, SumNat
<1> QED BY <1>1, <1>3

LEMMA SumScale ==
  ASSUME NEW S, IsFiniteSet(S), NEW f, NEW g, NEW a \in Nat,
         \A k \in S : f[k] \in Nat /\ g[k] = f[k] * a
  PROVE  SumOver(g, S) = SumOver(f, S) * a
<1> DEFINE F == { T \in SUBSET S : SumOver(g, T) = SumOver(f, T) * a }
<1>1. {} \in F
  <2>1. 0 * a = 0 OBVIOUS
  <2> QED BY <2>1, SumNone
<1>2. ASSUME NEW T \in SUBSET S, NEW x \in S \ T, T \in F PROVE T \cup {x} \in F
  <2> DEFINE U == T \cup {x}
  <2>1. U \in SUBSET S /\ IsFiniteSet(U) /\ x \in U /\ U \ {x} = T /\ IsFiniteSet(T) BY FS_Subset
  <2>2. \A k \in U : f[k] \in Nat /\ g[k] \in Nat OBVIOUS
  <2> HIDE DEF U
  <2>3. SumOver(f, U) = f[x] + SumOver(f, T) /\ SumOver(g, U) = g[x] + SumOver(g, T)
    BY <2>1, <2>2, SumTake
  <2>4. PICK y \in Nat : y = f[x] OBVIOUS
  <2>5. PICK z \in Nat : z = SumOver(f, T) BY <2>1, <2>2, SumNat
  <2>6. SumOver(g, T) = z * a BY <1>2, <2>5
  <2>7. g[x] = y * a BY <2>4
  <2>8. (y + z) * a = y * a + z * a OBVIOUS
  <2>9. SumOver(g, U) = SumOver(f, U) * a BY <2>3, <2>4, <2>5, <2>6, <2>7, <2>8
  <2>10. U \in F BY <2>1, <2>9
  <2> QED BY <2>10 DEF U
<1> HIDE DEF F
<1>3. \A T \in SUBSET S : T \in F BY <1>1, <1>2, FiniteInduction
<1> QED BY <1>3 DEF F

(* A bound on every term bounds the sum.  c and u scale the terms, gap is  *)
(* what each may miss.                                                     *)
LEMMA SumBounds ==
  ASSUME NEW S, IsFiniteSet(S), NEW f, NEW a, NEW c \in Nat, NEW u \in Nat,
         NEW m \in Nat, NEW gap \in Nat,
         \A k \in S : /\ f[k] \in Nat /\ a[k] \in Nat
                      /\ c * f[k] <= u * a[k]
                      /\ (u * a[k]) * m <= (c * f[k]) * m + gap
  PROVE  /\ c * SumOver(f, S) <= u * SumOver(a, S)
         /\ (u * SumOver(a, S)) * m <= (c * SumOver(f, S)) * m + Cardinality(S) * gap
<1> DEFINE Bounded(T) ==
             /\ c * SumOver(f, T) <= u * SumOver(a, T)
             /\ (u * SumOver(a, T)) * m <= (c * SumOver(f, T)) * m + Cardinality(T) * gap
           F == { T \in SUBSET S : Bounded(T) }
<1>1. {} \in F
  <2>1. c * 0 = 0 /\ u * 0 = 0 /\ 0 * m = 0 /\ 0 * gap = 0 OBVIOUS
  <2>2. SumOver(f, {}) = 0 /\ SumOver(a, {}) = 0 /\ Cardinality({}) = 0 BY SumNone, FS_EmptySet
  <2>3. Bounded({}) BY <2>1, <2>2
  <2> QED BY <2>3
<1>2. ASSUME NEW T \in SUBSET S, NEW x \in S \ T, T \in F PROVE T \cup {x} \in F
  <2> DEFINE U == T \cup {x}
  <2>1. U \in SUBSET S /\ IsFiniteSet(U) /\ x \in U /\ U \ {x} = T /\ IsFiniteSet(T) BY FS_Subset
  <2>2. \A k \in U : f[k] \in Int /\ a[k] \in Int OBVIOUS
  <2>3. Cardinality(U) = Cardinality(T) + 1 /\ Cardinality(T) \in Nat
    BY <2>1, FS_AddElement, FS_CardinalityType
  <2> HIDE DEF U
  <2>4. SumOver(f, U) = f[x] + SumOver(f, T) /\ SumOver(a, U) = a[x] + SumOver(a, T)
    BY <2>1, <2>2, SumTake
  <2>5. PICK fx \in Nat : fx = f[x] OBVIOUS
  <2>6. PICK ax \in Nat : ax = a[x] OBVIOUS
  <2>7. PICK fT \in Nat : fT = SumOver(f, T) BY <2>1, SumNat
  <2>8. PICK aT \in Nat : aT = SumOver(a, T) BY <2>1, SumNat
  <2>9. PICK j \in Nat : j = Cardinality(T) BY <2>3
  <2>10. /\ c * fx <= u * ax /\ (u * ax) * m <= (c * fx) * m + gap
         /\ c * fT <= u * aT /\ (u * aT) * m <= (c * fT) * m + j * gap
    BY <1>2, <2>5, <2>6, <2>7, <2>8, <2>9
  <2>11. /\ c * (fx + fT) = c * fx + c * fT /\ u * (ax + aT) = u * ax + u * aT
         /\ (j + 1) * gap = j * gap + gap
    OBVIOUS
  <2>12. PICK cf, cF, ua, uA \in Nat : cf = c * fx /\ cF = c * fT /\ ua = u * ax /\ uA = u * aT
    OBVIOUS
  <2>13. (cf + cF) * m = cf * m + cF * m /\ (ua + uA) * m = ua * m + uA * m OBVIOUS
  <2>14. cf + cF <= ua + uA BY <2>10, <2>12
  <2>15. PICK p1, p2, p3, p4, p5 \in Nat :
           p1 = cf * m /\ p2 = cF * m /\ p3 = ua * m /\ p4 = uA * m /\ p5 = j * gap
    OBVIOUS
  <2>16. p3 <= p1 + gap /\ p4 <= p2 + p5 BY <2>10, <2>12, <2>15
  <2>17. p3 + p4 <= (p1 + p2) + (p5 + gap) BY <2>16
  <2>18. (ua + uA) * m <= (cf + cF) * m + (j + 1) * gap
    BY <2>11, <2>13, <2>15, <2>17
  <2>19. c * (fx + fT) = cf + cF /\ u * (ax + aT) = ua + uA BY <2>11, <2>12
  <2>20. SumOver(f, U) = fx + fT /\ SumOver(a, U) = ax + aT /\ Cardinality(U) = j + 1
    BY <2>3, <2>4, <2>5, <2>6, <2>7, <2>8, <2>9
  <2>21. Bounded(U) BY <2>14, <2>18, <2>19, <2>20
  <2>22. U \in F BY <2>1, <2>21
  <2> QED BY <2>22 DEF U
<1> HIDE DEF F
<1>3. \A T \in SUBSET S : T \in F BY <1>1, <1>2, FiniteInduction
<1> QED BY <1>3 DEF F
-----------------------------------------------------------------------------
(* Cutting a vector at the offsets off[1], off[2], ... and joining it.     *)

IsCut(off, q, len) ==
  /\ q \in Nat \ {0}
  /\ off \in [0 .. q -> Nat]
  /\ off[0] = 0 /\ off[q] = len
  /\ \A i \in 1 .. q : off[i - 1] < off[i]
  /\ \A i, j \in 0 .. q : i <= j => off[i] <= off[j]

Width(off, i) == off[i] - off[i - 1]

Cut(vec, off, q) == [i \in 1 .. q |-> [k \in 1 .. Width(off, i) |-> vec[off[i - 1] + k]]]

(* The slice that element k is in.                                         *)
Home(off, q, k) == CHOOSE i \in 1 .. q : off[i - 1] < k /\ k <= off[i]

LEMMA CutFacts ==
  ASSUME NEW len, NEW q, NEW off, IsCut(off, q, len)
  PROVE  /\ q \in Nat \ {0} /\ len \in Nat \ {0}
         /\ \A i \in 1 .. q : /\ i - 1 \in 0 .. q /\ i \in 0 .. q
                              /\ off[i - 1] \in Nat /\ off[i] \in Nat
                              /\ Width(off, i) \in Nat \ {0}
                              /\ off[i] = off[i - 1] + Width(off, i)
                              /\ off[i] <= len
<1>1. q \in Nat \ {0} /\ len \in Nat BY DEF IsCut
<1>2. ASSUME NEW i \in 1 .. q
      PROVE  /\ i - 1 \in 0 .. q /\ i \in 0 .. q
             /\ off[i - 1] \in Nat /\ off[i] \in Nat
             /\ Width(off, i) \in Nat \ {0}
             /\ off[i] = off[i - 1] + Width(off, i)
             /\ off[i] <= len
  <2>1. i - 1 \in 0 .. q /\ i \in 0 .. q /\ q \in 0 .. q /\ i <= q BY <1>1
  <2>2. off[i - 1] \in Nat /\ off[i] \in Nat /\ off[i - 1] < off[i] /\ off[i] <= len
    BY <1>1, <2>1 DEF IsCut
  <2> QED BY <2>1, <2>2 DEF Width
<1>3. len # 0
  <2>1. 1 \in 1 .. q BY <1>1
  <2>2. off[1] <= len /\ off[1 - 1] \in Nat /\ Width(off, 1) \in Nat \ {0}
        /\ off[1] = off[1 - 1] + Width(off, 1)
    BY <1>2, <2>1
  <2> QED BY <1>1, <2>2
<1> QED BY <1>1, <1>2, <1>3

LEMMA HomeExists ==
  ASSUME NEW len, NEW q, NEW off, IsCut(off, q, len), NEW k \in 1 .. len
  PROVE  /\ Home(off, q, k) \in 1 .. q
         /\ off[Home(off, q, k) - 1] < k /\ k <= off[Home(off, q, k)]
<1>1. q \in Nat \ {0} /\ len \in Nat BY CutFacts
<1> DEFINE S == { i \in Nat : i \in 0 .. q /\ k <= off[i] }
<1>2. q \in S BY <1>1 DEF IsCut
<1>3. PICK m \in S : \A i \in S : m <= i BY <1>2, LeastNatural
<1>4. m # 0 BY <1>1, <1>3 DEF IsCut
<1>5. m \in 1 .. q BY <1>1, <1>3, <1>4
<1>6. m - 1 \in Nat /\ m - 1 \in 0 .. q /\ m - 1 \notin S BY <1>1, <1>3, <1>5
<1>7. off[m - 1] \in Nat BY <1>6 DEF IsCut
<1>8. off[m - 1] < k /\ k <= off[m] BY <1>1, <1>3, <1>6, <1>7
<1>9. \E i \in 1 .. q : off[i - 1] < k /\ k <= off[i] BY <1>5, <1>8
<1> QED BY <1>9 DEF Home

LEMMA HomeIs ==
  ASSUME NEW len, NEW q, NEW off, IsCut(off, q, len), NEW i \in 1 .. q,
         NEW k \in 1 .. Width(off, i)
  PROVE  /\ off[i - 1] + k \in 1 .. len
         /\ Home(off, q, off[i - 1] + k) = i
<1>1. /\ q \in Nat /\ len \in Nat /\ off[i - 1] \in Nat /\ off[i] \in Nat
      /\ Width(off, i) \in Nat /\ off[i] = off[i - 1] + Width(off, i) /\ off[i] <= len
  BY CutFacts
<1>2. PICK e \in Nat : e = off[i - 1] + k BY <1>1
<1>3. off[i - 1] < e /\ e <= off[i] /\ e \in 1 .. len BY <1>1, <1>2
<1>4. PICK h \in 1 .. q : h = Home(off, q, e) /\ off[h - 1] < e /\ e <= off[h]
  BY <1>3, HomeExists
<1>5. off[h - 1] \in Nat /\ off[h] \in Nat BY CutFacts
<1>6. ~(h < i)
  <2> SUFFICES ASSUME h < i PROVE FALSE OBVIOUS
  <2>1. h \in 0 .. q /\ i - 1 \in 0 .. q /\ h <= i - 1 BY <1>1
  <2>2. off[h] <= off[i - 1] BY <2>1 DEF IsCut
  <2> QED BY <1>1, <1>3, <1>4, <1>5, <2>2
<1>7. ~(i < h)
  <2> SUFFICES ASSUME i < h PROVE FALSE OBVIOUS
  <2>1. i \in 0 .. q /\ h - 1 \in 0 .. q /\ i <= h - 1 BY <1>1
  <2>2. off[i] <= off[h - 1] BY <2>1 DEF IsCut
  <2> QED BY <1>1, <1>3, <1>4, <1>5, <2>2
<1>8. h = i BY <1>1, <1>6, <1>7
<1> QED BY <1>2, <1>3, <1>4, <1>8

NatVector(f, len) == f \in [1 .. len -> Nat]

(* extend_from_slice in slice order puts every element back in its place.  *)
LEMMA FlattenCut ==
  ASSUME NEW len, NEW q, NEW off, IsCut(off, q, len), NEW vec, NatVector(vec, len)
  PROVE  FlattenSeq(Cut(vec, off, q)) = vec
<1> DEFINE pieces == Cut(vec, off, q)
           Joins(g) == g = [i \in 1 .. Len(pieces) |->
                              IF i = 1 THEN pieces[i] ELSE g[i - 1] \o pieces[i]]
           joined == [i \in 1 .. q |-> [k \in 1 .. off[i] |-> vec[k]]]
<1>0. vec = [k \in 1 .. len |-> vec[k]] /\ \A k \in 1 .. len : vec[k] \in Int BY DEF NatVector
<1>1. q \in Nat \ {0} /\ len \in Nat BY CutFacts
<1>2. Len(pieces) = q /\ \A i \in 1 .. q : pieces[i] = [k \in 1 .. Width(off, i) |-> vec[off[i - 1] + k]]
  BY <1>1 DEF Cut
<1> HIDE DEF pieces
<1>3. FlattenSeq(pieces) = (CHOOSE g : Joins(g))[q] BY <1>1, <1>2 DEF FlattenSeq
<1>4. ASSUME NEW i \in 1 .. q, NEW w \in Nat, w <= len
      PROVE  [k \in 1 .. w |-> vec[k]] \in Seq(Int) /\ Len([k \in 1 .. w |-> vec[k]]) = w
  <2>1. \A k \in 1 .. w : vec[k] \in Int BY <1>0, <1>1, <1>4
  <2> QED BY <2>1
<1>5. ASSUME NEW i \in 1 .. q
      PROVE  pieces[i] \in Seq(Int) /\ Len(pieces[i]) = Width(off, i)
  <2>1. Width(off, i) \in Nat BY CutFacts
  <2>2. \A k \in 1 .. Width(off, i) : vec[off[i - 1] + k] \in Int BY <1>0, HomeIs
  <2> QED BY <1>2, <2>1, <2>2
<1>6. Joins(joined)
  <2> SUFFICES ASSUME NEW i \in 1 .. q
               PROVE  joined[i] = IF i = 1 THEN pieces[i] ELSE joined[i - 1] \o pieces[i]
    BY <1>2
  <2>1. /\ off[i - 1] \in Nat /\ off[i] \in Nat /\ off[i] = off[i - 1] + Width(off, i)
        /\ Width(off, i) \in Nat /\ off[i] <= len
    BY CutFacts
  <2>2. CASE i = 1
    <3>1. off[i - 1] = 0 BY <2>2 DEF IsCut
    <3>2. Width(off, i) = off[i] BY <2>1, <3>1
    <3>3. \A k \in 1 .. off[i] : off[i - 1] + k = k BY <2>1, <3>1
    <3>4. pieces[i] = [k \in 1 .. off[i] |-> vec[k]] BY <1>2, <3>2, <3>3
    <3> QED BY <2>2, <3>4
  <2>3. CASE i # 1
    <3>1. i - 1 \in 1 .. q BY <1>1, <2>3
    <3>2. joined[i - 1] = [k \in 1 .. off[i - 1] |-> vec[k]] BY <3>1
    <3> DEFINE s == joined[i - 1]
               t == pieces[i]
               u == joined[i]
    <3>3. s \in Seq(Int) /\ Len(s) = off[i - 1]
      <4>1. off[i - 1] <= len BY <2>1, <1>1
      <4> QED BY <1>4, <2>1, <3>2, <4>1
    <3>4. t \in Seq(Int) /\ Len(t) = Width(off, i) BY <1>5
    <3>5. u \in Seq(Int) /\ Len(u) = off[i] BY <1>4, <2>1
    <3>6. s \o t \in Seq(Int) /\ Len(s \o t) = off[i]
          /\ \A k \in 1 .. off[i] : (s \o t)[k] = IF k <= off[i - 1] THEN s[k] ELSE t[k - off[i - 1]]
      <4> HIDE DEF s, t
      <4>1. /\ s \o t \in Seq(Int) /\ Len(s \o t) = Len(s) + Len(t)
            /\ \A k \in 1 .. Len(s) + Len(t) :
                 (s \o t)[k] = IF k <= Len(s) THEN s[k] ELSE t[k - Len(s)]
        BY <3>3, <3>4, ConcatProperties
      <4> QED BY <2>1, <3>3, <3>4, <4>1
    <3>7. ASSUME NEW k \in 1 .. off[i] PROVE u[k] = (s \o t)[k]
      <4>1. u[k] = vec[k] OBVIOUS
      <4>2. CASE k <= off[i - 1]
        <5>1. k \in 1 .. off[i - 1] BY <2>1, <4>2
        <5>2. s[k] = vec[k] BY <3>2, <5>1
        <5> HIDE DEF s, t, u
        <5> QED BY <3>6, <4>1, <4>2, <5>2
      <4>3. CASE ~(k <= off[i - 1])
        <5>1. k - off[i - 1] \in 1 .. Width(off, i) /\ off[i - 1] + (k - off[i - 1]) = k
          BY <2>1, <4>3
        <5>2. PICK m \in 1 .. Width(off, i) : m = k - off[i - 1] BY <5>1
        <5>3. t[m] = vec[off[i - 1] + m] /\ off[i - 1] + m = k BY <1>2, <5>1, <5>2
        <5> HIDE DEF s, t, u
        <5> QED BY <3>6, <4>1, <4>3, <5>2, <5>3
      <4> QED BY <4>2, <4>3
    <3> HIDE DEF s, t, u
    <3>8. u = s \o t BY <3>5, <3>6, <3>7, SeqEqual
    <3> QED BY <2>3, <3>8 DEF s, t, u
  <2> QED BY <2>2, <2>3
<1>7. PICK g : Joins(g) /\ FlattenSeq(pieces) = g[q]
  <2>1. \E g : Joins(g) BY <1>6
  <2> HIDE DEF Joins
  <2>2. Joins(CHOOSE g : Joins(g)) BY <2>1
  <2> QED BY <1>3, <2>2
<1> DEFINE K == { j \in Nat : j \in 1 .. q => g[j] = joined[j] }
<1>8. 0 \in K BY <1>1
<1>9. ASSUME NEW j \in Nat, j \in K PROVE j + 1 \in K
  <2> SUFFICES ASSUME j + 1 \in 1 .. q PROVE g[j + 1] = joined[j + 1] OBVIOUS
  <2>1. (j + 1) - 1 = j OBVIOUS
  <2>2. g[j + 1] = IF j + 1 = 1 THEN pieces[j + 1] ELSE g[j] \o pieces[j + 1]
    BY <1>2, <1>7, <2>1
  <2>3. joined[j + 1] = IF j + 1 = 1 THEN pieces[j + 1] ELSE joined[j] \o pieces[j + 1]
    <3> HIDE DEF joined
    <3> QED BY <1>2, <1>6, <2>1
  <2>4. j + 1 # 1 => j \in 1 .. q BY <1>1
  <2> HIDE DEF joined
  <2> QED BY <1>9, <2>2, <2>3, <2>4
<1>10. \A j \in Nat : j \in K
  <2> HIDE DEF K
  <2> QED BY <1>8, <1>9, SetInduction
<1>11. g[q] = joined[q]
  <2> HIDE DEF joined
  <2>1. q \in Nat /\ q \in 1 .. q BY <1>1
  <2> QED BY <1>10, <2>1
<1>12. joined[q] = [k \in 1 .. len |-> vec[k]] BY <1>1 DEF IsCut
<1> QED BY <1>0, <1>7, <1>11, <1>12 DEF pieces

SliceSums(out, f, off, q) ==
  /\ DOMAIN out = 1 .. q
  /\ \A i \in 1 .. q : out[i] = SumOver(Cut(f, off, q)[i], 1 .. Width(off, i))

(* The sums of the slices add up to the sum of the vector.                 *)
LEMMA SumCut ==
  ASSUME NEW len, NEW q, NEW off, IsCut(off, q, len), NEW f, NatVector(f, len),
         NEW out, SliceSums(out, f, off, q)
  PROVE  Total(out) = SumOver(f, 1 .. len)
<1> DEFINE K == { j \in Nat : j \in 0 .. q => SumOver(out, 1 .. j) = SumOver(f, 1 .. off[j]) }
<1>0. /\ \A k \in 1 .. len : f[k] \in Nat
      /\ \A i \in 1 .. q : out[i] = SumOver(Cut(f, off, q)[i], 1 .. Width(off, i))
  BY DEF NatVector, SliceSums
<1>1. q \in Nat \ {0} /\ len \in Nat BY CutFacts
<1>2. 0 \in K
  <2>1. off[0] = 0 /\ 1 .. 0 = {} BY DEF IsCut
  <2> QED BY <2>1, SumNone
<1>3. ASSUME NEW j \in Nat, j \in K PROVE j + 1 \in K
  <2> SUFFICES ASSUME j + 1 \in 0 .. q
               PROVE  SumOver(out, 1 .. (j + 1)) = SumOver(f, 1 .. off[j + 1])
    OBVIOUS
  <2> DEFINE i == j + 1
             w == Width(off, i)
             r == Cut(f, off, q)[i]
             row == [k \in Nat |-> r[k + 1]]
  <2>1. i \in 1 .. q /\ j \in 0 .. q /\ i - 1 = j BY <1>1
  <2>2. off[j] \in Nat /\ w \in Nat /\ off[i] = off[j] + w /\ off[i] <= len BY <2>1, CutFacts
  <2>3. SumOver(out, 1 .. j) = SumOver(f, 1 .. off[j]) BY <1>3, <2>1
  <2>4. \A k \in 1 .. q : out[k] \in Nat
    <3> SUFFICES ASSUME NEW k \in 1 .. q
                 PROVE  SumOver(Cut(f, off, q)[k], 1 .. Width(off, k)) \in Nat
      BY <1>0
    <3>1. Width(off, k) \in Nat BY CutFacts
    <3>2. IsFiniteSet(1 .. Width(off, k)) BY <3>1, FS_Interval
    <3>3. \A m \in 1 .. Width(off, k) : Cut(f, off, q)[k][m] \in Nat BY <1>0, HomeIs DEF Cut
    <3> QED BY <3>2, <3>3, SumNat
  <2>5. SumOver(out, 1 .. (j + 1)) = SumOver(out, 1 .. j) + out[j + 1]
    <3>1. \A k \in 1 .. (j + 1) : out[k] \in Int BY <1>1, <2>1, <2>4
    <3> QED BY <3>1, SumInterval
  <2>6. out[j + 1] = SumOver(r, 1 .. w) BY <1>0, <2>1
  <2>7. \A k \in 1 .. w : r[k] = f[off[j] + k] BY <2>1 DEF Cut
  <2> HIDE DEF r, w
  <2>8. SumOver(f, 1 .. (off[j] + w)) = SumOver(f, 1 .. off[j]) + SumOver(r, 1 .. w)
    <3> DEFINE M == { m \in Nat : m <= w =>
                        SumOver(f, 1 .. (off[j] + m)) = SumOver(f, 1 .. off[j]) + SumOver(r, 1 .. m) }
    <3>1. PICK a \in Nat : a = off[j] BY <2>2
    <3>2. a + w <= len BY <2>2, <3>1
    <3>3. PICK z \in Int : z = SumOver(f, 1 .. a)
      <4>1. IsFiniteSet(1 .. a) BY FS_Interval
      <4>2. \A k \in 1 .. a : f[k] \in Nat BY <1>0, <1>1, <2>2, <3>2
      <4> QED BY <4>1, <4>2, SumNat
    <3>4. 0 \in M
      <4>1. 1 .. 0 = {} /\ a + 0 = a OBVIOUS
      <4>2. SumOver(r, 1 .. 0) = 0 BY <4>1, SumNone
      <4> QED BY <3>1, <3>3, <4>1, <4>2
    <3>5. ASSUME NEW m \in Nat, m \in M PROVE m + 1 \in M
      <4> SUFFICES ASSUME m + 1 <= w
                   PROVE  SumOver(f, 1 .. (a + (m + 1))) = z + SumOver(r, 1 .. (m + 1))
        BY <3>1, <3>3
      <4>1. SumOver(f, 1 .. (a + m)) = z + SumOver(r, 1 .. m) BY <2>2, <3>1, <3>3, <3>5
      <4>2. \A k \in 1 .. ((a + m) + 1) : f[k] \in Int BY <1>0, <1>1, <2>2, <3>2
      <4>3. SumOver(f, 1 .. ((a + m) + 1)) = SumOver(f, 1 .. (a + m)) + f[(a + m) + 1]
        BY <4>2, SumInterval
      <4>4. \A k \in 1 .. (m + 1) : r[k] \in Int
        <5> TAKE k \in 1 .. (m + 1)
        <5>1. k \in 1 .. w /\ a + k \in 1 .. len BY <1>1, <2>2, <3>2
        <5> QED BY <1>0, <2>7, <3>1, <5>1
      <4>5. SumOver(r, 1 .. (m + 1)) = SumOver(r, 1 .. m) + r[m + 1] BY <4>4, SumInterval
      <4>6. m + 1 \in 1 .. w /\ (a + m) + 1 = a + (m + 1) BY <2>2
      <4>7. r[m + 1] = f[a + (m + 1)] BY <2>7, <3>1, <4>6
      <4>8. PICK y \in Int : y = SumOver(r, 1 .. m)
        <5>1. IsFiniteSet(1 .. m) BY FS_Interval
        <5>2. \A k \in 1 .. m : r[k] \in Int BY <4>4
        <5> QED BY <5>1, <5>2, SumType
      <4>9. r[m + 1] \in Int BY <4>4
      <4> QED BY <4>1, <4>3, <4>5, <4>6, <4>7, <4>8, <4>9
    <3> HIDE DEF M
    <3>6. \A m \in Nat : m \in M BY <3>4, <3>5, SetInduction
    <3> QED BY <2>2, <3>6 DEF M
  <2> QED BY <2>2, <2>3, <2>5, <2>6, <2>8
<1> HIDE DEF K
<1>4. \A j \in Nat : j \in K BY <1>2, <1>3, SetInduction
<1>5. off[q] = len /\ q \in 0 .. q BY <1>1 DEF IsCut
<1>6. SumOver(out, 1 .. q) = SumOver(f, 1 .. len) BY <1>1, <1>4, <1>5 DEF K
<1> QED BY <1>6, TotalIsSum DEF SliceSums

LEMMA MinIs ==
  ASSUME NEW S \in SUBSET Int, NEW m \in S, \A x \in S : m <= x
  PROVE  Min(S) = m
<1>1. PICK y \in S : y = Min(S) /\ \A x \in S : y <= x BY DEF Min
<1>2. y <= m /\ m <= y /\ y \in Int /\ m \in Int BY <1>1
<1> QED BY <1>1, <1>2

Piece(vec, a, w) == [k \in 1 .. w |-> vec[a + k]]

LEMMA PartIs ==
  ASSUME NEW len \in Nat, NEW vec \in [1 .. len -> Int],
         NEW a \in Nat, NEW b \in Nat, a < b, b <= len,
         NEW first \in Nat, first = a + 1, NEW w \in Nat, w = b - a
  PROVE  Part(vec, first .. b) = Piece(vec, a, w)
<1>0. PICK S : S = (a + 1) .. b /\ S = first .. b /\ S \in SUBSET Int OBVIOUS
<1>1. Min(S) = a + 1
  <2>1. a + 1 \in S /\ \A x \in S : a + 1 <= x BY <1>0
  <2> QED BY <1>0, <2>1, MinIs
<1>2. Max(S) = b
  <2>1. b \in S /\ \A x \in S : x <= b BY <1>0
  <2> QED BY <1>0, <2>1, MaxIs
<1> DEFINE s == SubSeq(vec, a + 1, b)
           r == [k \in 1 .. (b - a) |-> vec[a + k]]
<1>3. \A i \in (a + 1) .. b : vec[i] \in Int OBVIOUS
<1>4. /\ s \in Seq(Int) /\ Len(s) = b - a
      /\ \A i \in 1 .. (b - a) : s[i] = vec[a + i]
  <2>1. a + 1 \in Int /\ b \in Int /\ a + 1 <= b /\ b - (a + 1) + 1 = b - a OBVIOUS
  <2>2. /\ s \in Seq(Int) /\ Len(s) = b - (a + 1) + 1
        /\ \A i \in 1 .. b - (a + 1) + 1 : s[i] = vec[(a + 1) + i - 1]
    BY <1>3, <2>1, SubSeqProperties
  <2>3. \A i \in 1 .. (b - a) : (a + 1) + i - 1 = a + i OBVIOUS
  <2> HIDE DEF s
  <2> QED BY <2>1, <2>2, <2>3
<1>5. r \in Seq(Int) /\ Len(r) = b - a /\ \A i \in 1 .. (b - a) : r[i] = vec[a + i]
  <2>1. \A k \in 1 .. (b - a) : vec[a + k] \in Int OBVIOUS
  <2>2. b - a \in Nat OBVIOUS
  <2> QED BY <2>1, <2>2
<1>6. s = r
  <2> HIDE DEF s, r
  <2> QED BY <1>4, <1>5, SeqEqual
<1> QED BY <1>0, <1>1, <1>2, <1>6 DEF Part, Piece

(* The slices of both transports are cuts of the vector.                   *)
LEMMA ChunkSlicesCut ==
  ASSUME NEW len \in Nat \ {0}, NEW vec \in [1 .. len -> Int]
  PROVE  \E off : /\ IsCut(off, ChunkCount(len), len)
                  /\ ChunkSlices(vec) = Cut(vec, off, ChunkCount(len))
<1> DEFINE s == SliceSize(len)
           q == ChunkCount(len)
           off == [i \in 0 .. q |-> IF s * i < len THEN s * i ELSE len]
<1>1. s \in Nat \ {0} /\ q \in Nat \ {0} BY ChunkCountBounds, SlicingAssumption
<1>2. s * (q - 1) < len /\ len <= s * q BY ChunkCountIsCeiling
<1>3. Len(vec) = len OBVIOUS
<1>4. ASSUME NEW i \in 1 .. q
      PROVE  /\ off[i - 1] = s * (i - 1) /\ off[i - 1] \in Nat /\ off[i] \in Nat
             /\ off[i - 1] < off[i] /\ off[i] <= len
             /\ ChunkPositions(len, i - 1) = (off[i - 1] + 1) .. off[i]
  <2>1. i - 1 \in 0 .. q /\ i \in 0 .. q /\ i - 1 \in Nat /\ i - 1 <= q - 1 /\ q - 1 \in Nat
    BY <1>1
  <2> HIDE DEF s, q
  <2>2. s * (i - 1) <= s * (q - 1) BY <1>1, <2>1, MulMonotone
  <2>3. PICK a \in Nat : a = s * (i - 1) BY <1>1, <2>1
  <2>4. s * i = a + s
    <3>1. i = (i - 1) + 1 BY <2>1
    <3>2. s * ((i - 1) + 1) = s * (i - 1) + s BY <1>1, <2>1
    <3> QED BY <2>3, <3>1, <3>2
  <2>5. a < len
    <3>1. PICK m \in Nat : m = s * (q - 1) BY <1>1, <2>1
    <3> QED BY <1>2, <2>2, <2>3, <3>1
  <2>6. off[i - 1] = a BY <2>1, <2>3, <2>5
  <2>7. off[i] = IF a + s < len THEN a + s ELSE len BY <2>1, <2>4
  <2>8. off[i] \in Nat /\ a < off[i] /\ off[i] <= len BY <1>1, <2>5, <2>7
  <2>9. \A k \in 1 .. len : k \in ChunkPositions(len, i - 1) <=> a < k /\ k <= a + s
    BY <2>1, <2>3, InChunk DEF s
  <2>10. ChunkPositions(len, i - 1) \subseteq 1 .. len BY DEF ChunkPositions
  <2>11. ChunkPositions(len, i - 1) = (a + 1) .. off[i]
    <3> HIDE DEF off
    <3>1. ASSUME NEW k \in ChunkPositions(len, i - 1) PROVE k \in (a + 1) .. off[i]
      BY <1>1, <2>7, <2>8, <2>9, <2>10
    <3>2. ASSUME NEW k \in (a + 1) .. off[i] PROVE k \in ChunkPositions(len, i - 1)
      BY <1>1, <2>7, <2>8, <2>9
    <3> QED BY <3>1, <3>2
  <2> QED BY <2>3, <2>6, <2>8, <2>11
<1>5. off[0] = 0 /\ off[q] = len
  <2> HIDE DEF s, q
  <2>1. 0 \in 0 .. q /\ q \in 0 .. q /\ s * 0 = 0 BY <1>1
  <2>2. PICK m \in Nat : m = s * q BY <1>1
  <2> QED BY <1>2, <2>1, <2>2
<1>6. ASSUME NEW i \in 0 .. q, NEW j \in 0 .. q, i <= j PROVE off[i] <= off[j]
  <2> HIDE DEF s, q
  <2>1. s * i <= s * j BY <1>1, <1>6, MulMonotone
  <2>2. PICK a, b \in Nat : a = s * i /\ b = s * j BY <1>1
  <2> QED BY <2>1, <2>2
<1>7. off \in [0 .. q -> Nat]
  <2> HIDE DEF s, q
  <2>1. \A i \in 0 .. q : s * i \in Nat BY <1>1
  <2> QED BY <2>1
<1> HIDE DEF off
<1>8. IsCut(off, q, len) BY <1>1, <1>4, <1>5, <1>6, <1>7 DEF IsCut
<1>9. ASSUME NEW i \in 1 .. q
      PROVE  Part(vec, ChunkPositions(len, i - 1))
               = [k \in 1 .. Width(off, i) |-> vec[off[i - 1] + k]]
  <2>1. PICK a, b \in Nat : a = off[i - 1] /\ b = off[i] BY <1>4
  <2>2. a < b /\ b <= len /\ ChunkPositions(len, i - 1) = (a + 1) .. b BY <1>4, <2>1
  <2>3. PICK first \in Nat : first = a + 1 OBVIOUS
  <2>4. PICK w \in Nat : w = b - a BY <2>2
  <2>5. Part(vec, first .. b) = Piece(vec, a, w) BY <2>2, <2>3, <2>4, PartIs
  <2> QED BY <2>1, <2>2, <2>3, <2>4, <2>5 DEF Width, Piece
<1>10. ChunkSlices(vec) = Cut(vec, off, q) BY <1>3, <1>9 DEF ChunkSlices, Cut
<1> QED BY <1>8, <1>10

LEMMA EvenSlicesCut ==
  ASSUME NEW len \in Nat \ {0}, NEW vec \in [1 .. len -> Int], len >= WorldSize
  PROVE  \E off : /\ IsCut(off, WorldSize, len)
                  /\ EvenSlices(vec) = Cut(vec, off, WorldSize)
<1> DEFINE q == WorldSize
           off == [i \in 0 .. q |-> EvenOffset(len, i)]
<1>1. q \in Nat \ {0} BY SlicingAssumption
<1>2. Len(vec) = len OBVIOUS
<1>3. ASSUME NEW i \in 1 .. q
      PROVE  /\ off[i - 1] \in Nat /\ off[i] \in Nat
             /\ off[i - 1] < off[i] /\ off[i] <= len
             /\ EvenPositions(len, i - 1) = (off[i - 1] + 1) .. off[i]
  <2>1. /\ i - 1 \in 0 .. q /\ i \in 0 .. q /\ i - 1 \in Nat /\ i \in Nat
        /\ i - 1 \in 0 .. (WorldSize - 1) /\ (i - 1) + 1 = i
    BY <1>1
  <2>2. PICK a \in Nat : a = EvenOffset(len, i - 1) BY <2>1, EvenOffsetStep
  <2>3. PICK b \in Nat : b = EvenOffset(len, i) BY <2>1, EvenOffsetStep
  <2>4. EvenPositions(len, i - 1) = { k \in 1 .. len : a < k /\ k <= b }
    BY <2>1, <2>2, <2>3, InEvenChunk
  <2>5. b <= len
    <3>1. EvenOffset(len, i) <= EvenOffset(len, WorldSize) BY <1>1, <2>1, EvenOffsetGrows
    <3> QED BY <2>3, <3>1, EvenOffsetEnd
  <2>6. EvenPositions(len, i - 1) # {} BY <2>1, EvenChunksPartition
  <2>7. a < b BY <2>4, <2>6
  <2>8. EvenPositions(len, i - 1) = (a + 1) .. b
    <3>1. { k \in 1 .. len : a < k /\ k <= b } = (a + 1) .. b BY <2>5
    <3> QED BY <2>4, <3>1
  <2>9. off[i - 1] = a /\ off[i] = b BY <2>1, <2>2, <2>3
  <2> QED BY <2>5, <2>7, <2>8, <2>9
<1>4. off[0] = 0 /\ off[q] = len
  <2>1. 0 \in 0 .. q /\ q \in 0 .. q BY <1>1
  <2> QED BY <2>1, EvenOffsetStep, EvenOffsetEnd
<1>5. ASSUME NEW i \in 0 .. q, NEW j \in 0 .. q, i <= j PROVE off[i] <= off[j]
  BY <1>1, <1>5, EvenOffsetGrows
<1>6. off \in [0 .. q -> Nat]
  <2>1. \A i \in 0 .. q : i \in Nat BY <1>1
  <2>2. \A i \in 0 .. q : EvenOffset(len, i) \in Nat BY <2>1, EvenOffsetStep
  <2> QED BY <2>2
<1> HIDE DEF off
<1>7. IsCut(off, q, len) BY <1>1, <1>3, <1>4, <1>5, <1>6 DEF IsCut
<1>8. ASSUME NEW i \in 1 .. q
      PROVE  Part(vec, EvenPositions(len, i - 1))
               = [k \in 1 .. Width(off, i) |-> vec[off[i - 1] + k]]
  <2>1. PICK a, b \in Nat : a = off[i - 1] /\ b = off[i] BY <1>3
  <2>2. a < b /\ b <= len /\ EvenPositions(len, i - 1) = (a + 1) .. b BY <1>3, <2>1
  <2>3. PICK first \in Nat : first = a + 1 OBVIOUS
  <2>4. PICK w \in Nat : w = b - a BY <2>2
  <2>5. Part(vec, first .. b) = Piece(vec, a, w) BY <2>2, <2>3, <2>4, PartIs
  <2> QED BY <2>1, <2>2, <2>3, <2>4, <2>5 DEF Width, Piece
<1>9. EvenSlices(vec) = Cut(vec, off, q) BY <1>2, <1>8 DEF EvenSlices, Cut
<1> QED BY <1>7, <1>9

-----------------------------------------------------------------------------
(* The maxima of the slices, and the maximum of those.                     *)

LEMMA SliceMax ==
  ASSUME NEW len, NEW q, NEW off, IsCut(off, q, len), NEW vec \in [1 .. len -> Int]
  PROVE  /\ \A i \in 1 .. q : /\ Greatest(Cut(vec, off, q)[i]) \in Int
                              /\ Greatest(Cut(vec, off, q)[i]) <= Greatest(vec)
                              /\ \A k \in 1 .. Width(off, i) :
                                   vec[off[i - 1] + k] <= Greatest(Cut(vec, off, q)[i])
         /\ Greatest(vec) \in Int
         /\ \E i \in 1 .. q : Greatest(Cut(vec, off, q)[i]) = Greatest(vec)
<1>1. q \in Nat \ {0} /\ len \in Nat \ {0} BY CutFacts
<1>2. PICK d \in 1 .. len : Greatest(vec) = vec[d] /\ \A k \in 1 .. len : vec[k] <= vec[d]
  BY <1>1, VectorMax
<1>3. ASSUME NEW i \in 1 .. q
      PROVE  \E m \in 1 .. Width(off, i) :
               /\ Greatest(Cut(vec, off, q)[i]) = vec[off[i - 1] + m]
               /\ \A k \in 1 .. Width(off, i) : vec[off[i - 1] + k] <= vec[off[i - 1] + m]
  <2>1. PICK w \in Nat \ {0} : w = Width(off, i) BY CutFacts
  <2>2. PICK s : s = Cut(vec, off, q)[i] OBVIOUS
  <2>3. s = [k \in 1 .. w |-> vec[off[i - 1] + k]] BY <2>1, <2>2 DEF Cut
  <2>4. \A k \in 1 .. w : off[i - 1] + k \in 1 .. len BY <2>1, HomeIs
  <2>5. s \in [1 .. w -> Int] BY <2>3, <2>4
  <2>6. PICK m \in 1 .. w : Greatest(s) = s[m] /\ \A k \in 1 .. w : s[k] <= s[m]
    BY <2>5, VectorMax
  <2> QED BY <2>1, <2>2, <2>3, <2>6
<1>4. ASSUME NEW i \in 1 .. q
      PROVE  /\ Greatest(Cut(vec, off, q)[i]) \in Int
             /\ Greatest(Cut(vec, off, q)[i]) <= Greatest(vec)
             /\ \A k \in 1 .. Width(off, i) :
                  vec[off[i - 1] + k] <= Greatest(Cut(vec, off, q)[i])
  <2>1. PICK m \in 1 .. Width(off, i) :
          /\ Greatest(Cut(vec, off, q)[i]) = vec[off[i - 1] + m]
          /\ \A k \in 1 .. Width(off, i) : vec[off[i - 1] + k] <= vec[off[i - 1] + m]
    BY <1>3
  <2>2. off[i - 1] + m \in 1 .. len BY HomeIs
  <2> QED BY <1>2, <2>1, <2>2
<1>5. \E i \in 1 .. q : Greatest(Cut(vec, off, q)[i]) = Greatest(vec)
  <2>1. PICK i \in 1 .. q : off[i - 1] < d /\ d <= off[i] BY HomeExists
  <2>2. off[i - 1] \in Nat /\ off[i] \in Nat BY CutFacts
  <2>3. PICK k \in 1 .. Width(off, i) : off[i - 1] + k = d
    <3>1. d - off[i - 1] \in 1 .. Width(off, i) BY <1>1, <2>1, <2>2 DEF Width
    <3>2. off[i - 1] + (d - off[i - 1]) = d BY <1>1, <2>2
    <3> QED BY <3>1, <3>2
  <2>4. PICK g \in Int : g = Greatest(Cut(vec, off, q)[i]) BY <1>4
  <2>5. vec[d] <= g /\ g <= vec[d] /\ vec[d] \in Int BY <1>2, <1>4, <2>3, <2>4
  <2>6. g = vec[d] BY <2>5
  <2> QED BY <1>2, <2>4, <2>6
<1>6. Greatest(vec) \in Int BY <1>2
<1> QED BY <1>4, <1>5, <1>6

(* What passes for the maxima of the slices, and the greatest of those.     *)
Maxima(lm, gm, vec, off, q) ==
  /\ gm \in Int
  /\ \A i \in 1 .. q : /\ lm[i] \in Int /\ lm[i] <= gm
                       /\ \A k \in 1 .. Width(off, i) : vec[off[i - 1] + k] <= lm[i]
  /\ \E i \in 1 .. q : lm[i] = gm

LEMMA MaximaMax ==
  ASSUME NEW vec, NEW q, NEW off, NEW lm, NEW gm, Maxima(lm, gm, vec, off, q)
  PROVE  Max({ lm[i] : i \in 1 .. q }) = gm
<1> DEFINE S == { lm[i] : i \in 1 .. q }
<1>1. gm \in Int /\ \A i \in 1 .. q : lm[i] \in Int /\ lm[i] <= gm BY DEF Maxima
<1>2. \E i \in 1 .. q : lm[i] = gm BY DEF Maxima
<1>3. S \in SUBSET Int /\ gm \in S /\ \A x \in S : x <= gm BY <1>1, <1>2
<1> HIDE DEF S
<1>4. Max(S) = gm BY <1>3, MaxIs
<1> QED BY <1>4 DEF S

(* A denominator may be taken against the maximum of the vector or, when   *)
(* all elements are below it, against the padding.                         *)
Pivot(gm, vec, slices) ==
  \/ gm = Greatest(vec)
  \/ gm = Pad /\ Greatest(vec) < Pad /\ PadDecides(slices)

LEMMA SlicePivot ==
  ASSUME NEW len, NEW q, NEW off, IsCut(off, q, len), NEW vec \in [1 .. len -> Int],
         NEW slices, slices = Cut(vec, off, q),
         NEW lm, \A i \in 1 .. q : lm[i] \in {Greatest(slices[i]), block_max(slices[i])}
  PROVE  \E gm : Maxima(lm, gm, vec, off, q) /\ Pivot(gm, vec, slices)
<1>0. Pad \in Int BY PadAssumption
<1>1. PICK g \in Int : g = Greatest(vec) BY SliceMax
<1>2. ASSUME NEW i \in 1 .. q
      PROVE  /\ Greatest(slices[i]) \in Int /\ lm[i] \in Int
             /\ Greatest(slices[i]) <= lm[i] /\ Greatest(slices[i]) <= g
             /\ \/ lm[i] = Greatest(slices[i])
                \/ Len(slices[i]) % BlockSize # 0 /\ lm[i] = Pad
             /\ \A k \in 1 .. Width(off, i) : vec[off[i - 1] + k] <= lm[i]
  <2>1. PICK w \in Nat \ {0} : w = Width(off, i) BY CutFacts
  <2>2. PICK s : s = slices[i] OBVIOUS
  <2>3. s = [k \in 1 .. w |-> vec[off[i - 1] + k]] BY <2>1, <2>2 DEF Cut
  <2>4. \A k \in 1 .. w : off[i - 1] + k \in 1 .. len BY <2>1, HomeIs
  <2>5. s \in [1 .. w -> Int] BY <2>3, <2>4
  <2>6. Len(s) = w BY <2>5
  <2>7. PICK a, b \in Int : a = Greatest(s) /\ b = block_max(s) BY <2>5, BlockMaxIs
  <2>8. a <= b /\ (b = a \/ (w % BlockSize # 0 /\ b = Pad)) BY <2>5, <2>7, BlockMaxIs
  <2>9. a <= g /\ \A k \in 1 .. w : vec[off[i - 1] + k] <= a
    BY <1>1, <2>1, <2>2, <2>7, SliceMax
  <2>10. PICK l \in Int : l = lm[i] /\ (l = a \/ l = b) BY <2>2, <2>7
  <2>11. a <= l BY <2>8, <2>10
  <2>12. \A k \in 1 .. w : vec[off[i - 1] + k] <= l BY <2>4, <2>9, <2>11
  <2> QED BY <2>1, <2>2, <2>6, <2>7, <2>8, <2>9, <2>10, <2>11, <2>12
<1>3. q \in Nat \ {0} BY CutFacts
<1>4. PICK j \in 1 .. q : \A i \in 1 .. q : lm[i] <= lm[j]
  <2>1. IsFiniteSet(1 .. q) /\ 1 \in 1 .. q BY <1>3, FS_Interval
  <2>2. \A i \in 1 .. q : lm[i] \in Int BY <1>2
  <2> QED BY <2>1, <2>2, GreatestAt
<1>5. PICK gm \in Int : gm = lm[j] BY <1>2
<1>6. Maxima(lm, gm, vec, off, q) BY <1>2, <1>4, <1>5 DEF Maxima
<1>7. g <= gm
  <2>1. PICK i \in 1 .. q : Greatest(slices[i]) = g BY <1>1, SliceMax
  <2>2. g <= lm[i] /\ lm[i] \in Int /\ lm[i] <= gm BY <1>2, <1>4, <1>5, <2>1
  <2> QED BY <2>2
<1>8. CASE gm = g BY <1>1, <1>6, <1>8 DEF Pivot
<1>9. CASE gm # g
  <2>1. g < gm BY <1>7, <1>9
  <2>2. Len(slices[j]) % BlockSize # 0 /\ gm = Pad
    <3>1. PICK a \in Int : a = Greatest(slices[j]) /\ a <= g BY <1>2
    <3>2. a # gm BY <2>1, <3>1
    <3> QED BY <1>2, <1>5, <3>1, <3>2
  <2>3. ASSUME NEW i \in 1 .. q PROVE Greatest(slices[i]) < Pad
    <3>1. PICK a \in Int : a = Greatest(slices[i]) /\ a <= g BY <1>2
    <3> QED BY <2>1, <2>2, <3>1
  <2>4. DOMAIN slices = 1 .. q BY DEF Cut
  <2>5. PadDecides(slices) BY <2>2, <2>3, <2>4 DEF PadDecides
  <2> QED BY <1>1, <1>6, <2>1, <2>2, <2>5 DEF Pivot
<1> QED BY <1>8, <1>9

-----------------------------------------------------------------------------
(* The terms of a reply.  Against the maximum gm, an element x has the     *)
(* weight 2^(u + x - gm), unless it is more than Tiny32 below gm, when its *)
(* weight may have underflowed to 0.                                       *)

IsTerm(v, x, gm, u) ==
  \/ v = 0 /\ x < gm - Tiny32
  \/ gm <= u + x /\ v = 2 ^ (u + x - gm)

(* exp of a non-positive difference in a format that underflows at e.      *)
ExpTo(e, d) == IF d < -e THEN 0 ELSE 2 ^ (e + d)

LEMMA ExpToIs ==
  ASSUME NEW d
  PROVE  Exp32(d) = ExpTo(Tiny32, d) /\ Exp64(d) = ExpTo(Tiny64, d)
BY DEF Exp32, Exp64, ExpTo

LEMMA ExpToType ==
  ASSUME NEW e \in Nat, NEW x \in Int, NEW l \in Int
  PROVE  ExpTo(e, x - l) \in Nat
<1>1. CASE x - l < -e BY <1>1 DEF ExpTo
<1>2. CASE ~(x - l < -e)
  <2>1. PICK a \in Nat : a = e + (x - l) BY <1>2
  <2>2. 2 ^ a \in Nat BY PowerStep
  <2> QED BY <1>2, <2>1, <2>2 DEF ExpTo
<1> QED BY <1>1, <1>2

LEMMA TermProduct ==
  ASSUME NEW x \in Int, NEW l \in Int, NEW g \in Int, x <= l, l <= g,
         NEW e \in Nat, Tiny32 <= e
  PROVE  IsTerm(ExpTo(Tiny32, x - l) * ExpTo(e, l - g), x, g, Tiny32 + e)
<1>0. Tiny32 \in Nat BY TinyAssumption
<1>1. PICK v1 \in Nat : v1 = ExpTo(Tiny32, x - l) BY <1>0, ExpToType
<1>2. PICK v2 \in Nat : v2 = ExpTo(e, l - g) BY ExpToType
<1>3. CASE x - l < -Tiny32
  <2>1. v1 = 0 BY <1>1, <1>3 DEF ExpTo
  <2>2. v1 * v2 = 0 BY <2>1
  <2>3. x < g - Tiny32 BY <1>0, <1>3
  <2> QED BY <1>1, <1>2, <2>2, <2>3 DEF IsTerm
<1>4. CASE l - g < -e
  <2>1. v2 = 0 BY <1>2, <1>4 DEF ExpTo
  <2>2. v1 * v2 = 0 BY <2>1
  <2>3. x < g - Tiny32 BY <1>0, <1>4
  <2> QED BY <1>1, <1>2, <2>2, <2>3 DEF IsTerm
<1>5. CASE ~(x - l < -Tiny32) /\ ~(l - g < -e)
  <2>1. PICK a \in Nat : a = Tiny32 + (x - l) BY <1>0, <1>5
  <2>2. PICK b \in Nat : b = e + (l - g) BY <1>5
  <2>3. v1 = 2 ^ a /\ v2 = 2 ^ b BY <1>1, <1>2, <1>5, <2>1, <2>2 DEF ExpTo
  <2>4. v1 * v2 = 2 ^ (a + b) BY <2>3, PowerAdd
  <2>5. a + b = (Tiny32 + e) + x - g BY <1>0, <2>1, <2>2
  <2>6. g <= (Tiny32 + e) + x BY <1>0, <2>1, <2>2
  <2> QED BY <1>1, <1>2, <2>4, <2>5, <2>6 DEF IsTerm
<1> QED BY <1>3, <1>4, <1>5

LEMMA TermNat ==
  ASSUME NEW v, NEW x \in Int, NEW g \in Int, NEW u \in Nat, IsTerm(v, x, g, u)
  PROVE  v \in Nat
<1>1. CASE v = 0 BY <1>1
<1>2. CASE g <= u + x /\ v = 2 ^ (u + x - g)
  <2>1. PICK a \in Nat : a = u + x - g BY <1>2
  <2> QED BY <1>2, <2>1, PowerStep
<1> QED BY <1>1, <1>2 DEF IsTerm

(* Product32 flushes the terms more than Tiny32 below the maximum.         *)
LEMMA FlushedTerm ==
  ASSUME NEW v, NEW x \in Int, NEW g \in Int, IsTerm(v, x, g, Tiny32 + Tiny32)
  PROVE  /\ v < 2 ^ Tiny32 => x < g - Tiny32
         /\ IsTerm(IF v < 2 ^ Tiny32 THEN 0 ELSE v, x, g, Tiny32 + Tiny32)
<1>0. Tiny32 \in Nat BY TinyAssumption
<1>1. ASSUME v < 2 ^ Tiny32 PROVE x < g - Tiny32
  <2>1. CASE v = 0 /\ x < g - Tiny32 BY <2>1
  <2>2. CASE g <= (Tiny32 + Tiny32) + x /\ v = 2 ^ ((Tiny32 + Tiny32) + x - g)
    <3>1. PICK a \in Nat : a = (Tiny32 + Tiny32) + x - g BY <1>0, <2>2
    <3>2. 2 ^ a < 2 ^ Tiny32 BY <1>1, <2>2, <3>1
    <3>3. a < Tiny32 BY <1>0, <3>2, PowerLess
    <3> QED BY <1>0, <3>1, <3>3
  <2> QED BY <2>1, <2>2 DEF IsTerm
<1>2. IsTerm(IF v < 2 ^ Tiny32 THEN 0 ELSE v, x, g, Tiny32 + Tiny32)
  <2>1. CASE v < 2 ^ Tiny32 BY <1>1, <2>1 DEF IsTerm
  <2>2. CASE ~(v < 2 ^ Tiny32) BY <2>2
  <2> QED BY <2>1, <2>2
<1> QED BY <1>1, <1>2

-----------------------------------------------------------------------------
(* Every way to aggregate gives numerators and a denominator of that form. *)

(* The statistics of slice i of a cut, against the maximum l.              *)
IsPartial(s, vec, off, i, l) ==
  /\ s.local_max = l
  /\ DOMAIN s.exp_values = 1 .. Width(off, i)
  /\ \A k \in 1 .. Width(off, i) :
       s.exp_values[k] = ExpTo(Tiny32, vec[off[i - 1] + k] - l)
  /\ s.partial_sum = SumOver(s.exp_values, 1 .. Width(off, i))

LEMMA PartialIs ==
  ASSUME NEW len, NEW q, NEW off, IsCut(off, q, len), NEW vec \in [1 .. len -> Int],
         NEW i \in 1 .. q, NEW l, NEW s, s = PartialStats(Cut(vec, off, q)[i], l)
  PROVE  IsPartial(s, vec, off, i, l)
<1> DEFINE r == Cut(vec, off, q)[i]
           ex == [k \in DOMAIN r |-> Exp32(r[k] - l)]
<1>1. DOMAIN r = 1 .. Width(off, i) /\ \A k \in 1 .. Width(off, i) : r[k] = vec[off[i - 1] + k]
  BY DEF Cut
<1>2. s = [local_max |-> l, exp_values |-> ex, partial_sum |-> Total(ex)]
  BY DEF PartialStats
<1> HIDE DEF r
<1>3. DOMAIN ex = 1 .. Width(off, i) BY <1>1
<1>4. \A k \in 1 .. Width(off, i) : ex[k] = ExpTo(Tiny32, vec[off[i - 1] + k] - l)
  BY <1>1, ExpToIs
<1> HIDE DEF ex
<1>5. Total(ex) = SumOver(ex, 1 .. Width(off, i)) BY <1>3, TotalIsSum
<1>6. s.local_max = l /\ s.exp_values = ex /\ s.partial_sum = Total(ex) BY <1>2
<1> QED BY <1>3, <1>4, <1>5, <1>6 DEF IsPartial

(* The weight of an element: its own exponential times its slice's         *)
(* adjustment to the maximum of all slices.                                *)
Weight(lm, gm, vec, off, q, e, k) ==
  ExpTo(Tiny32, vec[k] - lm[Home(off, q, k)]) * ExpTo(e, lm[Home(off, q, k)] - gm)

LEMMA WeightIsTerm ==
  ASSUME NEW len, NEW q, NEW off, IsCut(off, q, len), NEW vec \in [1 .. len -> Int],
         NEW lm, NEW gm, Maxima(lm, gm, vec, off, q),
         NEW e \in Nat, Tiny32 <= e
  PROVE  \A k \in 1 .. len : /\ IsTerm(Weight(lm, gm, vec, off, q, e, k), vec[k], gm, Tiny32 + e)
                             /\ Weight(lm, gm, vec, off, q, e, k) \in Nat
<1> TAKE k \in 1 .. len
<1>1. Tiny32 \in Nat BY TinyAssumption
<1>2. PICK h \in 1 .. q : h = Home(off, q, k) /\ off[h - 1] < k /\ k <= off[h] BY HomeExists
<1>3. PICK l \in Int : l = lm[h] BY DEF Maxima
<1>4. PICK g \in Int : g = gm BY DEF Maxima
<1>5. l <= g BY <1>3, <1>4 DEF Maxima
<1>6. PICK m \in 1 .. Width(off, h) : off[h - 1] + m = k
  <2>1. off[h - 1] \in Nat /\ off[h] \in Nat /\ len \in Nat BY CutFacts
  <2>2. k - off[h - 1] \in 1 .. Width(off, h) /\ off[h - 1] + (k - off[h - 1]) = k
    BY <1>2, <2>1 DEF Width
  <2> QED BY <2>2
<1>7. vec[k] <= l /\ vec[k] \in Int BY <1>3, <1>6 DEF Maxima
<1>8. PICK x \in Int : x = vec[k] BY <1>7
<1>9. IsTerm(ExpTo(Tiny32, x - l) * ExpTo(e, l - g), x, g, Tiny32 + e)
  BY <1>5, <1>7, <1>8, TermProduct
<1>10. IsTerm(Weight(lm, gm, vec, off, q, e, k), x, g, Tiny32 + e)
  BY <1>2, <1>3, <1>4, <1>8, <1>9 DEF Weight
<1>11. Tiny32 + e \in Nat BY <1>1
<1>12. Weight(lm, gm, vec, off, q, e, k) \in Nat BY <1>10, <1>11, TermNat
<1> QED BY <1>4, <1>8, <1>10, <1>12

AreWeights(f, lm, gm, vec, off, q, e, len) ==
  \A k \in 1 .. len : f[k] = Weight(lm, gm, vec, off, q, e, k)

(* Slice i, scaled by adj, has the weights of its elements.                *)
SliceScaled(s, adj, f, off, q, i) ==
  /\ \A k \in 1 .. Width(off, i) : s.exp_values[k] * adj = f[off[i - 1] + k]
  /\ s.partial_sum * adj = SumOver(Cut(f, off, q)[i], 1 .. Width(off, i))

LEMMA WeightInSlice ==
  ASSUME NEW len, NEW q, NEW off, IsCut(off, q, len), NEW vec \in [1 .. len -> Int],
         NEW lm, NEW gm, Maxima(lm, gm, vec, off, q),
         NEW e \in Nat, NEW i \in 1 .. q, NEW s, s = PartialStats(Cut(vec, off, q)[i], lm[i]),
         NEW adj, adj = ExpTo(e, lm[i] - gm),
         NEW f, AreWeights(f, lm, gm, vec, off, q, e, len)
  PROVE  SliceScaled(s, adj, f, off, q, i)
<1>0. \A k \in 1 .. len : f[k] = Weight(lm, gm, vec, off, q, e, k) BY DEF AreWeights
<1>1. Tiny32 \in Nat BY TinyAssumption
<1>2. PICK l \in Int : l = lm[i] BY DEF Maxima
<1>3. PICK g \in Int : g = gm BY DEF Maxima
<1>4. adj \in Nat BY <1>2, <1>3, ExpToType
<1>5. ASSUME NEW k \in 1 .. Width(off, i)
      PROVE  s.exp_values[k] \in Nat /\ s.exp_values[k] * adj = f[off[i - 1] + k]
  <2>1. off[i - 1] + k \in 1 .. len /\ Home(off, q, off[i - 1] + k) = i BY HomeIs
  <2>2. PICK j \in 1 .. len : j = off[i - 1] + k BY <2>1
  <2>3. PICK x \in Int : x = vec[j] OBVIOUS
  <2>4. s.exp_values[k] = ExpTo(Tiny32, x - l)
    <3>1. IsPartial(s, vec, off, i, lm[i]) BY PartialIs
    <3> QED BY <1>2, <2>2, <2>3, <3>1 DEF IsPartial
  <2>5. f[j] = ExpTo(Tiny32, x - l) * adj BY <1>0, <1>2, <2>1, <2>2, <2>3 DEF Weight
  <2>6. ExpTo(Tiny32, x - l) \in Nat BY <1>1, ExpToType
  <2> QED BY <2>2, <2>4, <2>5, <2>6
<1>6. s.partial_sum * adj = SumOver(Cut(f, off, q)[i], 1 .. Width(off, i))
  <2>1. PICK w \in Nat : w = Width(off, i) BY CutFacts
  <2>2. IsFiniteSet(1 .. w) BY FS_Interval
  <2>3. PICK c : c = Cut(f, off, q)[i] OBVIOUS
  <2>4. PICK x : x = s.exp_values OBVIOUS
  <2>5. \A k \in 1 .. w : c[k] = f[off[i - 1] + k] BY <2>1, <2>3 DEF Cut
  <2>6. \A k \in 1 .. w : x[k] \in Nat /\ c[k] = x[k] * adj BY <1>5, <2>1, <2>4, <2>5
  <2>7. SumOver(c, 1 .. w) = SumOver(x, 1 .. w) * adj BY <1>4, <2>2, <2>6, SumScale
  <2>8. s.partial_sum = SumOver(x, 1 .. w)
    <3>1. IsPartial(s, vec, off, i, lm[i]) BY PartialIs
    <3> QED BY <2>1, <2>4, <3>1 DEF IsPartial
  <2> QED BY <2>1, <2>3, <2>7, <2>8
<1> QED BY <1>5, <1>6 DEF SliceScaled

(* Numerators and a denominator that are built of such terms.              *)
HasForm(p, vec, len, gm) ==
  \E u \in Nat : \E g, f \in [1 .. len -> Nat] :
    /\ Tiny32 <= u /\ u <= Tiny32 + Tiny64
    /\ p = [num |-> g, den |-> SumOver(f, 1 .. len)]
    /\ \A k \in 1 .. len : /\ IsTerm(g[k], vec[k], gm, u)
                           /\ IsTerm(f[k], vec[k], gm, u)

SlicePieces(pieces, g, off, q) ==
  /\ pieces = [i \in 1 .. q |-> pieces[i]]
  /\ \A i \in 1 .. q : pieces[i] = Piece(g, off[i - 1], Width(off, i))

LEMMA JoinPieces ==
  ASSUME NEW len, NEW q, NEW off, IsCut(off, q, len), NEW g, NatVector(g, len),
         NEW pieces, SlicePieces(pieces, g, off, q)
  PROVE  FlattenSeq(pieces) = g
<1>1. pieces = Cut(g, off, q) BY DEF Cut, Piece, SlicePieces
<1> QED BY <1>1, FlattenCut

(* The statistics of the slices of a vector.                               *)
AreStats(stats, lm, vec, off, q) ==
  stats = [i \in 1 .. q |-> PartialStats(Cut(vec, off, q)[i], lm[i])]

LEMMA StatsMax ==
  ASSUME NEW len, NEW q, NEW off, IsCut(off, q, len), NEW vec \in [1 .. len -> Int],
         NEW lm, NEW gm, Maxima(lm, gm, vec, off, q), NEW stats, AreStats(stats, lm, vec, off, q)
  PROVE  /\ DOMAIN stats = 1 .. q
         /\ GlobalMax(stats) = gm
         /\ \A i \in 1 .. q : /\ stats[i] = PartialStats(Cut(vec, off, q)[i], lm[i])
                              /\ stats[i].local_max = lm[i]
                              /\ DOMAIN stats[i].exp_values = 1 .. Width(off, i)
<1>1. DOMAIN stats = 1 .. q /\ \A i \in 1 .. q : stats[i] = PartialStats(Cut(vec, off, q)[i], lm[i])
  BY DEF AreStats
<1>2. ASSUME NEW i \in 1 .. q
      PROVE  /\ stats[i].local_max = lm[i]
             /\ DOMAIN stats[i].exp_values = 1 .. Width(off, i)
  <2>1. PICK s : s = stats[i] OBVIOUS
  <2>2. IsPartial(s, vec, off, i, lm[i]) BY <1>1, <2>1, PartialIs
  <2> QED BY <2>1, <2>2 DEF IsPartial
<1>3. GlobalMax(stats) = Max({ lm[i] : i \in 1 .. q })
  <2>1. { stats[i].local_max : i \in DOMAIN stats } = { lm[i] : i \in 1 .. q } BY <1>1, <1>2
  <2> QED BY <2>1 DEF GlobalMax
<1>4. Max({ lm[i] : i \in 1 .. q }) = gm BY MaximaMax
<1> QED BY <1>1, <1>2, <1>3, <1>4

(* aggregator.rs: every value and every sum is scaled in f64.              *)
LEMMA CpuForm ==
  ASSUME NEW len, NEW q, NEW off, IsCut(off, q, len), NEW vec \in [1 .. len -> Int],
         NEW lm, NEW gm, Maxima(lm, gm, vec, off, q), NEW stats, AreStats(stats, lm, vec, off, q)
  PROVE  HasForm(aggregate_softmax_cpu(stats), vec, len, gm)
<1> DEFINE g == [k \in 1 .. len |-> Weight(lm, gm, vec, off, q, Tiny64, k)]
           adjust == [i \in DOMAIN stats |-> Exp64(stats[i].local_max - GlobalMax(stats))]
           pieces == [i \in DOMAIN stats |-> Scaled(stats[i].exp_values, adjust[i])]
           sums == [i \in DOMAIN stats |-> stats[i].partial_sum * adjust[i]]
           u == Tiny32 + Tiny64
<1>1. Tiny32 \in Nat /\ Tiny64 \in Nat /\ Tiny32 <= Tiny64 BY TinyAssumption
<1>2. \A k \in 1 .. len : IsTerm(g[k], vec[k], gm, u) /\ g[k] \in Nat
  BY <1>1, WeightIsTerm
<1>3. g \in [1 .. len -> Nat] BY <1>2
<1>4. AreWeights(g, lm, gm, vec, off, q, Tiny64, len) BY DEF AreWeights
<1>11. /\ DOMAIN stats = 1 .. q
       /\ GlobalMax(stats) = gm
       /\ \A i \in 1 .. q : /\ stats[i] = PartialStats(Cut(vec, off, q)[i], lm[i])
                            /\ stats[i].local_max = lm[i]
                            /\ DOMAIN stats[i].exp_values = 1 .. Width(off, i)
  BY StatsMax
<1>5. DOMAIN stats = 1 .. q /\ DOMAIN sums = 1 .. q /\ pieces = [i \in 1 .. q |-> pieces[i]]
  BY <1>11
<1> HIDE DEF g
<1>6. ASSUME NEW i \in 1 .. q
      PROVE  /\ pieces[i] = Piece(g, off[i - 1], Width(off, i))
             /\ sums[i] = SumOver(Cut(g, off, q)[i], 1 .. Width(off, i))
  <2>1. PICK s : s = stats[i] OBVIOUS
  <2>2. s = PartialStats(Cut(vec, off, q)[i], lm[i]) /\ DOMAIN s.exp_values = 1 .. Width(off, i)
    BY <1>11, <2>1
  <2>3. PICK adj : adj = adjust[i] OBVIOUS
  <2>4. adj = ExpTo(Tiny64, lm[i] - gm)
    BY <1>5, <1>11, <2>1, <2>3, ExpToIs
  <2>5. /\ \A k \in 1 .. Width(off, i) : s.exp_values[k] * adj = g[off[i - 1] + k]
        /\ s.partial_sum * adj = SumOver(Cut(g, off, q)[i], 1 .. Width(off, i))
    <3>1. SliceScaled(s, adj, g, off, q, i) BY <1>1, <1>4, <2>2, <2>4, WeightInSlice
    <3> QED BY <3>1 DEF SliceScaled
  <2>6. pieces[i] = Scaled(s.exp_values, adj) /\ sums[i] = s.partial_sum * adj
    BY <1>5, <2>1, <2>3
  <2>7. Scaled(s.exp_values, adj) = Piece(g, off[i - 1], Width(off, i))
    BY <2>2, <2>5 DEF Scaled, Piece
  <2> QED BY <2>5, <2>6, <2>7
<1>7. aggregate_softmax_cpu(stats) = [num |-> FlattenSeq(pieces), den |-> Total(sums)]
  BY DEF aggregate_softmax_cpu
<1> HIDE DEF pieces, sums
<1>12. NatVector(g, len) /\ SlicePieces(pieces, g, off, q) /\ SliceSums(sums, g, off, q)
  BY <1>3, <1>5, <1>6 DEF NatVector, SlicePieces, SliceSums
<1>8. FlattenSeq(pieces) = g BY <1>12, JoinPieces
<1>9. Total(sums) = SumOver(g, 1 .. len) BY <1>12, SumCut
<1>10. u \in Nat /\ Tiny32 <= u /\ u <= Tiny32 + Tiny64 BY <1>1
<1> HIDE DEF u
<1> QED BY <1>2, <1>3, <1>7, <1>8, <1>9, <1>10 DEF HasForm

(* gpu_aggregator.rs: in f32, where a product may underflow although no    *)
(* factor does, of a value and also of a whole slice's sum.                *)
LEMMA GpuForm ==
  ASSUME NEW len, NEW q, NEW off, IsCut(off, q, len), NEW vec \in [1 .. len -> Int],
         NEW lm, NEW gm, Maxima(lm, gm, vec, off, q), NEW stats, AreStats(stats, lm, vec, off, q)
  PROVE  HasForm(aggregate_gpu(stats), vec, len, gm)
<1> DEFINE w == [k \in 1 .. len |-> Weight(lm, gm, vec, off, q, Tiny32, k)]
           Small(v) == v < 2 ^ Tiny32
           g == [k \in 1 .. len |-> IF Small(w[k]) THEN 0 ELSE w[k]]
           whole == [i \in 1 .. q |-> SumOver(Cut(w, off, q)[i], 1 .. Width(off, i))]
           f == [k \in 1 .. len |-> IF Small(whole[Home(off, q, k)]) THEN 0 ELSE w[k]]
           adjust == [i \in DOMAIN stats |-> Exp32(stats[i].local_max - GlobalMax(stats))]
           pieces == [i \in DOMAIN stats |-> [k \in DOMAIN stats[i].exp_values |->
                        Product32(stats[i].exp_values[k], adjust[i])]]
           sums == [i \in DOMAIN stats |-> Product32(stats[i].partial_sum, adjust[i])]
           u == Tiny32 + Tiny32
<1>1. Tiny32 \in Nat /\ Tiny64 \in Nat /\ Tiny32 <= Tiny32 /\ Tiny32 <= Tiny64
  BY TinyAssumption
<1>2. \A k \in 1 .. len : IsTerm(w[k], vec[k], gm, u) /\ w[k] \in Nat
  BY <1>1, WeightIsTerm
<1>3. gm \in Int BY DEF Maxima
<1>4. AreWeights(w, lm, gm, vec, off, q, Tiny32, len) BY DEF AreWeights
<1> HIDE DEF w
<1>5. ASSUME NEW k \in 1 .. len
      PROVE  /\ Small(w[k]) => vec[k] < gm - Tiny32
             /\ IsTerm(g[k], vec[k], gm, u)
  <2>1. PICK x, m \in Int : x = vec[k] /\ m = gm BY <1>3
  <2>2. PICK v : v = w[k] OBVIOUS
  <2>3. IsTerm(v, x, m, Tiny32 + Tiny32) BY <1>2, <2>1, <2>2
  <2>4. /\ v < 2 ^ Tiny32 => x < m - Tiny32
        /\ IsTerm(IF v < 2 ^ Tiny32 THEN 0 ELSE v, x, m, Tiny32 + Tiny32)
    BY <2>3, FlushedTerm
  <2> QED BY <2>1, <2>2, <2>4
<1>6. /\ DOMAIN stats = 1 .. q
      /\ GlobalMax(stats) = gm
      /\ \A i \in 1 .. q : /\ stats[i] = PartialStats(Cut(vec, off, q)[i], lm[i])
                           /\ stats[i].local_max = lm[i]
                           /\ DOMAIN stats[i].exp_values = 1 .. Width(off, i)
  BY StatsMax
<1>7. ASSUME NEW i \in 1 .. q
      PROVE  /\ \A k \in 1 .. Width(off, i) : pieces[i][k] = g[off[i - 1] + k]
             /\ DOMAIN pieces[i] = 1 .. Width(off, i)
             /\ sums[i] = IF Small(whole[i]) THEN 0 ELSE whole[i]
  <2>1. PICK s : s = stats[i] OBVIOUS
  <2>2. s = PartialStats(Cut(vec, off, q)[i], lm[i]) /\ DOMAIN s.exp_values = 1 .. Width(off, i)
    BY <1>6, <2>1
  <2>3. PICK adj : adj = adjust[i] OBVIOUS
  <2>4. adj = ExpTo(Tiny32, lm[i] - gm)
    BY <1>6, <2>1, <2>3, ExpToIs
  <2>5. /\ \A k \in 1 .. Width(off, i) : s.exp_values[k] * adj = w[off[i - 1] + k]
        /\ s.partial_sum * adj = SumOver(Cut(w, off, q)[i], 1 .. Width(off, i))
    <3>1. SliceScaled(s, adj, w, off, q, i) BY <1>1, <1>4, <2>2, <2>4, WeightInSlice
    <3> QED BY <3>1 DEF SliceScaled
  <2>6. whole[i] = s.partial_sum * adj BY <2>5
  <2>7. /\ pieces[i] = [k \in 1 .. Width(off, i) |-> Product32(s.exp_values[k], adj)]
        /\ sums[i] = Product32(s.partial_sum, adj)
    BY <1>6, <2>1, <2>2, <2>3
  <2>8. ASSUME NEW k \in 1 .. Width(off, i) PROVE pieces[i][k] = g[off[i - 1] + k]
    <3>1. off[i - 1] + k \in 1 .. len BY HomeIs
    <3>2. g[off[i - 1] + k] = IF Small(w[off[i - 1] + k]) THEN 0 ELSE w[off[i - 1] + k] BY <3>1
    <3>3. pieces[i][k] = Product32(s.exp_values[k], adj) BY <2>7
    <3> HIDE DEF g, pieces
    <3> QED BY <2>5, <3>2, <3>3 DEF Product32
  <2> HIDE DEF whole
  <2>9. sums[i] = IF Small(whole[i]) THEN 0 ELSE whole[i] BY <2>6, <2>7 DEF Product32
  <2> HIDE DEF pieces
  <2> QED BY <2>7, <2>8, <2>9
<1>8. ASSUME NEW i \in 1 .. q
      PROVE  /\ \A k \in 1 .. Width(off, i) :
                  /\ w[off[i - 1] + k] \in Nat /\ w[off[i - 1] + k] <= whole[i]
                  /\ f[off[i - 1] + k] = IF Small(whole[i]) THEN 0 ELSE w[off[i - 1] + k]
             /\ whole[i] \in Nat
             /\ SumOver(Cut(f, off, q)[i], 1 .. Width(off, i)) = IF Small(whole[i]) THEN 0 ELSE whole[i]
  <2>1. PICK m \in Nat : m = Width(off, i) BY CutFacts
  <2>2. IsFiniteSet(1 .. m) BY FS_Interval
  <2>3. PICK c : c = Cut(w, off, q)[i] OBVIOUS
  <2>4. PICK d : d = Cut(f, off, q)[i] OBVIOUS
  <2>5. \A k \in 1 .. m : c[k] = w[off[i - 1] + k] BY <2>1, <2>3 DEF Cut
  <2>6. \A k \in 1 .. m : off[i - 1] + k \in 1 .. len /\ Home(off, q, off[i - 1] + k) = i
    BY <2>1, HomeIs
  <2>7. whole[i] = SumOver(c, 1 .. m) BY <2>1, <2>3
  <2>8. \A k \in 1 .. m : c[k] \in Nat BY <1>2, <2>5, <2>6
  <2>9. \A k \in 1 .. m : f[off[i - 1] + k] = IF Small(whole[i]) THEN 0 ELSE c[k]
    <3> HIDE DEF whole
    <3> QED BY <2>5, <2>6
  <2> HIDE DEF whole, f, Small
  <2>10. \A k \in 1 .. m : d[k] = IF Small(whole[i]) THEN 0 ELSE c[k]
    BY <2>1, <2>4, <2>9 DEF Cut
  <2>11. SumOver(c, 1 .. m) \in Nat /\ \A k \in 1 .. m : c[k] <= SumOver(c, 1 .. m)
    BY <2>2, <2>8, SumNat, SumAtLeast
  <2>12. SumOver(d, 1 .. m) = IF Small(whole[i]) THEN 0 ELSE SumOver(c, 1 .. m)
    <3>1. CASE Small(whole[i])
      <4>1. \A k \in 1 .. m : c[k] \in Nat /\ d[k] = c[k] * 0
        <5> TAKE k \in 1 .. m
        <5>1. PICK y \in Nat : y = c[k] BY <2>8
        <5>2. y * 0 = 0 OBVIOUS
        <5> QED BY <2>10, <3>1, <5>1, <5>2
      <4>2. SumOver(d, 1 .. m) = SumOver(c, 1 .. m) * 0 BY <2>2, <4>1, SumScale
      <4>3. PICK y \in Nat : y = SumOver(c, 1 .. m) BY <2>11
      <4>4. y * 0 = 0 OBVIOUS
      <4> QED BY <3>1, <4>2, <4>3, <4>4
    <3>2. CASE ~Small(whole[i])
      <4>1. \A k \in 1 .. m : c[k] \in Int /\ c[k] = d[k] BY <2>8, <2>10, <3>2
      <4>2. SumOver(c, 1 .. m) = SumOver(d, 1 .. m) BY <2>2, <4>1, SumSame
      <4> QED BY <3>2, <4>2
    <3> QED BY <3>1, <3>2
  <2> QED BY <2>1, <2>4, <2>5, <2>7, <2>8, <2>9, <2>11, <2>12
<1>9. ASSUME NEW k \in 1 .. len PROVE IsTerm(f[k], vec[k], gm, u) /\ f[k] \in Nat
  <2>1. PICK i \in 1 .. q : i = Home(off, q, k) /\ off[i - 1] < k /\ k <= off[i] BY HomeExists
  <2>2. f[k] = IF Small(whole[i]) THEN 0 ELSE w[k]
    <3> HIDE DEF whole, Small
    <3> QED BY <2>1
  <2>3. PICK m \in 1 .. Width(off, i) : off[i - 1] + m = k
    <3>1. PICK a, b \in Nat : a = off[i - 1] /\ b = off[i] BY CutFacts
    <3>2. len \in Nat BY CutFacts
    <3>3. k - a \in 1 .. (b - a) /\ a + (k - a) = k BY <2>1, <3>1, <3>2
    <3> QED BY <3>1, <3>3 DEF Width
  <2>4. w[k] \in Nat /\ w[k] <= whole[i] /\ whole[i] \in Nat BY <1>8, <2>3
  <2> HIDE DEF f, whole
  <2>5. CASE Small(whole[i])
    <3>1. 2 ^ Tiny32 \in Nat BY <1>1, PowerStep
    <3>2. Small(w[k]) BY <2>4, <2>5, <3>1
    <3>3. f[k] = 0 /\ vec[k] < gm - Tiny32 BY <1>5, <2>2, <2>5, <3>2
    <3> QED BY <3>3 DEF IsTerm
  <2>6. CASE ~Small(whole[i]) BY <1>2, <2>2, <2>6
  <2> QED BY <2>5, <2>6
<1>10. g \in [1 .. len -> Nat] BY <1>2
<1>11. f \in [1 .. len -> Nat]
  <2> DEFINE v == [k \in 1 .. len |-> f[k]]
  <2>1. f = v OBVIOUS
  <2> HIDE DEF f
  <2> QED BY <1>9, <2>1
<1>12. aggregate_gpu(stats) = [num |-> FlattenSeq(pieces), den |-> Total(sums)]
  BY DEF aggregate_gpu
<1>13. DOMAIN sums = 1 .. q /\ pieces = [i \in 1 .. q |-> pieces[i]] BY <1>6
<1>14. ASSUME NEW i \in 1 .. q PROVE pieces[i] = Piece(g, off[i - 1], Width(off, i))
  <2>1. pieces[i] = [k \in 1 .. Width(off, i) |-> pieces[i][k]] BY <1>6
  <2> HIDE DEF pieces, g
  <2> QED BY <1>7, <2>1 DEF Piece
<1> HIDE DEF pieces, sums, f, g, whole, Small
<1>15. NatVector(g, len) /\ SlicePieces(pieces, g, off, q)
  BY <1>10, <1>13, <1>14 DEF NatVector, SlicePieces
<1>16. NatVector(f, len) /\ SliceSums(sums, f, off, q)
  BY <1>7, <1>8, <1>11, <1>13 DEF NatVector, SliceSums
<1>17. FlattenSeq(pieces) = g BY <1>15, JoinPieces
<1>18. Total(sums) = SumOver(f, 1 .. len) BY <1>16, SumCut
<1>19. u \in Nat /\ Tiny32 <= u /\ u <= Tiny32 + Tiny64 BY <1>1
<1> HIDE DEF u
<1> QED BY <1>5, <1>9, <1>10, <1>11, <1>12, <1>17, <1>18, <1>19 DEF HasForm

(* gpu_worker.rs: the ranks take every exponential against the maximum of  *)
(* all of them, and add up the sums.                                       *)
LEMMA NcclForm ==
  ASSUME NEW len, NEW q, NEW off, IsCut(off, q, len), NEW vec \in [1 .. len -> Int],
         NEW slices, slices = Cut(vec, off, q),
         NEW lm, NEW gm, Maxima(lm, gm, vec, off, q),
         \A i \in 1 .. q : lm[i] = block_max(slices[i])
  PROVE  HasForm(all_reduce_softmax(slices), vec, len, gm)
<1> DEFINE g == [k \in 1 .. len |-> Exp32(vec[k] - gm)]
           exps == [i \in DOMAIN slices |->
                      [k \in DOMAIN slices[i] |-> Exp32(slices[i][k] - gm)]]
           sums == [i \in DOMAIN exps |-> Total(exps[i])]
<1>1. Tiny32 \in Nat /\ Tiny64 \in Nat BY TinyAssumption
<1>2. DOMAIN slices = 1 .. q BY DEF Cut
<1>3. Max({ block_max(slices[i]) : i \in DOMAIN slices }) = gm
  <2>1. { block_max(slices[i]) : i \in DOMAIN slices } = { lm[i] : i \in 1 .. q } BY <1>2
  <2> QED BY <2>1, MaximaMax
<1>4. PICK m \in Int : m = gm BY DEF Maxima
<1>6. ASSUME NEW k \in 1 .. len
      PROVE  IsTerm(g[k], vec[k], gm, Tiny32) /\ g[k] \in Nat
  <2>1. PICK x \in Int : x = vec[k] OBVIOUS
  <2>2. g[k] = ExpTo(Tiny32, x - m) BY <1>4, <2>1, ExpToIs
  <2>3. IsTerm(ExpTo(Tiny32, x - m), x, m, Tiny32)
    <3>1. CASE x - m < -Tiny32 BY <1>1, <3>1 DEF IsTerm, ExpTo
    <3>2. CASE ~(x - m < -Tiny32)
      <4>1. Tiny32 + (x - m) = Tiny32 + x - m /\ m <= Tiny32 + x BY <1>1, <3>2
      <4> QED BY <3>2, <4>1 DEF IsTerm, ExpTo
    <3> QED BY <3>1, <3>2
  <2> HIDE DEF g
  <2>4. g[k] \in Nat BY <1>1, <2>2, ExpToType
  <2> QED BY <1>4, <2>1, <2>2, <2>3, <2>4
<1>7. g \in [1 .. len -> Nat]
  <2>1. g = [k \in 1 .. len |-> g[k]] OBVIOUS
  <2> HIDE DEF g
  <2> QED BY <1>6, <2>1
<1>8. ASSUME NEW i \in 1 .. q PROVE exps[i] = Piece(g, off[i - 1], Width(off, i))
  <2>1. slices[i] = [k \in 1 .. Width(off, i) |-> vec[off[i - 1] + k]] BY DEF Cut
  <2>2. \A k \in 1 .. Width(off, i) : off[i - 1] + k \in 1 .. len BY HomeIs
  <2>3. \A k \in 1 .. Width(off, i) :
          Exp32(slices[i][k] - gm) = g[off[i - 1] + k]
    BY <2>1, <2>2
  <2>4. exps[i] = [k \in 1 .. Width(off, i) |-> Exp32(slices[i][k] - gm)] BY <1>2, <2>1
  <2> HIDE DEF g, exps
  <2> QED BY <2>3, <2>4 DEF Piece
<1>9. exps = [i \in 1 .. q |-> exps[i]] /\ DOMAIN exps = 1 .. q /\ DOMAIN sums = 1 .. q BY <1>2
<1>10. \A i \in 1 .. q : sums[i] = Total(exps[i]) BY <1>9
<1>11. all_reduce_softmax(slices) = [num |-> FlattenSeq(exps), den |-> Total(sums)]
  BY <1>3 DEF all_reduce_softmax
<1> HIDE DEF exps, sums, g
<1>12. ASSUME NEW i \in 1 .. q
       PROVE  sums[i] = SumOver(Cut(g, off, q)[i], 1 .. Width(off, i))
  <2>1. PICK e : e = exps[i] OBVIOUS
  <2>2. e = Cut(g, off, q)[i] BY <1>8, <2>1 DEF Cut, Piece
  <2>3. DOMAIN e = 1 .. Width(off, i) BY <1>8, <2>1 DEF Piece
  <2>4. Total(e) = SumOver(e, 1 .. Width(off, i)) BY <2>3, TotalIsSum
  <2> QED BY <1>10, <2>1, <2>2, <2>4
<1>13. NatVector(g, len) /\ SlicePieces(exps, g, off, q) /\ SliceSums(sums, g, off, q)
  BY <1>7, <1>8, <1>9, <1>12 DEF NatVector, SlicePieces, SliceSums
<1>14. FlattenSeq(exps) = g BY <1>13, JoinPieces
<1>15. Total(sums) = SumOver(g, 1 .. len) BY <1>13, SumCut
<1>16. Tiny32 <= Tiny32 /\ Tiny32 <= Tiny32 + Tiny64 BY <1>1
<1> QED BY <1>1, <1>6, <1>7, <1>11, <1>14, <1>15, <1>16 DEF HasForm

LEMMA ZmqRepliesHaveForm ==
  ASSUME NEW len \in Nat \ {0}, NEW vec \in [1 .. len -> Int], NEW p \in ZmqReplies(vec)
  PROVE  \E raw, gm : /\ HasForm(raw, vec, len, gm) /\ p = AsF32(raw)
                      /\ Pivot(gm, vec, ChunkSlices(vec))
<1> DEFINE q == ChunkCount(len)
           slices == ChunkSlices(vec)
<1>1. PICK off : IsCut(off, q, len) /\ slices = Cut(vec, off, q) BY ChunkSlicesCut
<1>2. DOMAIN slices = 1 .. q BY <1>1 DEF Cut
<1>3. PICK cuda : \/ p = AsF32(aggregate_softmax_cpu(Partials(slices, cuda)))
                  \/ p = AsF32(aggregate_gpu(Partials(slices, cuda)))
  BY DEF ZmqReplies
<1> HIDE DEF slices, q
<1> DEFINE lm == [i \in 1 .. q |-> IF i \in cuda THEN block_max(slices[i]) ELSE Greatest(slices[i])]
           stats == Partials(slices, cuda)
<1>4. \A i \in 1 .. q : lm[i] \in {Greatest(slices[i]), block_max(slices[i])} OBVIOUS
<1>5. AreStats(stats, lm, vec, off, q)
  <2>1. ASSUME NEW i \in 1 .. q
        PROVE  (IF i \in cuda THEN partial_softmax(slices[i]) ELSE softmax_partial(slices[i]))
                 = PartialStats(slices[i], lm[i])
    BY DEF partial_softmax, softmax_partial
  <2> HIDE DEF lm
  <2> QED BY <1>1, <1>2, <2>1 DEF AreStats, Partials
<1> HIDE DEF lm, stats
<1>6. PICK gm : Maxima(lm, gm, vec, off, q) /\ Pivot(gm, vec, slices) BY <1>1, <1>4, SlicePivot
<1>7. /\ HasForm(aggregate_softmax_cpu(stats), vec, len, gm)
      /\ HasForm(aggregate_gpu(stats), vec, len, gm)
  BY <1>1, <1>5, <1>6, CpuForm, GpuForm
<1> QED BY <1>3, <1>6, <1>7 DEF stats, slices

LEMMA NcclRepliesHaveForm ==
  ASSUME NEW len \in Nat \ {0}, NEW vec \in [1 .. len -> Int], NEW p \in NcclReplies(vec)
  PROVE  \E raw, gm : /\ HasForm(raw, vec, len, gm) /\ p = AsF32(raw)
                      /\ Pivot(gm, vec, EvenSlices(vec))
<1> DEFINE q == WorldSize
           slices == EvenSlices(vec)
<1>1. len >= WorldSize /\ p = AsF32(all_reduce_softmax(slices))
  <2>1. Len(vec) = len OBVIOUS
  <2>2. WorldSize \in Nat BY SlicingAssumption
  <2> QED BY <2>1, <2>2 DEF NcclReplies
<1>2. PICK off : IsCut(off, q, len) /\ slices = Cut(vec, off, q) BY <1>1, EvenSlicesCut
<1> DEFINE lm == [i \in 1 .. q |-> block_max(slices[i])]
<1> HIDE DEF slices, q
<1>3. \A i \in 1 .. q : lm[i] = block_max(slices[i]) OBVIOUS
<1> HIDE DEF lm
<1>4. PICK gm : Maxima(lm, gm, vec, off, q) /\ Pivot(gm, vec, slices) BY <1>2, <1>3, SlicePivot
<1>5. HasForm(all_reduce_softmax(slices), vec, len, gm) BY <1>2, <1>3, <1>4, NcclForm
<1> QED BY <1>1, <1>4, <1>5 DEF slices

-----------------------------------------------------------------------------
(* What follows from the form.                                             *)

LEMMA PowerAtMost ==
  ASSUME NEW a \in Nat, NEW b \in Nat
  PROVE  a <= b <=> 2 ^ a <= 2 ^ b
<1>1. PICK p, r \in Nat : p = 2 ^ a /\ r = 2 ^ b BY PowerStep
<1>2. b < a <=> 2 ^ b < 2 ^ a BY PowerLess
<1> QED BY <1>1, <1>2

(* AsF32 of a reply: the denominator is at least the weight 2^u of the     *)
(* greatest element, and it decides which numerators underflow.            *)
IsReply(p, vec, len, u, g, f) ==
  /\ u \in Nat /\ Tiny32 <= u
  /\ g \in [1 .. len -> Nat] /\ f \in [1 .. len -> Nat]
  /\ \A k \in 1 .. len : /\ IsTerm(g[k], vec[k], Greatest(vec), u)
                         /\ IsTerm(f[k], vec[k], Greatest(vec), u)
  /\ p.den = SumOver(f, 1 .. len)
  /\ p.den \in Nat /\ 2 ^ u <= p.den
  /\ p.num = [k \in 1 .. len |-> IF g[k] * 2 ^ Tiny32 < p.den THEN 0 ELSE g[k]]

LEMMA ReplyIs ==
  ASSUME NEW len \in Nat \ {0}, NEW vec \in [1 .. len -> Int],
         NEW raw, HasForm(raw, vec, len, Greatest(vec)), NEW p, p = AsF32(raw)
  PROVE  \E u, g, f : IsReply(p, vec, len, u, g, f)
<1>2. PICK u \in Nat : \E g, f \in [1 .. len -> Nat] :
        /\ Tiny32 <= u
        /\ raw = [num |-> g, den |-> SumOver(f, 1 .. len)]
        /\ \A k \in 1 .. len : /\ IsTerm(g[k], vec[k], Greatest(vec), u)
                               /\ IsTerm(f[k], vec[k], Greatest(vec), u)
  BY DEF HasForm
<1>3. PICK g, f \in [1 .. len -> Nat] :
        /\ Tiny32 <= u
        /\ raw = [num |-> g, den |-> SumOver(f, 1 .. len)]
        /\ \A k \in 1 .. len : /\ IsTerm(g[k], vec[k], Greatest(vec), u)
                               /\ IsTerm(f[k], vec[k], Greatest(vec), u)
  BY <1>2
<1>4. PICK total : total = SumOver(f, 1 .. len) OBVIOUS
<1>5. PICK flat : flat = [k \in DOMAIN g |-> IF g[k] * 2 ^ Tiny32 < total THEN 0 ELSE g[k]] OBVIOUS
<1>6. p.den = total /\ p.num = flat
  <2>1. raw.num = g /\ raw.den = total BY <1>3, <1>4
  <2>2. p = [raw EXCEPT !.num = flat] BY <1>5, <2>1 DEF AsF32
  <2>3. raw = [num |-> g, den |-> total] BY <1>3, <1>4
  <2>4. p = [num |-> flat, den |-> total] BY <2>2, <2>3
  <2> QED BY <2>4
<1>7. PICK d \in 1 .. len : Greatest(vec) = vec[d] /\ \A k \in 1 .. len : vec[k] <= vec[d]
  BY VectorMax
<1>8. f[d] = 2 ^ u
  <2>1. PICK m \in Int : m = vec[d] OBVIOUS
  <2>2. IsTerm(f[d], m, m, u) BY <1>3, <1>7, <2>1
  <2>3. ~(m < m - Tiny32) /\ u + m - m = u BY TinyAssumption
  <2> QED BY <2>2, <2>3 DEF IsTerm
<1>9. IsFiniteSet(1 .. len) /\ \A k \in 1 .. len : f[k] \in Nat
  <2>1. IsFiniteSet(1 .. len) BY FS_Interval
  <2>2. \A k \in 1 .. len : f[k] \in Nat OBVIOUS
  <2> QED BY <2>1, <2>2
<1>10. total \in Nat /\ f[d] <= total BY <1>4, <1>9, SumNat, SumAtLeast
<1>11. flat = [k \in 1 .. len |-> IF g[k] * 2 ^ Tiny32 < p.den THEN 0 ELSE g[k]]
  BY <1>5, <1>6
<1>12. IsReply(p, vec, len, u, g, f)
  BY <1>3, <1>4, <1>6, <1>8, <1>10, <1>11 DEF IsReply
<1> QED BY <1>12

-----------------------------------------------------------------------------
(* How far a probability is off.  Below, a is the exact numerator of an    *)
(* element and A their sum, v and P those of the reply before AsF32, and   *)
(* c and U bring the two to a common scale: an exact v has c * v = U * a.  *)

LEMMA MulCancel ==
  ASSUME NEW x \in Nat, NEW y \in Nat, NEW c \in Nat \ {0}, c * x <= c * y
  PROVE  x <= y
<1> SUFFICES ASSUME y < x PROVE FALSE OBVIOUS
<1>1. y + 1 <= x /\ y + 1 \in Nat OBVIOUS
<1>2. c * (y + 1) <= c * x BY <1>1, MulMonotone
<1>3. c * (y + 1) = c * y + c OBVIOUS
<1>4. PICK s, t \in Nat : s = c * x /\ t = c * y OBVIOUS
<1> QED BY <1>2, <1>3, <1>4

LEMMA KeptBound ==
  ASSUME NEW v \in Nat, NEW a \in Nat, NEW A \in Nat, NEW P \in Nat, NEW U \in Nat,
         NEW c \in Nat \ {0}, NEW B \in Nat, NEW len \in Nat,
         c * v = U * a, a <= A, U <= P,
         c * P <= U * A, (U * A) * B <= (c * P) * B + len * (U * c)
  PROVE  a * P <= v * A /\ (v * A - a * P) * B <= (len * P) * A
<1>1. PICK cP, UA, aP, vA \in Nat : cP = c * P /\ UA = U * A /\ aP = a * P /\ vA = v * A OBVIOUS
<1>2. c * aP = a * cP
  <2>1. c * (a * P) = a * (c * P) OBVIOUS
  <2> QED BY <1>1, <2>1
<1>3. c * vA = a * UA
  <2>1. c * (v * A) = (c * v) * A OBVIOUS
  <2>2. (U * a) * A = a * (U * A) OBVIOUS
  <2> QED BY <1>1, <2>1, <2>2
<1>4. aP <= vA
  <2>1. a * cP <= a * UA BY <1>1, MulMonotone
  <2> QED BY <1>2, <1>3, <2>1, MulCancel
<1>5. PICK D \in Nat : D = vA - aP BY <1>4
<1>6. c * (D * B) = a * (UA * B) - a * (cP * B)
  <2>1. vA = aP + D BY <1>5
  <2>2. c * vA = c * aP + c * D BY <2>1
  <2>3. PICK s, t, r \in Nat : s = a * UA /\ t = a * cP /\ r = c * D OBVIOUS
  <2>4. s = t + r BY <1>2, <1>3, <2>2, <2>3
  <2>5. s * B = t * B + r * B BY <2>4
  <2>6. s * B = a * (UA * B) /\ t * B = a * (cP * B) /\ r * B = c * (D * B) BY <2>3
  <2>7. PICK s1, t1, r1 \in Nat : s1 = s * B /\ t1 = t * B /\ r1 = r * B OBVIOUS
  <2>8. r1 = s1 - t1 BY <2>5, <2>7
  <2> QED BY <2>6, <2>7, <2>8
<1>7. c * (D * B) <= c * (a * (len * U))
  <2>1. PICK y, z, w \in Nat : y = UA * B /\ z = cP * B /\ w = len * (U * c) OBVIOUS
  <2>2. y <= z + w BY <1>1, <2>1
  <2>3. a * y <= a * (z + w) BY <2>2, MulMonotone
  <2>4. a * (z + w) = a * z + a * w OBVIOUS
  <2>5. a * w = c * (a * (len * U)) BY <2>1
  <2>6. PICK y1, z1, w1 \in Nat : y1 = a * y /\ z1 = a * z /\ w1 = a * w OBVIOUS
  <2>7. y1 - z1 <= w1 BY <2>3, <2>4, <2>6
  <2>8. c * (D * B) = y1 - z1 BY <1>6, <2>1, <2>6
  <2> QED BY <2>5, <2>6, <2>7, <2>8
<1>8. D * B <= a * (len * U)
  <2>1. D * B \in Nat /\ a * (len * U) \in Nat OBVIOUS
  <2>2. PICK s, t \in Nat : s = D * B /\ t = a * (len * U) BY <2>1
  <2>3. c * s <= c * t BY <1>7, <2>2
  <2>4. s <= t BY <2>3, MulCancel
  <2> QED BY <2>2, <2>4
<1>9. a * (len * U) <= (len * P) * A
  <2>1. len * U <= len * P BY MulMonotone
  <2>2. PICK s, t \in Nat : s = len * U /\ t = len * P OBVIOUS
  <2>3. a * s <= a * t BY <2>1, <2>2, MulMonotone
  <2>4. t * a <= t * A BY MulMonotone
  <2>5. a * t = t * a OBVIOUS
  <2>6. PICK x, y, z \in Nat : x = a * s /\ y = t * a /\ z = t * A OBVIOUS
  <2>7. x <= z BY <2>3, <2>4, <2>5, <2>6
  <2> QED BY <2>2, <2>6, <2>7
<1>10. D * B <= (len * P) * A
  <2>1. PICK x, y, z \in Nat : x = D * B /\ y = a * (len * U) /\ z = (len * P) * A OBVIOUS
  <2> QED BY <1>8, <1>9, <2>1
<1> QED BY <1>1, <1>4, <1>5, <1>10

LEMMA LostBound ==
  ASSUME NEW v \in Nat, NEW a \in Nat, NEW A \in Nat, NEW P \in Nat, NEW U \in Nat \ {0},
         NEW c \in Nat, NEW B \in Nat, NEW len \in Nat \ {0},
         v * B < P, c * P <= U * A, c <= A,
         c * v = U * a \/ (v = 0 /\ a * B <= c)
  PROVE  (a * P) * B <= (len * P) * A
<1>1. PICK aB \in Nat : aB = a * B OBVIOUS
<1>2. aB <= A
  <2>1. CASE c * v = U * a
    <3>1. PICK vB \in Nat : vB = v * B OBVIOUS
    <3>2. vB <= P BY <3>1
    <3>3. c * vB <= c * P BY <3>2, MulMonotone
    <3>4. c * vB = U * aB
      <4>1. c * (v * B) = (c * v) * B /\ (U * a) * B = U * (a * B) OBVIOUS
      <4> QED BY <1>1, <2>1, <3>1, <4>1
    <3>5. PICK x, y, z \in Nat : x = U * aB /\ y = c * P /\ z = U * A OBVIOUS
    <3>6. U * aB <= U * A BY <3>3, <3>4, <3>5
    <3> QED BY <3>6, MulCancel
  <2>2. CASE v = 0 /\ a * B <= c BY <1>1, <2>2
  <2> QED BY <2>1, <2>2
<1>3. P * aB <= P * A BY <1>2, MulMonotone
<1>4. (a * P) * B = P * aB BY <1>1
<1>5. PICK y \in Nat : y = P * A OBVIOUS
<1>6. y * 1 <= y * len BY MulMonotone
<1>7. y * len = (len * P) * A /\ y * 1 = y BY <1>5
<1>8. PICK x, z \in Nat : x = P * aB /\ z = y * len OBVIOUS
<1>9. x <= z BY <1>3, <1>5, <1>6, <1>7, <1>8
<1> QED BY <1>4, <1>7, <1>8, <1>9

LEMMA VectorMin ==
  ASSUME NEW len \in Nat \ {0}, NEW vec \in [1 .. len -> Int]
  PROVE  \E d \in 1 .. len : /\ Min({ vec[k] : k \in DOMAIN vec }) = vec[d]
                             /\ \A k \in 1 .. len : vec[d] <= vec[k]
<1> DEFINE neg == [k \in 1 .. len |-> 0 - vec[k]]
           S == { vec[k] : k \in DOMAIN vec }
<1>1. IsFiniteSet(1 .. len) BY FS_Interval
<1>2. 1 .. len # {} /\ \A k \in 1 .. len : neg[k] \in Int OBVIOUS
<1>3. PICK d \in 1 .. len : \A k \in 1 .. len : neg[k] <= neg[d]
  <2> HIDE DEF neg
  <2> QED BY <1>1, <1>2, GreatestAt
<1>4. \A k \in 1 .. len : vec[d] <= vec[k] BY <1>3
<1>5. S \in SUBSET Int /\ vec[d] \in S /\ \A x \in S : vec[d] <= x BY <1>4
<1> HIDE DEF S
<1>6. Min(S) = vec[d] BY <1>5, MinIs
<1> QED BY <1>4, <1>6 DEF S

(* A term is exact, or 0 where the exact numerator is below c / 2^Tiny32.  *)
LEMMA TermBound ==
  ASSUME NEW x \in Int, NEW m \in Int, NEW least \in Int, least <= x, x <= m,
         NEW u \in Nat, NEW v, IsTerm(v, x, m, u)
  PROVE  \/ 2 ^ (m - least) * v = 2 ^ u * 2 ^ (x - least)
         \/ v = 0 /\ 2 ^ (x - least) * 2 ^ Tiny32 <= 2 ^ (m - least)
<1>0. Tiny32 \in Nat BY TinyAssumption
<1>1. PICK i \in Nat : i = x - least OBVIOUS
<1>2. PICK j \in Nat : j = m - least OBVIOUS
<1>3. CASE v = 0 /\ x < m - Tiny32
  <2>1. i + Tiny32 \in Nat /\ i + Tiny32 <= j BY <1>0, <1>1, <1>2, <1>3
  <2>2. 2 ^ (i + Tiny32) <= 2 ^ j BY <2>1, PowerAtMost
  <2>3. 2 ^ (i + Tiny32) = 2 ^ i * 2 ^ Tiny32 BY <1>0, PowerAdd
  <2> QED BY <1>1, <1>2, <1>3, <2>2, <2>3
<1>4. CASE m <= u + x /\ v = 2 ^ (u + x - m)
  <2>1. PICK b \in Nat : b = u + x - m BY <1>4
  <2>2. j + b = u + i BY <1>1, <1>2, <2>1
  <2>3. 2 ^ (j + b) = 2 ^ j * 2 ^ b /\ 2 ^ (u + i) = 2 ^ u * 2 ^ i BY PowerAdd
  <2> QED BY <1>1, <1>2, <1>4, <2>1, <2>2, <2>3
<1> QED BY <1>3, <1>4 DEF IsTerm

LEMMA TermGap ==
  ASSUME NEW v \in Nat, NEW a \in Nat, NEW c \in Nat, NEW U \in Nat, NEW B \in Nat,
         c * v = U * a \/ (v = 0 /\ a * B <= c)
  PROVE  c * v <= U * a /\ (U * a) * B <= (c * v) * B + U * c
<1>1. PICK cv, Ua, Uc \in Nat : cv = c * v /\ Ua = U * a /\ Uc = U * c OBVIOUS
<1>2. CASE c * v = U * a
  <2>1. PICK z \in Nat : z = cv * B OBVIOUS
  <2>2. cv = Ua /\ z <= z + Uc BY <1>1, <1>2
  <2> QED BY <1>1, <2>1, <2>2
<1>3. CASE v = 0 /\ a * B <= c
  <2>1. cv = 0 /\ cv * B = 0 BY <1>1, <1>3
  <2>2. PICK aB \in Nat : aB = a * B OBVIOUS
  <2>3. U * aB <= U * c BY <1>3, <2>2, MulMonotone
  <2>4. Ua * B = U * aB BY <1>1, <2>2
  <2>5. PICK z \in Nat : z = Ua * B OBVIOUS
  <2>6. z <= 0 + Uc BY <1>1, <2>3, <2>4, <2>5
  <2> QED BY <1>1, <2>1, <2>5, <2>6
<1> QED BY <1>2, <1>3

(* What ReplyIsSoftmax says of one probability.                            *)
LEMMA ReplyAccurate ==
  ASSUME NEW len \in Nat \ {0}, NEW vec \in [1 .. len -> Int], NEW p,
         NEW u, NEW g, NEW f, IsReply(p, vec, len, u, g, f), NEW k \in 1 .. len
  PROVE  Distance(p.num[k] * Exact(vec).den, Exact(vec).num[k] * p.den) * 2 ^ Tiny32
           <= len * p.den * Exact(vec).den
<1>0. Tiny32 \in Nat BY TinyAssumption
<1>1. IsReply(p, vec, len, u, g, f) OBVIOUS
<1>2. PICK d \in 1 .. len : Greatest(vec) = vec[d] /\ \A j \in 1 .. len : vec[j] <= vec[d]
  BY VectorMax
<1>3. PICK e \in 1 .. len : /\ Min({ vec[j] : j \in DOMAIN vec }) = vec[e]
                            /\ \A j \in 1 .. len : vec[e] <= vec[j]
  BY VectorMin
<1>4. PICK m, least \in Int : m = Greatest(vec) /\ least = vec[e] BY <1>2
<1> DEFINE a == [j \in 1 .. len |-> 2 ^ (vec[j] - least)]
<1>5. Exact(vec) = [num |-> a, den |-> Total(a)]
  <2>1. [j \in DOMAIN vec |-> 2 ^ (vec[j] - least)] = a OBVIOUS
  <2> QED BY <1>3, <1>4, <2>1 DEF Exact
<1>6. ASSUME NEW j \in 1 .. len PROVE a[j] \in Nat /\ a[j] = 2 ^ (vec[j] - least)
  <2>1. PICK i \in Nat : i = vec[j] - least BY <1>3, <1>4
  <2>2. 2 ^ i \in Nat BY PowerStep
  <2> QED BY <2>1, <2>2
<1>7. DOMAIN a = 1 .. len OBVIOUS
<1> HIDE DEF a
<1>8. IsFiniteSet(1 .. len) /\ Cardinality(1 .. len) = len
  <2>1. IsFiniteSet(1 .. len) /\ Cardinality(1 .. len) = IF 1 > len THEN 0 ELSE len - 1 + 1
    BY FS_Interval
  <2> QED BY <2>1
<1>9. PICK A \in Nat : A = SumOver(a, 1 .. len) BY <1>6, <1>8, SumNat
<1>10. Exact(vec).num = a /\ Exact(vec).den = A BY <1>5, <1>7, <1>9, TotalIsSum
<1>11. PICK U \in Nat \ {0} : U = 2 ^ u /\ u \in Nat BY <1>1, PowerStep DEF IsReply
<1>12. PICK B \in Nat : B = 2 ^ Tiny32 BY <1>0, PowerStep
<1>13. PICK c \in Nat \ {0} : c = 2 ^ (m - least)
  <2>1. PICK i \in Nat : i = m - least BY <1>2, <1>3, <1>4
  <2> QED BY <2>1, PowerStep
<1>14. PICK P \in Nat : P = p.den /\ P = SumOver(f, 1 .. len) /\ U <= P
  BY <1>1, <1>11 DEF IsReply
<1>15. ASSUME NEW j \in 1 .. len, NEW v, IsTerm(v, vec[j], Greatest(vec), u)
       PROVE  c * v = U * a[j] \/ (v = 0 /\ a[j] * B <= c)
  <2>1. PICK x \in Int : x = vec[j] OBVIOUS
  <2>2. least <= x /\ x <= m /\ IsTerm(v, x, m, u) BY <1>2, <1>3, <1>4, <1>15, <2>1
  <2>3. \/ 2 ^ (m - least) * v = 2 ^ u * 2 ^ (x - least)
        \/ v = 0 /\ 2 ^ (x - least) * 2 ^ Tiny32 <= 2 ^ (m - least)
    BY <1>11, <2>2, TermBound
  <2>4. a[j] = 2 ^ (x - least) BY <1>6, <2>1
  <2> QED BY <1>11, <1>12, <1>13, <2>3, <2>4
<1>16. ASSUME NEW j \in 1 .. len
       PROVE  /\ f[j] \in Nat /\ a[j] \in Nat
              /\ c * f[j] <= U * a[j]
              /\ (U * a[j]) * B <= (c * f[j]) * B + U * c
  <2>1. PICK v \in Nat : v = f[j] BY <1>1 DEF IsReply
  <2>2. PICK y \in Nat : y = a[j] BY <1>6
  <2>3. IsTerm(v, vec[j], Greatest(vec), u) BY <1>1, <2>1 DEF IsReply
  <2>4. c * v = U * y \/ (v = 0 /\ y * B <= c) BY <1>15, <2>2, <2>3
  <2>5. c * v <= U * y /\ (U * y) * B <= (c * v) * B + U * c BY <2>4, TermGap
  <2> QED BY <2>1, <2>2, <2>5
<1>17. c * P <= U * A /\ (U * A) * B <= (c * P) * B + len * (U * c)
  <2>1. PICK gap \in Nat : gap = U * c OBVIOUS
  <2>2. \A j \in 1 .. len : /\ f[j] \in Nat /\ a[j] \in Nat
                            /\ c * f[j] <= U * a[j]
                            /\ (U * a[j]) * B <= (c * f[j]) * B + gap
    BY <1>16, <2>1
  <2>3. /\ c * SumOver(f, 1 .. len) <= U * SumOver(a, 1 .. len)
        /\ (U * SumOver(a, 1 .. len)) * B
             <= (c * SumOver(f, 1 .. len)) * B + Cardinality(1 .. len) * gap
    BY <1>8, <2>2, SumBounds
  <2> QED BY <1>8, <1>9, <1>14, <2>1, <2>3
<1>18. c <= A
  <2>1. a[d] = c BY <1>2, <1>4, <1>6, <1>13
  <2>2. a[d] <= SumOver(a, 1 .. len) BY <1>6, <1>8, SumAtLeast
  <2> QED BY <1>9, <2>1, <2>2
<1>19. PICK y \in Nat : y = a[k] BY <1>6
<1>20. y <= A BY <1>6, <1>8, <1>9, <1>19, SumAtLeast
<1>21. PICK v \in Nat : v = g[k] BY <1>1 DEF IsReply
<1>22. p.num[k] = IF v * B < P THEN 0 ELSE v BY <1>1, <1>12, <1>14, <1>21 DEF IsReply
<1>23. c * v = U * y \/ (v = 0 /\ y * B <= c)
  <2>1. IsTerm(v, vec[k], Greatest(vec), u) BY <1>1, <1>21 DEF IsReply
  <2> QED BY <1>15, <1>19, <2>1
<1> SUFFICES Distance(p.num[k] * A, y * P) * B <= (len * P) * A
  BY <1>10, <1>12, <1>14, <1>19
<1>24. CASE v * B < P
  <2>1. (y * P) * B <= (len * P) * A BY <1>17, <1>18, <1>23, <1>24, LostBound
  <2>2. p.num[k] * A = 0 BY <1>22, <1>24
  <2>3. PICK z \in Nat : z = y * P OBVIOUS
  <2>4. Distance(0, z) = z BY DEF Distance
  <2> QED BY <2>1, <2>2, <2>3, <2>4
<1>25. CASE ~(v * B < P)
  <2>1. c * v = U * y
    <3>1. v # 0
      <4>1. 0 * B = 0 /\ P # 0 BY <1>14
      <4> QED BY <1>25, <4>1
    <3> QED BY <1>23, <3>1
  <2>2. y * P <= v * A /\ (v * A - y * P) * B <= (len * P) * A
    BY <1>14, <1>17, <1>20, <2>1, KeptBound
  <2>3. p.num[k] = v BY <1>22, <1>25
  <2>4. PICK s, t \in Nat : s = v * A /\ t = y * P OBVIOUS
  <2>5. Distance(s, t) = s - t BY <2>2, <2>4 DEF Distance
  <2> QED BY <2>2, <2>3, <2>4, <2>5
<1> QED BY <1>24, <1>25

-----------------------------------------------------------------------------
(* Against the maximum of the vector a reply is its softmax.               *)
LEMMA MaxReply ==
  ASSUME NEW len \in Nat \ {0}, NEW vec \in [1 .. len -> Int],
         NEW raw, HasForm(raw, vec, len, Greatest(vec)), NEW p, p = AsF32(raw)
  PROVE  IsSoftmax(p, vec)
<1>1. PICK u, g, f : IsReply(p, vec, len, u, g, f) BY ReplyIs
<1>2. PICK c \in Nat \ {0} : c = 2 ^ u BY <1>1, PowerStep DEF IsReply
<1>3. p.den > 0 BY <1>1, <1>2 DEF IsReply
<1>4. Len(p.num) = len
  <2>1. DOMAIN p.num = 1 .. len /\ g \in [1 .. len -> Nat] BY <1>1 DEF IsReply
  <2>2. p.num = [k \in 1 .. len |-> p.num[k]] BY <1>1 DEF IsReply
  <2> QED BY <2>2
<1>5. \A k \in 1 .. len :
        Distance(p.num[k] * Exact(vec).den, Exact(vec).num[k] * p.den) * 2 ^ Tiny32
          <= len * p.den * Exact(vec).den
  BY <1>1, ReplyAccurate
<1>6. Len(vec) = len OBVIOUS
<1> QED BY <1>3, <1>4, <1>5, <1>6 DEF IsSoftmax

(* Against the padding every term of the denominator underflows.           *)
LEMMA PadReply ==
  ASSUME NEW len \in Nat \ {0}, NEW vec \in [1 .. len -> Int],
         \A k \in 1 .. len : vec[k] \in Values, Greatest(vec) < Pad,
         NEW raw, HasForm(raw, vec, len, Pad), NEW p, p = AsF32(raw)
  PROVE  p.den = 0
<1>0. Pad \in Int /\ Tiny32 \in Nat /\ Tiny64 \in Nat BY PadAssumption, TinyAssumption
<1>1. PICK u \in Nat, g \in [1 .. len -> Nat], f \in [1 .. len -> Nat] :
        /\ u <= Tiny32 + Tiny64
        /\ raw = [num |-> g, den |-> SumOver(f, 1 .. len)]
        /\ \A k \in 1 .. len : IsTerm(f[k], vec[k], Pad, u)
  BY DEF HasForm
<1>2. p.den = SumOver(f, 1 .. len)
  <2>1. raw.den = SumOver(f, 1 .. len) /\ p.den = raw.den BY <1>1 DEF AsF32
  <2> QED BY <2>1
<1>3. ASSUME NEW k \in 1 .. len PROVE f[k] = 0
  <2>1. PICK x \in Int : x = vec[k] OBVIOUS
  <2>2. x < Pad
    <3>1. PICK d \in 1 .. len : Greatest(vec) = vec[d] /\ \A j \in 1 .. len : vec[j] <= vec[d]
      BY VectorMax
    <3>2. PICK m \in Int : m = vec[d] /\ m < Pad /\ x <= m BY <2>1, <3>1
    <3> QED BY <1>0, <3>2
  <2>3. x + Tiny32 + Tiny64 < Pad BY <2>1, <2>2, KernelAssumption
  <2>4. ~(Pad <= u + x) BY <1>0, <1>1, <2>3
  <2>5. IsTerm(f[k], x, Pad, u) BY <1>1, <2>1
  <2> QED BY <2>4, <2>5 DEF IsTerm
<1>4. SumOver(f, 1 .. len) = 0
  <2>1. IsFiniteSet(1 .. len) BY FS_Interval
  <2>2. \A k \in 1 .. len : f[k] \in Nat /\ f[k] = f[k] * 0 BY <1>3
  <2>3. SumOver(f, 1 .. len) = SumOver(f, 1 .. len) * 0 BY <2>1, <2>2, SumScale
  <2>4. SumOver(f, 1 .. len) \in Nat BY <2>1, <2>2, SumNat
  <2>5. PICK y \in Nat : y = SumOver(f, 1 .. len) BY <2>4
  <2> QED BY <2>3, <2>5
<1> QED BY <1>2, <1>4

LEMMA ReplyInvariant == KernelInv => ReplyIsSoftmax
<1> SUFFICES ASSUME KernelInv PROVE ReplyIsSoftmax OBVIOUS
<1>1. n \in Nat \ {0} /\ data \in [1 .. n -> Int] /\ \A k \in 1 .. n : data[k] \in Values
  BY DEF KernelInv, KernelType
<1>2. PICK len \in Nat \ {0} : len = n BY <1>1
<1>3. PICK vec \in [1 .. len -> Int] : vec = data BY <1>1, <1>2
<1>4. \A k \in 1 .. len : vec[k] \in Values BY <1>1, <1>2, <1>3
<1>5. ASSUME NEW slices, NEW p, NEW raw, NEW gm, HasForm(raw, vec, len, gm), p = AsF32(raw),
             Pivot(gm, vec, slices)
      PROVE  IsSoftmax(p, vec) \/ (p.den = 0 /\ PadDecides(slices))
  <2>1. CASE gm = Greatest(vec) BY <1>5, <2>1, MaxReply
  <2>2. CASE gm = Pad /\ Greatest(vec) < Pad /\ PadDecides(slices)
    BY <1>4, <1>5, <2>2, PadReply
  <2> QED BY <1>5, <2>1, <2>2 DEF Pivot
<1>6. ASSUME NEW p \in ZmqReplies(vec)
      PROVE  IsSoftmax(p, vec) \/ (p.den = 0 /\ PadDecides(ChunkSlices(vec)))
  BY <1>5, ZmqRepliesHaveForm
<1>7. ASSUME NEW p \in NcclReplies(vec)
      PROVE  IsSoftmax(p, vec) \/ (p.den = 0 /\ PadDecides(EvenSlices(vec)))
  BY <1>5, NcclRepliesHaveForm
<1> QED BY <1>3, <1>6, <1>7 DEF ReplyIsSoftmax

(* The reply has one probability per element and each is within Len(vec)   *)
(* times the smallest f32 of the exact softmax: slicing the vector in      *)
(* SubmitTask and putting the partial results together again costs nothing *)
(* but underflow - in any of the three ways, whichever workers computed    *)
(* the partial results, for every number of slices or ranks, BLOCK_SIZE    *)
(* and pair of formats.  Only where all elements are below the padding of  *)
(* an incomplete block may a sum of zero, an error to the client, come     *)
(* instead.                                                                *)
THEOREM RepliesAreSoftmax == KernelSpec => []ReplyIsSoftmax
<1>1. KernelInit => KernelInv BY KernelInitInv
<1>2. KernelInv /\ [KernelNext]_kernelVars => KernelInv' BY KernelInvStep
<1>3. KernelInv => ReplyIsSoftmax BY ReplyInvariant
<1> QED BY <1>1, <1>2, <1>3, PTL DEF KernelSpec
=============================================================================
