--------------------------- MODULE TreeBinProofs ---------------------------
(***************************************************************************)
(* The tree bins of dlmalloc, for chunks of any large sizes put in and     *)
(* taken out in any order: the inductive invariant TreeInv, and that it    *)
(* gives the shape of the tries and the best fit.                          *)
(*                                                                         *)
(* A node of a trie is on the way of its size, the bits of the size below  *)
(* those that tell its bin: what is to the left of a way is smaller        *)
(* (LeftIsSmaller), the way is the size (WholeWay), and the bins are in    *)
(* the order of their sizes (IndexOrder).                                  *)
(***************************************************************************)
EXTENDS TreeBinUse, SequenceTheorems, WellFoundedInduction, TLAPS

LEMMA LeastExists ==
    ASSUME NEW T \in SUBSET Nat, T # {}
    PROVE  \E t \in T : \A u \in T : t <= u
  <1>1. PICK t \in T : \A u \in T : ~(<<u, t>> \in OpToRel(<, Nat))
    BY NatLessThanWellFounded, WFMin
  <1>2. OpToRel(<, Nat) = {ss \in Nat \X Nat : ss[1] < ss[2]}
    BY DEF OpToRel
  <1>3. ASSUME NEW u \in T, u < t PROVE FALSE
    <2>1. <<u, t>> \in OpToRel(<, Nat)
      BY <1>2, <1>3
    <2> QED
      BY <1>1, <2>1
  <1> QED
    BY <1>3

(* A set that has 0 and with every number below n the next one has n.      *)
LEMMA UpTo ==
    ASSUME NEW n \in Nat, NEW T, 0 \in T, \A k \in 0..(n - 1) : k \in T => k + 1 \in T
    PROVE  \A k \in 0..n : k \in T
  <1> DEFINE bad == {k \in 0..n : k \notin T}
  <1> SUFFICES ASSUME bad # {} PROVE FALSE
    OBVIOUS
  <1>1. PICK k \in bad : \A u \in bad : k <= u
    <2>1. bad \in SUBSET Nat
      OBVIOUS
    <2> HIDE DEF bad
    <2> QED
      BY <2>1, LeastExists
  <1>2. k \in Nat /\ k # 0 /\ k <= n
    OBVIOUS
  <1>3. k - 1 \in 0..(n - 1) /\ k - 1 \notin bad
    BY <1>1, <1>2
  <1> QED
    BY <1>2, <1>3

-----------------------------------------------------------------------------
(* Powers of two and shifts. *)

PowersTo(n, f) == f = [k \in 0..n |-> IF k = 0 THEN 1 ELSE 2 * f[k - 1]]

LEMMA PowersExist == \E f : PowersTo(SizeBits, f)
  <1> DEFINE T == {n \in Nat : \E f : PowersTo(n, f)}
  <1>1. 0 \in T
    <2> DEFINE f == [k \in 0..0 |-> 1]
    <2>1. PowersTo(0, f)
      BY DEF PowersTo
    <2> QED
      BY <2>1
  <1>2. ASSUME NEW n \in Nat, n \in T PROVE n + 1 \in T
    <2>1. PICK f : PowersTo(n, f)
      BY <1>2
    <2> DEFINE g == [k \in 0..(n + 1) |-> IF k = n + 1 THEN 2 * f[n] ELSE f[k]]
    <2>2. \A k \in 0..n : f[k] = IF k = 0 THEN 1 ELSE 2 * f[k - 1]
      BY <2>1 DEF PowersTo
    <2>3. \A k \in 0..(n + 1) : g[k] = IF k = 0 THEN 1 ELSE 2 * g[k - 1]
      BY <2>2
    <2>4. PowersTo(n + 1, g)
      <3>1. g = [k \in 0..(n + 1) |-> g[k]]
        OBVIOUS
      <3> HIDE DEF g
      <3> QED
        BY <2>3, <3>1 DEF PowersTo
    <2> QED
      BY <2>4
  <1>3. SizeBits \in Nat
    BY TreeBinsAssumption
  <1>4. \A k \in 0..SizeBits : k \in T
    <2> HIDE DEF T
    <2> QED
      BY <1>1, <1>2, <1>3, UpTo
  <1> QED
    BY <1>3, <1>4

LEMMA PowStep ==
    \A n \in 0..SizeBits : Pow2[n] = IF n = 0 THEN 1 ELSE 2 * Pow2[n - 1]
  <1>1. PowersTo(SizeBits, Pow2)
    BY PowersExist DEF PowersTo, Pow2
  <1> QED
    BY <1>1 DEF PowersTo

LEMMA PowPositive == \A n \in 0..SizeBits : Pow2[n] \in Nat /\ Pow2[n] > 0
  <1> DEFINE T == {n \in 0..SizeBits : Pow2[n] \in Nat /\ Pow2[n] > 0}
  <1>1. SizeBits \in Nat
    BY TreeBinsAssumption
  <1>2. 0 \in T
    BY <1>1, PowStep
  <1>3. ASSUME NEW n \in 0..(SizeBits - 1), n \in T PROVE n + 1 \in T
    <2>1. n + 1 \in 0..SizeBits /\ n + 1 # 0 /\ (n + 1) - 1 = n
      BY <1>1
    <2>2. Pow2[n + 1] = 2 * Pow2[n]
      BY <2>1, PowStep
    <2> QED
      BY <1>3, <2>1, <2>2
  <1> HIDE DEF T
  <1>4. \A n \in 0..SizeBits : n \in T
    BY <1>1, <1>2, <1>3, UpTo
  <1> QED
    BY <1>4 DEF T

LEMMA PowNext ==
    ASSUME NEW n \in 0..(SizeBits - 1)
    PROVE  /\ n \in 0..SizeBits /\ n + 1 \in 0..SizeBits
           /\ Pow2[n + 1] = 2 * Pow2[n] /\ Pow2[n] \in Nat /\ Pow2[n] > 0
  <1>1. SizeBits \in Nat
    BY TreeBinsAssumption
  <1>2. n \in 0..SizeBits /\ n + 1 \in 0..SizeBits /\ n + 1 # 0 /\ (n + 1) - 1 = n
    BY <1>1
  <1> QED
    BY <1>2, PowStep, PowPositive

LEMMA Halve ==
    ASSUME NEW q \in Nat
    PROVE  q \div 2 \in Nat /\ q % 2 \in {0, 1} /\ q = (2 * (q \div 2)) + (q % 2)
  OBVIOUS

LEMMA DivTwice ==
    ASSUME NEW S \in Nat, NEW p \in Nat, p > 0
    PROVE  S \div (2 * p) = (S \div p) \div 2
  OBVIOUS

LEMMA DivOrder ==
    ASSUME NEW S \in Nat, NEW T \in Nat, NEW p \in Nat, p > 0, S <= T
    PROVE  S \div p <= T \div p
  OBVIOUS

LEMMA ShiftNat ==
    ASSUME NEW S \in Nat, NEW n \in 0..SizeBits
    PROVE  /\ Shift(S, n) \in Nat /\ Shift(S, 0) = S
           /\ S >= Pow2[n] <=> Shift(S, n) >= 1
  <1>1. SizeBits \in Nat /\ 0 \in 0..SizeBits /\ Pow2[0] = 1
    BY TreeBinsAssumption, PowStep
  <1>2. Pow2[n] \in Nat /\ Pow2[n] > 0
    BY PowPositive
  <1>3. ASSUME NEW p \in Nat, p > 0 PROVE S \div p \in Nat /\ (S >= p <=> S \div p >= 1)
    BY <1>3
  <1>4. S \div 1 = S
    OBVIOUS
  <1> QED
    BY <1>1, <1>2, <1>3, <1>4 DEF Shift

LEMMA ShiftNext ==
    ASSUME NEW S \in Nat, NEW n \in 0..(SizeBits - 1)
    PROVE  /\ Shift(S, n + 1) = Shift(S, n) \div 2
           /\ Shift(S, n) % 2 \in {0, 1}
           /\ Shift(S, n) = (2 * Shift(S, n + 1)) + (Shift(S, n) % 2)
           /\ Shift(S, n) \in Nat /\ Shift(S, n + 1) \in Nat
  <1>1. Shift(S, n + 1) = Shift(S, n) \div 2
    BY PowNext, DivTwice DEF Shift
  <1>2. Shift(S, n) \in Nat /\ Shift(S, n + 1) \in Nat
    BY PowNext, ShiftNat
  <1>3. PICK q \in Nat : q = Shift(S, n)
    BY <1>2
  <1> QED
    BY <1>1, <1>2, <1>3, Halve

LEMMA ShiftOrder ==
    ASSUME NEW S \in Nat, NEW T \in Nat, NEW n \in 0..SizeBits, S <= T
    PROVE  Shift(S, n) <= Shift(T, n)
  BY PowPositive, DivOrder DEF Shift

(* Two shifts are one. *)
LEMMA ShiftShift ==
    ASSUME NEW S \in Nat, NEW a \in Nat, NEW b \in Nat, a + b <= SizeBits
    PROVE  Shift(Shift(S, a), b) = Shift(S, a + b)
  <1>1. SizeBits \in Nat
    BY TreeBinsAssumption
  <1>2. a \in 0..SizeBits /\ Shift(S, a) \in Nat
    BY <1>1, ShiftNat
  <1> DEFINE T == {k \in 0..b : Shift(Shift(S, a), k) = Shift(S, a + k)}
  <1>3. 0 \in T
    BY <1>1, <1>2, ShiftNat
  <1>4. ASSUME NEW k \in 0..(b - 1), k \in T PROVE k + 1 \in T
    <2>1. k \in 0..(SizeBits - 1) /\ a + k \in 0..(SizeBits - 1) /\ (a + k) + 1 = a + (k + 1)
      BY <1>1
    <2>2. Shift(S, (a + k) + 1) = Shift(S, a + k) \div 2
      BY <2>1, ShiftNext
    <2>3. Shift(Shift(S, a), k + 1) = Shift(Shift(S, a), k) \div 2
      BY <1>2, <2>1, ShiftNext
    <2> QED
      BY <1>4, <2>1, <2>2, <2>3
  <1> HIDE DEF T
  <1>5. \A k \in 0..b : k \in T
    BY <1>3, <1>4, UpTo
  <1>6. b \in T
    BY <1>5
  <1> QED
    BY <1>6 DEF T

(* What is below 2^(a + b) is below 2^b when it is shifted by a. *)
LEMMA ShiftBelow ==
    ASSUME NEW S \in Nat, NEW a \in Nat, NEW b \in Nat, a + b <= SizeBits, S < Pow2[a + b]
    PROVE  Shift(S, a) < Pow2[b]
  <1>1. SizeBits \in Nat
    BY TreeBinsAssumption
  <1> DEFINE T == {k \in 0..a : Shift(S, k) < Pow2[(a - k) + b]}
  <1>2. 0 \in T
    <2>1. (a - 0) + b = a + b /\ 0 \in 0..SizeBits /\ 0 \in 0..a
      BY <1>1
    <2> QED
      BY <2>1, ShiftNat
  <1>3. ASSUME NEW k \in 0..(a - 1), k \in T PROVE k + 1 \in T
    <2>1. k \in 0..(SizeBits - 1) /\ (a - (k + 1)) + b \in 0..(SizeBits - 1)
          /\ ((a - (k + 1)) + b) + 1 = (a - k) + b
      BY <1>1
    <2>2. Pow2[(a - k) + b] = 2 * Pow2[(a - (k + 1)) + b] /\ Pow2[(a - (k + 1)) + b] \in Nat
      BY <2>1, PowNext
    <2>3. Shift(S, k) < Pow2[(a - k) + b]
      BY <1>3
    <2>4. /\ Shift(S, k) \in Nat /\ Shift(S, k + 1) \in Nat
          /\ Shift(S, k) = (2 * Shift(S, k + 1)) + (Shift(S, k) % 2) /\ Shift(S, k) % 2 \in {0, 1}
      BY <2>1, ShiftNext
    <2>5. Shift(S, k + 1) < Pow2[(a - (k + 1)) + b]
      <3>1. ASSUME NEW p \in Nat, NEW q \in Nat, NEW r \in Nat, NEW t \in {0, 1}, q < 2 * p, q = (2 * r) + t
            PROVE  r < p
        BY <3>1
      <3> QED
        BY <2>2, <2>3, <2>4, <3>1
    <2> QED
      BY <2>5
  <1> HIDE DEF T
  <1>4. \A k \in 0..a : k \in T
    BY <1>2, <1>3, UpTo
  <1>5. a \in T /\ (a - a) + b = b
    BY <1>4
  <1> QED
    BY <1>5 DEF T

LEMMA PowOrder ==
    ASSUME NEW m \in Nat, NEW n \in Nat, m <= n, n <= SizeBits
    PROVE  Pow2[m] <= Pow2[n]
  <1>1. SizeBits \in Nat
    BY TreeBinsAssumption
  <1> DEFINE T == {k \in 0..(n - m) : Pow2[m] <= Pow2[m + k]}
  <1>2. 0 \in T
    <2>1. m \in 0..SizeBits /\ m + 0 = m /\ 0 \in 0..(n - m)
      BY <1>1
    <2> QED
      BY <2>1, PowPositive
  <1>3. ASSUME NEW k \in 0..((n - m) - 1), k \in T PROVE k + 1 \in T
    <2>1. m + k \in 0..(SizeBits - 1) /\ (m + k) + 1 = m + (k + 1) /\ m \in 0..SizeBits
      BY <1>1
    <2>2. Pow2[m + (k + 1)] = 2 * Pow2[m + k] /\ Pow2[m + k] \in Nat /\ Pow2[m] \in Nat
      BY <2>1, PowNext, PowPositive
    <2> QED
      BY <1>3, <2>2
  <1>4. n - m \in Nat
    OBVIOUS
  <1> HIDE DEF T
  <1>5. \A k \in 0..(n - m) : k \in T
    BY <1>2, <1>3, <1>4, UpTo
  <1>6. n - m \in T /\ m + (n - m) = n
    BY <1>5
  <1> QED
    BY <1>6 DEF T

-----------------------------------------------------------------------------
(* Bins.  The bits that tell the sizes of a bin apart are below Bits.      *)

Index(S) == compute_tree_index(S)
Bits(i) == bit_for_tree_index(i) + 1
Half == NTreeBins \div 2

LEMMA Constants ==
    /\ TreebinShift \in Nat /\ TreebinShift >= 2 /\ Half \in Nat /\ Half >= 1
    /\ NTreeBins = 2 * Half /\ IntBits \in Nat /\ IntBits > Half
    /\ SizeBits \in Nat /\ SizeBits >= TreebinShift + IntBits
  <1>1. ASSUME NEW n \in Nat, n % 2 = 0, n > 0
        PROVE  n \div 2 \in Nat /\ n \div 2 >= 1 /\ n = 2 * (n \div 2)
    BY <1>1
  <1> QED
    BY <1>1, TreeBinsAssumption DEF Half

LEMMA LargeSizes ==
    ASSUME NEW S \in LargeSize
    PROVE  /\ S \in Nat /\ S >= Pow2[TreebinShift] /\ S < Pow2[TreebinShift + IntBits]
           /\ S < Pow2[SizeBits]
  <1>1. /\ TreebinShift \in 0..SizeBits /\ TreebinShift + IntBits \in 0..SizeBits
        /\ TreebinShift + IntBits \in Nat /\ SizeBits \in 0..SizeBits
    BY Constants
  <1>2. /\ Pow2[TreebinShift] \in Nat /\ Pow2[TreebinShift + IntBits] \in Nat
        /\ Pow2[TreebinShift + IntBits] <= Pow2[SizeBits] /\ Pow2[SizeBits] \in Nat
    BY <1>1, Constants, PowPositive, PowOrder
  <1> QED
    BY <1>2 DEF LargeSize, MinLargeSize

(* The highest bit of X. *)
LEMMA HighestBitExists ==
    ASSUME NEW X \in Nat, X >= 1, X < Pow2[IntBits]
    PROVE  \E K \in 0..(IntBits - 1) : Pow2[K] <= X /\ X < Pow2[K + 1]
  <1> DEFINE T == {k \in 0..IntBits : X < Pow2[k]}
  <1>1. IntBits \in T /\ T \in SUBSET Nat
    BY Constants
  <1>2. PICK k \in T : \A u \in T : k <= u
    <2> HIDE DEF T
    <2> QED
      BY <1>1, LeastExists
  <1>3. k # 0
    <2>1. 0 \in 0..SizeBits
      BY Constants
    <2>2. Pow2[0] = 1
      BY <2>1, PowStep
    <2> QED
      BY <1>2, <2>2
  <1>4. k - 1 \in 0..(IntBits - 1) /\ k - 1 \notin T /\ (k - 1) + 1 = k
    BY <1>2, <1>3, Constants
  <1>5. Pow2[k - 1] \in Nat
    BY <1>4, Constants, PowPositive
  <1> QED
    BY <1>2, <1>4, <1>5, Constants

LEMMA HighestBitIsOne ==
    ASSUME NEW X \in Nat, NEW K \in 0..(IntBits - 1), NEW L \in 0..(IntBits - 1),
           Pow2[K] <= X, X < Pow2[K + 1], Pow2[L] <= X, X < Pow2[L + 1]
    PROVE  K = L
  <1>1. ASSUME NEW a \in 0..(IntBits - 1), NEW b \in 0..(IntBits - 1), a < b, X < Pow2[a + 1], Pow2[b] <= X
        PROVE FALSE
    <2>1. a + 1 \in Nat /\ b \in Nat /\ a + 1 <= b /\ b <= SizeBits
      BY <1>1, Constants
    <2>2. Pow2[a + 1] <= Pow2[b]
      BY <2>1, PowOrder
    <2>3. a + 1 \in 0..SizeBits /\ b \in 0..SizeBits
      BY <2>1, Constants
    <2>4. Pow2[a + 1] \in Nat /\ Pow2[b] \in Nat
      BY <2>3, PowPositive
    <2> QED
      BY <1>1, <2>2, <2>4
  <1> QED
    BY <1>1, Constants

(* The bin of a size. *)
LEMMA IndexIs ==
    ASSUME NEW S \in LargeSize
    PROVE  \E X \in Nat, K \in 0..(IntBits - 1) :
              /\ X = Shift(S, TreebinShift)
              /\ Pow2[K] <= X /\ X < Pow2[K + 1]
              /\ X < Pow2[Half] => Index(S) = (2 * K) + (Shift(S, K + TreebinShift - 1) % 2)
              /\ X >= Pow2[Half] => Index(S) = NTreeBins - 1
  <1>1. /\ S \in Nat /\ S >= Pow2[TreebinShift] /\ S < Pow2[TreebinShift + IntBits]
        /\ TreebinShift \in 0..SizeBits /\ IntBits \in 0..SizeBits /\ Half \in 0..SizeBits
    BY LargeSizes, Constants
  <1>2. PICK X \in Nat : X = Shift(S, TreebinShift)
    BY <1>1, ShiftNat
  <1>3. X >= 1 /\ X < Pow2[IntBits]
    BY <1>1, <1>2, ShiftNat, ShiftBelow, Constants
  <1>4. Pow2[IntBits] \in Nat /\ Pow2[Half] \in Nat
    BY <1>1, PowPositive
  <1>5. X % Pow2[IntBits] = X
    <2>1. ASSUME NEW p \in Nat, X < p PROVE X % p = X
      BY <2>1
    <2> QED
      BY <1>3, <1>4, <2>1
  <1>6. PICK K \in 0..(IntBits - 1) : Pow2[K] <= X /\ X < Pow2[K + 1]
    BY <1>3, HighestBitExists
  <1>7. (CHOOSE k \in 0..(IntBits - 1) : Pow2[k] <= X /\ X < Pow2[k + 1]) = K
    BY <1>6, HighestBitIsOne
  <1>8. Index(S) = IF X > Pow2[Half] - 1 THEN NTreeBins - 1
                   ELSE (2 * K) + (Shift(S, K + TreebinShift - 1) % 2)
    <2> DEFINE Choice == CHOOSE k \in 0..(IntBits - 1) : Pow2[k] <= X /\ X < Pow2[k + 1]
               Value(k) == (2 * k) + (Shift(S, k + TreebinShift - 1) % 2)
    <2>1. Index(S) = CASE X = 0 -> 0 [] X > Pow2[Half] - 1 -> NTreeBins - 1 [] OTHER -> Value(Choice)
      BY <1>2, <1>5, Zenon
         DEF Index, compute_tree_index, BinOf, BinWithin, HighestBit, Half
    <2>2. Choice = K
      BY <1>7
    <2> HIDE DEF Choice, Value
    <2>3. Index(S) = IF X > Pow2[Half] - 1 THEN NTreeBins - 1 ELSE Value(K)
      BY <1>3, <2>1, <2>2
    <2> QED
      BY <2>3 DEF Value
  <1> QED
    BY <1>2, <1>4, <1>6, <1>8

(* K is the highest bit of X, and q the two highest of the size.           *)
Highest(S, K, q) ==
    /\ K \in 0..(IntBits - 1) /\ q \in {2, 3} /\ q = Shift(S, K + TreebinShift - 1)
    /\ Pow2[K] <= Shift(S, TreebinShift) /\ Shift(S, TreebinShift) < Pow2[K + 1]
    /\ K < Half => Index(S) = (2 * K) + q - 2
    /\ K >= Half => Index(S) = NTreeBins - 1

LEMMA HighestExist ==
    ASSUME NEW S \in LargeSize
    PROVE  \E K \in 0..(IntBits - 1), q \in {2, 3} : Highest(S, K, q)
  <1>1. PICK X \in Nat, K \in 0..(IntBits - 1) :
            /\ X = Shift(S, TreebinShift)
            /\ Pow2[K] <= X /\ X < Pow2[K + 1]
            /\ X < Pow2[Half] => Index(S) = (2 * K) + (Shift(S, K + TreebinShift - 1) % 2)
            /\ X >= Pow2[Half] => Index(S) = NTreeBins - 1
    BY IndexIs
  <1>2. /\ S \in Nat /\ K \in 0..SizeBits /\ K + 1 \in 0..SizeBits /\ Half \in 0..SizeBits
        /\ K \in Nat /\ K + 1 \in Nat /\ Half \in Nat /\ K <= SizeBits /\ K + 1 <= SizeBits
    BY LargeSizes, Constants
  <1>3. Pow2[K] \in Nat /\ Pow2[K + 1] \in Nat /\ Pow2[Half] \in Nat
    BY <1>2, PowPositive
  <1>4. X < Pow2[Half] <=> K < Half
    <2>1. CASE K < Half
      <3>1. K + 1 <= Half /\ Half <= SizeBits
        BY <1>2, <2>1
      <3>2. Pow2[K + 1] <= Pow2[Half]
        BY <1>2, <3>1, PowOrder
      <3> QED
        BY <1>1, <1>3, <2>1, <3>2
    <2>2. CASE ~(K < Half)
      <3>1. Half <= K
        BY <1>2, <2>2
      <3>2. Pow2[Half] <= Pow2[K]
        BY <1>2, <3>1, PowOrder
      <3> QED
        BY <1>1, <1>3, <2>2, <3>2
    <2> QED
      BY <2>1, <2>2
  <1>5. Shift(S, TreebinShift + K) = 1
    <2>1. Shift(X, K) = Shift(S, TreebinShift + K)
      BY <1>1, <1>2, Constants, ShiftShift
    <2>2. Shift(X, K) >= 1 /\ Shift(X, K) \in Nat
      BY <1>1, <1>2, ShiftNat
    <2>3. Shift(X, K) < Pow2[1]
      BY <1>1, <1>2, Constants, ShiftBelow
    <2>4. Pow2[1] = 2
      <3>1. 0 \in 0..(SizeBits - 1) /\ 0 \in 0..SizeBits /\ 0 + 1 = 1
        BY Constants
      <3>2. Pow2[0] = 1
        BY <3>1, PowStep
      <3> QED
        BY <3>1, <3>2, PowNext
    <2> QED
      BY <2>1, <2>2, <2>3, <2>4
  <1>6. PICK n : n = K + TreebinShift - 1
    OBVIOUS
  <1>7. n \in 0..(SizeBits - 1) /\ n + 1 = TreebinShift + K
    BY <1>2, <1>6, Constants
  <1>8. Shift(S, n) = 2 + (Shift(S, n) % 2) /\ Shift(S, n) % 2 \in {0, 1}
    BY <1>2, <1>5, <1>7, ShiftNext
  <1>9. PICK q \in {2, 3} : q = Shift(S, n) /\ Shift(S, n) % 2 = q - 2
    <2>1. ASSUME NEW b \in {0, 1}, NEW s, s = 2 + b PROVE s \in {2, 3} /\ b = s - 2
      BY <2>1
    <2> QED
      BY <1>8, <2>1
  <1>10. K < Half => Index(S) = (2 * K) + q - 2
    <2>1. (2 * K) + (q - 2) = (2 * K) + q - 2
      BY <1>2
    <2> QED
      BY <1>1, <1>4, <1>6, <1>9, <2>1
  <1>11. K >= Half => Index(S) = NTreeBins - 1
    BY <1>1, <1>2, <1>3, <1>4
  <1>12. q = Shift(S, K + TreebinShift - 1)
    BY <1>6, <1>9
  <1> QED
    BY <1>1, <1>9, <1>10, <1>11, <1>12 DEF Highest

LEMMA HighestOrder ==
    ASSUME NEW S \in LargeSize, NEW T \in LargeSize,
           NEW K \in 0..(IntBits - 1), NEW q \in {2, 3}, NEW L \in 0..(IntBits - 1), NEW r \in {2, 3},
           Highest(S, K, q), Highest(T, L, r), S <= T
    PROVE  K <= L /\ (K = L => q <= r)
  <1>1. /\ K \in 0..(IntBits - 1) /\ L \in 0..(IntBits - 1)
        /\ q = Shift(S, K + TreebinShift - 1) /\ r = Shift(T, L + TreebinShift - 1)
        /\ Pow2[K] <= Shift(S, TreebinShift) /\ Shift(T, TreebinShift) < Pow2[L + 1]
        /\ S \in Nat /\ T \in Nat
    BY LargeSizes DEF Highest
  <1>2. /\ TreebinShift \in 0..SizeBits /\ K + TreebinShift - 1 \in 0..SizeBits
        /\ K \in 0..SizeBits /\ L + 1 \in 0..SizeBits
        /\ K \in Nat /\ L + 1 \in Nat /\ K <= SizeBits
    BY <1>1, Constants
  <1>3. K <= L
    <2> SUFFICES ASSUME L < K PROVE FALSE
      BY <1>1, Constants
    <2>1. L + 1 <= K
      BY <1>1, Constants
    <2>2. Pow2[L + 1] <= Pow2[K]
      BY <1>2, <2>1, PowOrder
    <2>3. Shift(S, TreebinShift) <= Shift(T, TreebinShift)
      BY <1>1, <1>2, ShiftOrder
    <2>4. /\ Pow2[L + 1] \in Nat /\ Pow2[K] \in Nat
          /\ Shift(S, TreebinShift) \in Nat /\ Shift(T, TreebinShift) \in Nat
      BY <1>1, <1>2, PowPositive, ShiftNat
    <2> QED
      BY <1>1, <2>2, <2>3, <2>4
  <1>4. K = L => q <= r
    BY <1>1, <1>2, ShiftOrder
  <1> QED
    BY <1>3, <1>4

LEMMA IndexRange ==
    ASSUME NEW S \in LargeSize
    PROVE  Index(S) \in 0..(NTreeBins - 1)
  <1>1. PICK K \in 0..(IntBits - 1), q \in {2, 3} : Highest(S, K, q)
    BY HighestExist
  <1> QED
    BY <1>1, Constants DEF Highest

(* Larger sizes are in later bins. *)
LEMMA IndexOrder ==
    ASSUME NEW S \in LargeSize, NEW T \in LargeSize, S <= T
    PROVE  Index(S) <= Index(T)
  <1>1. PICK K \in 0..(IntBits - 1), q \in {2, 3} : Highest(S, K, q)
    BY HighestExist
  <1>2. PICK L \in 0..(IntBits - 1), r \in {2, 3} : Highest(T, L, r)
    BY HighestExist
  <1>3. K <= L /\ (K = L => q <= r)
    <2>1. Highest(S, K, q) /\ Highest(T, L, r) /\ S <= T
      BY <1>1, <1>2
    <2> QED
      BY <2>1, HighestOrder
  <1>4. /\ K < Half => Index(S) = (2 * K) + q - 2
        /\ K >= Half => Index(S) = NTreeBins - 1
        /\ L < Half => Index(T) = (2 * L) + r - 2
        /\ L >= Half => Index(T) = NTreeBins - 1
    BY <1>1, <1>2 DEF Highest
  <1> QED
    BY <1>3, <1>4, Constants

LEMMA BitsRange ==
    ASSUME NEW i \in 0..(NTreeBins - 1)
    PROVE  /\ Bits(i) \in 1..SizeBits
           /\ i = NTreeBins - 1 => Bits(i) = SizeBits
           /\ i # NTreeBins - 1 => Bits(i) = (i \div 2) + TreebinShift - 1
  <1>1. i \div 2 \in Nat /\ i \div 2 <= Half - 1
    <2>1. ASSUME NEW h \in Nat, NEW j \in 0..((2 * h) - 1) PROVE j \div 2 \in Nat /\ j \div 2 <= h - 1
      BY <2>1
    <2> QED
      BY <2>1, Constants
  <1>2. PICK j \in Nat : j = i \div 2
    BY <1>1
  <1>3. Bits(i) = IF i = NTreeBins - 1 THEN (SizeBits - 1) + 1 ELSE (j + TreebinShift - 2) + 1
    BY <1>2 DEF Bits, bit_for_tree_index
  <1>4. (SizeBits - 1) + 1 = SizeBits /\ (j + TreebinShift - 2) + 1 = j + TreebinShift - 1
    BY Constants
  <1>5. j <= Half - 1
    BY <1>1, <1>2
  <1> QED
    BY <1>2, <1>3, <1>4, <1>5, Constants

(* The sizes of a bin have the same bits above. *)
LEMMA SameBin ==
    ASSUME NEW S \in LargeSize, NEW T \in LargeSize, Index(S) = Index(T)
    PROVE  Shift(S, Bits(Index(S))) = Shift(T, Bits(Index(S)))
  <1>1. PICK i \in 0..(NTreeBins - 1) : i = Index(S) /\ i = Index(T)
    BY IndexRange
  <1>2. CASE i = NTreeBins - 1
    <2>1. Bits(i) = SizeBits /\ SizeBits \in 0..SizeBits
      BY <1>2, BitsRange, Constants
    <2>2. \A U \in LargeSize : Shift(U, SizeBits) = 0
      <3> TAKE U \in LargeSize
      <3>1. U \in Nat /\ U < Pow2[SizeBits] /\ Pow2[SizeBits] \in Nat
        BY <2>1, LargeSizes, PowPositive
      <3>2. Shift(U, SizeBits) \in Nat /\ (U >= Pow2[SizeBits] <=> Shift(U, SizeBits) >= 1)
        BY <2>1, <3>1, ShiftNat
      <3> QED
        BY <3>1, <3>2
    <2> QED
      BY <1>1, <2>1, <2>2
  <1>3. CASE i # NTreeBins - 1
    <2>1. PICK K \in 0..(IntBits - 1), q \in {2, 3} : Highest(S, K, q)
      BY HighestExist
    <2>2. PICK L \in 0..(IntBits - 1), r \in {2, 3} : Highest(T, L, r)
      BY HighestExist
    <2>3. /\ K < Half /\ L < Half /\ i = (2 * K) + q - 2 /\ i = (2 * L) + r - 2
          /\ q = Shift(S, K + TreebinShift - 1) /\ r = Shift(T, L + TreebinShift - 1)
      BY <1>1, <1>3, <2>1, <2>2, Constants DEF Highest
    <2>4. i \div 2 = K /\ K = L /\ q = r
      <3>1. ASSUME NEW a \in Nat, NEW b \in Nat, NEW s \in {2, 3}, NEW t \in {2, 3},
                   (2 * a) + s - 2 = (2 * b) + t - 2
            PROVE  ((2 * a) + s - 2) \div 2 = a /\ a = b /\ s = t
        BY <3>1
      <3> QED
        BY <2>3, <3>1, Constants
    <2>5. Bits(i) = K + TreebinShift - 1
      BY <1>3, <2>4, BitsRange
    <2> QED
      BY <1>1, <2>3, <2>4, <2>5
  <1> QED
    BY <1>2, <1>3

-----------------------------------------------------------------------------
(* The way of a size: the bits below Bits, the highest first.              *)

Turn(S, k) == Shift(S, Bits(Index(S)) - k) % 2
High(S, n) == Shift(S, Bits(Index(S)) - n)

LEMMA TurnsAre ==
    ASSUME NEW S \in LargeSize
    PROVE  /\ Turns(S) = 0..Bits(Index(S)) /\ Bits(Index(S)) \in 1..SizeBits
           /\ Bits(Index(S)) \in Nat /\ Bits(Index(S)) <= SizeBits /\ SizeBits \in Nat
           /\ Bits(Index(S)) \in Turns(S) /\ 0 \in Turns(S)
           /\ Index(S) \in Nat /\ S \in Nat
  <1>1. Bits(Index(S)) \in 1..SizeBits /\ Index(S) \in Nat /\ S \in Nat
    BY IndexRange, BitsRange, LargeSizes, Constants
  <1>2. Turns(S) = 0..Bits(Index(S))
    BY DEF Turns, Bits, Index
  <1> QED
    BY <1>1, <1>2, Constants

LEMMA TurnBit ==
    ASSUME NEW S \in LargeSize, NEW k \in 1..Bits(Index(S))
    PROVE  /\ Turn(S, k) \in {0, 1} /\ High(S, k) \in Nat /\ High(S, k - 1) \in Nat
           /\ High(S, k) = (2 * High(S, k - 1)) + Turn(S, k)
  <1>1. PICK b \in 1..SizeBits : b = Bits(Index(S))
    BY TurnsAre
  <1>2. S \in Nat /\ SizeBits \in Nat
    BY TurnsAre
  <1>3. b - k \in 0..(SizeBits - 1) /\ b - (k - 1) = (b - k) + 1
    BY <1>1, <1>2
  <1>4. /\ Shift(S, b - k) % 2 \in {0, 1}
        /\ Shift(S, b - k) = (2 * Shift(S, (b - k) + 1)) + (Shift(S, b - k) % 2)
        /\ Shift(S, b - k) \in Nat /\ Shift(S, (b - k) + 1) \in Nat
    BY <1>2, <1>3, ShiftNext
  <1> QED
    BY <1>1, <1>3, <1>4 DEF Turn, High

LEMMA PathIs ==
    ASSUME NEW S \in LargeSize, NEW n \in Turns(S)
    PROVE  /\ PathNode(S, n) \in Seq(Nat) /\ Len(PathNode(S, n)) = n + 1
           /\ PathNode(S, n)[1] = Index(S)
           /\ \A k \in 1..n : PathNode(S, n)[k + 1] = Turn(S, k)
           /\ n \in Nat /\ n <= SizeBits
  <1>1. PICK i \in Nat : i = Index(S)
    BY TurnsAre
  <1>2. n \in 0..Bits(i) /\ Bits(i) \in 1..SizeBits /\ n \in Nat /\ Bits(i) \in Nat /\ SizeBits \in Nat
    BY <1>1, TurnsAre
  <1> DEFINE w == [k \in 1..n |-> Shift(S, bit_for_tree_index(i) - k + 1) % 2]
  <1>3. bit_for_tree_index(i) = Bits(i) - 1
    <2>1. ASSUME NEW b, b + 1 \in Nat, b \in Int PROVE b = (b + 1) - 1
      BY <2>1
    <2>2. bit_for_tree_index(i) \in Int
      BY <1>1, IndexRange, Constants DEF bit_for_tree_index
    <2> QED
      BY <1>2, <2>1, <2>2 DEF Bits
  <1>4. \A k \in 1..n : w[k] = Turn(S, k) /\ Turn(S, k) \in Nat
    <2> TAKE k \in 1..n
    <2>1. k \in 1..Bits(i) /\ bit_for_tree_index(i) - k + 1 = Bits(i) - k
      BY <1>2, <1>3
    <2> QED
      BY <1>1, <2>1, TurnBit DEF Turn
  <1>5. w \in Seq(Nat) /\ Len(w) = n
    <2>1. w \in [1..n -> Nat]
      <3>1. w = [k \in 1..n |-> w[k]]
        OBVIOUS
      <3> HIDE DEF w
      <3> QED
        BY <1>4, <3>1
    <2> HIDE DEF w
    <2> QED
      BY <1>2, <2>1, IsASeq, LenProperties
  <1>6. PathNode(S, n) = <<i>> \o w
    BY <1>1 DEF PathNode, Index
  <1> HIDE DEF w
  <1>7. <<i>> \in Seq(Nat) /\ Len(<<i>>) = 1 /\ <<i>>[1] = i
    OBVIOUS
  <1>8. /\ <<i>> \o w \in Seq(Nat) /\ Len(<<i>> \o w) = n + 1
        /\ \A k \in 1..(n + 1) : (<<i>> \o w)[k] = IF k = 1 THEN i ELSE w[k - 1]
    BY <1>2, <1>5, <1>7, ConcatProperties
  <1>9. \A k \in 1..n : k + 1 \in 1..(n + 1) /\ k + 1 # 1 /\ (k + 1) - 1 = k
    BY <1>2
  <1>10. 1 \in 1..(n + 1)
    BY <1>2
  <1> QED
    BY <1>1, <1>2, <1>4, <1>6, <1>8, <1>9, <1>10

(* Two ways are the same as far as their turns are. *)
LEMMA PathsEqual ==
    ASSUME NEW S \in LargeSize, NEW T \in LargeSize, NEW n \in Turns(S), NEW m \in Turns(T)
    PROVE  PathNode(S, n) = PathNode(T, m)
           <=> Index(S) = Index(T) /\ n = m /\ \A k \in 1..n : Turn(S, k) = Turn(T, k)
  <1>1. /\ PathNode(S, n) \in Seq(Nat) /\ Len(PathNode(S, n)) = n + 1
        /\ PathNode(S, n)[1] = Index(S)
        /\ \A k \in 1..n : PathNode(S, n)[k + 1] = Turn(S, k)
        /\ n \in Nat
    BY PathIs
  <1>2. /\ PathNode(T, m) \in Seq(Nat) /\ Len(PathNode(T, m)) = m + 1
        /\ PathNode(T, m)[1] = Index(T)
        /\ \A k \in 1..m : PathNode(T, m)[k + 1] = Turn(T, k)
        /\ m \in Nat
    BY PathIs
  <1>3. ASSUME PathNode(S, n) = PathNode(T, m)
        PROVE  Index(S) = Index(T) /\ n = m /\ \A k \in 1..n : Turn(S, k) = Turn(T, k)
    BY <1>1, <1>2, <1>3
  <1>4. ASSUME Index(S) = Index(T), n = m, \A k \in 1..n : Turn(S, k) = Turn(T, k)
        PROVE  PathNode(S, n) = PathNode(T, m)
    <2>1. ASSUME NEW j \in 1..(n + 1) PROVE PathNode(S, n)[j] = PathNode(T, m)[j]
      <3>1. j = 1 \/ (j - 1 \in 1..n /\ (j - 1) + 1 = j)
        BY <1>1
      <3> QED
        BY <1>1, <1>2, <1>4, <3>1
    <2> QED
      BY <1>1, <1>2, <1>4, <2>1, SeqEqual
  <1> QED
    BY <1>3, <1>4

(* The first elements of a sequence. *)
LEMMA BeginningIs ==
    ASSUME NEW E, NEW s \in Seq(E), NEW n \in 0..Len(s)
    PROVE  /\ SubSeq(s, 1, n) \in Seq(E) /\ Len(SubSeq(s, 1, n)) = n
           /\ \A j \in 1..n : SubSeq(s, 1, n)[j] = s[j]
  <1>1. Len(s) \in Nat /\ n \in Int /\ 1 \in Int
    BY LenProperties
  <1>2. \A j \in 1..n : s[j] \in E
    BY <1>1, ElementOfSeq
  <1>3. /\ SubSeq(s, 1, n) \in Seq(E)
        /\ Len(SubSeq(s, 1, n)) = IF 1 <= n THEN n - 1 + 1 ELSE 0
        /\ \A j \in 1..(n - 1 + 1) : SubSeq(s, 1, n)[j] = s[1 + j - 1]
    BY <1>1, <1>2, SubSeqProperties
  <1>4. n - 1 + 1 = n /\ \A j \in 1..n : 1 + j - 1 = j
    BY <1>1
  <1> QED
    BY <1>1, <1>3, <1>4

LEMMA PathPrefix ==
    ASSUME NEW S \in LargeSize, NEW n \in Turns(S), NEW m \in 0..n
    PROVE  m \in Turns(S) /\ SubSeq(PathNode(S, n), 1, m + 1) = PathNode(S, m)
  <1>1. /\ PathNode(S, n) \in Seq(Nat) /\ Len(PathNode(S, n)) = n + 1
        /\ PathNode(S, n)[1] = Index(S)
        /\ \A k \in 1..n : PathNode(S, n)[k + 1] = Turn(S, k)
        /\ n \in Nat
    BY PathIs
  <1>2. m \in Turns(S) /\ m \in Nat
    BY <1>1, TurnsAre
  <1>3. /\ PathNode(S, m) \in Seq(Nat) /\ Len(PathNode(S, m)) = m + 1
        /\ PathNode(S, m)[1] = Index(S)
        /\ \A k \in 1..m : PathNode(S, m)[k + 1] = Turn(S, k)
    BY <1>2, PathIs
  <1>4. /\ SubSeq(PathNode(S, n), 1, m + 1) \in Seq(Nat)
        /\ Len(SubSeq(PathNode(S, n), 1, m + 1)) = m + 1
        /\ \A j \in 1..(m + 1) : SubSeq(PathNode(S, n), 1, m + 1)[j] = PathNode(S, n)[j]
    <2>1. m + 1 \in 0..Len(PathNode(S, n))
      BY <1>1, <1>2
    <2> QED
      BY <1>1, <2>1, BeginningIs
  <1>5. ASSUME NEW j \in 1..(m + 1) PROVE PathNode(S, n)[j] = PathNode(S, m)[j]
    <2>1. j = 1 \/ (j - 1 \in 1..m /\ j - 1 \in 1..n /\ (j - 1) + 1 = j)
      BY <1>1, <1>2
    <2> QED
      BY <1>1, <1>3, <2>1
  <1> QED
    BY <1>2, <1>3, <1>4, <1>5, SeqEqual

LEMMA PathPart ==
    ASSUME NEW S \in LargeSize, NEW T \in LargeSize, NEW n \in Turns(S), n \in Turns(T),
           PathNode(S, n) = PathNode(T, n), NEW m \in 0..n
    PROVE  PathNode(S, m) = PathNode(T, m)
  BY PathPrefix

(* Sizes with the same way have the same bits above its end. *)
LEMMA SameHigh ==
    ASSUME NEW S \in LargeSize, NEW T \in LargeSize, NEW n \in Turns(S), NEW m \in Turns(T),
           PathNode(S, n) = PathNode(T, m)
    PROVE  High(S, n) = High(T, n)
  <1>1. Index(S) = Index(T) /\ n = m /\ \A k \in 1..n : Turn(S, k) = Turn(T, k)
    BY PathsEqual
  <1>2. PICK b \in Nat : b = Bits(Index(S)) /\ n \in 0..b
    BY TurnsAre
  <1> DEFINE same == {k \in 0..n : High(S, k) = High(T, k)}
  <1>3. 0 \in same
    <2>1. b - 0 = b /\ 0 \in 0..n
      BY <1>2
    <2> QED
      BY <1>1, <1>2, <2>1, SameBin DEF High
  <1>4. ASSUME NEW k \in 0..(n - 1), k \in same PROVE k + 1 \in same
    <2>1. k + 1 \in 1..n /\ k + 1 \in 1..b /\ (k + 1) - 1 = k /\ k + 1 \in 0..n
      BY <1>2
    <2>2. High(S, k + 1) = (2 * High(S, k)) + Turn(S, k + 1)
      BY <1>2, <2>1, TurnBit
    <2>3. High(T, k + 1) = (2 * High(T, k)) + Turn(T, k + 1)
      BY <1>1, <1>2, <2>1, TurnBit
    <2> QED
      BY <1>1, <1>4, <2>1, <2>2, <2>3
  <1> HIDE DEF same
  <1>5. \A k \in 0..n : k \in same
    BY <1>2, <1>3, <1>4, UpTo
  <1> QED
    BY <1>2, <1>5 DEF same

(* The whole way is the size. *)
LEMMA WholeWay ==
    ASSUME NEW S \in LargeSize, NEW T \in LargeSize, NEW m \in Turns(T),
           PathNode(S, Bits(Index(S))) = PathNode(T, m)
    PROVE  S = T
  <1>1. PICK b \in Nat : b = Bits(Index(S)) /\ b \in Turns(S)
    BY TurnsAre
  <1>2. b = Bits(Index(T))
    BY <1>1, PathsEqual
  <1>3. High(S, b) = High(T, b)
    BY <1>1, SameHigh
  <1>4. b - b = 0 /\ 0 \in 0..SizeBits
    BY <1>1, Constants
  <1>5. High(S, b) = S /\ High(T, b) = T
    BY <1>1, <1>2, <1>4, TurnsAre, ShiftNat DEF High
  <1> QED
    BY <1>3, <1>5

(* What is to the left is smaller. *)
LEMMA LeftIsSmaller ==
    ASSUME NEW S \in LargeSize, NEW T \in LargeSize, NEW k \in 1..Bits(Index(S)),
           k - 1 \in Turns(T), PathNode(S, k - 1) = PathNode(T, k - 1),
           Turn(S, k) = 0, Turn(T, k) = 1
    PROVE  S < T
  <1>1. PICK b \in Nat : b = Bits(Index(S)) /\ k - 1 \in 0..b
    BY TurnsAre
  <1>2. Index(S) = Index(T) /\ k - 1 \in Turns(S)
    BY <1>1, TurnsAre, PathsEqual
  <1>3. High(S, k - 1) = High(T, k - 1)
    BY <1>2, SameHigh
  <1>4. High(S, k) = 2 * High(S, k - 1) /\ High(T, k) = (2 * High(T, k - 1)) + 1
        /\ High(S, k - 1) \in Nat
    BY <1>2, TurnBit
  <1>5. High(S, k) < High(T, k) /\ High(S, k) \in Nat /\ High(T, k) \in Nat
    BY <1>3, <1>4
  <1>6. b - k \in 0..SizeBits /\ S \in Nat /\ T \in Nat
    BY <1>1, TurnsAre
  <1>7. ~(T <= S)
    BY <1>1, <1>2, <1>5, <1>6, ShiftOrder DEF High
  <1> QED
    BY <1>6, <1>7

(* The other child of the same parent. *)
LEMMA SiblingIs ==
    ASSUME NEW S \in LargeSize, NEW T \in LargeSize, NEW k \in Turns(S), k # 0, NEW m \in Turns(T)
    PROVE  PathNode(T, m) = Sibling(PathNode(S, k))
           <=> /\ m = k /\ k - 1 \in Turns(S) /\ k - 1 \in Turns(T)
               /\ PathNode(T, k - 1) = PathNode(S, k - 1) /\ Turn(T, k) = 1 - Turn(S, k)
  <1>1. /\ PathNode(S, k) \in Seq(Nat) /\ Len(PathNode(S, k)) = k + 1
        /\ PathNode(S, k)[1] = Index(S)
        /\ \A j \in 1..k : PathNode(S, k)[j + 1] = Turn(S, j)
        /\ k \in Nat
    BY PathIs
  <1>2. /\ PathNode(T, m) \in Seq(Nat) /\ Len(PathNode(T, m)) = m + 1
        /\ PathNode(T, m)[1] = Index(T)
        /\ \A j \in 1..m : PathNode(T, m)[j + 1] = Turn(T, j)
        /\ m \in Nat
    BY PathIs
  <1> DEFINE s == PathNode(S, k)
             b == Sibling(s)
  <1>3. /\ b \in Seq(Nat) /\ Len(b) = k + 1
        /\ \A j \in 1..(k + 1) : b[j] = IF j = k + 1 THEN 1 - s[j] ELSE s[j]
    <2>1. k \in 1..Bits(Index(S)) /\ k \in 1..k
      BY <1>1, TurnsAre
    <2>2. s[k + 1] = Turn(S, k) /\ Turn(S, k) \in {0, 1}
      BY <1>1, <2>1, TurnBit
    <2>3. 1 - s[k + 1] \in Nat /\ k + 1 \in 1..Len(s) /\ s \in Seq(Nat) /\ Len(s) = k + 1
      BY <1>1, <2>2
    <2>4. b = [s EXCEPT ![k + 1] = 1 - s[k + 1]]
      BY <2>3 DEF Sibling
    <2> HIDE DEF s, b
    <2> QED
      BY <2>3, <2>4, ExceptSeq
  <1>4. k - 1 \in Turns(S) /\ k - 1 \in Nat /\ (k - 1) + 1 = k
    <2>1. Turns(S) = 0..Bits(Index(S)) /\ Bits(Index(S)) \in Nat /\ k \in Nat
      BY <1>1, TurnsAre
    <2> HIDE DEF s, b
    <2> QED
      BY <2>1
  <1>5. ASSUME PathNode(T, m) = b
        PROVE  /\ m = k /\ k - 1 \in Turns(T)
               /\ PathNode(T, k - 1) = PathNode(S, k - 1) /\ Turn(T, k) = 1 - Turn(S, k)
    <2>1. m = k
      BY <1>1, <1>2, <1>3, <1>5
    <2>2. k - 1 \in Turns(T)
      BY <1>4, <2>1, TurnsAre
    <2>3. Index(T) = Index(S)
      <3>1. 1 \in 1..(k + 1) /\ 1 # k + 1
        BY <1>1
      <3> QED
        BY <1>1, <1>2, <1>3, <1>5, <3>1
    <2>4. \A j \in 1..(k - 1) : Turn(T, j) = Turn(S, j)
      <3> TAKE j \in 1..(k - 1)
      <3>1. j \in 1..k /\ j + 1 \in 1..(k + 1) /\ j + 1 # k + 1
        BY <1>1
      <3> QED
        BY <1>1, <1>2, <1>3, <1>5, <2>1, <3>1
    <2>5. Turn(T, k) = 1 - Turn(S, k)
      <3>1. k \in 1..k /\ k + 1 \in 1..(k + 1)
        BY <1>1
      <3> QED
        BY <1>1, <1>2, <1>3, <1>5, <2>1, <3>1
    <2> QED
      BY <1>4, <2>1, <2>2, <2>3, <2>4, <2>5, PathsEqual
  <1>6. ASSUME m = k, k - 1 \in Turns(T), PathNode(T, k - 1) = PathNode(S, k - 1),
               Turn(T, k) = 1 - Turn(S, k)
        PROVE  PathNode(T, m) = b
    <2>1. Index(T) = Index(S) /\ \A j \in 1..(k - 1) : Turn(T, j) = Turn(S, j)
      BY <1>4, <1>6, PathsEqual
    <2>2. ASSUME NEW j \in 1..(k + 1) PROVE PathNode(T, m)[j] = b[j]
      <3>1. CASE j = 1
        BY <1>1, <1>2, <1>3, <2>1, <3>1
      <3>2. CASE j = k + 1
        <4>1. k \in 1..k
          BY <1>1
        <4> QED
          BY <1>1, <1>2, <1>3, <1>6, <3>2, <4>1
      <3>3. CASE j # 1 /\ j # k + 1
        <4>1. j - 1 \in 1..(k - 1) /\ j - 1 \in 1..k /\ (j - 1) + 1 = j
          BY <1>1, <3>3
        <4> QED
          BY <1>1, <1>2, <1>3, <1>6, <2>1, <3>3, <4>1
      <3> QED
        BY <3>1, <3>2, <3>3
    <2> HIDE DEF b
    <2> QED
      BY <1>2, <1>3, <1>6, <2>2, SeqEqual
  <1> QED
    BY <1>4, <1>5, <1>6

-----------------------------------------------------------------------------
(* The tries. *)

Sz(t, d) == NodeSize(t, size, d)

(* A ring has chunks of one size, each once.                               *)
RingIs(ring) ==
    /\ ring \in Seq(Chunk) /\ ring # << >>
    /\ \A i, j \in 1..Len(ring) : size[ring[i]] = size[ring[j]] /\ (i # j => ring[i] # ring[j])

(* A node is on the way of its size, and so are all the nodes above it.    *)
NodeIs(t, d) ==
    /\ \E n \in Turns(Sz(t, d)) : d = PathNode(Sz(t, d), n)
    /\ \A n \in 1..Len(d) : SubSeq(d, 1, n) \in DOMAIN t

Trie(t) ==
    /\ t = [d \in DOMAIN t |-> t[d]]
    /\ \A d \in DOMAIN t : RingIs(t[d])
    /\ \A d \in DOMAIN t : NodeIs(t, d)
    /\ \A d, e \in DOMAIN t : Sz(t, d) = Sz(t, e) => d = e

LEMMA RingSize ==
    ASSUME NEW ring, RingIs(ring)
    PROVE  /\ Len(ring) \in Nat /\ Len(ring) >= 1 /\ DOMAIN ring = 1..Len(ring)
           /\ ring[1] \in Chunk /\ size[ring[1]] \in LargeSize
           /\ ToSet(ring) \subseteq Chunk
           /\ \A j \in 1..Len(ring) : ring[j] \in Chunk /\ size[ring[j]] = size[ring[1]]
  <1>1. ring \in Seq(Chunk) /\ ring # << >>
    BY DEF RingIs
  <1>2. Len(ring) \in Nat /\ Len(ring) >= 1 /\ DOMAIN ring = 1..Len(ring)
    BY <1>1, LenProperties, EmptySeq
  <1>3. \A j \in 1..Len(ring) : ring[j] \in Chunk
    BY <1>1, ElementOfSeq
  <1>4. 1 \in 1..Len(ring)
    BY <1>2
  <1>5. size[ring[1]] \in LargeSize
    BY <1>3, <1>4, TreeUseAssumption
  <1> QED
    BY <1>2, <1>3, <1>4, <1>5 DEF RingIs, ToSet

LEMMA NodeOnWay ==
    ASSUME NEW t, Trie(t), NEW d \in DOMAIN t
    PROVE  /\ Sz(t, d) \in LargeSize /\ Sz(t, d) \in Nat
           /\ d \in Seq(Nat) /\ Len(d) \in Nat /\ Len(d) >= 1 /\ Len(d) <= SizeBits + 1
           /\ Len(d) - 1 \in Turns(Sz(t, d)) /\ d = PathNode(Sz(t, d), Len(d) - 1)
           /\ d[1] = Index(Sz(t, d))
  <1>1. Sz(t, d) \in LargeSize /\ Sz(t, d) \in Nat
    BY RingSize, LargeSizes DEF Trie, Sz, NodeSize
  <1>2. PICK n \in Turns(Sz(t, d)) : d = PathNode(Sz(t, d), n)
    BY DEF Trie, NodeIs
  <1>3. /\ PathNode(Sz(t, d), n) \in Seq(Nat) /\ Len(PathNode(Sz(t, d), n)) = n + 1
        /\ PathNode(Sz(t, d), n)[1] = Index(Sz(t, d)) /\ n \in Nat /\ n <= SizeBits
    BY <1>1, PathIs
  <1>4. Len(d) = n + 1 /\ n = Len(d) - 1
    BY <1>2, <1>3
  <1> QED
    BY <1>1, <1>2, <1>3, <1>4, Constants

LEMMA NodesAbove ==
    ASSUME NEW t, Trie(t), NEW d \in DOMAIN t, NEW n \in 1..Len(d)
    PROVE  /\ SubSeq(d, 1, n) \in DOMAIN t
           /\ n - 1 \in Turns(Sz(t, d)) /\ SubSeq(d, 1, n) = PathNode(Sz(t, d), n - 1)
           /\ Len(SubSeq(d, 1, n)) = n /\ n \in Nat /\ n >= 1
           /\ n # 1 => SubSeq(d, 1, n)[n] = Turn(Sz(t, d), n - 1)
                       /\ SubSeq(d, 1, n)[n] \in {0, 1}
  <1>1. PICK S \in LargeSize : S = Sz(t, d)
    BY NodeOnWay
  <1>2. Len(d) \in Nat /\ Len(d) - 1 \in Turns(S) /\ d = PathNode(S, Len(d) - 1)
    BY <1>1, NodeOnWay
  <1>3. n - 1 \in 0..(Len(d) - 1) /\ (n - 1) + 1 = n /\ n \in Nat /\ n >= 1
    BY <1>2
  <1>4. n - 1 \in Turns(S) /\ SubSeq(PathNode(S, Len(d) - 1), 1, (n - 1) + 1) = PathNode(S, n - 1)
    BY <1>2, <1>3, PathPrefix
  <1>5. SubSeq(d, 1, n) = PathNode(S, n - 1)
    BY <1>2, <1>3, <1>4
  <1>6. /\ Len(PathNode(S, n - 1)) = (n - 1) + 1
        /\ \A j \in 1..(n - 1) : PathNode(S, n - 1)[j + 1] = Turn(S, j)
    BY <1>4, PathIs
  <1>7. n # 1 => Turn(S, n - 1) \in {0, 1} /\ SubSeq(d, 1, n)[n] = Turn(S, n - 1)
    <2> HAVE n # 1
    <2>1. n - 1 \in 1..(n - 1) /\ n - 1 \in 1..Bits(Index(S))
      BY <1>3, <1>4, TurnsAre
    <2>2. PathNode(S, n - 1)[(n - 1) + 1] = Turn(S, n - 1)
      BY <1>6, <2>1
    <2> QED
      BY <1>3, <1>5, <2>1, <2>2, TurnBit
  <1> QED
    BY <1>1, <1>3, <1>4, <1>5, <1>6, <1>7 DEF Trie, NodeIs

LEMMA BelowIs ==
    ASSUME NEW t, Trie(t), NEW d \in DOMAIN t
    PROVE  Below(t, d) = {e \in DOMAIN t : Len(d) < Len(e) /\ SubSeq(e, 1, Len(d)) = d}
  <1>1. ASSUME NEW e \in DOMAIN t
        PROVE  IsStrictPrefix(d, e) <=> Len(d) < Len(e) /\ SubSeq(e, 1, Len(d)) = d
    <2>1. d \in Seq(Nat) /\ e \in Seq(Nat) /\ Len(d) \in Nat /\ Len(e) \in Nat
      BY NodeOnWay
    <2>2. SubSeq(d, 1, Len(d)) = d /\ SubSeq(e, 1, Len(e)) = e
      BY <2>1, SubSeqFull
    <2>3. IsStrictPrefix(d, e) <=> Len(d) <= Len(e) /\ d = SubSeq(e, 1, Len(d)) /\ d # e
      BY <2>2 DEF IsStrictPrefix, IsPrefix
    <2>4. Len(d) = Len(e) => SubSeq(e, 1, Len(d)) = e
      BY <2>2
    <2>5. d = e => Len(d) = Len(e)
      OBVIOUS
    <2> QED
      BY <2>1, <2>3, <2>4, <2>5
  <1> QED
    BY <1>1 DEF Below

LEMMA AboveAbove ==
    ASSUME NEW t, Trie(t), NEW e \in DOMAIN t, NEW m \in 1..Len(e), NEW n \in 1..m
    PROVE  SubSeq(SubSeq(e, 1, m), 1, n) = SubSeq(e, 1, n)
  <1>1. e \in Seq(Nat) /\ Len(e) \in Nat
    BY NodeOnWay
  <1>2. m \in 0..Len(e) /\ n \in 0..Len(e) /\ n \in 0..m /\ 1..n \subseteq 1..m
    BY <1>1
  <1> DEFINE s == SubSeq(e, 1, m)
             u == SubSeq(e, 1, n)
             w == SubSeq(s, 1, n)
  <1>3. s \in Seq(Nat) /\ Len(s) = m /\ \A j \in 1..m : s[j] = e[j]
    BY <1>1, <1>2, BeginningIs
  <1>4. u \in Seq(Nat) /\ Len(u) = n /\ \A j \in 1..n : u[j] = e[j]
    BY <1>1, <1>2, BeginningIs
  <1> HIDE DEF s, u
  <1>5. w \in Seq(Nat) /\ Len(w) = n /\ \A j \in 1..n : w[j] = s[j]
    BY <1>2, <1>3, BeginningIs
  <1> HIDE DEF w
  <1>6. w = u
    BY <1>2, <1>3, <1>4, <1>5, SeqEqual
  <1> QED
    BY <1>6 DEF s, u, w

(* The sibling of a node, or of one above it, when it is there. *)
LEMMA SiblingNode ==
    ASSUME NEW t, Trie(t), NEW d \in DOMAIN t, NEW n \in 1..Len(d), n # 1,
           Sibling(SubSeq(d, 1, n)) \in DOMAIN t,
           NEW s, s = Sibling(SubSeq(d, 1, n))
    PROVE  /\ s \in DOMAIN t /\ Len(s) = n /\ SubSeq(s, 1, n - 1) = SubSeq(d, 1, n - 1)
           /\ n - 1 \in Turns(Sz(t, s)) /\ n - 1 \in Turns(Sz(t, d)) /\ n - 1 # 0
           /\ n - 2 \in Turns(Sz(t, s))
           /\ PathNode(Sz(t, s), n - 2) = PathNode(Sz(t, d), n - 2)
           /\ Turn(Sz(t, s), n - 1) = 1 - Turn(Sz(t, d), n - 1)
           /\ s[n] = 1 - SubSeq(d, 1, n)[n]
  <1>1. PICK S \in LargeSize, T \in LargeSize : S = Sz(t, d) /\ T = Sz(t, s)
    BY NodeOnWay
  <1>2. n \in Nat /\ n - 1 \in Turns(S) /\ n - 1 # 0 /\ SubSeq(d, 1, n) = PathNode(S, n - 1)
        /\ SubSeq(d, 1, n)[n] = Turn(S, n - 1)
    BY <1>1, NodesAbove
  <1>3. Len(s) \in Nat /\ Len(s) - 1 \in Turns(T) /\ s = PathNode(T, Len(s) - 1)
    BY <1>1, NodeOnWay
  <1>4. PICK m \in Turns(T) : m = Len(s) - 1 /\ PathNode(T, m) = Sibling(PathNode(S, n - 1))
    BY <1>2, <1>3
  <1>5. /\ m = n - 1 /\ (n - 1) - 1 \in Turns(T)
        /\ PathNode(T, (n - 1) - 1) = PathNode(S, (n - 1) - 1) /\ Turn(T, n - 1) = 1 - Turn(S, n - 1)
    BY <1>2, <1>4, SiblingIs
  <1>6. Len(s) = n /\ (n - 1) - 1 = n - 2 /\ n - 1 \in 1..Len(s) /\ n \in 1..Len(s)
    BY <1>2, <1>3, <1>4, <1>5
  <1>7. Len(d) \in Nat
    BY NodeOnWay
  <1>8. n - 1 \in 1..Len(d)
    BY <1>2, <1>7
  <1>9. SubSeq(s, 1, n - 1) = PathNode(T, (n - 1) - 1)
    BY <1>1, <1>6, NodesAbove
  <1>10. SubSeq(d, 1, n - 1) = PathNode(S, (n - 1) - 1)
    BY <1>1, <1>8, NodesAbove
  <1>11. s[n] = Turn(T, n - 1)
    <2>1. SubSeq(s, 1, n)[n] = Turn(T, n - 1)
      BY <1>1, <1>6, NodesAbove
    <2>2. s \in Seq(Nat) /\ SubSeq(s, 1, n) = s
      BY <1>6, NodeOnWay, SubSeqFull
    <2> QED
      BY <2>1, <2>2
  <1> QED
    BY <1>1, <1>2, <1>4, <1>5, <1>6, <1>9, <1>10, <1>11

(* The child that child[first], or else the other one, is. *)
LEMMA ChildToward ==
    ASSUME NEW t, Trie(t), NEW d \in DOMAIN t, Below(t, d) # {}, NEW first \in {0, 1}
    PROVE  \E e \in Below(t, d) :
              Len(e) = Len(d) + 1 /\ (e[Len(e)] = first \/ Sibling(e) \notin DOMAIN t)
  <1>1. PICK f \in DOMAIN t : Len(d) < Len(f) /\ SubSeq(f, 1, Len(d)) = d
    BY BelowIs
  <1>2. Len(d) \in Nat /\ Len(d) >= 1 /\ Len(f) \in Nat
    BY NodeOnWay
  <1>3. PICK n \in 1..Len(f) : n = Len(d) + 1 /\ n # 1
    BY <1>1, <1>2
  <1>4. Len(d) = n - 1 /\ n - 1 \in 1..n /\ n - 1 < n /\ n - 1 \in 1..Len(f)
    BY <1>2, <1>3
  <1>5. PICK c \in DOMAIN t : c = SubSeq(f, 1, n) /\ Len(c) = n /\ c[n] \in {0, 1}
    BY <1>3, NodesAbove
  <1>6. c \in Below(t, d)
    <2>1. SubSeq(c, 1, n - 1) = d
      BY <1>1, <1>3, <1>4, <1>5, AboveAbove
    <2>2. Len(d) < Len(c) /\ SubSeq(c, 1, Len(d)) = d
      BY <1>4, <1>5, <2>1
    <2> QED
      BY <2>2, BelowIs
  <1>7. CASE c[n] = first \/ Sibling(c) \notin DOMAIN t
    BY <1>3, <1>5, <1>6, <1>7
  <1>8. CASE c[n] # first /\ Sibling(c) \in DOMAIN t
    <2>1. PICK s : s = Sibling(SubSeq(f, 1, n))
      OBVIOUS
    <2>2. /\ s \in DOMAIN t /\ Len(s) = n /\ SubSeq(s, 1, n - 1) = SubSeq(f, 1, n - 1)
          /\ s[n] = 1 - SubSeq(f, 1, n)[n]
      BY <1>3, <1>5, <1>8, <2>1, SiblingNode
    <2>3. s[n] = first
      BY <1>5, <1>8, <2>2
    <2>4. s \in Below(t, d)
      BY <1>1, <1>4, <2>2, BelowIs
    <2> QED
      BY <1>3, <2>2, <2>3, <2>4
  <1> QED
    BY <1>7, <1>8

LEMMA ReachChild ==
    ASSUME NEW t, Trie(t), NEW node \in DOMAIN t, NEW first \in {0, 1},
           NEW d \in Below(t, node) \cup {node}, Reached(t, node, first, d),
           NEW e \in Below(t, d), Len(e) = Len(d) + 1,
           e[Len(e)] = first \/ Sibling(e) \notin DOMAIN t
    PROVE  e \in Below(t, node) /\ Reached(t, node, first, e)
  <1>1. d \in DOMAIN t
    BY BelowIs
  <1>2. e \in DOMAIN t /\ SubSeq(e, 1, Len(d)) = d
    BY <1>1, BelowIs
  <1>3. /\ Len(node) \in Nat /\ Len(node) >= 1 /\ Len(d) \in Nat /\ Len(e) \in Nat
        /\ node \in Seq(Nat) /\ e \in Seq(Nat)
    BY <1>1, <1>2, NodeOnWay
  <1>4. Len(node) <= Len(d) /\ SubSeq(d, 1, Len(node)) = node
    <2>1. CASE d = node
      BY <1>3, <2>1, SubSeqFull
    <2>2. CASE d # node
      BY <1>3, <2>2, BelowIs
    <2> QED
      BY <2>1, <2>2
  <1>5. e \in Below(t, node)
    <2>1. Len(d) \in 1..Len(e) /\ Len(node) \in 1..Len(d)
      BY <1>3, <1>4
    <2>2. SubSeq(e, 1, Len(node)) = node
      BY <1>2, <1>4, <2>1, AboveAbove
    <2>3. Len(node) < Len(e)
      BY <1>3, <1>4
    <2> QED
      BY <1>2, <2>2, <2>3, BelowIs
  <1>6. ASSUME NEW n \in (Len(node) + 1)..Len(e)
        PROVE  SubSeq(e, 1, n)[n] = first \/ Sibling(SubSeq(e, 1, n)) \notin DOMAIN t
    <2>1. CASE n = Len(e)
      BY <1>3, <2>1, SubSeqFull
    <2>2. CASE n # Len(e)
      <3>1. n \in 1..Len(d) /\ Len(d) \in 1..Len(e) /\ n \in (Len(node) + 1)..Len(d)
        BY <1>3, <1>4, <2>2
      <3>2. SubSeq(d, 1, n) = SubSeq(e, 1, n)
        BY <1>2, <3>1, AboveAbove
      <3>3. SubSeq(d, 1, n)[n] = first \/ Sibling(SubSeq(d, 1, n)) \notin DOMAIN t
        BY <3>1 DEF Reached
      <3> QED
        BY <3>2, <3>3
    <2> QED
      BY <2>1, <2>2
  <1> QED
    BY <1>5, <1>6 DEF Reached

(* The node that takes the place of the last chunk of a ring. *)
LEMMA LeafExists ==
    ASSUME NEW t, Trie(t), NEW node \in DOMAIN t, Below(t, node) # {}
    PROVE  \E d \in Below(t, node) : Below(t, d) = {} /\ Reached(t, node, 1, d)
  <1> DEFINE R == {d \in Below(t, node) \cup {node} : Reached(t, node, 1, d)}
             Room == {SizeBits + 1 - Len(d) : d \in R}
  <1>1. R \subseteq DOMAIN t
    BY BelowIs
  <1>2. \A d \in R : Len(d) \in Nat /\ Len(d) <= SizeBits + 1
    BY <1>1, NodeOnWay
  <1>3. node \in R
    <2>1. Len(node) \in Nat
      BY NodeOnWay
    <2>2. Reached(t, node, 1, node)
      BY <2>1 DEF Reached
    <2> QED
      BY <2>2
  <1>4. PICK d \in R : \A e \in R : Len(e) <= Len(d)
    <2>1. Room \subseteq Nat /\ Room # {}
      BY <1>2, <1>3, Constants
    <2> HIDE DEF Room
    <2>2. PICK r \in Room : \A u \in Room : r <= u
      BY <2>1, LeastExists
    <2>3. PICK d \in R : r = SizeBits + 1 - Len(d)
      BY <2>2 DEF Room
    <2>4. \A e \in R : SizeBits + 1 - Len(d) <= SizeBits + 1 - Len(e)
      BY <2>2, <2>3 DEF Room
    <2> QED
      BY <1>2, <2>3, <2>4, Constants
  <1>5. Below(t, d) = {}
    <2> SUFFICES ASSUME Below(t, d) # {} PROVE FALSE
      OBVIOUS
    <2>1. d \in DOMAIN t /\ Len(d) \in Nat
      BY <1>1, <1>2
    <2>2. PICK e \in Below(t, d) : Len(e) = Len(d) + 1 /\ (e[Len(e)] = 1 \/ Sibling(e) \notin DOMAIN t)
      BY <2>1, ChildToward
    <2>3. d \in Below(t, node) \cup {node} /\ Reached(t, node, 1, d)
      BY <1>4
    <2>4. e \in Below(t, node) /\ Reached(t, node, 1, e)
      BY <2>2, <2>3, ReachChild
    <2> QED
      BY <1>4, <2>1, <2>2, <2>4
  <1>6. d # node
    BY <1>5
  <1> QED
    BY <1>4, <1>5, <1>6

(* What leftmost_child leads to has the least size of the subtree.         *)
LEMMA LeastOnChain ==
    ASSUME NEW t, Trie(t), NEW node \in DOMAIN t
    PROVE  \E d \in LeftmostChain(t, node) :
              \A e \in Below(t, node) \cup {node} : Sz(t, d) <= Sz(t, e)
  <1> DEFINE R == Below(t, node) \cup {node}
             sizes == {Sz(t, d) : d \in R}
  <1>1. R \subseteq DOMAIN t
    BY BelowIs
  <1>2. PICK d \in R : \A e \in R : Sz(t, d) <= Sz(t, e)
    <2>1. sizes \subseteq Nat /\ sizes # {}
      BY <1>1, NodeOnWay
    <2> HIDE DEF sizes
    <2>2. PICK r \in sizes : \A u \in sizes : r <= u
      BY <2>1, LeastExists
    <2> QED
      BY <2>2 DEF sizes
  <1>3. /\ d \in DOMAIN t /\ Len(d) \in Nat /\ Len(node) \in Nat /\ Len(node) >= 1
        /\ Sz(t, d) \in LargeSize /\ d \in Seq(Nat)
    BY <1>1, <1>2, NodeOnWay
  <1>4. Len(node) <= Len(d) /\ SubSeq(d, 1, Len(node)) = node
    <2>1. CASE d = node
      BY <1>3, <2>1, SubSeqFull
    <2>2. CASE d # node
      BY <1>2, <1>3, <2>2, BelowIs
    <2> QED
      BY <2>1, <2>2
  <1>5. ASSUME NEW n \in (Len(node) + 1)..Len(d)
        PROVE  SubSeq(d, 1, n)[n] = 0 \/ Sibling(SubSeq(d, 1, n)) \notin DOMAIN t
    <2> SUFFICES ASSUME SubSeq(d, 1, n)[n] # 0, Sibling(SubSeq(d, 1, n)) \in DOMAIN t PROVE FALSE
      OBVIOUS
    <2>1. n \in 1..Len(d) /\ n # 1 /\ Len(node) \in 1..(n - 1) /\ n - 1 \in 1..Len(d) /\ n \in Nat
      BY <1>3
    <2>2. PICK s : s = Sibling(SubSeq(d, 1, n))
      OBVIOUS
    <2>3. /\ s \in DOMAIN t /\ Len(s) = n /\ SubSeq(s, 1, n - 1) = SubSeq(d, 1, n - 1)
          /\ n - 1 \in Turns(Sz(t, s)) /\ n - 1 \in Turns(Sz(t, d)) /\ n - 1 # 0
          /\ PathNode(Sz(t, s), n - 2) = PathNode(Sz(t, d), n - 2)
          /\ Turn(Sz(t, s), n - 1) = 1 - Turn(Sz(t, d), n - 1)
      BY <1>3, <2>1, <2>2, SiblingNode
    <2>4. SubSeq(s, 1, Len(node)) = node
      <3>1. SubSeq(SubSeq(s, 1, n - 1), 1, Len(node)) = SubSeq(s, 1, Len(node))
        <4>1. n - 1 \in 1..Len(s)
          BY <2>1, <2>3
        <4> QED
          BY <2>1, <2>3, <4>1, AboveAbove
      <3>2. SubSeq(SubSeq(d, 1, n - 1), 1, Len(node)) = SubSeq(d, 1, Len(node))
        BY <1>3, <2>1, AboveAbove
      <3> QED
        BY <1>4, <2>3, <3>1, <3>2
    <2>5. s \in Below(t, node)
      <3>1. Len(node) < Len(s)
        BY <1>3, <2>1, <2>3
      <3> QED
        BY <2>3, <2>4, <3>1, BelowIs
    <2>6. Turn(Sz(t, d), n - 1) = 1
      BY <1>3, <2>1, NodesAbove
    <2>7. Sz(t, s) < Sz(t, d)
      <3>1. PICK S \in LargeSize : S = Sz(t, s)
        BY <2>3, NodeOnWay
      <3>2. PICK k : k = n - 1
        OBVIOUS
      <3>3. k \in 1..Bits(Index(S)) /\ k - 1 = n - 2
        BY <2>1, <2>3, <3>1, <3>2, TurnsAre
      <3>4. PICK T \in LargeSize : T = Sz(t, d)
        BY <1>3
      <3>5. k - 1 \in Turns(T)
        <4>1. k \in Turns(T)
          BY <2>3, <3>2, <3>4
        <4> QED
          BY <3>3, <4>1, TurnsAre
      <3>6. PathNode(S, k - 1) = PathNode(T, k - 1) /\ Turn(S, k) = 0 /\ Turn(T, k) = 1
        BY <2>3, <2>6, <3>1, <3>2, <3>3, <3>4
      <3>7. S < T
        BY <3>3, <3>5, <3>6, LeftIsSmaller
      <3> QED
        BY <3>1, <3>4, <3>7
    <2>8. Sz(t, d) <= Sz(t, s)
      BY <1>2, <2>5
    <2> QED
      BY <2>3, <2>7, <2>8, <1>3, NodeOnWay, LargeSizes
  <1>6. d \in LeftmostChain(t, node)
    BY <1>2, <1>5 DEF LeftmostChain, Reached
  <1> QED
    BY <1>2, <1>6

-----------------------------------------------------------------------------
(* Chunks put in and taken out. *)

LEMMA RingOne ==
    ASSUME NEW x \in Chunk
    PROVE  RingIs(<<x>>) /\ <<x>>[1] = x /\ ToSet(<<x>>) = {x} /\ Len(<<x>>) = 1
  BY DEF RingIs, ToSet

LEMMA RingAppend ==
    ASSUME NEW ring, NEW x \in Chunk, NEW new,
           RingIs(ring) /\ x \notin ToSet(ring) /\ size[x] = size[ring[1]] /\ new = Append(ring, x)
    PROVE  /\ RingIs(new) /\ new[1] = ring[1] /\ ToSet(new) = ToSet(ring) \cup {x}
           /\ Len(new) = Len(ring) + 1 /\ new[Len(ring) + 1] = x
           /\ \A j \in 1..Len(ring) : new[j] = ring[j]
  <1>1. /\ Len(ring) \in Nat /\ Len(ring) >= 1 /\ DOMAIN ring = 1..Len(ring) /\ ring \in Seq(Chunk)
        /\ \A j \in 1..Len(ring) : ring[j] \in Chunk /\ size[ring[j]] = size[ring[1]]
    BY RingSize DEF RingIs
  <1>2. /\ new \in Seq(Chunk) /\ Len(new) = Len(ring) + 1 /\ new[Len(ring) + 1] = x
        /\ \A j \in 1..Len(ring) : new[j] = ring[j]
    BY <1>1, AppendProperties
  <1>3. PICK n \in Nat : n = Len(ring) /\ n >= 1 /\ Len(new) = n + 1
    BY <1>1, <1>2
  <1>4. \A j \in 1..(n + 1) : j \in 1..n \/ j = n + 1
    BY <1>3
  <1>5. ToSet(new) = ToSet(ring) \cup {x}
    <2>1. DOMAIN new = 1..(n + 1)
      BY <1>2, <1>3, LenProperties
    <2>2. n + 1 \in 1..(n + 1) /\ 1..n \subseteq 1..(n + 1)
      BY <1>3
    <2> QED
      BY <1>1, <1>2, <1>3, <1>4, <2>1, <2>2 DEF ToSet
  <1>6. \A i \in 1..(n + 1) : size[new[i]] = size[ring[1]]
    BY <1>1, <1>2, <1>3, <1>4
  <1>7. ASSUME NEW i \in 1..(n + 1), NEW j \in 1..(n + 1), i # j PROVE new[i] # new[j]
    <2>1. \A a \in 1..n : new[a] = ring[a] /\ ring[a] \in ToSet(ring) /\ ring[a] # x
      BY <1>1, <1>2, <1>3 DEF ToSet
    <2>2. new[n + 1] = x
      BY <1>2, <1>3
    <2>3. CASE i \in 1..n /\ j \in 1..n
      BY <1>3, <1>7, <2>1, <2>3 DEF RingIs
    <2>4. CASE i = n + 1 /\ j \in 1..n
      BY <2>1, <2>2, <2>4
    <2>5. CASE i \in 1..n /\ j = n + 1
      BY <2>1, <2>2, <2>5
    <2> QED
      BY <1>4, <1>7, <2>3, <2>4, <2>5
  <1>8. new # << >>
    BY <1>2, <1>3, EmptySeq
  <1>9. RingIs(new)
    BY <1>2, <1>3, <1>6, <1>7, <1>8 DEF RingIs
  <1> QED
    BY <1>1, <1>2, <1>3, <1>5, <1>9

(* Where a chunk is in its ring, it is once.                               *)
LEMMA RingRemove ==
    ASSUME NEW ring, RingIs(ring), NEW k \in 1..Len(ring), NEW new, new = RemoveAt(ring, k)
    PROVE  /\ new \in Seq(Chunk) /\ Len(new) = Len(ring) - 1
           /\ ToSet(new) = ToSet(ring) \ {ring[k]}
           /\ \A j \in 1..Len(new) : new[j] = ring[IF j < k THEN j ELSE j + 1]
           /\ new # << >> => RingIs(new) /\ size[new[1]] = size[ring[1]]
           /\ new = << >> => ToSet(ring) = {ring[k]}
  <1>1. /\ Len(ring) \in Nat /\ Len(ring) >= 1 /\ DOMAIN ring = 1..Len(ring) /\ ring \in Seq(Chunk)
        /\ \A j \in 1..Len(ring) : ring[j] \in Chunk /\ size[ring[j]] = size[ring[1]]
    BY RingSize DEF RingIs
  <1>2. PICK n \in Nat : n = Len(ring) /\ n >= 1
    BY <1>1
  <1>3. k \in 1..n
    BY <1>2
  <1> DEFINE a == SubSeq(ring, 1, k - 1)
             b == SubSeq(ring, k + 1, n)
  <1>4. a \in Seq(Chunk) /\ Len(a) = k - 1 /\ \A j \in 1..(k - 1) : a[j] = ring[j]
    <2>1. k - 1 \in 0..Len(ring)
      BY <1>2
    <2> QED
      BY <1>1, <2>1, BeginningIs
  <1>5. b \in Seq(Chunk) /\ Len(b) = n - k /\ \A j \in 1..(n - k) : b[j] = ring[k + j]
    <2>1. k + 1 \in Int /\ n \in Int /\ \A j \in (k + 1)..n : ring[j] \in Chunk
      BY <1>1, <1>2
    <2>2. /\ b \in Seq(Chunk) /\ Len(b) = IF k + 1 <= n THEN n - (k + 1) + 1 ELSE 0
          /\ \A j \in 1..(n - (k + 1) + 1) : b[j] = ring[(k + 1) + j - 1]
      BY <2>1, SubSeqProperties
    <2>3. n - (k + 1) + 1 = n - k /\ (k + 1 > n => n - k = 0)
          /\ \A j \in 1..(n - k) : (k + 1) + j - 1 = k + j
      BY <1>3
    <2> HIDE DEF b
    <2> QED
      BY <1>3, <2>2, <2>3
  <1>6. new = a \o b
    BY <1>2 DEF RemoveAt
  <1> HIDE DEF a, b
  <1>7. /\ new \in Seq(Chunk) /\ Len(new) = (k - 1) + (n - k)
        /\ \A j \in 1..((k - 1) + (n - k)) : new[j] = IF j <= k - 1 THEN a[j] ELSE b[j - (k - 1)]
    BY <1>4, <1>5, <1>6, ConcatProperties
  <1>8. (k - 1) + (n - k) = n - 1
    BY <1>3
  <1>9. ASSUME NEW j \in 1..(n - 1) PROVE new[j] = ring[IF j < k THEN j ELSE j + 1]
    <2>1. CASE j < k
      <3>1. j <= k - 1 /\ j \in 1..(k - 1)
        BY <1>3, <2>1
      <3> QED
        BY <1>4, <1>7, <1>8, <2>1, <3>1
    <2>2. CASE ~(j < k)
      <3>1. ~(j <= k - 1) /\ j - (k - 1) \in 1..(n - k) /\ k + (j - (k - 1)) = j + 1
        BY <1>3, <2>2
      <3> QED
        BY <1>5, <1>7, <1>8, <2>2, <3>1
    <2> QED
      BY <2>1, <2>2
  <1> DEFINE at(j) == IF j < k THEN j ELSE j + 1
  <1>10. \A j \in 1..(n - 1) : at(j) \in 1..n /\ at(j) # k
    BY <1>3
  <1>11. \A i \in 1..n : i # k => \E j \in 1..(n - 1) : at(j) = i
    <2> TAKE i \in 1..n
    <2>1. CASE i < k
      BY <1>3, <2>1
    <2>2. CASE i > k
      <3>1. i - 1 \in 1..(n - 1) /\ at(i - 1) = i
        BY <1>3, <2>2
      <3> QED
        BY <3>1
    <2> QED
      BY <1>3, <2>1, <2>2
  <1>12. \A i, j \in 1..(n - 1) : i # j => at(i) # at(j)
    BY <1>3
  <1>13. \A j \in 1..(n - 1) : new[j] = ring[at(j)]
    BY <1>9
  <1> HIDE DEF at
  <1>14. \A i, j \in 1..n : i # j => ring[i] # ring[j]
    BY <1>2 DEF RingIs
  <1>15. DOMAIN new = 1..(n - 1) /\ DOMAIN ring = 1..n
    BY <1>1, <1>2, <1>7, <1>8, LenProperties
  <1>16. ToSet(new) = ToSet(ring) \ {ring[k]}
    <2>1. ToSet(new) = {new[j] : j \in 1..(n - 1)} /\ ToSet(ring) = {ring[i] : i \in 1..n}
      BY <1>15 DEF ToSet
    <2>2. ASSUME NEW j \in 1..(n - 1) PROVE new[j] \in ToSet(ring) \ {ring[k]}
      <3>1. at(j) \in 1..n /\ at(j) # k /\ new[j] = ring[at(j)]
        BY <1>10, <1>13
      <3> QED
        BY <1>3, <1>14, <2>1, <3>1
    <2>3. ASSUME NEW i \in 1..n, ring[i] # ring[k] PROVE ring[i] \in ToSet(new)
      <3>1. PICK j \in 1..(n - 1) : at(j) = i
        BY <1>11, <2>3
      <3> QED
        BY <1>13, <2>1, <3>1
    <2> QED
      BY <2>1, <2>2, <2>3
  <1>17. ASSUME new # << >> PROVE RingIs(new) /\ size[new[1]] = size[ring[1]]
    <2>1. Len(new) \in Nat \ {0}
      BY <1>7, <1>17, EmptySeq
    <2>2. 1 \in 1..(n - 1) /\ Len(new) = n - 1
      BY <1>2, <1>7, <1>8, <2>1
    <2>3. \A j \in 1..(n - 1) : size[new[j]] = size[ring[1]]
      BY <1>1, <1>2, <1>10, <1>13
    <2>4. \A i, j \in 1..(n - 1) : i # j => new[i] # new[j]
      BY <1>10, <1>12, <1>13, <1>14
    <2> QED
      BY <1>7, <1>17, <2>2, <2>3, <2>4 DEF RingIs
  <1>18. ASSUME new = << >> PROVE ToSet(ring) = {ring[k]}
    <2>1. Len(new) = 0
      BY <1>18, EmptySeq
    <2>2. n = 1 /\ k = 1
      BY <1>2, <1>3, <1>7, <1>8, <2>1
    <2> QED
      BY <1>15, <2>2 DEF ToSet
  <1> QED
    BY <1>2, <1>7, <1>8, <1>9, <1>16, <1>17, <1>18

(* Only the rings are others. *)
LEMMA SameShape ==
    ASSUME NEW t, Trie(t), NEW u, u = [d \in DOMAIN t |-> u[d]], DOMAIN u = DOMAIN t,
           \A d \in DOMAIN t : RingIs(u[d]) /\ Sz(u, d) = Sz(t, d)
    PROVE  Trie(u)
  <1>1. \A d \in DOMAIN u : NodeIs(u, d)
    BY DEF Trie, NodeIs
  <1>2. \A d, e \in DOMAIN u : Sz(u, d) = Sz(u, e) => d = e
    BY DEF Trie
  <1> QED
    BY <1>1, <1>2 DEF Trie

(* Chunks of one ring have its size, and no other ring has it.             *)
LEMMA OneRing ==
    ASSUME NEW t, Trie(t), NEW d \in DOMAIN t, NEW e \in DOMAIN t, NEW x \in ToSet(t[d]), x \in ToSet(t[e])
    PROVE  d = e /\ size[x] = Sz(t, d)
  <1>1. ASSUME NEW f \in DOMAIN t, x \in ToSet(t[f]) PROVE size[x] = Sz(t, f)
    <2>1. RingIs(t[f])
      BY DEF Trie
    <2>2. DOMAIN t[f] = 1..Len(t[f]) /\ \A j \in 1..Len(t[f]) : size[t[f][j]] = size[t[f][1]]
      BY <2>1, RingSize
    <2> QED
      BY <1>1, <2>2 DEF ToSet, Sz, NodeSize
  <1> QED
    BY <1>1 DEF Trie

(* A leaf is left out, or takes the place of a node above it. *)
LEMMA LeafMoved ==
    ASSUME NEW t, Trie(t), NEW node \in DOMAIN t, NEW leaf \in Below(t, node) \cup {node},
           Below(t, leaf) = {},
           NEW u, DOMAIN u = DOMAIN t \ {leaf}, u = [d \in DOMAIN u |-> u[d]],
           \A d \in DOMAIN u : u[d] = t[IF d = node THEN leaf ELSE d]
    PROVE  Trie(u) /\ LargeChunks(u) = LargeChunks(t) \ ToSet(t[node])
  <1>1. leaf \in DOMAIN t
    BY BelowIs
  <1> DEFINE from(d) == IF d = node THEN leaf ELSE d
  <1>2. /\ \A d \in DOMAIN u : from(d) \in DOMAIN t /\ u[d] = t[from(d)] /\ from(d) # node
        /\ \A d, e \in DOMAIN u : from(d) = from(e) => d = e
        /\ \A e \in DOMAIN t : e # node => \E d \in DOMAIN u : from(d) = e
    BY <1>1
  <1>3. \A d \in DOMAIN u : Sz(u, d) = Sz(t, from(d))
    BY <1>2 DEF Sz, NodeSize
  <1>4. ASSUME NEW d \in DOMAIN u PROVE \E n \in Turns(Sz(u, d)) : d = PathNode(Sz(u, d), n)
    <2>1. CASE d # node
      <3>1. d \in DOMAIN t /\ Sz(u, d) = Sz(t, d)
        BY <1>1, <1>3, <2>1
      <3> QED
        BY <3>1 DEF Trie, NodeIs
    <2>2. CASE d = node
      <3>1. leaf \in DOMAIN t /\ Len(node) < Len(leaf) /\ SubSeq(leaf, 1, Len(node)) = node
        BY <1>1, <2>2, BelowIs
      <3>2. Len(node) \in 1..Len(leaf)
        BY <3>1, NodeOnWay
      <3>3. PICK n \in 1..Len(leaf) : n = Len(node)
        BY <3>2
      <3>4. n - 1 \in Turns(Sz(t, leaf)) /\ SubSeq(leaf, 1, n) = PathNode(Sz(t, leaf), n - 1)
        BY <3>1, NodesAbove
      <3>5. n - 1 \in Turns(Sz(t, leaf)) /\ node = PathNode(Sz(t, leaf), n - 1)
        BY <3>1, <3>3, <3>4
      <3> QED
        BY <1>3, <2>2, <3>5
    <2> QED
      BY <2>1, <2>2
  <1>5. ASSUME NEW d \in DOMAIN u, NEW n \in 1..Len(d) PROVE SubSeq(d, 1, n) \in DOMAIN u
    <2>1. d \in DOMAIN t
      BY <1>1
    <2>2. SubSeq(d, 1, n) \in DOMAIN t /\ Len(SubSeq(d, 1, n)) = n /\ d \in Seq(Nat) /\ Len(d) \in Nat
      BY <2>1, NodesAbove, NodeOnWay
    <2>3. SubSeq(d, 1, n) # leaf
      <3> SUFFICES ASSUME SubSeq(d, 1, n) = leaf PROVE FALSE
        OBVIOUS
      <3>1. Len(leaf) = n
        BY <2>2
      <3>2. CASE n = Len(d)
        BY <1>1, <2>2, <3>2, SubSeqFull
      <3>3. CASE n # Len(d)
        <4>1. Len(leaf) < Len(d) /\ SubSeq(d, 1, Len(leaf)) = leaf
          BY <2>2, <3>1, <3>3
        <4>2. d \in Below(t, leaf)
          <5>1. Below(t, leaf) = {e \in DOMAIN t : Len(leaf) < Len(e) /\ SubSeq(e, 1, Len(leaf)) = leaf}
            BY <1>1, BelowIs
          <5> QED
            BY <2>1, <4>1, <5>1
        <4> QED
          BY <4>2
      <3> QED
        BY <3>2, <3>3
    <2> QED
      BY <1>1, <2>2, <2>3
  <1>6. Trie(u)
    <2>1. u = [d \in DOMAIN u |-> u[d]]
      OBVIOUS
    <2>2. \A d \in DOMAIN u : RingIs(u[d])
      BY <1>2 DEF Trie
    <2>3. \A d \in DOMAIN u : NodeIs(u, d)
      BY <1>4, <1>5 DEF NodeIs
    <2>4. ASSUME NEW d \in DOMAIN u, NEW e \in DOMAIN u, Sz(u, d) = Sz(u, e) PROVE d = e
      <3>1. from(d) \in DOMAIN t /\ from(e) \in DOMAIN t /\ Sz(t, from(d)) = Sz(t, from(e))
        BY <1>2, <1>3, <2>4
      <3>2. from(d) = from(e)
        BY <3>1 DEF Trie
      <3> QED
        BY <1>2, <3>2
    <2> QED
      BY <2>1, <2>2, <2>3, <2>4 DEF Trie
  <1>7. LargeChunks(u) = LargeChunks(t) \ ToSet(t[node])
    <2> HIDE DEF from
    <2>1. ASSUME NEW x \in LargeChunks(u) PROVE x \in LargeChunks(t) \ ToSet(t[node])
      <3>1. PICK d \in DOMAIN u : x \in ToSet(u[d])
        BY DEF LargeChunks
      <3>2. from(d) \in DOMAIN t /\ from(d) # node /\ x \in ToSet(t[from(d)])
        BY <1>2, <3>1
      <3>3. x \notin ToSet(t[node])
        BY <3>2, OneRing
      <3> QED
        BY <3>2, <3>3 DEF LargeChunks
    <2>2. ASSUME NEW x \in LargeChunks(t), x \notin ToSet(t[node]) PROVE x \in LargeChunks(u)
      <3>1. PICK e \in DOMAIN t : x \in ToSet(t[e]) /\ e # node
        BY <2>2 DEF LargeChunks
      <3>2. PICK d \in DOMAIN u : from(d) = e
        BY <1>2, <3>1
      <3>3. x \in ToSet(u[d])
        BY <1>2, <3>1, <3>2
      <3> QED
        BY <3>3 DEF LargeChunks
    <2> QED
      BY <2>1, <2>2
  <1> QED
    BY <1>6, <1>7

(* The place of a size: its node, or one that is free below others.        *)
LEMMA PlaceIs ==
    ASSUME NEW t, Trie(t), NEW S \in LargeSize
    PROVE  \E p \in Turns(S) :
              /\ PlaceFor(t, size, S) = PathNode(S, p)
              /\ PathNode(S, p) \in DOMAIN t => Sz(t, PathNode(S, p)) = S
              /\ PathNode(S, p) \notin DOMAIN t => \A d \in DOMAIN t : Sz(t, d) # S
              /\ \A n \in 0..(p - 1) : PathNode(S, n) \in DOMAIN t
  <1> DEFINE C == {n \in Turns(S) : PathNode(S, n) \notin DOMAIN t \/ NodeSize(t, size, PathNode(S, n)) = S}
  <1>1. /\ Turns(S) = 0..Bits(Index(S)) /\ Bits(Index(S)) \in Nat /\ Turns(S) \subseteq Nat
        /\ Bits(Index(S)) \in Turns(S)
    BY TurnsAre
  <1>2. Bits(Index(S)) \in C
    <2> SUFFICES ASSUME NEW d \in DOMAIN t, d = PathNode(S, Bits(Index(S))) PROVE Sz(t, d) = S
      BY <1>1 DEF Sz
    <2>1. Sz(t, d) \in LargeSize /\ Len(d) - 1 \in Turns(Sz(t, d)) /\ d = PathNode(Sz(t, d), Len(d) - 1)
      BY NodeOnWay
    <2>2. PICK T \in LargeSize : T = Sz(t, d)
      BY <2>1
    <2>3. PICK m \in Turns(T) : PathNode(S, Bits(Index(S))) = PathNode(T, m)
      BY <2>1, <2>2
    <2>4. S = T
      BY <2>3, WholeWay
    <2> QED
      BY <2>2, <2>4
  <1>3. PICK p \in C : p = Min(C) /\ \A u \in C : p <= u
    <2>1. C \in SUBSET Nat /\ C # {}
      BY <1>1, <1>2
    <2> HIDE DEF C
    <2>2. \E p \in C : \A u \in C : p <= u
      BY <2>1, LeastExists
    <2>3. Min(C) \in C /\ \A u \in C : Min(C) <= u
      BY <2>2 DEF Min
    <2> QED
      BY <2>3
  <1>4. p \in Turns(S) /\ p \in Nat
    BY <1>1, <1>3
  <1>5. PlaceFor(t, size, S) = PathNode(S, p)
    BY <1>3 DEF PlaceFor
  <1>6. PathNode(S, p) \in DOMAIN t => Sz(t, PathNode(S, p)) = S
    BY <1>3 DEF Sz
  <1>7. \A n \in 0..(p - 1) : PathNode(S, n) \in DOMAIN t
    <2> TAKE n \in 0..(p - 1)
    <2>1. n \in Turns(S) /\ ~(p <= n)
      BY <1>1, <1>4
    <2>2. n \notin C
      BY <1>3, <2>1
    <2> QED
      BY <2>1, <2>2
  <1>8. ASSUME PathNode(S, p) \notin DOMAIN t, NEW d \in DOMAIN t, Sz(t, d) = S PROVE FALSE
    <2>1. Len(d) \in Nat /\ Len(d) >= 1 /\ Len(d) - 1 \in Turns(S) /\ d = PathNode(S, Len(d) - 1)
      BY <1>8, NodeOnWay
    <2>2. Len(d) - 1 \in C
      BY <1>8, <2>1 DEF Sz
    <2>3. p <= Len(d) - 1
      BY <1>3, <2>2
    <2>4. p + 1 \in 1..Len(d) /\ (p + 1) - 1 = p
      BY <1>4, <2>1, <2>3
    <2>5. SubSeq(d, 1, p + 1) \in DOMAIN t /\ SubSeq(d, 1, p + 1) = PathNode(Sz(t, d), (p + 1) - 1)
      BY <2>4, NodesAbove
    <2> QED
      BY <1>8, <2>4, <2>5
  <1> QED
    BY <1>4, <1>5, <1>6, <1>7, <1>8

(* insert_large_chunk *)
LEMMA Inserted ==
    ASSUME NEW t, Trie(t), NEW x \in Chunk, x \notin LargeChunks(t),
           NEW u, u = insert_large_chunk(t, size, x)
    PROVE  /\ Trie(u) /\ LargeChunks(u) = LargeChunks(t) \cup {x}
           /\ \A d \in DOMAIN u :
                 \/ d \in DOMAIN t /\ u[d] = t[d]
                 \/ u[d] = <<x>>
                 \/ d \in DOMAIN t /\ u[d] = Append(t[d], x) /\ Sz(t, d) = size[x]
  <1>1. size[x] \in LargeSize
    BY TreeUseAssumption
  <1>2. PICK S \in LargeSize : S = size[x]
    BY <1>1
  <1>3. PICK p \in Turns(S) :
              /\ PlaceFor(t, size, S) = PathNode(S, p)
              /\ PathNode(S, p) \in DOMAIN t => Sz(t, PathNode(S, p)) = S
              /\ PathNode(S, p) \notin DOMAIN t => \A d \in DOMAIN t : Sz(t, d) # S
              /\ \A n \in 0..(p - 1) : PathNode(S, n) \in DOMAIN t
    BY PlaceIs
  <1>4. PICK place : place = PathNode(S, p)
    OBVIOUS
  <1>5. u = [d \in DOMAIN t \cup {place} |-> IF d = place THEN Append(Ring(t, d), x) ELSE t[d]]
    BY <1>2, <1>3, <1>4 DEF insert_large_chunk
  <1>6. CASE place \in DOMAIN t
    <2>1. Sz(t, place) = S /\ DOMAIN t \cup {place} = DOMAIN t /\ RingIs(t[place])
      <3>1. Sz(t, place) = S
        BY <1>3, <1>4, <1>6
      <3> QED
        BY <1>6, <3>1 DEF Trie
    <2>2. PICK new : new = Append(t[place], x)
      OBVIOUS
    <2>3. u = [d \in DOMAIN t |-> IF d = place THEN new ELSE t[d]]
      BY <1>5, <1>6, <2>1, <2>2 DEF Ring
    <2>4. x \notin ToSet(t[place]) /\ size[x] = size[t[place][1]]
      BY <1>2, <1>6, <2>1 DEF LargeChunks, Sz, NodeSize
    <2>5. RingIs(new) /\ new[1] = t[place][1] /\ ToSet(new) = ToSet(t[place]) \cup {x}
      <3>1. PICK ring : ring = t[place]
        OBVIOUS
      <3>2. RingIs(ring) /\ x \notin ToSet(ring) /\ size[x] = size[ring[1]] /\ new = Append(ring, x)
        BY <2>1, <2>2, <2>4, <3>1
      <3>3. RingIs(new)
        BY <3>2, RingAppend
      <3>4. new[1] = ring[1]
        BY <3>2, RingAppend
      <3>5. ToSet(new) = ToSet(ring) \cup {x}
        BY <3>2, RingAppend
      <3> QED
        BY <3>1, <3>3, <3>4, <3>5
    <2>6. \A d \in DOMAIN t : RingIs(u[d]) /\ Sz(u, d) = Sz(t, d)
      BY <2>3, <2>5 DEF Trie, Sz, NodeSize
    <2>7. u = [d \in DOMAIN t |-> u[d]] /\ DOMAIN u = DOMAIN t
      BY <2>3
    <2>8. Trie(u)
      BY <2>6, <2>7, SameShape
    <2>9. LargeChunks(u) = LargeChunks(t) \cup {x}
      BY <1>6, <2>3, <2>5 DEF LargeChunks
    <2> QED
      BY <1>2, <2>1, <2>2, <2>3, <2>8, <2>9
  <1>7. CASE place \notin DOMAIN t
    <2>1. \A d \in DOMAIN t : Sz(t, d) # S
      BY <1>3, <1>4, <1>7
    <2>2. Append(Ring(t, place), x) = <<x>>
      BY <1>7 DEF Ring
    <2>3. u = [d \in DOMAIN t \cup {place} |-> IF d = place THEN <<x>> ELSE t[d]]
      BY <1>5, <2>2
    <2>4. RingIs(<<x>>) /\ <<x>>[1] = x /\ ToSet(<<x>>) = {x}
      BY RingOne
    <2>5. /\ DOMAIN u = DOMAIN t \cup {place} /\ u[place] = <<x>> /\ Sz(u, place) = S
          /\ \A d \in DOMAIN t : u[d] = t[d] /\ Sz(u, d) = Sz(t, d)
      BY <1>2, <1>7, <2>3, <2>4 DEF Sz, NodeSize
    <2>6. \A d \in DOMAIN u : RingIs(u[d])
      BY <2>4, <2>5 DEF Trie
    <2>7. NodeIs(u, place)
      <3>1. Len(place) = p + 1 /\ p \in Nat
        BY <1>4, PathIs
      <3>2. ASSUME NEW n \in 1..Len(place) PROVE SubSeq(place, 1, n) \in DOMAIN u
        <4>1. n - 1 \in 0..p /\ (n - 1) + 1 = n
          BY <3>1
        <4>2. SubSeq(place, 1, n) = PathNode(S, n - 1)
          BY <1>4, <4>1, PathPrefix
        <4>3. n - 1 \in 0..(p - 1) \/ n - 1 = p
          BY <3>1, <4>1
        <4> QED
          BY <1>3, <1>4, <2>5, <4>2, <4>3
      <3> QED
        BY <1>4, <2>5, <3>2 DEF NodeIs
    <2>8. \A d \in DOMAIN t : NodeIs(u, d)
      BY <2>5 DEF Trie, NodeIs
    <2>9. \A d, e \in DOMAIN u : Sz(u, d) = Sz(u, e) => d = e
      BY <2>1, <2>5 DEF Trie
    <2>10. u = [d \in DOMAIN u |-> u[d]]
      BY <2>3
    <2>11. Trie(u)
      BY <2>5, <2>6, <2>7, <2>8, <2>9, <2>10 DEF Trie
    <2>12. LargeChunks(u) = LargeChunks(t) \cup {x}
      BY <2>4, <2>5 DEF LargeChunks
    <2> QED
      BY <2>5, <2>11, <2>12
  <1> QED
    BY <1>6, <1>7

(* unlink_large_chunk: every ring that is left was one before, perhaps     *)
(* with x in it.                                                           *)
LEMMA Unlinked ==
    ASSUME NEW t, Trie(t), NEW x \in LargeChunks(t), NEW u, u = unlink_large_chunk(t, x)
    PROVE  /\ Trie(u) /\ LargeChunks(u) = LargeChunks(t) \ {x}
           /\ \A d \in DOMAIN u : \E e \in DOMAIN t :
                 \/ u[d] = t[e]
                 \/ \E k \in 1..Len(t[e]) :
                       \A j \in 1..Len(u[d]) :
                          /\ Len(u[d]) = Len(t[e]) - 1
                          /\ u[d][j] = t[e][IF j < k THEN j ELSE j + 1]
  <1>1. PICK node \in DOMAIN t : node = NodeOf(t, x) /\ x \in ToSet(t[node])
    BY DEF LargeChunks, NodeOf
  <1>2. RingIs(t[node]) /\ DOMAIN t[node] = 1..Len(t[node])
    BY RingSize DEF Trie
  <1>3. PICK k \in 1..Len(t[node]) : k = (CHOOSE i \in DOMAIN t[node] : t[node][i] = x) /\ t[node][k] = x
    BY <1>1, <1>2 DEF ToSet
  <1>4. PICK others : others = RemoveAt(t[node], k)
    OBVIOUS
  <1>5. /\ others \in Seq(Chunk) /\ Len(others) = Len(t[node]) - 1
        /\ ToSet(others) = ToSet(t[node]) \ {x}
        /\ \A j \in 1..Len(others) : others[j] = t[node][IF j < k THEN j ELSE j + 1]
        /\ others # << >> => RingIs(others) /\ size[others[1]] = size[t[node][1]]
        /\ others = << >> => ToSet(t[node]) = {x}
    <2>1. PICK ring : ring = t[node]
      OBVIOUS
    <2>2. RingIs(ring) /\ k \in 1..Len(ring) /\ others = RemoveAt(ring, k) /\ ring[k] = x
      BY <1>2, <1>3, <1>4, <2>1
    <2>3. /\ others \in Seq(Chunk) /\ Len(others) = Len(ring) - 1
          /\ ToSet(others) = ToSet(ring) \ {ring[k]}
          /\ \A j \in 1..Len(others) : others[j] = ring[IF j < k THEN j ELSE j + 1]
          /\ others # << >> => RingIs(others) /\ size[others[1]] = size[ring[1]]
          /\ others = << >> => ToSet(ring) = {ring[k]}
      BY <2>2, RingRemove
    <2> QED
      BY <2>1, <2>2, <2>3
  <1>6. PICK leaf : leaf = RightmostLeaf(t, node)
    OBVIOUS
  <1> DEFINE gone == CASE others # << >> -> {}
                       [] others = << >> /\ Below(t, node) = {} -> {node}
                       [] OTHER -> {leaf}
  <1>7. u = [d \in DOMAIN t \ gone |-> IF d # node THEN t[d] ELSE IF others # << >> THEN others ELSE t[leaf]]
    BY <1>1, <1>3, <1>4, <1>6 DEF unlink_large_chunk
  <1>8. CASE others # << >>
    <2>1. u = [d \in DOMAIN t |-> IF d # node THEN t[d] ELSE others]
      BY <1>7, <1>8
    <2>2. DOMAIN u = DOMAIN t /\ u[node] = others /\ \A d \in DOMAIN t : d # node => u[d] = t[d]
      BY <2>1
    <2>3. \A d \in DOMAIN t : RingIs(u[d]) /\ Sz(u, d) = Sz(t, d)
      BY <1>5, <1>8, <2>2 DEF Trie, Sz, NodeSize
    <2>4. u = [d \in DOMAIN t |-> u[d]]
      BY <2>1
    <2>5. Trie(u)
      BY <2>2, <2>3, <2>4, SameShape
    <2>6. ASSUME NEW d \in DOMAIN t, d # node PROVE x \notin ToSet(t[d])
      BY <1>1, <2>6, OneRing
    <2>7. LargeChunks(u) = LargeChunks(t) \ {x}
      <3>1. ASSUME NEW y PROVE y \in LargeChunks(u) <=> \E d \in DOMAIN t : y \in ToSet(u[d])
        BY <2>2 DEF LargeChunks
      <3>2. ASSUME NEW y PROVE y \in LargeChunks(t) <=> \E d \in DOMAIN t : y \in ToSet(t[d])
        BY DEF LargeChunks
      <3>3. ASSUME NEW y, NEW d \in DOMAIN t
            PROVE  y \in ToSet(u[d]) <=> y \in ToSet(t[d]) /\ y # x
        BY <1>5, <2>2, <2>6
      <3> QED
        BY <3>1, <3>2, <3>3
    <2>8. ASSUME NEW d \in DOMAIN u
          PROVE  \E e \in DOMAIN t :
                    \/ u[d] = t[e]
                    \/ \E i \in 1..Len(t[e]) :
                          \A j \in 1..Len(u[d]) :
                             /\ Len(u[d]) = Len(t[e]) - 1
                             /\ u[d][j] = t[e][IF j < i THEN j ELSE j + 1]
      <3>1. CASE d # node
        BY <2>2, <3>1
      <3>2. CASE d = node
        BY <1>5, <2>2, <3>2
      <3> QED
        BY <3>1, <3>2
    <2> QED
      BY <2>5, <2>7, <2>8
  <1>9. CASE others = << >>
    <2>1. PICK r \in Below(t, node) \cup {node} :
              Below(t, r) = {} /\ u = [d \in DOMAIN t \ {r} |-> IF d = node THEN t[r] ELSE t[d]]
      <3>1. CASE Below(t, node) = {}
        <4>1. u = [d \in DOMAIN t \ {node} |-> IF d = node THEN t[node] ELSE t[d]]
          BY <1>7, <1>9, <3>1
        <4> QED
          BY <3>1, <4>1
      <3>2. CASE Below(t, node) # {}
        <4>1. leaf \in Below(t, node) /\ Below(t, leaf) = {}
          BY <1>6, <3>2, LeafExists DEF RightmostLeaf
        <4>2. u = [d \in DOMAIN t \ {leaf} |-> IF d = node THEN t[leaf] ELSE t[d]]
          BY <1>7, <1>9, <3>2
        <4> QED
          BY <4>1, <4>2
      <3> QED
        BY <3>1, <3>2
    <2>2. Trie(u) /\ LargeChunks(u) = LargeChunks(t) \ ToSet(t[node])
      <3>1. /\ DOMAIN u = DOMAIN t \ {r} /\ u = [d \in DOMAIN u |-> u[d]]
            /\ \A d \in DOMAIN u : u[d] = t[IF d = node THEN r ELSE d]
        BY <2>1
      <3> QED
        BY <2>1, <3>1, LeafMoved
    <2>3. r \in DOMAIN t
      BY <2>1, BelowIs
    <2>4. \A d \in DOMAIN u : \E e \in DOMAIN t : u[d] = t[e]
      BY <2>1, <2>3
    <2> QED
      BY <1>5, <1>9, <2>2, <2>4
  <1> QED
    BY <1>8, <1>9

-----------------------------------------------------------------------------
(* The invariant of TreeSpec: the tries are what they should be, they hold *)
(* what was put in, and rings are in the order of time.                    *)

RingOrder ==
    \A d \in DOMAIN tree : \A i, j \in 1..Len(tree[d]) : i < j => <<tree[d][i], tree[d][j]>> \in older

TreeInv ==
    /\ Trie(tree)
    /\ LargeChunks(tree) = binned /\ binned \subseteq Chunk
    /\ RingOrder

LEMMA TreeInvInit == TreeInit => TreeInv
  <1> SUFFICES ASSUME TreeInit PROVE TreeInv
    OBVIOUS
  <1>1. tree = [d \in DOMAIN tree |-> tree[d]] /\ DOMAIN tree = {} /\ binned = {}
    BY DEF TreeInit, EmptyBins
  <1> QED
    BY <1>1 DEF TreeInv, Trie, RingOrder, LargeChunks

LEMMA RingOf ==
    ASSUME NEW t, Trie(t), NEW d \in DOMAIN t
    PROVE  /\ Len(t[d]) \in Nat /\ Len(t[d]) >= 1
           /\ \A j \in 1..Len(t[d]) :
                 t[d][j] \in ToSet(t[d]) /\ t[d][j] \in LargeChunks(t) /\ size[t[d][j]] = Sz(t, d)
           /\ \A x \in ToSet(t[d]) : \E j \in 1..Len(t[d]) : t[d][j] = x
           /\ \A i, j \in 1..Len(t[d]) : i # j => t[d][i] # t[d][j]
  <1>1. RingIs(t[d])
    BY DEF Trie
  <1>2. /\ Len(t[d]) \in Nat /\ Len(t[d]) >= 1 /\ DOMAIN t[d] = 1..Len(t[d])
        /\ \A j \in 1..Len(t[d]) : size[t[d][j]] = size[t[d][1]]
    BY <1>1, RingSize
  <1> QED
    BY <1>1, <1>2 DEF RingIs, ToSet, LargeChunks, Sz, NodeSize

LEMMA InsertKeeps == ASSUME TreeInv, NEW x \in Chunk, Insert(x) PROVE TreeInv'
  <1>1. Trie(tree) /\ LargeChunks(tree) = binned /\ x \notin LargeChunks(tree)
    BY DEF TreeInv, Insert
  <1>2. tree' = insert_large_chunk(tree, size, x) /\ binned' = binned \cup {x}
    BY DEF Insert
  <1>3. /\ Trie(tree') /\ LargeChunks(tree') = LargeChunks(tree) \cup {x}
        /\ \A d \in DOMAIN tree' :
              \/ d \in DOMAIN tree /\ tree'[d] = tree[d]
              \/ tree'[d] = <<x>>
              \/ d \in DOMAIN tree /\ tree'[d] = Append(tree[d], x) /\ Sz(tree, d) = size[x]
    BY <1>1, <1>2, Inserted
  <1>4. ASSUME NEW d \in DOMAIN tree', NEW i \in 1..Len(tree'[d]), NEW j \in 1..Len(tree'[d]), i < j
        PROVE  <<tree'[d][i], tree'[d][j]>> \in older'
    <2>1. older \subseteq older' /\ \A y \in binned : size[y] = size[x] => <<y, x>> \in older'
      BY DEF Insert
    <2>2. CASE d \in DOMAIN tree /\ tree'[d] = tree[d]
      BY <1>4, <2>1, <2>2 DEF TreeInv, RingOrder
    <2>3. CASE tree'[d] = <<x>>
      BY <1>4, <2>3
    <2>4. CASE d \in DOMAIN tree /\ tree'[d] = Append(tree[d], x) /\ Sz(tree, d) = size[x]
      <3>1. PICK ring : ring = tree[d] /\ tree'[d] = Append(ring, x) /\ RingIs(ring)
        BY <1>1, <2>4 DEF Trie
      <3>2. Len(ring) \in Nat /\ ring \in Seq(Chunk)
        BY <3>1, RingSize DEF RingIs
      <3>3. Len(tree'[d]) = Len(ring) + 1 /\ tree'[d][Len(ring) + 1] = x
            /\ \A k \in 1..Len(ring) : tree'[d][k] = ring[k]
        BY <3>1, <3>2, AppendProperties
      <3>4. i \in 1..Len(ring) /\ tree'[d][i] = ring[i]
        BY <1>4, <3>2, <3>3
      <3>5. CASE j \in 1..Len(ring)
        <4>1. tree'[d][j] = ring[j] /\ <<ring[i], ring[j]>> \in older
          BY <1>4, <2>4, <3>1, <3>3, <3>4, <3>5 DEF TreeInv, RingOrder
        <4> QED
          BY <2>1, <3>4, <4>1
      <3>6. CASE j \notin 1..Len(ring)
        <4>1. tree'[d][j] = x
          BY <3>2, <3>3, <3>6
        <4>2. ring[i] \in binned /\ size[ring[i]] = size[x]
          BY <1>1, <2>4, <3>1, <3>4, RingOf
        <4> QED
          BY <2>1, <3>4, <4>1, <4>2
      <3> QED
        BY <3>5, <3>6
    <2> QED
      BY <1>3, <2>2, <2>3, <2>4
  <1>5. RingOrder'
    BY <1>4 DEF RingOrder
  <1> QED
    BY <1>1, <1>2, <1>3, <1>5 DEF TreeInv

LEMMA UnlinkKeeps == ASSUME TreeInv, NEW x \in Chunk, Unlink(x) PROVE TreeInv'
  <1>1. Trie(tree) /\ LargeChunks(tree) = binned /\ x \in LargeChunks(tree)
    BY DEF TreeInv, Unlink
  <1>2. tree' = unlink_large_chunk(tree, x) /\ binned' = binned \ {x}
    BY DEF Unlink
  <1>3. /\ Trie(tree') /\ LargeChunks(tree') = LargeChunks(tree) \ {x}
        /\ \A d \in DOMAIN tree' : \E e \in DOMAIN tree :
              \/ tree'[d] = tree[e]
              \/ \E k \in 1..Len(tree[e]) :
                    \A j \in 1..Len(tree'[d]) :
                       /\ Len(tree'[d]) = Len(tree[e]) - 1
                       /\ tree'[d][j] = tree[e][IF j < k THEN j ELSE j + 1]
    BY <1>1, <1>2, Unlinked
  <1>4. ASSUME NEW d \in DOMAIN tree', NEW i \in 1..Len(tree'[d]), NEW j \in 1..Len(tree'[d]), i < j
        PROVE  <<tree'[d][i], tree'[d][j]>> \in older'
    <2>1. tree'[d][i] # x /\ tree'[d][j] # x
      BY <1>3, RingOf
    <2>2. PICK e \in DOMAIN tree :
              \/ tree'[d] = tree[e]
              \/ \E k \in 1..Len(tree[e]) :
                    \A n \in 1..Len(tree'[d]) :
                       /\ Len(tree'[d]) = Len(tree[e]) - 1
                       /\ tree'[d][n] = tree[e][IF n < k THEN n ELSE n + 1]
      BY <1>3
    <2>3. Len(tree[e]) \in Nat /\ Len(tree'[d]) \in Nat
      BY <1>1, <1>3, RingOf
    <2>4. \E a, b \in 1..Len(tree[e]) : a < b /\ tree'[d][i] = tree[e][a] /\ tree'[d][j] = tree[e][b]
      <3>1. CASE tree'[d] = tree[e]
        BY <1>4, <3>1
      <3>2. CASE \E k \in 1..Len(tree[e]) :
                    \A n \in 1..Len(tree'[d]) :
                       /\ Len(tree'[d]) = Len(tree[e]) - 1
                       /\ tree'[d][n] = tree[e][IF n < k THEN n ELSE n + 1]
        <4>1. PICK k \in 1..Len(tree[e]) :
                    \A n \in 1..Len(tree'[d]) :
                       /\ Len(tree'[d]) = Len(tree[e]) - 1
                       /\ tree'[d][n] = tree[e][IF n < k THEN n ELSE n + 1]
          BY <3>2
        <4>2. PICK a, b : a = (IF i < k THEN i ELSE i + 1) /\ b = (IF j < k THEN j ELSE j + 1)
          OBVIOUS
        <4>3. Len(tree'[d]) = Len(tree[e]) - 1 /\ tree'[d][i] = tree[e][a] /\ tree'[d][j] = tree[e][b]
          BY <4>1, <4>2
        <4>4. a \in 1..Len(tree[e]) /\ b \in 1..Len(tree[e]) /\ a < b
          BY <1>4, <2>3, <4>2, <4>3
        <4> QED
          BY <4>3, <4>4
      <3> QED
        BY <2>2, <3>1, <3>2
    <2>5. <<tree'[d][i], tree'[d][j]>> \in older
      BY <2>4 DEF TreeInv, RingOrder
    <2> QED
      BY <2>1, <2>5 DEF Unlink
  <1>5. RingOrder'
    BY <1>4 DEF RingOrder
  <1>6. binned' \subseteq Chunk
    BY <1>2 DEF TreeInv
  <1> QED
    BY <1>1, <1>2, <1>3, <1>5, <1>6 DEF TreeInv

LEMMA TreeInvStep == TreeInv /\ [TreeNext]_treeVars => TreeInv'
  <1> SUFFICES ASSUME TreeInv, [TreeNext]_treeVars PROVE TreeInv'
    OBVIOUS
  <1>1. CASE TreeNext
    BY <1>1, InsertKeeps, UnlinkKeeps DEF TreeNext
  <1>2. CASE UNCHANGED treeVars
    BY <1>2 DEF TreeInv, RingOrder, treeVars
  <1> QED
    BY <1>1, <1>2

LEMMA TreeInvAlways == TreeSpec => []TreeInv
  BY TreeInvInit, TreeInvStep, PTL DEF TreeSpec

LEMMA InvIsSound == TreeInv => TreesSound
  <1> SUFFICES ASSUME TreeInv PROVE TreesSound
    OBVIOUS
  <1>1. Trie(tree) /\ LargeChunks(tree) = binned
    BY DEF TreeInv
  <1>2. ASSUME NEW d \in DOMAIN tree
        PROVE  /\ tree[d] # << >>
               /\ Len(d) > 1 => Front(d) \in DOMAIN tree
               /\ \A x \in ToSet(tree[d]) : size[x] = Sz(tree, d) /\ d = PathNode(size[x], Len(d) - 1)
    <2>1. tree[d] # << >>
      BY <1>1 DEF Trie, RingIs
    <2>2. Len(d) > 1 => Front(d) \in DOMAIN tree
      <3> HAVE Len(d) > 1
      <3>1. Len(d) \in Nat
        BY <1>1, NodeOnWay
      <3>2. Len(d) - 1 \in 1..Len(d)
        BY <3>1
      <3> QED
        BY <1>1, <3>2, NodesAbove DEF Front
    <2>3. \A x \in ToSet(tree[d]) : size[x] = Sz(tree, d)
      BY <1>1, OneRing
    <2>4. d = PathNode(Sz(tree, d), Len(d) - 1)
      BY <1>1, NodeOnWay
    <2> QED
      BY <2>1, <2>2, <2>3, <2>4
  <1>3. \A d, e \in DOMAIN tree : d # e => Sz(tree, d) # Sz(tree, e)
    BY <1>1 DEF Trie
  <1> QED
    BY <1>1, <1>2, <1>3 DEF TreesSound, Sz

-----------------------------------------------------------------------------
(* The search. *)

LEMMA LeastNode ==
    ASSUME NEW t, Trie(t), NEW Q \in SUBSET DOMAIN t, Q # {}
    PROVE  \E d \in Q : \A e \in Q : Sz(t, d) <= Sz(t, e)
  <1> DEFINE sizes == {Sz(t, d) : d \in Q}
  <1>1. sizes \subseteq Nat /\ sizes # {}
    BY NodeOnWay
  <1> HIDE DEF sizes
  <1>2. PICK r \in sizes : \A u \in sizes : r <= u
    BY <1>1, LeastExists
  <1> QED
    BY <1>2 DEF sizes

LEMMA LongestNode ==
    ASSUME NEW t, Trie(t), NEW Q \in SUBSET DOMAIN t, Q # {}
    PROVE  \E d \in Q : \A e \in Q : Len(e) <= Len(d)
  <1> DEFINE Room == {SizeBits + 1 - Len(d) : d \in Q}
  <1>1. \A d \in Q : Len(d) \in Nat /\ Len(d) <= SizeBits + 1
    BY NodeOnWay
  <1>2. Room \subseteq Nat /\ Room # {}
    BY <1>1, Constants
  <1> HIDE DEF Room
  <1>3. PICK r \in Room : \A u \in Room : r <= u
    BY <1>2, LeastExists
  <1>4. PICK d \in Q : r = SizeBits + 1 - Len(d)
    BY <1>3 DEF Room
  <1>5. \A e \in Q : SizeBits + 1 - Len(d) <= SizeBits + 1 - Len(e)
    BY <1>3, <1>4 DEF Room
  <1> QED
    BY <1>1, <1>4, <1>5, Constants

LEMMA SmallestIs ==
    ASSUME NEW t, Trie(t), NEW Q \in SUBSET DOMAIN t, Q # {}
    PROVE  Smallest(t, size, Q) \in Q /\ \A d \in Q : Sz(t, Smallest(t, size, Q)) <= Sz(t, d)
  <1>1. \E d \in Q : \A e \in Q : NodeSize(t, size, d) <= NodeSize(t, size, e)
    BY LeastNode DEF Sz
  <1> QED
    BY <1>1 DEF Smallest, Sz

LEMMA DeepestIs ==
    ASSUME NEW t, Trie(t), NEW Q \in SUBSET DOMAIN t, Q # {}
    PROVE  Deepest(Q) \in Q /\ \A d \in Q : Len(d) <= Len(Deepest(Q))
  BY LongestNode DEF Deepest

(* Later bins have larger sizes. *)
LEMMA LaterIsLarger ==
    ASSUME NEW S \in LargeSize, NEW T \in LargeSize, Index(S) < Index(T)
    PROVE  S < T
  <1>1. S \in Nat /\ T \in Nat /\ Index(S) \in Nat /\ Index(T) \in Nat
    BY TurnsAre
  <1>2. T <= S => Index(T) <= Index(S)
    BY IndexOrder
  <1> QED
    BY <1>1, <1>2

(* The nodes at and below one are on its way. *)
LEMMA InSubtree ==
    ASSUME NEW t, Trie(t), NEW s \in DOMAIN t, NEW e \in Below(t, s) \cup {s}
    PROVE  /\ e \in DOMAIN t /\ Len(s) \in 1..Len(e) /\ SubSeq(e, 1, Len(s)) = s
           /\ Len(s) - 1 \in Turns(Sz(t, e)) /\ PathNode(Sz(t, e), Len(s) - 1) = s
  <1>1. e \in DOMAIN t /\ Len(s) <= Len(e) /\ SubSeq(e, 1, Len(s)) = s
    <2>1. CASE e = s
      <3>1. s \in Seq(Nat) /\ Len(s) \in Nat
        BY NodeOnWay
      <3> QED
        BY <2>1, <3>1, SubSeqFull
    <2>2. CASE e # s
      <3>1. e \in DOMAIN t /\ Len(s) < Len(e) /\ SubSeq(e, 1, Len(s)) = s
        BY <2>2, BelowIs
      <3>2. Len(s) \in Nat /\ Len(e) \in Nat
        BY <3>1, NodeOnWay
      <3> QED
        BY <3>1, <3>2
    <2> QED
      BY <2>1, <2>2
  <1>2. PICK n \in 1..Len(e) : n = Len(s)
    <2>1. Len(s) \in Nat /\ Len(s) >= 1 /\ Len(e) \in Nat
      BY <1>1, NodeOnWay
    <2>2. Len(s) \in 1..Len(e)
      BY <1>1, <2>1
    <2> QED
      BY <2>2
  <1>3. n - 1 \in Turns(Sz(t, e)) /\ SubSeq(e, 1, n) = PathNode(Sz(t, e), n - 1)
    BY <1>1, NodesAbove
  <1> QED
    BY <1>1, <1>2, <1>3

LEMMA SubtreeIs ==
    ASSUME NEW t, Trie(t), NEW s \in DOMAIN t, NEW e \in DOMAIN t,
           Len(s) <= Len(e), SubSeq(e, 1, Len(s)) = s
    PROVE  e \in Below(t, s) \cup {s}
  <1>1. Len(s) \in Nat /\ Len(e) \in Nat /\ e \in Seq(Nat)
    BY NodeOnWay
  <1>2. CASE Len(s) = Len(e)
    BY <1>1, <1>2, SubSeqFull
  <1>3. CASE Len(s) # Len(e)
    <2>1. Len(s) < Len(e)
      BY <1>1, <1>3
    <2> QED
      BY <2>1, BelowIs
  <1> QED
    BY <1>2, <1>3

LEMMA ChainInSubtree ==
    ASSUME NEW t, Trie(t), NEW s \in DOMAIN t
    PROVE  LeftmostChain(t, s) \subseteq Below(t, s) \cup {s} /\ LeftmostChain(t, s) \subseteq DOMAIN t
  BY BelowIs DEF LeftmostChain

(* The first root of the bins from i on, and the way down from it.         *)
LEMMA RootsIndex ==
    ASSUME NEW t, Trie(t), NEW d \in DOMAIN t
    PROVE  <<d[1]>> \in DOMAIN t /\ SubSeq(d, 1, 1) = <<d[1]>> /\ d[1] = Index(Sz(t, d)) /\ d[1] \in Nat
  <1>1. d \in Seq(Nat) /\ Len(d) \in Nat /\ Len(d) >= 1 /\ d[1] = Index(Sz(t, d)) /\ Sz(t, d) \in LargeSize
    BY NodeOnWay
  <1>2. 1 \in 1..Len(d) /\ 1 \in 0..Len(d)
    BY <1>1
  <1>3. SubSeq(d, 1, 1) \in DOMAIN t
    BY <1>2, NodesAbove
  <1>4. SubSeq(d, 1, 1) \in Seq(Nat) /\ Len(SubSeq(d, 1, 1)) = 1 /\ \A j \in 1..1 : SubSeq(d, 1, 1)[j] = d[j]
    BY <1>1, <1>2, BeginningIs
  <1>5. d[1] \in Nat
    BY <1>1, TurnsAre
  <1>6. <<d[1]>> \in Seq(Nat) /\ Len(<<d[1]>>) = 1 /\ <<d[1]>>[1] = d[1]
    BY <1>5
  <1>7. SubSeq(d, 1, 1) = <<d[1]>>
    <2>1. PICK a, b : a = SubSeq(d, 1, 1) /\ b = <<d[1]>>
      OBVIOUS
    <2>2. /\ a \in Seq(Nat) /\ b \in Seq(Nat) /\ Len(a) = Len(b)
          /\ \A j \in 1..Len(a) : a[j] = b[j]
      BY <1>4, <1>6, <2>1
    <2>3. a = b
      BY <2>2, SeqEqual
    <2> QED
      BY <2>1, <2>3
  <1> QED
    BY <1>1, <1>3, <1>5, <1>7

LEMMA NextBin ==
    ASSUME NEW t, Trie(t), NEW i \in Nat, ~NoRoot(t, i),
           NEW chain, chain = LeftmostChain(t, FirstRoot(t, i))
    PROVE  /\ chain \subseteq DOMAIN t /\ \A d \in chain : Index(Sz(t, d)) >= i
           /\ \E d \in chain : \A g \in DOMAIN t : Index(Sz(t, g)) >= i => Sz(t, d) <= Sz(t, g)
  <1> DEFINE roots == {node[1] : node \in {d \in DOMAIN t : Len(d) = 1 /\ d[1] >= i}}
  <1>1. ASSUME NEW g \in DOMAIN t, g[1] >= i PROVE g[1] \in roots
    <2>1. PICK r \in DOMAIN t : r = <<g[1]>>
      BY RootsIndex
    <2>2. Len(r) = 1 /\ r[1] = g[1]
      BY <2>1
    <2> QED
      BY <1>1, <2>1, <2>2
  <1>2. PICK j \in roots : j = Min(roots) /\ \A r \in roots : j <= r
    <2>1. roots \in SUBSET Nat
      BY RootsIndex
    <2>2. roots # {}
      <3>1. PICK g \in DOMAIN t : ~(g[1] < i)
        BY DEF NoRoot
      <3>2. g[1] \in Nat
        BY RootsIndex
      <3> QED
        BY <1>1, <3>1, <3>2
    <2> HIDE DEF roots
    <2>3. \E r \in roots : \A u \in roots : r <= u
      BY <2>1, <2>2, LeastExists
    <2>4. Min(roots) \in roots /\ \A u \in roots : Min(roots) <= u
      BY <2>3 DEF Min
    <2> QED
      BY <2>4
  <1>3. PICK root \in DOMAIN t : root = <<j>>
    BY <1>2, RootsIndex
  <1>4. j >= i /\ j \in Nat
    BY <1>2, RootsIndex
  <1>5. FirstRoot(t, i) = root
    BY <1>2, <1>3 DEF FirstRoot
  <1>6. chain \subseteq DOMAIN t /\ chain \subseteq Below(t, root) \cup {root}
    BY <1>5, ChainInSubtree
  <1> HIDE DEF roots
  <1>7. Len(root) = 1
    BY <1>3
  <1>8. \A d \in chain : Index(Sz(t, d)) = j
    <2> TAKE d \in chain
    <2>1. d \in DOMAIN t /\ SubSeq(d, 1, 1) = root
      BY <1>6, <1>7, InSubtree
    <2>2. <<d[1]>> = <<j>> /\ d[1] = Index(Sz(t, d))
      BY <1>3, <2>1, RootsIndex
    <2> QED
      BY <2>2
  <1>9. PICK d \in chain : \A e \in Below(t, root) \cup {root} : Sz(t, d) <= Sz(t, e)
    BY <1>5, LeastOnChain
  <1>10. ASSUME NEW g \in DOMAIN t, Index(Sz(t, g)) >= i PROVE Sz(t, d) <= Sz(t, g)
    <2>1. g[1] = Index(Sz(t, g)) /\ g[1] \in Nat /\ SubSeq(g, 1, 1) = <<g[1]>> /\ Len(g) >= 1
      BY RootsIndex, NodeOnWay
    <2>2. j <= g[1]
      BY <1>1, <1>2, <1>10, <2>1
    <2>3. CASE g[1] = j
      <3>1. g \in Below(t, root) \cup {root}
        <4>1. Len(root) <= Len(g) /\ SubSeq(g, 1, Len(root)) = root
          BY <1>3, <1>7, <2>1, <2>3
        <4> QED
          BY <4>1, SubtreeIs
      <3> QED
        BY <1>9, <3>1
    <2>4. CASE g[1] # j
      <3>1. Index(Sz(t, d)) < Index(Sz(t, g))
        BY <1>4, <1>8, <2>1, <2>2, <2>4
      <3>2. Sz(t, d) \in LargeSize /\ Sz(t, g) \in LargeSize /\ Sz(t, d) \in Nat /\ Sz(t, g) \in Nat
        BY <1>6, NodeOnWay
      <3>3. Sz(t, d) < Sz(t, g)
        BY <3>1, <3>2, LaterIsLarger
      <3> QED
        BY <3>2, <3>3
    <2> QED
      BY <2>3, <2>4
  <1> QED
    BY <1>4, <1>6, <1>8, <1>9, <1>10

(* The way of nb. *)
Exact(t, nb) == \E d \in DOMAIN t : Sz(t, d) = nb

LEMMA OnPathIs ==
    ASSUME NEW t, Trie(t), NEW nb \in LargeSize, NEW d \in OnPath(t, size, nb)
    PROVE  d \in DOMAIN t /\ Index(Sz(t, d)) = Index(nb)
  <1>1. d \in DOMAIN t /\ \E n \in Turns(nb) : d = PathNode(nb, n)
    BY DEF OnPath
  <1>2. PICK n \in Turns(nb) : d = PathNode(nb, n)
    BY <1>1
  <1>3. d[1] = Index(nb)
    BY <1>2, PathIs
  <1> QED
    BY <1>1, <1>3, NodeOnWay

LEMMA PathIsOn ==
    ASSUME NEW t, Trie(t), NEW nb \in LargeSize, NEW n \in Turns(nb), PathNode(nb, n) \in DOMAIN t,
           ~Exact(t, nb)
    PROVE  PathNode(nb, n) \in OnPath(t, size, nb)
  <1>1. PICK d \in DOMAIN t : d = PathNode(nb, n)
    OBVIOUS
  <1>2. \A k \in 1..(Len(d) - 1) : NodeSize(t, size, SubSeq(d, 1, k)) # nb
    <2> TAKE k \in 1..(Len(d) - 1)
    <2>1. Len(d) \in Nat
      BY NodeOnWay
    <2>2. k \in 1..Len(d)
      BY <2>1
    <2>3. SubSeq(d, 1, k) \in DOMAIN t
      BY <2>2, NodesAbove
    <2> QED
      BY <2>3 DEF Exact, Sz
  <1>3. d \in {PathNode(nb, k) : k \in Turns(nb)}
    BY <1>1
  <1> QED
    BY <1>1, <1>2, <1>3 DEF OnPath

LEMMA ExactIsOn ==
    ASSUME NEW t, Trie(t), NEW d \in DOMAIN t
    PROVE  d \in OnPath(t, size, Sz(t, d))
  <1>1. Len(d) \in Nat /\ Len(d) - 1 \in Turns(Sz(t, d)) /\ d = PathNode(Sz(t, d), Len(d) - 1)
    BY NodeOnWay
  <1>2. \A k \in 1..(Len(d) - 1) : NodeSize(t, size, SubSeq(d, 1, k)) # Sz(t, d)
    <2> TAKE k \in 1..(Len(d) - 1)
    <2>1. k \in 1..Len(d) /\ k # Len(d)
      BY <1>1
    <2>2. SubSeq(d, 1, k) \in DOMAIN t /\ Len(SubSeq(d, 1, k)) = k
      BY <2>1, NodesAbove
    <2>3. SubSeq(d, 1, k) # d
      BY <2>1, <2>2
    <2> QED
      BY <2>2, <2>3 DEF Trie, Sz
  <1>3. d \in {PathNode(Sz(t, d), n) : n \in Turns(Sz(t, d))}
    BY <1>1
  <1> QED
    BY <1>2, <1>3 DEF OnPath

(* The subtrees to the right of the way: s is one, left at turn k.         *)
RightAt(t, nb, s, k) ==
    /\ k \in Turns(nb) /\ k # 0 /\ k - 1 \in Turns(nb) /\ Turn(nb, k) = 0
    /\ s \in DOMAIN t /\ Len(s) = k + 1
    /\ k \in Turns(Sz(t, s)) /\ s = PathNode(Sz(t, s), k)
    /\ k - 1 \in Turns(Sz(t, s)) /\ PathNode(Sz(t, s), k - 1) = PathNode(nb, k - 1)
    /\ Turn(Sz(t, s), k) = 1

LEMMA UntakenIs ==
    ASSUME NEW t, Trie(t), NEW nb \in LargeSize, NEW s \in UntakenRight(t, size, nb)
    PROVE  \E k \in Turns(nb) : RightAt(t, nb, s, k)
  <1>1. PICK k \in Turns(nb) \ {0} :
            LET d == PathNode(nb, k)
            IN  s = Sibling(d) /\ d[Len(d)] = 0 /\ Sibling(d) \in DOMAIN t
    BY DEF UntakenRight
  <1>2. /\ s \in DOMAIN t /\ s = Sibling(PathNode(nb, k))
        /\ PathNode(nb, k)[Len(PathNode(nb, k))] = 0
    BY <1>1
  <1>3. k \in Nat /\ Len(PathNode(nb, k)) = k + 1 /\ \A j \in 1..k : PathNode(nb, k)[j + 1] = Turn(nb, j)
    BY PathIs
  <1>4. k \in 1..k /\ k # 0
    BY <1>3
  <1>5. Turn(nb, k) = 0
    BY <1>2, <1>3, <1>4
  <1>6. PICK T \in LargeSize : T = Sz(t, s)
    BY <1>2, NodeOnWay
  <1>7. PICK m \in Turns(T) : s = PathNode(T, m)
    BY <1>2, <1>6, NodeOnWay
  <1>8. /\ m = k /\ k - 1 \in Turns(nb) /\ k - 1 \in Turns(T)
        /\ PathNode(T, k - 1) = PathNode(nb, k - 1) /\ Turn(T, k) = 1 - Turn(nb, k)
    <2>1. PathNode(T, m) = Sibling(PathNode(nb, k))
      BY <1>2, <1>7
    <2> QED
      BY <1>4, <2>1, SiblingIs
  <1>9. Len(s) = k + 1
    BY <1>7, <1>8, PathIs
  <1>10. RightAt(t, nb, s, k)
    <2>1. s = PathNode(T, k) /\ k \in Turns(T) /\ Turn(T, k) = 1
      BY <1>5, <1>7, <1>8
    <2>2. s = PathNode(Sz(t, s), k) /\ k \in Turns(Sz(t, s)) /\ Turn(Sz(t, s), k) = 1
          /\ k - 1 \in Turns(Sz(t, s)) /\ PathNode(Sz(t, s), k - 1) = PathNode(nb, k - 1)
      BY <1>6, <1>8, <2>1
    <2> QED
      BY <1>2, <1>4, <1>5, <1>8, <1>9, <2>2 DEF RightAt
  <1> QED
    BY <1>10

(* A size of the bin that is larger than nb is on the way or to the right. *)
LEMMA Divergence ==
    ASSUME NEW t, Trie(t), NEW nb \in LargeSize, ~Exact(t, nb),
           NEW g \in DOMAIN t, Index(Sz(t, g)) = Index(nb), Sz(t, g) >= nb
    PROVE  \/ g \in OnPath(t, size, nb)
           \/ \E k \in Turns(nb) :
                 /\ k \in Nat /\ k # 0 /\ k - 1 \in Turns(nb) /\ Turn(nb, k) = 0
                 /\ k + 1 \in 1..Len(g) /\ k \in Turns(Sz(t, g)) /\ k - 1 \in Turns(Sz(t, g))
                 /\ PathNode(Sz(t, g), k - 1) = PathNode(nb, k - 1) /\ Turn(Sz(t, g), k) = 1
                 /\ SubSeq(g, 1, k + 1) \in UntakenRight(t, size, nb)
  <1>1. PICK S \in LargeSize : S = Sz(t, g)
    BY NodeOnWay
  <1>2. PICK m \in Turns(S) : g = PathNode(S, m) /\ m = Len(g) - 1 /\ Len(g) \in Nat
    BY <1>1, NodeOnWay
  <1>3. Turns(S) = Turns(nb) /\ S \in Nat /\ nb \in Nat /\ Turns(S) = 0..Bits(Index(S)) /\ Bits(Index(S)) \in Nat
    BY <1>1, TurnsAre
  <1>4. CASE \A k \in 1..m : Turn(S, k) = Turn(nb, k)
    <2>1. m \in Turns(nb) /\ Index(S) = Index(nb)
      BY <1>1, <1>3
    <2>2. PathNode(S, m) = PathNode(nb, m)
      BY <1>4, <2>1, PathsEqual
    <2> QED
      BY <1>2, <2>1, <2>2, PathIsOn
  <1>5. CASE ~ \A k \in 1..m : Turn(S, k) = Turn(nb, k)
    <2> DEFINE T == {k \in 1..m : Turn(S, k) # Turn(nb, k)}
    <2>1. T \in SUBSET Nat /\ T # {}
      BY <1>5
    <2> HIDE DEF T
    <2>2. PICK k \in T : \A u \in T : k <= u
      BY <2>1, LeastExists
    <2>3. /\ k \in 1..m /\ Turn(S, k) # Turn(nb, k) /\ k \in Nat /\ m \in Nat
      BY <1>3, <2>2 DEF T
    <2>4. \A j \in 1..(k - 1) : Turn(S, j) = Turn(nb, j)
      BY <2>2, <2>3 DEF T
    <2>5. /\ k \in Turns(S) /\ k - 1 \in Turns(S) /\ k \in Turns(nb) /\ k - 1 \in Turns(nb) /\ k # 0
          /\ k \in 1..Bits(Index(S)) /\ k \in 1..Bits(Index(nb))
      BY <1>1, <1>3, <2>3
    <2>6. PathNode(S, k - 1) = PathNode(nb, k - 1)
      BY <1>1, <2>4, <2>5, PathsEqual
    <2>7. Turn(S, k) \in {0, 1} /\ Turn(nb, k) \in {0, 1}
      BY <2>5, TurnBit
    <2>8. Turn(S, k) = 1 /\ Turn(nb, k) = 0
      <3> SUFFICES ASSUME Turn(S, k) = 0, Turn(nb, k) = 1 PROVE FALSE
        BY <2>3, <2>7
      <3>1. S < nb
        BY <2>5, <2>6, LeftIsSmaller
      <3> QED
        BY <1>1, <1>3, <3>1
    <2>9. k + 1 \in 1..Len(g) /\ k \in 1..Len(g) /\ (k + 1) - 1 = k
      BY <1>2, <2>3
    <2>10. SubSeq(g, 1, k + 1) \in DOMAIN t /\ SubSeq(g, 1, k + 1) = PathNode(S, k)
      BY <1>1, <2>9, NodesAbove
    <2>11. SubSeq(g, 1, k) \in DOMAIN t /\ SubSeq(g, 1, k) = PathNode(S, k - 1)
      BY <1>1, <2>9, NodesAbove
    <2>12. Sibling(PathNode(nb, k)) = PathNode(S, k)
      <3>1. Turn(S, k) = 1 - Turn(nb, k)
        BY <2>8
      <3> QED
        BY <2>5, <2>6, <3>1, SiblingIs
    <2>13. PICK d : d = PathNode(nb, k)
      OBVIOUS
    <2>14. d[Len(d)] = 0
      <3>1. Len(d) = k + 1 /\ \A j \in 1..k : d[j + 1] = Turn(nb, j)
        BY <2>5, <2>13, PathIs
      <3>2. k \in 1..k
        BY <2>3
      <3> QED
        BY <2>8, <3>1, <3>2
    <2>15. Front(d) = PathNode(nb, k - 1)
      <3>1. Len(d) = k + 1 /\ (k + 1) - 1 = (k - 1) + 1 /\ k - 1 \in 0..k
        BY <2>3, <2>5, <2>13, PathIs
      <3>2. SubSeq(PathNode(nb, k), 1, (k - 1) + 1) = PathNode(nb, k - 1)
        BY <2>5, <3>1, PathPrefix
      <3> QED
        BY <2>13, <3>1, <3>2 DEF Front
    <2>16. Front(d) \in OnPath(t, size, nb)
      BY <2>5, <2>6, <2>11, <2>15, PathIsOn
    <2>17. SubSeq(g, 1, k + 1) \in UntakenRight(t, size, nb)
      <3>1. d \in {PathNode(nb, n) : n \in Turns(nb) \ {0}}
        BY <2>5, <2>13
      <3>2. SubSeq(g, 1, k + 1) = Sibling(d) /\ Sibling(d) \in DOMAIN t
        BY <2>10, <2>12, <2>13
      <3> QED
        BY <2>14, <2>16, <3>1, <3>2 DEF UntakenRight
    <2> QED
      BY <1>1, <2>3, <2>5, <2>6, <2>8, <2>9, <2>17
  <1> QED
    BY <1>4, <1>5

LEMMA TurnRange ==
    ASSUME NEW S \in LargeSize, NEW k \in Turns(S), k # 0
    PROVE  k \in 1..Bits(Index(S))
  <1>1. k \in 0..Bits(Index(S)) /\ Bits(Index(S)) \in Nat
    BY TurnsAre
  <1> QED
    BY <1>1

(* Below s, all is larger than nb and in its bin. *)
LEMMA RightIsLarger ==
    ASSUME NEW t, Trie(t), NEW nb \in LargeSize, NEW s, NEW k \in Turns(nb), RightAt(t, nb, s, k),
           NEW e \in Below(t, s) \cup {s}
    PROVE  /\ e \in DOMAIN t /\ Index(Sz(t, e)) = Index(nb) /\ nb < Sz(t, e)
           /\ k - 1 \in Turns(Sz(t, e)) /\ PathNode(Sz(t, e), k - 1) = PathNode(nb, k - 1)
  <1>1. s \in DOMAIN t /\ Len(s) = k + 1 /\ k \in Nat /\ (k + 1) - 1 = k
    BY PathIs DEF RightAt
  <1>2. e \in DOMAIN t /\ k \in Turns(Sz(t, e)) /\ PathNode(Sz(t, e), k) = s
    BY <1>1, InSubtree
  <1>3. PICK S \in LargeSize, T \in LargeSize : S = Sz(t, e) /\ T = Sz(t, s)
    BY <1>1, <1>2, NodeOnWay
  <1>4. /\ k \in Turns(nb) /\ k # 0 /\ k - 1 \in Turns(nb) /\ Turn(nb, k) = 0
        /\ k \in Turns(T) /\ s = PathNode(T, k)
        /\ k - 1 \in Turns(T) /\ PathNode(T, k - 1) = PathNode(nb, k - 1)
        /\ Turn(T, k) = 1
    BY <1>3 DEF RightAt
  <1>5. k \in Turns(S) /\ PathNode(S, k) = PathNode(T, k)
    BY <1>2, <1>3, <1>4
  <1>6. Index(S) = Index(T) /\ \A j \in 1..k : Turn(S, j) = Turn(T, j)
    BY <1>4, <1>5, PathsEqual
  <1>7. Turn(S, k) = 1
    <2>1. k \in 1..k
      BY <1>1, <1>4
    <2> QED
      BY <1>4, <1>6, <2>1
  <1>8. k - 1 \in Turns(S) /\ PathNode(S, k - 1) = PathNode(T, k - 1)
    <2>1. k - 1 \in 0..k
      BY <1>1, <1>4
    <2> QED
      BY <1>4, <1>5, <2>1, PathPart, PathPrefix
  <1>9. Index(S) = Index(nb)
    BY <1>4, <1>6, PathsEqual
  <1>10. nb < S
    <2>1. k \in 1..Bits(Index(nb))
      BY <1>4, TurnRange
    <2> QED
      BY <1>4, <1>7, <1>8, <2>1, LeftIsSmaller
  <1> QED
    BY <1>2, <1>3, <1>4, <1>8, <1>9, <1>10

(* The deepest of the subtrees to the right has the next larger size,      *)
(* apart from what is on the way.                                          *)
LEMMA DeepestRight ==
    ASSUME NEW t, Trie(t), NEW nb \in LargeSize, ~Exact(t, nb), UntakenRight(t, size, nb) # {},
           NEW chain, chain = LeftmostChain(t, Deepest(UntakenRight(t, size, nb)))
    PROVE  /\ chain \subseteq DOMAIN t
           /\ \E d \in chain :
                 /\ Sz(t, d) >= nb
                 /\ \A g \in DOMAIN t :
                       Sz(t, g) >= nb => Sz(t, d) <= Sz(t, g) \/ g \in OnPath(t, size, nb)
  <1> DEFINE right == UntakenRight(t, size, nb)
  <1>1. right \in SUBSET DOMAIN t
    BY UntakenIs DEF RightAt
  <1>2. PICK R \in right : R = Deepest(right) /\ \A s \in right : Len(s) <= Len(R)
    <2> HIDE DEF right
    <2>1. right # {}
      BY DEF right
    <2> QED
      BY <1>1, <2>1, DeepestIs
  <1>3. PICK r \in Turns(nb) : RightAt(t, nb, R, r)
    BY <1>2, UntakenIs
  <1>4. R \in DOMAIN t /\ Len(R) = r + 1 /\ r \in Nat /\ r # 0
    BY <1>3, PathIs DEF RightAt
  <1>5. chain \subseteq DOMAIN t /\ chain \subseteq Below(t, R) \cup {R}
    BY <1>2, <1>4, ChainInSubtree
  <1>6. PICK d \in chain : \A e \in Below(t, R) \cup {R} : Sz(t, d) <= Sz(t, e)
    BY <1>2, <1>4, LeastOnChain
  <1>7. PICK D \in LargeSize : D = Sz(t, d)
    BY <1>5, <1>6, NodeOnWay
  <1>8. /\ d \in DOMAIN t /\ Index(D) = Index(nb) /\ nb < D
        /\ r - 1 \in Turns(D) /\ PathNode(D, r - 1) = PathNode(nb, r - 1)
    BY <1>3, <1>5, <1>6, <1>7, RightIsLarger
  <1>9. ASSUME NEW g \in DOMAIN t, Sz(t, g) >= nb, g \notin OnPath(t, size, nb)
        PROVE  Sz(t, d) <= Sz(t, g)
    <2>1. PICK G \in LargeSize : G = Sz(t, g)
      BY NodeOnWay
    <2>2. G \in Nat /\ D \in Nat /\ nb \in Nat /\ Index(G) \in Nat /\ Index(nb) \in Nat
      BY TurnsAre
    <2>3. CASE Index(G) # Index(nb)
      <3>1. Index(nb) <= Index(G)
        BY <1>9, <2>1, IndexOrder
      <3>2. Index(D) < Index(G)
        BY <1>8, <2>2, <2>3, <3>1
      <3>3. D < G
        BY <3>2, LaterIsLarger
      <3> QED
        BY <1>7, <2>1, <2>2, <3>3
    <2>4. CASE Index(G) = Index(nb)
      <3>1. PICK k \in Turns(nb) :
                 /\ k \in Nat /\ k # 0 /\ k - 1 \in Turns(nb) /\ Turn(nb, k) = 0
                 /\ k + 1 \in 1..Len(g) /\ k \in Turns(G) /\ k - 1 \in Turns(G)
                 /\ PathNode(G, k - 1) = PathNode(nb, k - 1) /\ Turn(G, k) = 1
                 /\ SubSeq(g, 1, k + 1) \in right
        BY <1>9, <2>1, <2>4, Divergence
      <3>2. k <= r
        <4>1. Len(SubSeq(g, 1, k + 1)) = k + 1
          BY <3>1, NodesAbove
        <4>2. Len(SubSeq(g, 1, k + 1)) <= Len(R)
          BY <1>2, <3>1
        <4> QED
          BY <1>4, <3>1, <4>1, <4>2
      <3>3. CASE k = r
        <4>1. PICK T \in LargeSize : T = Sz(t, R)
          BY <1>4, NodeOnWay
        <4>2. /\ r \in Turns(T) /\ R = PathNode(T, r) /\ r - 1 \in Turns(T)
              /\ PathNode(T, r - 1) = PathNode(nb, r - 1) /\ Turn(T, r) = 1
          BY <1>3, <4>1 DEF RightAt
        <4>3. r \in Turns(G) /\ r - 1 \in Turns(G) /\ PathNode(G, r - 1) = PathNode(T, r - 1) /\ Turn(G, r) = 1
          BY <3>1, <3>3, <4>2
        <4>4. Index(G) = Index(T) /\ \A j \in 1..(r - 1) : Turn(G, j) = Turn(T, j)
          BY <4>2, <4>3, PathsEqual
        <4>5. \A j \in 1..r : Turn(G, j) = Turn(T, j)
          <5> TAKE j \in 1..r
          <5>1. j \in 1..(r - 1) \/ j = r
            BY <1>4
          <5> QED
            BY <4>2, <4>3, <4>4, <5>1
        <4>6. PathNode(G, r) = R
          BY <4>2, <4>3, <4>4, <4>5, PathsEqual
        <4>7. Len(g) \in Nat /\ r + 1 \in 1..Len(g) /\ (r + 1) - 1 = r
          BY <1>4, <3>1, <3>3, NodeOnWay
        <4>8. SubSeq(g, 1, Len(R)) = R /\ Len(R) <= Len(g)
          <5>1. SubSeq(g, 1, r + 1) = PathNode(G, (r + 1) - 1)
            BY <2>1, <4>7, NodesAbove
          <5> QED
            BY <1>4, <4>6, <4>7, <5>1
        <4>9. g \in Below(t, R) \cup {R}
          BY <1>4, <4>8, SubtreeIs
        <4> QED
          BY <1>6, <4>9
      <3>4. CASE k # r
        <4>1. k \in 1..(r - 1) /\ k - 1 \in 0..(r - 1) /\ k - 1 \in 0..k
          BY <1>4, <3>1, <3>2, <3>4
        <4>2. r - 1 \in Turns(nb)
          BY <1>3 DEF RightAt
        <4>3. Turn(D, k) = Turn(nb, k) /\ Turn(D, k) = 0
          BY <1>8, <3>1, <4>1, <4>2, PathsEqual
        <4>4. k - 1 \in Turns(D) /\ PathNode(D, k - 1) = PathNode(nb, k - 1)
          BY <1>8, <4>1, <4>2, PathPart, PathPrefix
        <4>5. k \in 1..Bits(Index(D))
          BY <1>8, <3>1, TurnRange
        <4>6. D < G
          BY <3>1, <4>3, <4>4, <4>5, LeftIsSmaller
        <4> QED
          BY <1>7, <2>1, <2>2, <4>6
      <3> QED
        BY <3>3, <3>4
    <2> QED
      BY <2>3, <2>4
  <1>10. Sz(t, d) >= nb
    <2>1. D \in Nat /\ nb \in Nat
      BY TurnsAre
    <2> QED
      BY <1>7, <1>8, <2>1
  <1> QED
    BY <1>5, <1>6, <1>9, <1>10

(* The unsigned comparison tells what is large enough.                     *)
LEMMA FitsAre ==
    ASSUME NEW S \in LargeSize, NEW nb \in LargeSize
    PROVE  /\ Remainder(S, nb) < Unsigned(-nb) <=> S >= nb
           /\ S >= nb => S - nb < Unsigned(0 - nb)
  <1>1. /\ S \in Nat /\ nb \in Nat /\ S < Pow2[SizeBits] /\ nb < Pow2[SizeBits] /\ nb > 0
        /\ Pow2[SizeBits] \in Nat
    <2>1. TreebinShift \in 0..SizeBits /\ SizeBits \in 0..SizeBits
      BY Constants
    <2>2. Pow2[TreebinShift] \in Nat /\ Pow2[TreebinShift] > 0 /\ Pow2[SizeBits] \in Nat
      BY <2>1, PowPositive
    <2> QED
      BY <2>2, LargeSizes
  <1>2. PICK M \in Nat : M = Pow2[SizeBits]
    BY <1>1
  <1>3. ASSUME NEW a \in Nat, a < M PROVE a % M = a
    BY <1>3
  <1>4. ASSUME NEW a \in Int, a < 0, a + M >= 0 PROVE a % M = a + M
    BY <1>4
  <1>5. (-nb) % M = M - nb /\ (0 - nb) % M = M - nb
    BY <1>1, <1>2, <1>4
  <1>6. CASE S >= nb
    <2>1. (S - nb) % M = S - nb
      BY <1>1, <1>2, <1>3, <1>6
    <2> QED
      BY <1>1, <1>2, <1>5, <1>6, <2>1 DEF Remainder, Unsigned
  <1>7. CASE ~(S >= nb)
    <2>1. (S - nb) % M = (S - nb) + M
      BY <1>1, <1>2, <1>4, <1>7
    <2> QED
      BY <1>1, <1>2, <1>5, <1>7, <2>1 DEF Remainder, Unsigned
  <1> QED
    BY <1>6, <1>7

LEMMA FitNodes ==
    ASSUME NEW t, Trie(t), NEW nb \in LargeSize, NEW Q \in SUBSET DOMAIN t
    PROVE  Fits(t, size, nb, Q) = {d \in Q : Sz(t, d) >= nb}
  <1>1. ASSUME NEW d \in Q PROVE Remainder(NodeSize(t, size, d), nb) < Unsigned(-nb) <=> Sz(t, d) >= nb
    <2>1. PICK S \in LargeSize : S = NodeSize(t, size, d)
      BY NodeOnWay DEF Sz
    <2>2. Remainder(S, nb) < Unsigned(-nb) <=> S >= nb
      BY FitsAre
    <2> QED
      BY <2>1, <2>2 DEF Sz
  <1> QED
    BY <1>1 DEF Fits

(* What tmalloc_large looks at: for every node that is large enough, one   *)
(* that is not larger.                                                     *)
LEMMA VisitedBest ==
    ASSUME NEW t, Trie(t), NEW nb \in LargeSize
    PROVE  /\ Visited(t, size, nb) \subseteq DOMAIN t
           /\ \A g \in DOMAIN t :
                 Sz(t, g) >= nb =>
                    \E d \in Visited(t, size, nb) : Sz(t, d) >= nb /\ Sz(t, d) <= Sz(t, g)
  <1> DEFINE path == OnPath(t, size, nb)
             exact == {d \in path : NodeSize(t, size, d) = nb}
             right == UntakenRight(t, size, nb)
             next == compute_tree_index(nb) + 1
             V == Visited(t, size, nb)
  <1>1. V = CASE exact # {} -> path
              [] exact = {} /\ right # {} -> path \cup LeftmostChain(t, Deepest(right))
              [] exact = {} /\ right = {} /\ Fits(t, size, nb, path) # {} -> path
              [] OTHER -> IF NoRoot(t, next) THEN {} ELSE LeftmostChain(t, FirstRoot(t, next))
    BY DEF Visited
  <1>2. path \in SUBSET DOMAIN t /\ \A d \in path : Index(Sz(t, d)) = Index(nb)
    BY OnPathIs
  <1>3. nb \in Nat /\ Index(nb) \in Nat /\ next = Index(nb) + 1
    BY TurnsAre DEF Index
  <1>4. \A g \in DOMAIN t : Sz(t, g) \in LargeSize /\ Sz(t, g) \in Nat /\ Index(Sz(t, g)) \in Nat
    BY NodeOnWay, TurnsAre
  <1>5. exact = {} => ~Exact(t, nb)
    <2> SUFFICES ASSUME NEW d \in DOMAIN t, Sz(t, d) = nb PROVE d \in exact
      BY DEF Exact
    <2>1. d \in path
      BY ExactIsOn
    <2> QED
      BY <2>1 DEF Sz
  <1>6. Fits(t, size, nb, path) = {d \in path : Sz(t, d) >= nb}
    BY <1>2, FitNodes
  <1>7. \A d \in exact : d \in path /\ Sz(t, d) = nb
    BY DEF Sz
  <1>8. ASSUME NEW S \in LargeSize, S >= nb PROVE Index(S) >= Index(nb)
    <2>1. Index(nb) <= Index(S) /\ Index(S) \in Nat
      BY <1>8, IndexOrder, TurnsAre
    <2> QED
      BY <1>3, <2>1
  <1> HIDE DEF path, exact, right, next, V
  <1>9. CASE exact # {}
    <2>1. V = path
      BY <1>1, <1>9
    <2>2. PICK d \in path : Sz(t, d) = nb
      BY <1>7, <1>9
    <2> QED
      BY <1>2, <1>3, <2>1, <2>2 DEF V
  <1>10. CASE exact = {} /\ right # {}
    <2>1. V = path \cup LeftmostChain(t, Deepest(right))
      BY <1>1, <1>10
    <2>2. PICK chain : chain = LeftmostChain(t, Deepest(right))
      OBVIOUS
    <2>3. /\ chain \subseteq DOMAIN t
          /\ \E d \in chain :
                /\ Sz(t, d) >= nb
                /\ \A g \in DOMAIN t : Sz(t, g) >= nb => Sz(t, d) <= Sz(t, g) \/ g \in path
      BY <1>5, <1>10, <2>2, DeepestRight DEF right, path
    <2>4. PICK d \in chain : /\ Sz(t, d) >= nb
                             /\ \A g \in DOMAIN t : Sz(t, g) >= nb => Sz(t, d) <= Sz(t, g) \/ g \in path
      BY <2>3
    <2>5. V = path \cup chain
      BY <2>1, <2>2
    <2>6. ASSUME NEW g \in DOMAIN t, Sz(t, g) >= nb
          PROVE  \E e \in V : Sz(t, e) >= nb /\ Sz(t, e) <= Sz(t, g)
      <3>1. CASE g \in path
        BY <1>4, <2>5, <2>6, <3>1
      <3>2. CASE g \notin path
        BY <2>4, <2>5, <2>6, <3>2
      <3> QED
        BY <3>1, <3>2
    <2> QED
      BY <1>2, <2>3, <2>5, <2>6 DEF V
  <1>11. ASSUME exact = {}, right = {}, NEW g \in DOMAIN t, Sz(t, g) >= nb, Index(Sz(t, g)) = Index(nb)
         PROVE  g \in path
    BY <1>5, <1>11, Divergence DEF right, path
  <1>12. CASE exact = {} /\ right = {} /\ Fits(t, size, nb, path) # {}
    <2>1. V = path
      BY <1>1, <1>12
    <2>2. PICK f \in path : Sz(t, f) >= nb
      BY <1>6, <1>12
    <2>3. ASSUME NEW g \in DOMAIN t, Sz(t, g) >= nb
          PROVE  \E e \in V : Sz(t, e) >= nb /\ Sz(t, e) <= Sz(t, g)
      <3>1. CASE Index(Sz(t, g)) = Index(nb)
        BY <1>4, <1>11, <1>12, <2>1, <2>3, <3>1
      <3>2. CASE Index(Sz(t, g)) # Index(nb)
        <4>1. PICK S \in LargeSize, F \in LargeSize : S = Sz(t, g) /\ F = Sz(t, f) /\ S \in Nat /\ F \in Nat
          BY <1>2, <1>4
        <4>2. Index(F) < Index(S)
          BY <1>2, <1>3, <1>4, <1>8, <2>3, <3>2, <4>1
        <4>3. F < S
          BY <4>2, LaterIsLarger
        <4> QED
          BY <2>1, <2>2, <4>1, <4>3
      <3> QED
        BY <3>1, <3>2
    <2> QED
      BY <1>2, <2>1, <2>3 DEF V
  <1>13. CASE exact = {} /\ right = {} /\ Fits(t, size, nb, path) = {}
    <2>1. V = IF NoRoot(t, next) THEN {} ELSE LeftmostChain(t, FirstRoot(t, next))
      BY <1>1, <1>13
    <2>2. ASSUME NEW g \in DOMAIN t, Sz(t, g) >= nb
          PROVE  Index(Sz(t, g)) >= next /\ ~NoRoot(t, next)
      <3>1. Index(Sz(t, g)) # Index(nb)
        BY <1>6, <1>11, <1>13, <2>2
      <3>2. Index(Sz(t, g)) >= next
        BY <1>3, <1>4, <1>8, <2>2, <3>1
      <3>3. g[1] = Index(Sz(t, g)) /\ g[1] \in Nat
        BY RootsIndex
      <3>4. ~(g[1] < next)
        BY <1>3, <3>2, <3>3
      <3> QED
        BY <3>2, <3>4 DEF NoRoot
    <2>3. CASE NoRoot(t, next)
      BY <2>1, <2>2, <2>3 DEF V
    <2>4. CASE ~NoRoot(t, next)
      <3>1. V = LeftmostChain(t, FirstRoot(t, next)) /\ next \in Nat
        BY <1>3, <2>1, <2>4
      <3>2. /\ V \subseteq DOMAIN t /\ \A d \in V : Index(Sz(t, d)) >= next
            /\ \E d \in V : \A g \in DOMAIN t : Index(Sz(t, g)) >= next => Sz(t, d) <= Sz(t, g)
        BY <2>4, <3>1, NextBin
      <3>3. PICK d \in V : \A g \in DOMAIN t : Index(Sz(t, g)) >= next => Sz(t, d) <= Sz(t, g)
        BY <3>2
      <3>4. Sz(t, d) >= nb
        <4>1. PICK D \in LargeSize : D = Sz(t, d) /\ D \in Nat /\ Index(D) \in Nat
          BY <1>4, <3>2
        <4>2. Index(nb) < Index(D)
          BY <1>3, <3>2, <4>1
        <4>3. nb < D
          BY <4>2, LaterIsLarger
        <4> QED
          BY <1>3, <4>1, <4>3
      <3>5. \A g \in DOMAIN t : Sz(t, g) >= nb => Sz(t, d) <= Sz(t, g)
        BY <2>2, <3>3
      <3> QED
        BY <3>2, <3>4, <3>5 DEF V
    <2> QED
      BY <2>3, <2>4
  <1> QED
    BY <1>9, <1>10, <1>12, <1>13

(* tmalloc_large takes the first chunk of the node with the best size.     *)
LEMMA LargeFound ==
    ASSUME NEW t, Trie(t), NEW nb \in LargeSize, NEW found, found = tmalloc_large(t, size, nb, 0)
    PROVE  /\ (\A d \in DOMAIN t : ~(Sz(t, d) >= nb)) => found = {}
           /\ (\E d \in DOMAIN t : Sz(t, d) >= nb) =>
                 \E b \in DOMAIN t :
                    /\ found = {t[b][1]} /\ Sz(t, b) >= nb
                    /\ \A g \in DOMAIN t : Sz(t, g) >= nb => Sz(t, b) <= Sz(t, g)
  <1> DEFINE V == Visited(t, size, nb)
             fits == Fits(t, size, nb, V)
             best == Smallest(t, size, fits)
  <1>1. V \in SUBSET DOMAIN t
    BY VisitedBest
  <1>2. \A g \in DOMAIN t : Sz(t, g) >= nb => \E d \in V : Sz(t, d) >= nb /\ Sz(t, d) <= Sz(t, g)
    BY VisitedBest
  <1>3. fits = {d \in V : Sz(t, d) >= nb}
    <2> HIDE DEF V
    <2> QED
      BY <1>1, FitNodes
  <1>4. found = IF fits # {} /\ NodeSize(t, size, best) - nb < Unsigned(0 - nb) THEN {t[best][1]} ELSE {}
    BY DEF tmalloc_large
  <1> HIDE DEF V, fits
  <1>5. ASSUME fits # {}
        PROVE  /\ best \in fits /\ \A d \in fits : Sz(t, best) <= Sz(t, d)
               /\ found = {t[best][1]}
    <2>1. fits \in SUBSET DOMAIN t
      BY <1>1, <1>3
    <2>2. best \in fits /\ \A d \in fits : Sz(t, best) <= Sz(t, d)
      BY <1>5, <2>1, SmallestIs
    <2> HIDE DEF best
    <2>3. PICK S \in LargeSize : S = Sz(t, best) /\ S >= nb
      BY <1>3, <2>1, <2>2, NodeOnWay
    <2>4. S - nb < Unsigned(0 - nb)
      BY <2>3, FitsAre
    <2> QED
      BY <1>4, <1>5, <2>2, <2>3, <2>4 DEF Sz
  <1> HIDE DEF best
  <1>6. ASSUME NEW g \in DOMAIN t, Sz(t, g) >= nb
        PROVE  \E b \in DOMAIN t :
                    /\ found = {t[b][1]} /\ Sz(t, b) >= nb
                    /\ \A e \in DOMAIN t : Sz(t, e) >= nb => Sz(t, b) <= Sz(t, e)
    <2>1. fits # {}
      BY <1>2, <1>3, <1>6
    <2>2. best \in fits /\ (\A d \in fits : Sz(t, best) <= Sz(t, d)) /\ found = {t[best][1]}
      BY <1>5, <2>1
    <2>3. best \in DOMAIN t /\ Sz(t, best) >= nb
      BY <1>1, <1>3, <2>2
    <2>4. ASSUME NEW e \in DOMAIN t, Sz(t, e) >= nb PROVE Sz(t, best) <= Sz(t, e)
      <3>1. PICK d \in V : Sz(t, d) >= nb /\ Sz(t, d) <= Sz(t, e)
        BY <1>2, <2>4
      <3>2. Sz(t, best) <= Sz(t, d)
        BY <1>3, <2>2, <3>1
      <3>3. Sz(t, best) \in Nat /\ Sz(t, d) \in Nat /\ Sz(t, e) \in Nat
        BY <1>1, <2>3, NodeOnWay
      <3> QED
        BY <3>1, <3>2, <3>3
    <2> QED
      BY <2>2, <2>3, <2>4
  <1>7. ASSUME \A d \in DOMAIN t : ~(Sz(t, d) >= nb) PROVE found = {}
    BY <1>1, <1>3, <1>4, <1>7
  <1> QED
    BY <1>6, <1>7

(* tmalloc_small takes the first chunk of the node with the least size.    *)
LEMMA SmallFound ==
    ASSUME NEW t, Trie(t), DOMAIN t # {}
    PROVE  \E b \in DOMAIN t : tmalloc_small(t, size) = t[b][1] /\ \A g \in DOMAIN t : Sz(t, b) <= Sz(t, g)
  <1>1. \A g \in DOMAIN t : g[1] = Index(Sz(t, g)) /\ g[1] \in Nat
    BY RootsIndex
  <1>2. ~NoRoot(t, 0)
    BY <1>1 DEF NoRoot
  <1>3. PICK chain : chain = LeftmostChain(t, FirstRoot(t, 0))
    OBVIOUS
  <1>4. /\ chain \subseteq DOMAIN t
        /\ \E d \in chain : \A g \in DOMAIN t : Index(Sz(t, g)) >= 0 => Sz(t, d) <= Sz(t, g)
    BY <1>2, <1>3, NextBin
  <1>5. PICK d \in chain : \A g \in DOMAIN t : Sz(t, d) <= Sz(t, g)
    BY <1>1, <1>4
  <1>6. PICK b : b = Smallest(t, size, chain)
    OBVIOUS
  <1>7. b \in chain /\ Sz(t, b) <= Sz(t, d)
    BY <1>4, <1>5, <1>6, SmallestIs
  <1>8. \A g \in DOMAIN t : Sz(t, b) <= Sz(t, g)
    <2> TAKE g \in DOMAIN t
    <2>1. Sz(t, b) \in Nat /\ Sz(t, d) \in Nat /\ Sz(t, g) \in Nat /\ Sz(t, d) <= Sz(t, g)
      BY <1>4, <1>5, <1>7, NodeOnWay
    <2> QED
      BY <1>7, <2>1
  <1>9. tmalloc_small(t, size) = t[b][1]
    BY <1>3, <1>6 DEF tmalloc_small
  <1> QED
    BY <1>4, <1>7, <1>8, <1>9

(* The first of the ring of the best size is the oldest best.              *)
LEMMA FirstIsOldestBest ==
    ASSUME TreeInv, NEW nb \in Nat, NEW b \in DOMAIN tree, Sz(tree, b) >= nb,
           \A g \in DOMAIN tree : Sz(tree, g) >= nb => Sz(tree, b) <= Sz(tree, g)
    PROVE  IsOldestBest(tree[b][1], nb)
  <1>1. Trie(tree) /\ LargeChunks(tree) = binned
    BY DEF TreeInv
  <1>2. PICK x : x = tree[b][1]
    OBVIOUS
  <1>3. 1 \in 1..Len(tree[b])
    <2>1. Len(tree[b]) \in Nat /\ Len(tree[b]) >= 1
      BY <1>1, RingOf
    <2> QED
      BY <2>1
  <1>4. x \in binned /\ size[x] = Sz(tree, b)
    BY <1>1, <1>2, <1>3, RingOf
  <1>5. ASSUME NEW y \in binned \ {x}
        PROVE  size[y] < nb \/ size[x] < size[y] \/ (size[x] = size[y] /\ <<x, y>> \in older)
    <2>1. PICK e \in DOMAIN tree : y \in ToSet(tree[e])
      BY <1>1 DEF LargeChunks
    <2>2. size[y] = Sz(tree, e) /\ Sz(tree, e) \in Nat /\ Sz(tree, b) \in Nat
      BY <1>1, <2>1, OneRing, NodeOnWay
    <2>3. CASE e = b
      <3>1. PICK j \in 1..Len(tree[b]) : tree[b][j] = y
        BY <1>1, <2>1, <2>3, RingOf
      <3>2. 1 < j
        BY <1>2, <1>5, <3>1
      <3>3. <<tree[b][1], tree[b][j]>> \in older
        BY <1>3, <3>1, <3>2 DEF TreeInv, RingOrder
      <3> QED
        BY <1>2, <1>4, <2>2, <2>3, <3>1, <3>3
    <2>4. CASE e # b
      <3>1. Sz(tree, e) # Sz(tree, b)
        BY <1>1, <2>4 DEF Trie
      <3> QED
        BY <1>4, <2>2, <3>1
    <2> QED
      BY <2>3, <2>4
  <1>6. IsOldestBest(x, nb)
    BY <1>4, <1>5 DEF IsOldestBest
  <1> QED
    BY <1>2, <1>6

LEMMA InvFindsBest == TreeInv => BestFitFound
  <1> SUFFICES ASSUME TreeInv PROVE BestFitFound
    OBVIOUS
  <1>1. Trie(tree) /\ LargeChunks(tree) = binned
    BY DEF TreeInv
  <1>2. \A x : x \in binned <=> \E d \in DOMAIN tree : x \in ToSet(tree[d])
    BY <1>1 DEF LargeChunks
  <1>3. \A x \in binned : \E d \in DOMAIN tree : size[x] = Sz(tree, d)
    BY <1>1, <1>2, OneRing
  <1>4. \A d \in DOMAIN tree : \E x \in binned : size[x] = Sz(tree, d)
    <2> TAKE d \in DOMAIN tree
    <2>1. 1 \in 1..Len(tree[d])
      <3>1. Len(tree[d]) \in Nat /\ Len(tree[d]) >= 1
        BY <1>1, RingOf
      <3> QED
        BY <3>1
    <2> QED
      BY <1>1, <2>1, RingOf
  <1>5. ASSUME NEW nb \in Request, NEW found, found = tmalloc_large(tree, size, nb, 0)
        PROVE  IF \E x \in binned : size[x] >= nb
               THEN \E x \in found : IsOldestBest(x, nb)
               ELSE found = {}
    <2>1. nb \in LargeSize /\ nb \in Nat
      BY TreeUseAssumption, LargeSizes
    <2>2. /\ (\A d \in DOMAIN tree : ~(Sz(tree, d) >= nb)) => found = {}
          /\ (\E d \in DOMAIN tree : Sz(tree, d) >= nb) =>
                \E b \in DOMAIN tree :
                   /\ found = {tree[b][1]} /\ Sz(tree, b) >= nb
                   /\ \A g \in DOMAIN tree : Sz(tree, g) >= nb => Sz(tree, b) <= Sz(tree, g)
      BY <1>1, <1>5, <2>1, LargeFound
    <2>3. CASE \E x \in binned : size[x] >= nb
      <3>1. \E d \in DOMAIN tree : Sz(tree, d) >= nb
        BY <1>3, <2>3
      <3>2. PICK b \in DOMAIN tree :
                   /\ found = {tree[b][1]} /\ Sz(tree, b) >= nb
                   /\ \A g \in DOMAIN tree : Sz(tree, g) >= nb => Sz(tree, b) <= Sz(tree, g)
        BY <2>2, <3>1
      <3>3. IsOldestBest(tree[b][1], nb)
        BY <2>1, <3>2, FirstIsOldestBest
      <3> QED
        BY <2>3, <3>2, <3>3
    <2>4. CASE ~ \E x \in binned : size[x] >= nb
      <3>1. \A d \in DOMAIN tree : ~(Sz(tree, d) >= nb)
        BY <1>4, <2>4
      <3> QED
        BY <2>2, <2>4, <3>1
    <2> QED
      BY <2>3, <2>4
  <1>6. ASSUME binned # {} PROVE IsOldestBest(tmalloc_small(tree, size), MinLargeSize)
    <2>1. DOMAIN tree # {}
      BY <1>3, <1>6
    <2>2. PICK b \in DOMAIN tree :
              tmalloc_small(tree, size) = tree[b][1] /\ \A g \in DOMAIN tree : Sz(tree, b) <= Sz(tree, g)
      BY <1>1, <2>1, SmallFound
    <2>3. Sz(tree, b) \in LargeSize
      BY <1>1, NodeOnWay
    <2>4. Sz(tree, b) >= MinLargeSize /\ MinLargeSize \in Nat
      <3>1. TreebinShift \in 0..SizeBits
        BY Constants
      <3>2. Pow2[TreebinShift] \in Nat
        BY <3>1, PowPositive
      <3> QED
        BY <2>3, <3>2, LargeSizes DEF MinLargeSize
    <2>5. IsOldestBest(tree[b][1], MinLargeSize)
      BY <2>2, <2>4, FirstIsOldestBest
    <2> QED
      BY <2>2, <2>5
  <1> QED
    BY <1>5, <1>6 DEF BestFitFound

=============================================================================
