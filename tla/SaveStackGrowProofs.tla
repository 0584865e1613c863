------------------------ MODULE SaveStackGrowProofs ------------------------
(***************************************************************************)
(* The doubling loop is safe for every width of size_t. What carries the   *)
(* argument is that in the loop the size is positive and below the need:   *)
(* a doubled size that loses a bit is smaller than the size it came from,  *)
(* so it is below the need again and cannot end the loop.                  *)
(***************************************************************************)
EXTENDS SaveStackGrow, FiniteSetTheorems, FunctionTheorems, TLAPS

\* Doubling a size either stays in range or loses the bit worth Mod.
LEMMA DoubledIs ==
  ASSUME NEW n \in Size
  PROVE  /\ Doubled(n) \in Size
         /\ 2 * n < Mod => Doubled(n) = 2 * n
         /\ 2 * n >= Mod => Doubled(n) = 2 * n - Mod
<1> DEFINE q == (2 * n) \div Mod
           m == (2 * n) % Mod
<1>1. Mod \in Nat /\ Mod > 1
  BY GrowAssumption
<1>2. n \in Nat /\ n < Mod
  BY <1>1 DEF Size
<1>3. 2 * n < Mod => m = 2 * n
  BY <1>1, <1>2
<1>4. ASSUME 2 * n >= Mod
      PROVE  m = 2 * n - Mod
  <2>1. m = (2 * n - Mod) % Mod
    BY <1>1, <1>2, <1>4
  <2>2. (2 * n - Mod) % Mod = 2 * n - Mod
    BY <1>1, <1>2, <1>4
  <2> QED
    BY <2>1, <2>2
<1> QED
  BY <1>1, <1>2, <1>3, <1>4 DEF Doubled, Size

-----------------------------------------------------------------------------
\* In the loop the size is positive and not yet enough; what it ends with is
\* enough and less than twice the need; size 0 is met on the way to abort
\* only, coming from exactly half of all sizes.
LoopInv ==
  /\ pc = "test" => sz = asked /\ ptr = asked
  /\ pc = "loop" => 0 < sz /\ sz < valid_sz
  /\ pc = "malloc" => valid_sz <= sz /\ sz < 2 * valid_sz
  /\ pc = "go_on" => /\ ptr = sz /\ valid_sz <= sz
                     /\ sz # asked => sz < 2 * valid_sz
  /\ pc = "abort" /\ sz = 0 => 2 * valid_sz > Mod

IInv == TypeOK /\ LoopInv

\* The size is the old one and the loop has not begun.
LEMMA InitIInv == Init => IInv
  BY GrowAssumption DEF Init, IInv, TypeOK, LoopInv, Size

\* The loop is entered with a size below the need only.
LEMMA TestKeepsIInv == IInv /\ Test => IInv'
  BY GrowAssumption DEF IInv, TypeOK, LoopInv, Test, Size

\* The shift, the assertion and the test of the loop: a size that is enough
\* has lost no bit, and one that has become 0 was half of all sizes.
LEMMA DoubleKeepsIInv == IInv /\ Double => IInv'
<1> SUFFICES ASSUME IInv, Double
             PROVE  IInv'
  OBVIOUS
<1>1. /\ Mod \in Nat /\ Mod > 1
      /\ sz \in Nat /\ sz < Mod /\ valid_sz \in Nat /\ valid_sz < Mod
      /\ 0 < sz /\ sz < valid_sz
  BY GrowAssumption DEF IInv, TypeOK, LoopInv, Double, Size
<1>2. /\ sz' \in Size
      /\ 2 * sz < Mod => sz' = 2 * sz
      /\ 2 * sz >= Mod => sz' = 2 * sz - Mod
  BY DoubledIs DEF IInv, TypeOK, Double
<1>3. /\ UNCHANGED <<asked, valid_sz, ptr>>
      /\ pc' = IF sz' = 0 THEN "abort"
               ELSE IF sz' >= valid_sz THEN "malloc" ELSE "loop"
  BY DEF Double, Enough
<1>4. TypeOK'
  BY <1>2, <1>3 DEF IInv, TypeOK
<1>5. LoopInv'
  <2>1. CASE sz' = 0
    <3>1. 2 * sz = Mod
      BY <1>1, <1>2, <2>1
    <3>2. 2 * valid_sz > Mod
      BY <1>1, <3>1
    <3> QED
      BY <1>3, <2>1, <3>2 DEF LoopInv
  <2>2. CASE sz' # 0 /\ sz' >= valid_sz
    \* A size that has lost a bit is below the one it was doubled from.
    <3>1. sz' = 2 * sz
      BY <1>1, <1>2, <2>2
    <3>2. sz' < 2 * valid_sz
      BY <1>1, <3>1
    <3> QED
      BY <1>3, <2>2, <3>2 DEF LoopInv
  <2>3. CASE sz' # 0 /\ ~(sz' >= valid_sz)
    <3>1. 0 < sz' /\ sz' < valid_sz
      BY <1>1, <1>2, <2>3 DEF Size
    <3> QED
      BY <1>3, <2>3, <3>1 DEF LoopInv
  <2> QED
    BY <2>1, <2>2, <2>3
<1> QED
  BY <1>4, <1>5 DEF IInv

\* What is allocated is the size the loop ended with.
LEMMA MallocKeepsIInv == IInv /\ Malloc => IInv'
  BY GrowAssumption DEF IInv, TypeOK, LoopInv, Malloc, Size

\* The loop's invariant holds whatever size_t, size and need.
THEOREM GrowInvariance == Spec => []IInv
<1>1. IInv /\ [Next]_vars => IInv'
  <2> SUFFICES ASSUME IInv, [Next]_vars
               PROVE  IInv'
    OBVIOUS
  <2>1. CASE Test
    BY <2>1, TestKeepsIInv
  <2>2. CASE Double
    BY <2>2, DoubleKeepsIInv
  <2>3. CASE Malloc
    BY <2>3, MallocKeepsIInv
  <2>4. CASE UNCHANGED vars
    BY <2>4 DEF vars, IInv, TypeOK, LoopInv
  <2> QED
    BY <2>1, <2>2, <2>3, <2>4 DEF Next
<1> QED
  BY InitIInv, <1>1, PTL DEF Spec

-----------------------------------------------------------------------------
\* The sizes stay sizes.
THEOREM GrowTypeCorrect == Spec => []TypeOK
<1>1. IInv => TypeOK
  BY DEF IInv
<1> QED
  BY GrowInvariance, <1>1, PTL

\* The copy of aco.c:405-420 fits in the save stack after every growth.
THEOREM CopyFits == Spec => []FitsWhenCopied
<1>1. IInv => FitsWhenCopied
  BY DEF IInv, LoopInv, FitsWhenCopied
<1> QED
  BY GrowInvariance, <1>1, PTL

\* The assertion of aco.c:397 fails only if more than half of all addresses
\* would have to be saved.
THEOREM AbortIsOverflow == Spec => []DiesOfOverflowOnly
<1>1. IInv => DiesOfOverflowOnly
  BY DEF IInv, LoopInv, DiesOfOverflowOnly
<1> QED
  BY GrowInvariance, <1>1, PTL
-----------------------------------------------------------------------------
(***************************************************************************)
(* Powers of two. The provers know nothing of exponentiation; the library  *)
(* says that a set of k elements has 2^k subsets, and what is needed here  *)
(* follows by counting the subsets of 1..k.                                *)
(***************************************************************************)
\* 2^k is the number of subsets of 1..k.
LEMMA PowerCounts ==
  ASSUME NEW k \in Nat
  PROVE  /\ IsFiniteSet(SUBSET (1..k))
         /\ Cardinality(SUBSET (1..k)) = 2^k
         /\ 2^k \in Nat
<1>1. IsFiniteSet(1..k) /\ Cardinality(1..k) = k
  BY FS_Interval
<1>2. IsFiniteSet(SUBSET (1..k)) /\ Cardinality(SUBSET (1..k)) = 2^k
  BY <1>1, FS_SUBSET
<1> QED
  BY <1>2, FS_CardinalityType

\* The subsets of 1..(k + 1) are those without k + 1 and as many with it.
LEMMA PowerNext ==
  ASSUME NEW k \in Nat
  PROVE  2^(k + 1) = 2 * 2^k
<1> DEFINE A == SUBSET (1..k)
           B == {T \cup {k + 1} : T \in A}
           f == [T \in A |-> T \cup {k + 1}]
<1>1. SUBSET (1..(k + 1)) = A \cup B
  <2>1. ASSUME NEW T \in SUBSET (1..(k + 1)), T \notin A
        PROVE  T \in B
    <3>1. k + 1 \in T
      BY <2>1
    <3>2. T \ {k + 1} \in A /\ T = (T \ {k + 1}) \cup {k + 1}
      BY <3>1
    <3> QED
      BY <3>2
  <2>2. ASSUME NEW T \in A
        PROVE  T \in SUBSET (1..(k + 1)) /\ T \cup {k + 1} \in SUBSET (1..(k + 1))
    OBVIOUS
  <2>3. ASSUME NEW U \in B
        PROVE  U \in SUBSET (1..(k + 1))
    BY <2>2
  <2> HIDE DEF B
  <2>4. ASSUME NEW U
        PROVE  U \in SUBSET (1..(k + 1)) <=> (U \in A \/ U \in B)
    BY <2>1, <2>2, <2>3
  <2> HIDE DEF A
  <2> QED
    BY <2>4
<1>2. A \cap B = {}
  OBVIOUS
<1>3. f \in Bijection(A, B)
  <2>1. f \in [A -> B] /\ \A T \in B : \E S \in A : f[S] = T
    OBVIOUS
  <2>2. ASSUME NEW S \in A, NEW T \in A, f[S] = f[T]
        PROVE  S = T
    <3>1. S \cup {k + 1} = T \cup {k + 1} /\ k + 1 \notin S /\ k + 1 \notin T
      BY <2>2
    <3> QED
      BY <3>1
  <2> QED
    BY <2>1, <2>2, Fun_IsBij
<1>4. IsFiniteSet(B) /\ Cardinality(B) = Cardinality(A)
  BY <1>3, PowerCounts, FS_Bijection DEF ExistsBijection
<1>5. Cardinality(A \cup B) = Cardinality(A) + Cardinality(B)
  <2>1. Cardinality(A \cup B)
          = Cardinality(A) + Cardinality(B) - Cardinality(A \cap B)
    BY <1>4, PowerCounts, FS_Union
  <2>2. Cardinality(A) \in Nat /\ Cardinality(A \cap B) = 0
    BY <1>2, PowerCounts, FS_CardinalityType, FS_EmptySet
  <2> HIDE DEF A, B
  <2> QED
    BY <1>4, <2>1, <2>2
<1> HIDE DEF A, B
<1>6. k + 1 \in Nat
  OBVIOUS
<1>7. Cardinality(A) = 2^k /\ 2^k \in Nat
  BY PowerCounts DEF A
<1>8. Cardinality(A \cup B) = 2^(k + 1)
  BY <1>1, <1>6, PowerCounts
<1> QED
  BY <1>4, <1>5, <1>7, <1>8

\* A larger exponent has no smaller power.
LEMMA PowerGrows ==
  ASSUME NEW i \in Nat, NEW k \in Nat, i <= k
  PROVE  2^i <= 2^k
<1>1. SUBSET (1..i) \in SUBSET SUBSET (1..k)
  OBVIOUS
<1>2. Cardinality(SUBSET (1..i)) <= Cardinality(SUBSET (1..k))
  BY <1>1, PowerCounts, FS_Subset
<1> QED
  BY <1>2, PowerCounts

\* There is one subset of the empty set.
LEMMA PowerZero == 2^0 = 1
<1>1. SUBSET (1..0) = {{}}
  OBVIOUS
<1> QED
  BY <1>1, PowerCounts, FS_Singleton

-----------------------------------------------------------------------------
\* As long as no bit can be lost, the size is the old one times a power of
\* two, a proper one once the loop has ended.
PowerInv ==
  /\ pc \in {"loop", "malloc"} => asked < valid_sz
  /\ pc = "go_on" /\ valid_sz <= asked => sz = asked
  /\ 2 * valid_sz <= Mod =>
       /\ pc = "loop" => \E k \in 0..Width : sz = asked * 2^k
       /\ pc = "malloc" \/ (pc = "go_on" /\ asked < valid_sz)
            => \E k \in 1..Width : sz = asked * 2^k

\* The loop starts with the old size, times 2^0.
LEMMA TestKeepsPowerInv == IInv /\ Test => PowerInv'
<1> SUFFICES ASSUME IInv, Test
             PROVE  PowerInv'
  OBVIOUS
<1>1. asked \in Nat /\ valid_sz \in Nat /\ sz = asked /\ Width \in Nat
  BY GrowAssumption DEF IInv, TypeOK, LoopInv, Test, Size
<1>2. asked = asked * 2^0
  BY <1>1, PowerZero
<1>3. UNCHANGED <<asked, sz, valid_sz>>
  BY DEF Test
<1>4. CASE sz < valid_sz
  <2>1. 0 \in 0..Width /\ sz' = asked' * 2^0 /\ pc' = "loop"
    BY <1>1, <1>2, <1>3, <1>4 DEF Test
  <2> QED
    BY <1>1, <1>3, <1>4, <2>1 DEF PowerInv
<1>5. CASE ~(sz < valid_sz)
  BY <1>1, <1>3, <1>5 DEF Test, PowerInv
<1> QED
  BY <1>4, <1>5

\* A size below the need is at most half of all sizes, so that doubling it
\* loses no bit and adds one to an exponent that stays below the width.
LEMMA DoubleKeepsPowerInv == IInv /\ PowerInv /\ Double => PowerInv'
<1> SUFFICES ASSUME IInv, PowerInv, Double
             PROVE  PowerInv'
  OBVIOUS
<1>1. /\ Mod \in Nat /\ Mod = 2^Width /\ Width \in Nat
      /\ sz \in Nat /\ valid_sz \in Nat /\ sz < valid_sz
      /\ asked \in Nat /\ asked > 0 /\ asked < valid_sz
  BY GrowAssumption DEF IInv, TypeOK, LoopInv, PowerInv, Double, Size
<1>2. pc = "loop" /\ pc' \in {"abort", "malloc", "loop"}
      /\ UNCHANGED <<asked, valid_sz>>
  BY DEF Double
<1>3. ASSUME 2 * valid_sz <= Mod
      PROVE  \E k \in 1..Width : sz' = asked * 2^k
  <2>1. PICK k \in 0..Width : sz = asked * 2^k
    BY <1>2, <1>3 DEF PowerInv
  <2>2. 2 * sz < Mod /\ sz' = 2 * sz
    <3>1. 2 * sz < Mod
      BY <1>1, <1>3
    <3> QED
      BY <3>1, DoubledIs DEF IInv, TypeOK, Double
  <2>3. k \in Nat /\ 2^k \in Nat /\ 2^(k + 1) = 2 * 2^k
    <3>1. k \in Nat
      BY <1>1
    <3> QED
      BY <3>1, PowerCounts, PowerNext
  <2>4. sz' = asked * 2^(k + 1)
    BY <1>1, <2>1, <2>2, <2>3
  <2>5. 2^(k + 1) < Mod
    BY <1>1, <2>1, <2>2, <2>3
  <2>6. k + 1 \in 1..Width
    <3>1. CASE Width <= k + 1
      <4>1. 2^Width <= 2^(k + 1)
        BY <1>1, <3>1, PowerGrows
      <4> QED
        BY <1>1, <2>3, <2>5, <4>1
    <3> QED
      BY <1>1, <3>1
  <2> QED
    BY <2>4, <2>6
<1>4. ASSUME 2 * valid_sz <= Mod
      PROVE  \E k \in 0..Width : sz' = asked * 2^k
  BY <1>1, <1>3, <1>4
<1> QED
  BY <1>1, <1>2, <1>3, <1>4 DEF PowerInv

\* The sizes the loop can stop at are those the model of the resumes has.
THEOREM SizesAreAsInAco == Spec => []AsInAco
<1>1. Init => PowerInv
  BY DEF Init, PowerInv
<1>2. IInv /\ PowerInv /\ [Next]_vars => PowerInv'
  <2> SUFFICES ASSUME IInv, PowerInv, [Next]_vars
               PROVE  PowerInv'
    OBVIOUS
  <2>1. CASE Test
    BY <2>1, TestKeepsPowerInv
  <2>2. CASE Double
    BY <2>2, DoubleKeepsPowerInv
  <2>3. CASE Malloc
    <3>1. asked \in Nat /\ valid_sz \in Nat
      BY GrowAssumption DEF IInv, TypeOK, Size
    <3> QED
      BY <2>3, <3>1 DEF Malloc, PowerInv
  <2>4. CASE UNCHANGED vars
    BY <2>4 DEF vars, PowerInv
  <2> QED
    BY <2>1, <2>2, <2>3, <2>4 DEF Next
<1>3. IInv /\ PowerInv => AsInAco
  <2> SUFFICES ASSUME IInv, PowerInv, pc = "go_on", 2 * valid_sz <= Mod
               PROVE  AsInAco
    BY DEF AsInAco
  <2>1. asked \in Nat /\ valid_sz \in Nat /\ sz \in Nat
    BY GrowAssumption DEF IInv, TypeOK, Size
  <2>2. CASE valid_sz <= asked
    BY <2>2 DEF PowerInv, AsInAco
  <2>3. CASE ~(valid_sz <= asked)
    <3>1. \E k \in 1..Width : sz = asked * 2^k
      BY <2>1, <2>3 DEF PowerInv
    <3>2. sz \in valid_sz..(2 * valid_sz - 1)
      BY <2>1, <2>3 DEF IInv, LoopInv
    <3> QED
      BY <2>3, <3>1, <3>2 DEF AsInAco
  <2> QED
    BY <2>2, <2>3
<1> QED
  BY GrowInvariance, <1>1, <1>2, <1>3, PTL DEF Spec
=============================================================================
