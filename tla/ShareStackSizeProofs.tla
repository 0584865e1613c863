------------------------ MODULE ShareStackSizeProofs ------------------------
(***************************************************************************)
(* The guarantees of aco_share_stack_new2 for every width of size_t, every *)
(* page size and every address an allocator may return.                    *)
(***************************************************************************)
EXTENDS ShareStackSize, TLAPS

\* A number has one quotient and one remainder.
LEMMA DivisionIsUnique ==
  ASSUME NEW g \in Nat \ {0}, NEW n \in Nat, NEW q \in Nat, NEW r \in Nat,
         r < g, n = q * g + r
  PROVE  n \div g = q /\ n % g = r
<1> DEFINE d == n \div g
           m == n % g
<1>1. d \in Nat /\ m \in Nat /\ m < g /\ n = d * g + m
  BY Z3
<1>2. ASSUME NEW a \in Nat, NEW b \in Nat, NEW x \in Nat, NEW y \in Nat,
             x < g, y < g, a * g + x = b * g + y
      PROVE  ~(a < b)
  <2>1. SUFFICES ASSUME a < b PROVE FALSE
    OBVIOUS
  <2>2. (b - a - 1) * g >= 0
    BY <2>1, Z3
  <2>3. (b - a - 1) * g = b * g - a * g - g
    BY Z3
  <2> HIDE DEF d, m
  <2> QED
    BY <1>2, <2>2, <2>3, Z3
<1> HIDE DEF d, m
<1>3. ~(d < q) /\ ~(q < d)
  BY <1>1, <1>2
<1>4. d = q
  BY <1>1, <1>3
<1>5. m = r
  BY <1>1, <1>4
<1> QED
  BY <1>4, <1>5 DEF d, m

\* Division by a page size, as the facts the prover can reason with.
LEMMA Division ==
  ASSUME NEW g \in Nat \ {0}, NEW n \in Nat
  PROVE  \E q \in Nat, r \in 0..(g - 1) :
            /\ n = q * g + r
            /\ n \div g = q /\ n % g = r
<1> DEFINE q == n \div g
           r == n % g
<1>1. q \in Nat /\ r \in 0..(g - 1) /\ n = q * g + r
  BY Z3
<1> QED
  BY <1>1

\* A product with a sum.
LEMMA Distribute ==
  ASSUME NEW q \in Nat, NEW g \in Nat
  PROVE  /\ (q + 1) * g = q * g + g
         /\ (q + 2) * g = q * g + 2 * g
         /\ q * g \in Nat
BY Z3

\* w-bit addition of less than 2^w: either no bit is lost or 2^w is.
LEMMA Wrap ==
  ASSUME Mod \in Nat \ {0}, NEW x \in Nat, x < 2 * Mod
  PROVE  x % Mod = IF x < Mod THEN x ELSE x - Mod
<1>1. CASE x < Mod
  <2>1. x = 0 * Mod + x
    BY <1>1
  <2> QED
    BY <1>1, <2>1, DivisionIsUnique
<1>2. CASE ~(x < Mod)
  <2>1. x = 1 * Mod + (x - Mod) /\ x - Mod \in Nat /\ x - Mod < Mod
    BY <1>2
  <2> QED
    BY <1>2, <2>1, DivisionIsUnique
<1> QED
  BY <1>1, <1>2

-----------------------------------------------------------------------------
(***************************************************************************)
(* The arithmetic of the size.                                             *)
(***************************************************************************)
Pages(n, g) == (n + g - 1) \div g + 1

\* What the assumptions say of the constants.
LEMMA Constants ==
  /\ Mod \in Nat /\ Mod > MinSize /\ MinSize \in Nat \ {0}
  /\ PtrSize \in Nat /\ MinSize > 16 + 3 * PtrSize
  /\ DefaultSize \in Nat /\ DefaultSize < Mod
BY SizeAssumption

\* The size before pages are counted.
LEMMA WantedIs ==
  ASSUME NEW n \in Size
  PROVE  /\ Wanted(n) \in Size /\ Wanted(n) >= MinSize /\ Wanted(n) >= n
         /\ n = 0 => Wanted(n) >= DefaultSize
         /\ Wanted(n) \in {IF n = 0 THEN DefaultSize ELSE n, MinSize}
BY SizeAssumption DEF Wanted, Size

\* The assertions hold exactly when the pages that are needed, with the guard
\* page, can be counted in a size_t, and the sum is then their size.
LEMMA SizeInPages ==
  ASSUME NEW g \in PageSizes, NEW n \in Size, n # 0
  PROVE  /\ AssertsHold(n, g) <=> Pages(n, g) * g < Mod
         /\ WithGuard(n, g) \in Size
         /\ AssertsHold(n, g) =>
              /\ WithGuard(n, g) - g \in n..(n + g - 1)
              /\ WithGuard(n, g) >= 2 * g
              /\ (WithGuard(n, g) - g) % g = 0
<1>1. g \in Nat \ {0} /\ 2 * g < Mod /\ Mod \in Nat \ {0} /\ n \in Nat /\ n < Mod
  BY SizeAssumption DEF Size
<1>2. PICK q \in Nat, r \in 0..(g - 1) :
        n = q * g + r /\ n \div g = q /\ n % g = r
  BY <1>1, Division
<1>3. q * g \in Nat /\ (q + 1) * g = q * g + g /\ (q + 2) * g = q * g + 2 * g
  BY <1>1, Distribute
<1> DEFINE low == q * g
<1>4. low \in Nat /\ n = low + r /\ n - r = low /\ (q + 1) * g = low + g
      /\ (q + 2) * g = low + 2 * g
  BY <1>2, <1>3
<1>5. q + 2 \in Nat /\ q + 1 \in Nat
  OBVIOUS
<1>6. CASE n <= g
  <2>1. Pages(n, g) = 2
    <3>1. n + g - 1 = 1 * g + (n - 1) /\ n - 1 \in Nat /\ n - 1 < g
      BY <1>1, <1>6
    <3>2. (n + g - 1) \div g = 1
      BY <1>1, <3>1, DivisionIsUnique
    <3> QED
      BY <3>2 DEF Pages
  <2>2. WithGuard(n, g) = 2 * g
    <3>1. 2 * g \in Nat /\ 2 * g < 2 * Mod
      BY <1>1
    <3>2. (2 * g) % Mod = 2 * g
      BY <1>1, <3>1, Wrap
    <3> QED
      BY <1>1, <1>6, <3>2 DEF WithGuard
  <2>3. g % g = 0
    BY <1>1, DivisionIsUnique, g = 1 * g + 0
  <2>4. AssertsHold(n, g)
    BY <1>1, <1>6 DEF AssertsHold
  <2>5. 2 * g - g = g
    BY <1>1
  <2> QED
    BY <1>1, <1>6, <2>1, <2>2, <2>3, <2>4, <2>5 DEF Size
<1>7. CASE n > g /\ r # 0
  <2>1. Pages(n, g) = q + 2
    <3>1. /\ n + g - 1 = (q + 1) * g + (r - 1)
          /\ n + g - 1 \in Nat /\ r - 1 \in Nat /\ r - 1 < g
      BY <1>1, <1>2, <1>4, <1>7
    <3>2. (n + g - 1) \div g = q + 1
      BY <1>1, <1>5, <3>1, DivisionIsUnique
    <3> QED
      BY <3>2 DEF Pages
  <2> HIDE DEF low
  <2>2. WithGuard(n, g) = (low + 2 * g) % Mod
    BY <1>1, <1>2, <1>4, <1>7 DEF WithGuard
  <2>3. low + 2 * g \in Nat /\ low + 2 * g < 2 * Mod
    BY <1>1, <1>2, <1>4
  <2>4. WithGuard(n, g) = IF low + 2 * g < Mod THEN low + 2 * g
                          ELSE low + 2 * g - Mod
    <3>1. (low + 2 * g) % Mod = IF low + 2 * g < Mod THEN low + 2 * g
                                ELSE low + 2 * g - Mod
      <4> DEFINE x == low + 2 * g
      <4>1. x \in Nat /\ x < 2 * Mod
        BY <2>3
      <4> HIDE DEF x
      <4>2. x % Mod = IF x < Mod THEN x ELSE x - Mod
        BY <1>1, <4>1, Wrap
      <4> QED
        BY <1>1, <1>4, <2>3, <4>2 DEF x
    <3> QED
      BY <2>2, <3>1
  <2>5. CASE low + 2 * g < Mod
    <3>1. WithGuard(n, g) = (q + 2) * g + 0
      BY <1>1, <1>4, <2>4, <2>5
    <3>2. WithGuard(n, g) \in Nat
      BY <1>1, <1>4, <2>4, <2>5
    <3>3. WithGuard(n, g) \div g = q + 2 /\ WithGuard(n, g) % g = 0
      BY <1>1, <1>5, <3>1, <3>2, DivisionIsUnique
    <3>4. q >= 1
      BY <1>1, <1>2, <1>7
    <3>5. low >= g
      BY <1>1, <1>3, <3>4, Z3 DEF low
    <3>6. q + 2 \in Nat /\ q + 2 < Mod /\ q + 2 < 2 * Mod
      BY <1>1, <1>3, <1>4, <2>5, Z3
    <3>7. (q + 2) % Mod = q + 2
      BY <1>1, <3>6, Wrap
    <3>8. AssertsHold(n, g)
      BY <1>1, <1>2, <1>4, <1>7, <2>4, <2>5, <3>3, <3>4, <3>5, <3>7
         DEF AssertsHold
    <3>9. (WithGuard(n, g) - g) % g = 0
      <4>1. WithGuard(n, g) - g = (q + 1) * g + 0
        BY <1>1, <1>4, <2>4, <2>5
      <4>2. WithGuard(n, g) - g \in Nat
        BY <1>1, <1>4, <2>4, <2>5
      <4> QED
        BY <1>1, <1>5, <4>1, <4>2, DivisionIsUnique
    <3> QED
      BY <1>1, <1>2, <1>4, <1>7, <2>1, <2>4, <2>5, <3>8, <3>9 DEF Size
  <2>6. CASE ~(low + 2 * g < Mod)
    <3>1. WithGuard(n, g) < low /\ WithGuard(n, g) \in Size
      BY <1>1, <1>4, <2>3, <2>4, <2>6 DEF Size
    <3>2. ~AssertsHold(n, g)
      BY <1>1, <1>2, <1>4, <1>7, <3>1 DEF AssertsHold, Size
    <3> QED
      BY <1>1, <1>4, <2>1, <2>6, <3>1, <3>2
  <2> QED
    BY <2>5, <2>6
<1>8. CASE n > g /\ r = 0
  <2>1. Pages(n, g) = q + 1
    <3>1. n + g - 1 = q * g + (g - 1) /\ g - 1 \in Nat /\ g - 1 < g
      BY <1>1, <1>2, <1>3, <1>8
    <3>2. (n + g - 1) \div g = q
      BY <1>1, <3>1, DivisionIsUnique
    <3> QED
      BY <3>2 DEF Pages
  <2>2. n = low
    BY <1>4, <1>8
  <2>3. WithGuard(n, g) = (n + g) % Mod
    BY <1>1, <1>2, <1>8 DEF WithGuard
  <2>4. n + g \in Nat /\ n + g < 2 * Mod
    BY <1>1
  <2>5. WithGuard(n, g) = IF n + g < Mod THEN n + g ELSE n + g - Mod
    <3>1. (n + g) % Mod = IF n + g < Mod THEN n + g ELSE n + g - Mod
      BY <1>1, <2>4, Wrap
    <3> QED
      BY <2>3, <3>1
  <2> HIDE DEF low
  <2>6. CASE n + g < Mod
    <3>1. WithGuard(n, g) = (q + 1) * g + 0
      BY <1>1, <1>4, <2>2, <2>5, <2>6
    <3>2. WithGuard(n, g) \in Nat
      BY <1>1, <2>5, <2>6
    <3>3. WithGuard(n, g) \div g = q + 1 /\ WithGuard(n, g) % g = 0
      BY <1>1, <1>5, <3>1, <3>2, DivisionIsUnique
    <3>4. q >= 1
      BY <1>1, <1>2, <1>8
    <3>5. q + 1 \in Nat /\ q + 1 < Mod /\ q + 1 < 2 * Mod
      BY <1>1, <1>3, <1>4, <2>2, <2>6, Z3
    <3>6. (q + 1) % Mod = q + 1
      BY <1>1, <3>5, Wrap
    <3>7. AssertsHold(n, g)
      BY <1>1, <1>2, <1>8, <2>5, <2>6, <3>3, <3>4, <3>6
         DEF AssertsHold
    <3>8. WithGuard(n, g) - g = n /\ n % g = 0
      BY <1>1, <1>2, <1>8, <2>5, <2>6
    <3> QED
      BY <1>1, <1>4, <1>8, <2>1, <2>2, <2>5, <2>6, <3>7, <3>8 DEF Size
  <2>7. CASE ~(n + g < Mod)
    <3>1. WithGuard(n, g) < n /\ WithGuard(n, g) \in Size
      BY <1>1, <2>4, <2>5, <2>7 DEF Size
    <3>2. ~AssertsHold(n, g)
      BY <1>1, <1>2, <1>8, <3>1 DEF AssertsHold, Size
    <3> QED
      BY <1>1, <1>4, <2>1, <2>2, <2>7, <3>1, <3>2
  <2> QED
    BY <2>6, <2>7
<1> QED
  BY <1>1, <1>2, <1>6, <1>7, <1>8

-----------------------------------------------------------------------------
(***************************************************************************)
(* The invariant.                                                          *)
(***************************************************************************)
\* A page size is known exactly when there is a guard page.
PageIsKnown == IF guard THEN pg \in PageSizes ELSE pg = 0

\* Nothing is held before the area is allocated.
NothingHeld ==
  phase \in {"called", "sized", "described", "abort_size", "abort_alloc"} =>
    /\ p = NoStack
    /\ allocated = {} /\ readonly = {}

\* n bytes are what is wanted, in pages and with the guard page if asked for.
Settled(n) ==
  IF guard
  THEN /\ n - pg \in Wanted(asked)..(Wanted(asked) + pg - 1)
       /\ (n - pg) % pg = 0
  ELSE n = Wanted(asked)

SizeIsSettled ==
  /\ phase = "called" => sz = asked
  /\ phase \in {"sized", "described"} => Settled(sz)

\* The area that is held, and the usable part of it.
AreaIsHeld ==
  phase \in {"mapped", "ready"} =>
    /\ allocated = {Freed}
    /\ p.ptr >= 1 /\ p.ptr + p.sz <= Mod
    /\ IF guard
       THEN /\ Settled(p.real_sz)
            /\ p.ptr = p.real_ptr + pg
            /\ p.sz = p.real_sz - pg
            /\ readonly = {<<p.real_ptr, pg>>}
       ELSE /\ Settled(p.sz)
            /\ readonly = {}

\* The pointers of a stack that is ready.
PointersAreLaid ==
  phase = "ready" =>
    LET u == p.ptr + p.sz - 2 * PtrSize
    IN /\ p.align_highptr = u - (u % 16)
       /\ p.align_retptr = p.align_highptr - PtrSize
       /\ p.align_limit = p.sz - 16 - 2 * PtrSize

IInv ==
  /\ TypeOK /\ PageIsKnown /\ NothingHeld /\ SizeIsSettled
  /\ AreaIsHeld /\ PointersAreLaid
  /\ DiesOfOverflowOnly /\ AllIsFreed

\* The invariant holds when the call is made.
LEMMA InitIInv == Init => IInv
<1> SUFFICES ASSUME Init PROVE IInv
  OBVIOUS
<1>1. 0 \in Size
  BY Constants DEF Size
<1>2. NoStack \in [DOMAIN NoStack -> Size]
  BY <1>1 DEF NoStack
<1>3. TypeOK
  BY <1>1, <1>2 DEF Init, TypeOK, Phases
<1> QED
  BY <1>3 DEF Init, IInv, PageIsKnown, NothingHeld, SizeIsSettled,
     AreaIsHeld, PointersAreLaid, DiesOfOverflowOnly, AllIsFreed

\* The size is settled, or the call dies because no size_t holds it.
LEMMA SettleSizeKeepsIInv ==
  ASSUME IInv, SettleSize
  PROVE  IInv'
<1> DEFINE n == Wanted(asked)
<1>1. sz = asked /\ asked \in Size
  BY DEF IInv, SettleSize, SizeIsSettled, TypeOK
<1>2. n \in Size /\ n # 0 /\ n >= MinSize
  BY <1>1, WantedIs, Constants DEF Size
<1>3. /\ phase = "called"
      /\ UNCHANGED <<asked, guard, pg, descriptor, p, allocated, readonly>>
  BY DEF SettleSize, call
<1>4. \/ /\ guard /\ AssertsHold(n, pg)
         /\ sz' = WithGuard(n, pg) /\ phase' = "sized"
      \/ /\ guard /\ ~AssertsHold(n, pg)
         /\ sz' = sz /\ phase' = "abort_size"
      \/ /\ ~guard
         /\ sz' = n /\ phase' = "sized"
  BY <1>1 DEF SettleSize
<1> HIDE DEF n
<1>5. guard => /\ AssertsHold(n, pg) <=> Pages(n, pg) * pg < Mod
               /\ WithGuard(n, pg) \in Size
               /\ AssertsHold(n, pg) =>
                    /\ WithGuard(n, pg) - pg \in n..(n + pg - 1)
                    /\ (WithGuard(n, pg) - pg) % pg = 0
  BY <1>2, SizeInPages DEF IInv, PageIsKnown
<1>6. TypeOK'
  BY <1>1, <1>2, <1>3, <1>4, <1>5 DEF IInv, TypeOK, Phases
<1>7. SizeIsSettled'
  BY <1>3, <1>4, <1>5 DEF SizeIsSettled, Settled, n
<1>8. DiesOfOverflowOnly'
  <2>1. guard => pg \in Nat \ {0} /\ n \in Nat
    BY <1>2, SizeAssumption DEF IInv, PageIsKnown, Size
  <2>2. guard => Pages(n, pg) \in Nat
    BY <2>1, Division DEF Pages
  <2>3. guard => Pages(n, pg) * pg \in Nat
    BY <2>1, <2>2, Distribute
  <2>4. guard => (phase' = "abort_size" <=> Pages(n, pg) * pg >= Mod)
    BY <1>4, <1>5, <2>3, Constants
  <2> QED
    BY <1>3, <2>4 DEF DiesOfOverflowOnly, Pages, n
<1>9. (PageIsKnown /\ NothingHeld)'
  BY <1>3, <1>4 DEF IInv, PageIsKnown, NothingHeld
<1>10. (AreaIsHeld /\ PointersAreLaid /\ AllIsFreed)'
  BY <1>4 DEF AreaIsHeld, PointersAreLaid, AllIsFreed
<1> QED
  BY <1>6, <1>7, <1>8, <1>9, <1>10 DEF IInv

\* The fields of a share stack.
LEMMA FieldsOfStack ==
  DOMAIN NoStack = {"real_ptr", "real_sz", "ptr", "sz", "align_highptr",
                    "align_retptr", "align_limit"}
BY DEF NoStack

\* The usable part has the smallest size at least, and is whole pages.
LEMMA UsableIsEnough ==
  ASSUME NEW n \in Size, Settled(n), PageIsKnown, TypeOK
  PROVE  /\ pg \in Nat /\ n - pg \in Size
         /\ n - pg >= MinSize /\ n - pg >= Wanted(asked)
<1>1. asked \in Size /\ Wanted(asked) \in Size /\ Wanted(asked) >= MinSize
  BY WantedIs DEF TypeOK
<1>2. pg \in Nat
  BY SizeAssumption DEF PageIsKnown
<1> QED
  BY <1>1, <1>2, Constants DEF Settled, PageIsKnown, Size

\* The descriptor is held, and nothing else yet.
LEMMA MallocDescriptorKeepsIInv ==
  ASSUME IInv, MallocDescriptor
  PROVE  IInv'
<1>1. /\ phase = "sized" /\ phase' = "described"
      /\ descriptor' = TRUE /\ p' = p
      /\ UNCHANGED <<asked, guard, pg, sz, allocated, readonly>>
  BY DEF MallocDescriptor, call, IInv, NothingHeld
<1>2. TypeOK'
  BY <1>1 DEF IInv, TypeOK, Phases
<1>3. (PageIsKnown /\ NothingHeld)'
  BY <1>1 DEF IInv, PageIsKnown, NothingHeld
<1>4. SizeIsSettled'
  BY <1>1 DEF IInv, SizeIsSettled, Settled
<1>5. (AreaIsHeld /\ PointersAreLaid /\ AllIsFreed)'
  BY <1>1 DEF AreaIsHeld, PointersAreLaid, AllIsFreed
<1>6. DiesOfOverflowOnly'
  BY <1>1 DEF IInv, DiesOfOverflowOnly
<1> QED
  BY <1>2, <1>3, <1>4, <1>5, <1>6 DEF IInv

\* The area with a guard page is what was settled, and it is all held.
LEMMA MapWithGuardKeepsIInv ==
  ASSUME IInv, NEW a \in Addrs, MapWithGuard(a)
  PROVE  IInv'
<1>1. /\ phase = "described" /\ guard /\ a + sz <= Mod
      /\ p' = [p EXCEPT !.real_ptr = a, !.real_sz = sz,
                        !.ptr = a + pg, !.sz = sz - pg]
      /\ allocated' = {<<a, sz>>} /\ readonly' = {<<a, pg>>}
      /\ phase' = "mapped"
      /\ UNCHANGED <<asked, guard, pg, sz, descriptor>>
  BY DEF MapWithGuard, call
<1>2. sz \in Size /\ Settled(sz) /\ pg \in Nat \ {0}
  BY <1>1, SizeAssumption DEF IInv, TypeOK, SizeIsSettled, PageIsKnown
<1>3. sz - pg \in Size /\ sz - pg >= MinSize /\ a \in Nat /\ a >= 1
      /\ a \in Size /\ a + pg \in Size
  BY <1>1, <1>2, UsableIsEnough, SizeAssumption, Constants DEF IInv, Size
<1>4. p \in [DOMAIN NoStack -> Size]
  BY DEF IInv, TypeOK
<1>5. /\ p'.real_ptr = a /\ p'.real_sz = sz
      /\ p'.ptr = a + pg /\ p'.sz = sz - pg
  BY <1>1, <1>4, FieldsOfStack
<1>6. p' \in [DOMAIN NoStack -> Size]
  BY <1>1, <1>2, <1>3, <1>4, FieldsOfStack
<1>7. TypeOK'
  <2>1. pg \in Size
    BY <1>2, SizeAssumption DEF IInv, PageIsKnown, Size
  <2> QED
    BY <1>1, <1>2, <1>3, <1>6, <2>1 DEF IInv, TypeOK, Phases
<1>8. AreaIsHeld'
  <2>1. Settled(sz)'
    BY <1>1, <1>2 DEF Settled
  <2>2. Freed' = <<a, sz>>
    BY <1>1, <1>5 DEF Freed
  <2>3. a + pg >= 1 /\ (a + pg) + (sz - pg) <= Mod
    BY <1>1, <1>2, <1>3 DEF Size
  <2> QED
    BY <1>1, <1>5, <2>1, <2>2, <2>3 DEF AreaIsHeld, Settled
<1>9. (PageIsKnown /\ NothingHeld /\ SizeIsSettled)'
  BY <1>1 DEF IInv, PageIsKnown, NothingHeld, SizeIsSettled
<1>10. (PointersAreLaid /\ AllIsFreed)'
  BY <1>1 DEF PointersAreLaid, AllIsFreed
<1>11. DiesOfOverflowOnly'
  BY <1>1 DEF IInv, DiesOfOverflowOnly
<1> QED
  BY <1>7, <1>8, <1>9, <1>10, <1>11 DEF IInv

\* The area without guard page starts at the address that was allocated.
LEMMA MallocKeepsIInv ==
  ASSUME IInv, NEW a \in Addrs, Malloc(a)
  PROVE  IInv'
<1>1. /\ phase = "described" /\ ~guard /\ a + sz <= Mod
      /\ p' = [p EXCEPT !.ptr = a, !.sz = sz]
      /\ allocated' = {<<a, sz>>} /\ phase' = "mapped"
      /\ UNCHANGED <<asked, guard, pg, sz, descriptor, readonly>>
  BY DEF Malloc, call
<1>2. sz \in Size /\ Settled(sz) /\ a \in Size /\ a >= 1 /\ a \in Nat
      /\ readonly = {}
  BY <1>1, SizeAssumption
     DEF IInv, TypeOK, SizeIsSettled, NothingHeld, Size
<1>3. p \in [DOMAIN NoStack -> Size]
  BY DEF IInv, TypeOK
<1>4. p'.ptr = a /\ p'.sz = sz
  BY <1>1, <1>3, FieldsOfStack
<1>5. p' \in [DOMAIN NoStack -> Size]
  BY <1>1, <1>2, <1>3, FieldsOfStack
<1>6. TypeOK'
  BY <1>1, <1>2, <1>5 DEF IInv, TypeOK, Phases
<1>7. AreaIsHeld'
  <2>1. Settled(sz)'
    BY <1>1, <1>2 DEF Settled
  <2>2. Freed' = <<a, sz>>
    BY <1>1, <1>4 DEF Freed
  <2> QED
    BY <1>1, <1>2, <1>4, <2>1, <2>2 DEF AreaIsHeld, Settled
<1>8. (PageIsKnown /\ NothingHeld /\ SizeIsSettled)'
  BY <1>1 DEF IInv, PageIsKnown, NothingHeld, SizeIsSettled
<1>9. (PointersAreLaid /\ AllIsFreed)'
  BY <1>1 DEF PointersAreLaid, AllIsFreed
<1>10. DiesOfOverflowOnly'
  BY <1>1 DEF IInv, DiesOfOverflowOnly
<1> QED
  BY <1>6, <1>7, <1>8, <1>9, <1>10 DEF IInv

\* A call that dies for want of memory leaves nothing half done.
LEMMA AllocFailsKeepsIInv ==
  ASSUME IInv, AllocFails
  PROVE  IInv'
<1>1. /\ phase \in {"sized", "described"} /\ phase' = "abort_alloc"
      /\ UNCHANGED <<asked, guard, pg, sz, descriptor, p, allocated, readonly>>
  BY DEF AllocFails, call
<1>2. TypeOK'
  BY <1>1 DEF IInv, TypeOK, Phases
<1>3. (PageIsKnown /\ NothingHeld /\ SizeIsSettled)'
  BY <1>1 DEF IInv, PageIsKnown, NothingHeld, SizeIsSettled
<1>4. (AreaIsHeld /\ PointersAreLaid /\ AllIsFreed)'
  BY <1>1 DEF AreaIsHeld, PointersAreLaid, AllIsFreed
<1>5. DiesOfOverflowOnly'
  BY <1>1 DEF IInv, DiesOfOverflowOnly
<1> QED
  BY <1>2, <1>3, <1>4, <1>5 DEF IInv

\* Where the usable part begins and ends, and that the pointers fit in.
LEMMA UsablePart ==
  ASSUME IInv, phase \in {"mapped", "ready"}
  PROVE  /\ p \in [DOMAIN NoStack -> Size]
         /\ p.ptr \in Nat /\ p.sz \in Nat
         /\ p.ptr >= 1 /\ p.ptr + p.sz <= Mod
         /\ p.sz >= MinSize /\ p.sz >= Wanted(asked)
<1>1. p \in [DOMAIN NoStack -> Size] /\ PageIsKnown /\ TypeOK /\ AreaIsHeld
  BY DEF IInv, TypeOK
<1>2. p.ptr \in Size /\ p.sz \in Size /\ p.real_sz \in Size
  BY <1>1, FieldsOfStack
<1>3. CASE guard
  <2>1. Settled(p.real_sz) /\ p.sz = p.real_sz - pg
    BY <1>1, <1>3 DEF AreaIsHeld
  <2> QED
    BY <1>1, <1>2, <2>1, UsableIsEnough DEF AreaIsHeld, Size
<1>4. CASE ~guard
  <2>1. p.sz = Wanted(asked)
    BY <1>1, <1>4 DEF AreaIsHeld, Settled
  <2>2. Wanted(asked) >= MinSize
    BY <1>1, WantedIs DEF TypeOK
  <2>3. Wanted(asked) \in Nat
    BY <1>2, <2>1 DEF Size
  <2> QED
    BY <1>1, <1>2, <2>1, <2>2, <2>3 DEF AreaIsHeld, Size
<1> QED
  BY <1>3, <1>4

\* An address is less than 16 bytes above the multiple of 16 below it.
LEMMA AlignedIs ==
  ASSUME NEW u \in Nat
  PROVE  /\ u - (u % 16) \in Nat
         /\ u - (u % 16) <= u /\ u - (u % 16) >= u - 15
         /\ (u - (u % 16)) % 16 = 0
OBVIOUS

\* The pointers are where they should be, none of them below zero.
LEMMA LayOutKeepsIInv ==
  ASSUME IInv, LayOut
  PROVE  IInv'
<1> DEFINE u == p.ptr + p.sz - 2 * PtrSize
           high == u - (u % 16)
<1>1. phase = "mapped" /\ phase' = "ready"
      /\ UNCHANGED <<asked, guard, pg, sz, descriptor, allocated, readonly>>
  BY DEF LayOut, call
<1>2. /\ p \in [DOMAIN NoStack -> Size]
      /\ p.ptr \in Nat /\ p.sz \in Nat
      /\ p.ptr >= 1 /\ p.ptr + p.sz <= Mod /\ p.sz >= MinSize
  BY <1>1, UsablePart
<1>3. PtrSize \in {4, 8} /\ MinSize > 16 + 3 * PtrSize /\ MinSize \in Nat
      /\ Mod \in Nat \ {0}
  BY SizeAssumption
<1>4. u \in Nat /\ u < Mod /\ u >= MinSize - 2 * PtrSize
  BY <1>2, <1>3
<1>5. (p.sz - 2 * PtrSize + p.ptr) % Mod = u
  <2>1. p.sz - 2 * PtrSize + p.ptr = u
    BY <1>2, <1>3
  <2>2. u < 2 * Mod
    BY <1>3, <1>4
  <2> HIDE DEF u
  <2>3. u % Mod = u
    BY <1>3, <1>4, <2>2, Wrap
  <2> QED
    BY <2>1, <2>3
<1>6. p' = [p EXCEPT !.align_highptr = high,
                     !.align_retptr = high - PtrSize,
                     !.align_limit = p.sz - 16 - 2 * PtrSize]
  BY <1>5 DEF LayOut
<1>7. /\ high \in Size
      /\ high - PtrSize \in Size
      /\ p.sz - 16 - 2 * PtrSize \in Size
  <2> HIDE DEF u
  <2>1. high \in Nat /\ high <= u /\ high >= u - 15
    BY <1>4, AlignedIs
  <2>2. high >= PtrSize /\ high < Mod
    BY <1>3, <1>4, <2>1
  <2> HIDE DEF high
  <2> QED
    BY <1>2, <1>3, <2>1, <2>2 DEF Size
<1> HIDE DEF u, high
<1>8. /\ p'.align_highptr = high /\ p'.align_retptr = high - PtrSize
      /\ p'.align_limit = p.sz - 16 - 2 * PtrSize
      /\ p'.ptr = p.ptr /\ p'.sz = p.sz
      /\ p'.real_ptr = p.real_ptr /\ p'.real_sz = p.real_sz
  BY <1>2, <1>6, FieldsOfStack
<1>9. p' \in [DOMAIN NoStack -> Size]
  BY <1>2, <1>6, <1>7, FieldsOfStack
<1>10. TypeOK'
  BY <1>1, <1>9 DEF IInv, TypeOK, Phases
<1>11. AreaIsHeld'
  BY <1>1, <1>8 DEF IInv, AreaIsHeld, Settled, Freed
<1>12. PointersAreLaid'
  BY <1>8 DEF PointersAreLaid, u, high
<1>13. (PageIsKnown /\ NothingHeld /\ SizeIsSettled)'
  BY <1>1 DEF IInv, PageIsKnown, NothingHeld, SizeIsSettled
<1>14. (DiesOfOverflowOnly /\ AllIsFreed)'
  BY <1>1 DEF IInv, DiesOfOverflowOnly, AllIsFreed
<1> QED
  BY <1>10, <1>11, <1>12, <1>13, <1>14 DEF IInv

\* What is given back is what was held, unless munmap fails.
LEMMA DestroyKeepsIInv ==
  ASSUME IInv, Destroy, phase' = "destroyed"
  PROVE  IInv'
<1>1. /\ phase = "ready" /\ phase' = "destroyed" /\ descriptor' = FALSE
      /\ allocated' = allocated \ {Freed} /\ readonly' = {} /\ p' = NoStack
      /\ UNCHANGED <<asked, guard, pg, sz>>
  BY DEF Destroy, call
<1>2. allocated' = {}
  BY <1>1 DEF IInv, AreaIsHeld
<1>3. NoStack \in [DOMAIN NoStack -> Size]
  <2>1. 0 \in Size
    BY Constants DEF Size
  <2> QED
    BY <2>1 DEF NoStack
<1>4. TypeOK'
  BY <1>1, <1>2, <1>3 DEF IInv, TypeOK, Phases
<1>5. (PageIsKnown /\ NothingHeld /\ SizeIsSettled)'
  BY <1>1 DEF IInv, PageIsKnown, NothingHeld, SizeIsSettled
<1>6. (AreaIsHeld /\ PointersAreLaid /\ AllIsFreed)'
  BY <1>1, <1>2 DEF AreaIsHeld, PointersAreLaid, AllIsFreed
<1>7. DiesOfOverflowOnly'
  BY <1>1 DEF IInv, DiesOfOverflowOnly
<1> QED
  BY <1>4, <1>5, <1>6, <1>7 DEF IInv

\* A process that dies in munmap has destroyed nothing.
LEMMA MunmapFailsKeepsIInv ==
  ASSUME IInv, Destroy, phase' # "destroyed"
  PROVE  IInv'
<1>1. /\ phase = "ready" /\ phase' = "abort_munmap"
      /\ UNCHANGED <<asked, guard, pg, sz, descriptor, p, allocated, readonly>>
  BY DEF Destroy, call
<1>2. TypeOK'
  BY <1>1 DEF IInv, TypeOK, Phases
<1>3. (PageIsKnown /\ NothingHeld /\ SizeIsSettled)'
  BY <1>1 DEF IInv, PageIsKnown, NothingHeld, SizeIsSettled
<1>4. (AreaIsHeld /\ PointersAreLaid /\ AllIsFreed)'
  BY <1>1 DEF AreaIsHeld, PointersAreLaid, AllIsFreed
<1>5. DiesOfOverflowOnly'
  BY <1>1 DEF IInv, DiesOfOverflowOnly
<1> QED
  BY <1>2, <1>3, <1>4, <1>5 DEF IInv

-----------------------------------------------------------------------------
(***************************************************************************)
(* The theorems.                                                           *)
(***************************************************************************)
\* The invariant holds initially, every step of the two calls preserves it.
THEOREM SizeInvariance == Spec => []IInv
<1>1. IInv /\ [Next]_vars => IInv'
  <2> SUFFICES ASSUME IInv, [Next]_vars PROVE IInv'
    OBVIOUS
  <2>1. CASE SettleSize
    BY <2>1, SettleSizeKeepsIInv
  <2>2. ASSUME NEW a \in Addrs, MapWithGuard(a) PROVE IInv'
    BY <2>2, MapWithGuardKeepsIInv
  <2>3. ASSUME NEW a \in Addrs, Malloc(a) PROVE IInv'
    BY <2>3, MallocKeepsIInv
  <2>4. CASE AllocFails
    BY <2>4, AllocFailsKeepsIInv
  <2>5. CASE LayOut
    BY <2>5, LayOutKeepsIInv
  <2>6. CASE Destroy
    BY <2>6, DestroyKeepsIInv, MunmapFailsKeepsIInv
  <2>7. CASE MallocDescriptor
    BY <2>7, MallocDescriptorKeepsIInv
  <2>8. CASE UNCHANGED vars
    BY <2>8 DEF vars, call, IInv, TypeOK, PageIsKnown, NothingHeld, SizeIsSettled,
       Settled, AreaIsHeld, Freed, PointersAreLaid, DiesOfOverflowOnly,
       AllIsFreed
  <2> QED
    BY <2>1, <2>2, <2>3, <2>4, <2>5, <2>6, <2>7, <2>8 DEF Next
<1> QED
  BY InitIInv, <1>1, PTL DEF Spec

\* Every variable keeps its type; in particular no w-bit expression of the
\* layout (aco.c:278-283) is negative or leaves size_t.
THEOREM SizeTypeCorrect == Spec => []TypeOK
BY SizeInvariance, PTL DEF IInv

\* The call of aco_share_stack_new2 dies over the size (aco.c:228-243) exactly
\* when a size_t cannot hold the pages that are wanted.
THEOREM SizeAbortIsOverflow == Spec => []DiesOfOverflowOnly
BY SizeInvariance, PTL DEF IInv

\* aco_share_stack_destroy (aco.c:290-305) gives back the whole area
\* and the descriptor.
THEOREM DestroyFreesAll == Spec => []AllIsFreed
BY SizeInvariance, PTL DEF IInv

\* The usable size (README.md:313-317) is at least what was asked for, and not
\* a page more than that takes.
THEOREM SizeIsAsPromised == Spec => []SizeAsPromised
<1>1. IInv => SizeAsPromised
  <2> SUFFICES ASSUME IInv, phase \in {"mapped", "ready"}
               PROVE  SizeAsPromised
    BY DEF SizeAsPromised
  <2>1. p.sz \in Nat /\ p.sz >= MinSize /\ p.sz >= Wanted(asked)
    BY UsablePart
  <2>2. /\ asked \in Nat /\ Wanted(asked) \in Nat /\ Wanted(asked) >= asked
        /\ asked = 0 => Wanted(asked) >= DefaultSize
        /\ Wanted(asked) \in {IF asked = 0 THEN DefaultSize ELSE asked, MinSize}
    BY WantedIs DEF IInv, TypeOK, Size
  <2>3. CASE guard
    <3>1. /\ p.sz = p.real_sz - pg
          /\ Settled(p.real_sz)
      BY <2>3 DEF IInv, AreaIsHeld
    <3>2. p.sz % pg = 0 /\ p.sz \in Wanted(asked)..(Wanted(asked) + pg - 1)
      BY <2>3, <3>1 DEF Settled
    <3>3. pg \in Nat
      BY <2>3, SizeAssumption DEF IInv, PageIsKnown
    <3>4. p.sz - pg < Wanted(asked)
      BY <2>1, <2>2, <3>2, <3>3
    <3> QED
      BY <2>1, <2>2, <2>3, <3>2, <3>4, Constants DEF SizeAsPromised
  <2>4. CASE ~guard
    <3>1. p.sz = Wanted(asked)
      BY <2>4 DEF IInv, AreaIsHeld, Settled
    <3> QED
      BY <2>1, <2>2, <2>4, <3>1, Constants DEF SizeAsPromised
  <2> QED
    BY <2>3, <2>4
<1> QED
  BY SizeInvariance, <1>1, PTL

\* What the pointers of a ready stack are, in numbers.
LEMMA Laid ==
  ASSUME IInv, phase = "ready"
  PROVE  /\ p.align_highptr \in Nat /\ p.align_highptr % 16 = 0
         /\ p.align_highptr <= p.ptr + p.sz - 2 * PtrSize
         /\ p.align_highptr >= p.ptr + p.sz - 2 * PtrSize - 15
         /\ p.align_retptr = p.align_highptr - PtrSize
         /\ p.align_limit = p.sz - 16 - 2 * PtrSize
         /\ p.align_limit \in Nat /\ p.align_limit >= PtrSize
         /\ p.ptr \in Nat /\ p.sz \in Nat
<1> DEFINE u == p.ptr + p.sz - 2 * PtrSize
<1>1. p.ptr \in Nat /\ p.sz \in Nat /\ p.sz >= MinSize
  BY UsablePart
<1>2. PtrSize \in {4, 8} /\ MinSize \in Nat /\ MinSize > 16 + 3 * PtrSize
  BY SizeAssumption
<1>3. u \in Nat
  BY <1>1, <1>2
<1>4. /\ p.align_highptr = u - (u % 16)
      /\ p.align_retptr = p.align_highptr - PtrSize
      /\ p.align_limit = p.sz - 16 - 2 * PtrSize
  BY DEF IInv, PointersAreLaid
<1> HIDE DEF u
<1>5. /\ p.align_highptr \in Nat /\ p.align_highptr % 16 = 0
      /\ p.align_highptr <= u /\ p.align_highptr >= u - 15
  BY <1>3, <1>4, AlignedIs
<1> USE DEF u
<1> QED
  BY <1>1, <1>2, <1>4, <1>5

\* Every stack pointer that aco_resume accepts (aco.c:379), and the slot of the
\* return address, is in the usable area and off the guard page.
THEOREM LayoutAlwaysFits == Spec => []LayoutFits
<1>1. IInv => LayoutFits
  <2> SUFFICES ASSUME IInv, phase = "ready"
               PROVE  LayoutFits
    BY DEF LayoutFits
  <2>1. PtrSize \in {4, 8}
    BY SizeAssumption
  <2> DEFINE lowest == p.align_highptr - p.align_limit
  <2>2. /\ p.align_highptr % 16 = 0
        /\ p.ptr <= lowest /\ lowest <= p.align_retptr
        /\ p.align_retptr + PtrSize <= p.ptr + p.sz
    BY <2>1, Laid
  <2>3. guard =>
          /\ readonly = {<<p.real_ptr, p.ptr - p.real_ptr>>}
          /\ p.ptr + p.sz = p.real_ptr + p.real_sz
    <3>1. SUFFICES ASSUME guard
                   PROVE  /\ readonly = {<<p.real_ptr, p.ptr - p.real_ptr>>}
                          /\ p.ptr + p.sz = p.real_ptr + p.real_sz
      OBVIOUS
    <3>2. /\ p.ptr = p.real_ptr + pg /\ p.sz = p.real_sz - pg
          /\ readonly = {<<p.real_ptr, pg>>}
      BY <3>1 DEF IInv, AreaIsHeld
    <3>3. p.real_ptr \in Nat /\ p.real_sz \in Nat /\ pg \in Nat
      BY <3>1, FieldsOfStack, SizeAssumption
         DEF IInv, TypeOK, PageIsKnown, Size
    <3>4. p.ptr - p.real_ptr = pg
      BY <3>2, <3>3
    <3> QED
      BY <3>2, <3>3, <3>4
  <2> QED
    BY <2>2, <2>3 DEF LayoutFits
<1> QED
  BY SizeInvariance, <1>1, PTL

\* Division by a size of a pointer keeps the order of numbers.
LEMMA InWords ==
  ASSUME NEW x \in Nat, NEW y \in Nat, NEW w \in {4, 8},
         x >= w, x - w <= y
  PROVE  x \div w >= 1 /\ (x \div w) - 1 <= y \div w
<1>1. CASE w = 4
  <2>1. x \div 4 >= 1 /\ (x \div 4) - 1 <= y \div 4
    BY <1>1
  <2> QED
    BY <1>1, <2>1
<1>2. CASE w = 8
  <2>1. x \div 8 >= 1 /\ (x \div 8) - 1 <= y \div 8
    BY <1>2
  <2> QED
    BY <1>2, <2>1
<1> QED
  BY <1>1, <1>2

\* What AcoAssumption asks of Limit and Room in module Aco holds of the area
\* of every share stack.
THEOREM LimitIsBelowStack == Spec => []LimitBelowStack
<1>1. IInv => LimitBelowStack
  <2> SUFFICES ASSUME IInv, phase = "ready"
               PROVE  LimitBelowStack
    BY DEF LimitBelowStack
  <2>1. PtrSize \in {4, 8}
    BY SizeAssumption
  <2>2. /\ p.align_limit \in Nat /\ p.align_limit >= PtrSize
        /\ p.align_retptr - p.ptr \in Nat
        /\ p.align_limit - PtrSize <= p.align_retptr - p.ptr
    BY <2>1, Laid
  <2> QED
    BY <2>1, <2>2, InWords DEF LimitBelowStack
<1> QED
  BY SizeInvariance, <1>1, PTL
=============================================================================
