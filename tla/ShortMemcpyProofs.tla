------------------------- MODULE ShortMemcpyProofs -------------------------
(***************************************************************************)
(* Proofs about module ShortMemcpy, for every length and every alignment   *)
(* of the two areas.                                                       *)
(***************************************************************************)
EXTENDS ShortMemcpy, TLAPS

\* The destination when its first n bytes have been copied.
Filled(n) == [a \in Watched(sz) |-> IF a \in 0..(n - 1) THEN a ELSE Old]

\* xmm_0 to xmm_(n - 1) hold the first n units of the source.
Loaded(n) == \A k \in 0..(n - 1) : xmm[k] = Bytes(16 * k, 16)

\* How far a copy by units is. The tail begins where the units end.
InlineInv ==
  /\ TestOk
  /\ pc \in {"load", "store"} => Units >= 1 /\ i \in 0..(Units - 1)
  /\ pc = "load" => Loaded(i) /\ mem = Filled(0)
  /\ pc = "store" => Loaded(Units) /\ mem = Filled(16 * i)
  /\ pc = "tail" => mem = Filled(16 * Units)

\* The inductive invariant.
CopyInv ==
  /\ sz \in Nat \ {0}
  /\ pc \in {"test", "load", "store", "tail", "done"}
  /\ pc = "test" => i = 0 /\ mem = Filled(0)
  /\ pc \in {"load", "store", "tail"} => InlineInv
  /\ pc = "done" => mem = Filled(sz)

-----------------------------------------------------------------------------
\* A store that begins where the copied bytes end makes them longer.
LEMMA StoredExtends ==
  ASSUME sz \in Nat, NEW n \in Nat, NEW m \in Nat, mem = Filled(n)
  PROVE  Stored(Bytes(n, m), n, m) = Filled(n + m)
<1>1. /\ \A a \in Watched(sz) : a \in Int
      /\ DOMAIN mem = Watched(sz)
      /\ \A a \in Watched(sz) : mem[a] = IF a \in 0..(n - 1) THEN a ELSE Old
  BY DEF Watched, Filled
<1>2. ASSUME NEW a \in Watched(sz)
      PROVE  (IF a \in n..(n + m - 1) THEN Bytes(n, m)[a - n] ELSE mem[a])
               = IF a \in 0..(n + m - 1) THEN a ELSE Old
  <2>1. CASE a \in n..(n + m - 1)
    <3>1. a \in Int /\ a - n \in 0..(m - 1) /\ n + (a - n) = a
      BY <1>1, <2>1
    <3> QED
      BY <2>1, <3>1 DEF Bytes
  <2>2. CASE a \notin n..(n + m - 1)
    BY <1>1, <2>2
  <2> QED
    BY <2>1, <2>2
<1> QED
  BY <1>1, <1>2 DEF Stored, Filled

\* There are at most eight units, and the last 8 bytes follow them.
LEMMA UnitsFit ==
  ASSUME sz \in Nat, TestOk
  PROVE  Units \in 0..8 /\ 16 * Units = sz - 8 /\ sz >= 8
<1>1. sz = 16 * (sz \div 16) + 8 /\ sz \div 16 \in 0..8
  BY DEF TestOk
<1> QED
  BY <1>1 DEF Units

\* The next variable, or the first again after the last.
LEMMA NextUnit ==
  ASSUME NEW u \in 1..8, NEW j \in 0..(u - 1)
  PROVE  (j + 1) % u = IF j + 1 = u THEN 0 ELSE j + 1
<1>1. CASE u \in 1..4
  BY <1>1
<1>2. CASE u \in 5..8
  BY <1>2
<1> QED
  BY <1>1, <1>2

\* At the start nothing is copied.
LEMMA InitCopy == Init => CopyInv
BY CopyAssumption DEF Init, CopyInv, Filled

\* Each of the five steps preserves the invariant.
LEMMA NextCopy == CopyInv /\ [Next]_vars => CopyInv'
<1> SUFFICES ASSUME CopyInv, [Next]_vars
             PROVE  CopyInv'
  OBVIOUS
<1>1. CASE Inline
  <2>1. /\ TestOk /\ i = 0 /\ mem = Filled(0) /\ sz \in Nat \ {0}
        /\ pc' = IF Units = 0 THEN "tail" ELSE "load"
        /\ UNCHANGED <<dst, src, sz, i, xmm, mem>>
    BY <1>1 DEF Inline, CopyInv
  <2>2. TestOk' /\ Units' = Units /\ Filled(0)' = Filled(0)
    BY <2>1 DEF TestOk, Units, Filled
  <2>3. Units \in 0..8
    BY <2>1, UnitsFit
  <2>4. Loaded(0)
    BY DEF Loaded
  <2>5. Filled(16 * Units)' = Filled(16 * Units)
    BY <2>1, <2>2 DEF Filled
  <2> QED
    BY <2>1, <2>2, <2>3, <2>5 DEF CopyInv, InlineInv, Loaded
<1>2. CASE memcpy
  <2>1. /\ mem = Filled(0) /\ sz \in Nat \ {0} /\ pc' = "done" /\ sz' = sz
        /\ mem' = Stored(Bytes(0, sz), 0, sz)
    BY <1>2 DEF memcpy, CopyInv
  <2>2. mem' = Filled(0 + sz)
    BY <2>1, StoredExtends
  <2> QED
    BY <2>1, <2>2 DEF CopyInv, Filled
<1>3. CASE LoadUnit
  <2>1. /\ TestOk /\ Units >= 1 /\ i \in 0..(Units - 1) /\ Loaded(i)
        /\ mem = Filled(0) /\ sz \in Nat \ {0} /\ pc = "load"
        /\ xmm' = [k \in 0..i |-> IF k = i THEN Bytes(16 * i, 16) ELSE xmm[k]]
        /\ i' = (i + 1) % Units
        /\ pc' = IF i' = 0 THEN "store" ELSE "load"
        /\ UNCHANGED <<dst, src, sz, mem>>
    BY <1>3 DEF LoadUnit, CopyInv, InlineInv
  <2>2. /\ TestOk' /\ Units' = Units /\ Filled(0)' = Filled(0)
    BY <2>1 DEF TestOk, Units, Filled
  <2>3. Units \in 1..8
    BY <2>1, UnitsFit
  <2>4. i' = IF i + 1 = Units THEN 0 ELSE i + 1
    BY <2>1, <2>3, NextUnit
  <2>5. \A k \in 0..i : xmm'[k] = Bytes(16 * k, 16)
    BY <2>1, <2>3 DEF Loaded
  <2>6. CASE i + 1 = Units
    <3>1. i' = 0 /\ pc' = "store" /\ 16 * i' = 0
      BY <2>1, <2>4, <2>6
    <3>2. \A k \in 0..(Units' - 1) : xmm'[k] = Bytes(16 * k, 16)
      BY <2>1, <2>2, <2>3, <2>5, <2>6
    <3>3. mem' = Filled(16 * i)'
      BY <2>1, <3>1 DEF Filled
    <3>4. Loaded(Units)'
      BY <3>2 DEF Loaded, Bytes
    <3>5. Units' >= 1 /\ i' \in 0..(Units' - 1)
      BY <2>2, <2>3, <3>1
    <3> QED
      BY <2>1, <2>2, <3>1, <3>3, <3>4, <3>5 DEF CopyInv, InlineInv
  <2>7. CASE i + 1 # Units
    <3>1. i' = i + 1 /\ pc' = "load" /\ i' \in 0..(Units - 1)
      BY <2>1, <2>3, <2>4, <2>7
    <3>2. \A k \in 0..(i' - 1) : xmm'[k] = Bytes(16 * k, 16)
      BY <2>1, <2>3, <2>5, <3>1
    <3> QED
      BY <2>1, <2>2, <3>1, <3>2 DEF CopyInv, InlineInv, Loaded, Bytes
  <2> QED
    BY <2>6, <2>7
<1>4. CASE StoreUnit
  <2>1. /\ TestOk /\ Units >= 1 /\ i \in 0..(Units - 1) /\ Loaded(Units)
        /\ mem = Filled(16 * i) /\ sz \in Nat \ {0} /\ pc = "store"
        /\ mem' = Stored(xmm[i], 16 * i, 16)
        /\ i' = (i + 1) % Units
        /\ pc' = IF i' = 0 THEN "tail" ELSE "store"
        /\ UNCHANGED <<dst, src, sz, xmm>>
    BY <1>4 DEF StoreUnit, CopyInv, InlineInv
  <2>2. TestOk' /\ Units' = Units
    BY <2>1 DEF TestOk, Units
  <2>3. Units \in 1..8
    BY <2>1, UnitsFit
  <2>4. i' = IF i + 1 = Units THEN 0 ELSE i + 1
    BY <2>1, <2>3, NextUnit
  <2>5. mem' = Filled(16 * i + 16)
    <3>1. xmm[i] = Bytes(16 * i, 16) /\ 16 * i \in Nat
      BY <2>1, <2>3 DEF Loaded
    <3> QED
      BY <2>1, <3>1, StoredExtends
  <2>6. Loaded(Units)'
    BY <2>1, <2>2 DEF Loaded, Bytes
  <2>7. CASE i + 1 = Units
    <3>1. i' = 0 /\ pc' = "tail" /\ 16 * i + 16 = 16 * Units
      BY <2>1, <2>3, <2>4, <2>7
    <3>2. mem' = Filled(16 * Units)'
      BY <2>1, <2>2, <2>5, <3>1 DEF Filled
    <3> QED
      BY <2>1, <2>2, <3>1, <3>2 DEF CopyInv, InlineInv
  <2>8. CASE i + 1 # Units
    <3>1. /\ i' = i + 1 /\ pc' = "store" /\ i' \in 0..(Units - 1)
          /\ 16 * i + 16 = 16 * i'
      BY <2>1, <2>3, <2>4, <2>8
    <3>2. mem' = Filled(16 * i)'
      BY <2>1, <2>5, <3>1 DEF Filled
    <3> QED
      BY <2>1, <2>2, <2>6, <3>1, <3>2 DEF CopyInv, InlineInv
  <2> QED
    BY <2>7, <2>8
<1>5. CASE Tail
  <2>1. /\ TestOk /\ mem = Filled(16 * Units) /\ sz \in Nat \ {0}
        /\ mem' = Stored(Bytes(sz - 8, 8), sz - 8, 8)
        /\ pc' = "done" /\ sz' = sz
    BY <1>5 DEF Tail, CopyInv, InlineInv
  <2>2. 16 * Units = sz - 8 /\ sz - 8 \in Nat /\ (sz - 8) + 8 = sz
    BY <2>1, UnitsFit
  <2>3. mem' = Filled((sz - 8) + 8)
    BY <2>1, <2>2, StoredExtends
  <2> QED
    BY <2>1, <2>2, <2>3 DEF CopyInv, Filled
<1>6. CASE UNCHANGED vars
  BY <1>6 DEF vars, CopyInv, InlineInv, TestOk, Units, Filled, Loaded, Bytes
<1> QED
  BY <1>1, <1>2, <1>3, <1>4, <1>5, <1>6 DEF Next

\* How far the copy is at each point of its code.
THEOREM CopyInvariance == Spec => []CopyInv
BY InitCopy, NextCopy, PTL DEF Spec

\* What is copied is the source, all of it and nothing beside it, whatever
\* the length and whichever way the copy is made.
THEOREM FramesAreCopied == Spec => []CopiesExactly
<1>1. CopyInv => CopiesExactly
  BY DEF CopyInv, CopiesExactly, Filled
<1> QED
  BY <1>1, CopyInvariance, PTL

\* The accesses of 16 bytes are aligned and within the source.
THEOREM AccessesAreAligned == Spec => []UnitsAreAligned
<1>1. CopyInv => UnitsAreAligned
  <2> SUFFICES ASSUME CopyInv, pc \in {"load", "store"}
               PROVE  /\ (IF pc = "load" THEN src ELSE dst) % 16 = 0
                      /\ 16 * i + 16 <= sz
    BY DEF UnitsAreAligned
  <2>1. TestOk /\ i \in 0..(Units - 1) /\ sz \in Nat
    BY DEF CopyInv, InlineInv
  <2>2. Units \in 0..8 /\ 16 * Units = sz - 8
    BY <2>1, UnitsFit
  <2>3. 16 * i + 16 <= sz
    BY <2>1, <2>2
  <2>4. src % 16 = 0 /\ dst % 16 = 0
    BY <2>1 DEF TestOk
  <2> QED
    BY <2>3, <2>4
<1> QED
  BY <1>1, CopyInvariance, PTL
=============================================================================
