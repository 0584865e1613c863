---------------------------- MODULE ShortMemcpy ----------------------------
(***************************************************************************)
(* aco_amd64_optimized_memcpy_drop_in: both copies of aco_resume on amd64. *)
(* Lengths of 16n + 8 bytes with n <= 8 between areas aligned to 16 bytes  *)
(* are copied with n loads of 16 bytes, n stores and a copy of the last 8  *)
(* bytes; memcpy does all others. Module Aco has a copy as one step.       *)
(*                                                                         *)
(* What a byte holds is the offset it has in the source, or Old for what  *)
(* the destination held before. The areas, a share stack and a save stack, *)
(* do not overlap. The words on the far side of both are watched too.      *)
(***************************************************************************)
EXTENDS Integers

CONSTANTS
  Sizes,    \* lengths to copy
  Offsets   \* distances of an address from a multiple of 16

ASSUME CopyAssumption == Sizes \subseteq Nat \ {0} /\ Offsets \subseteq 0..15

VARIABLES
  pc,    \* "test", "load", "store", "tail" or "done"
  dst,   \* (uintptr_t)dst % 16
  src,   \* (uintptr_t)src % 16
  sz,
  i,     \* the next of the variables xmm0 to xmm7
  xmm,   \* their values, 16 bytes each
  mem    \* the bytes around dst, by offset from dst

vars == <<pc, dst, src, sz, i, xmm, mem>>

Old == -1

Watched(n) == -16..(n + 15)

Init ==
  /\ pc = "test"
  /\ dst \in Offsets /\ src \in Offsets /\ sz \in Sizes
  /\ i = 0
  /\ xmm = <<>>
  /\ mem = [a \in Watched(sz) |-> Old]

\* Source bytes from offset a of the source on, n of them.
Bytes(a, n) == [b \in 0..(n - 1) |-> a + b]

\* The destination once the n bytes v are stored from offset a on.
Stored(v, a, n) ==
  [b \in DOMAIN mem |-> IF b \in a..(a + n - 1) THEN v[b - a] ELSE mem[b]]

\* Mutant: one unit more than there are variables.
OkUpToNine == src = 0 /\ dst = 0 /\ sz % 16 = 8 /\ sz \div 16 <= 9

\* Mutant: the alignment of the source is not tested.
OkAnySource == dst = 0 /\ sz % 16 = 8 /\ sz \div 16 <= 8

\* aco_amd64_inline_short_aligned_memcpy_test_ok.
TestOk == src = 0 /\ dst = 0 /\ sz % 16 = 8 /\ sz \div 16 <= 8

\* The cases of the switch: what sz >> 4 gives, 0 when there is no case.
Units == IF sz \div 16 \in 1..8 THEN sz \div 16 ELSE 0

Inline ==
  /\ pc = "test" /\ TestOk
  /\ pc' = IF Units = 0 THEN "tail" ELSE "load"
  /\ UNCHANGED <<dst, src, sz, i, xmm, mem>>

memcpy ==
  /\ pc = "test" /\ ~TestOk
  /\ mem' = Stored(Bytes(0, sz), 0, sz)
  /\ pc' = "done"
  /\ UNCHANGED <<dst, src, sz, i, xmm>>

\* xmm_i = *((__uint128_t * )src + i), for each i below Units.
LoadUnit ==
  /\ pc = "load"
  /\ xmm' = [k \in 0..i |-> IF k = i THEN Bytes(16 * i, 16) ELSE xmm[k]]
  /\ i' = (i + 1) % Units
  /\ pc' = IF i' = 0 THEN "store" ELSE "load"
  /\ UNCHANGED <<dst, src, sz, mem>>

\* *((__uint128_t * )dst + i) = xmm_i, once all are loaded.
StoreUnit ==
  /\ pc = "store"
  /\ mem' = Stored(xmm[i], 16 * i, 16)
  /\ i' = (i + 1) % Units
  /\ pc' = IF i' = 0 THEN "tail" ELSE "store"
  /\ UNCHANGED <<dst, src, sz, xmm>>

\* The last 8 bytes.
Tail ==
  /\ pc = "tail"
  /\ mem' = Stored(Bytes(sz - 8, 8), sz - 8, 8)
  /\ pc' = "done"
  /\ UNCHANGED <<dst, src, sz, i, xmm>>

Next == Inline \/ memcpy \/ LoadUnit \/ StoreUnit \/ Tail

Spec == Init /\ [][Next]_vars

-----------------------------------------------------------------------------
\* Every byte of the destination is the one of the source at its offset, and
\* no byte outside is written, for every length and alignment: the frames of
\* a coroutine are whole and those beside them untouched (aco.c:408, 443).
CopiesExactly ==
  pc = "done" =>
    \A a \in DOMAIN mem : mem[a] = IF a \in 0..(sz - 1) THEN a ELSE Old

\* The 16-byte accesses are the aligned moves the compiler makes of them, and
\* fault on any other address; none reads past the end of the source.
UnitsAreAligned ==
  pc \in {"load", "store"} =>
    /\ (IF pc = "load" THEN src ELSE dst) % 16 = 0
    /\ 16 * i + 16 <= sz
=============================================================================
