--------------------------- MODULE SaveStackGrow ---------------------------
(***************************************************************************)
(* The save stack of a coroutine that has yielded deeper than it is large  *)
(* is freed and allocated anew (aco.c:392-404). Its size is doubled with   *)
(* w-bit arithmetic, where a bit may be shifted out before the size is     *)
(* large enough, and the assertion in the loop looks for 0 only.           *)
(* Module Aco has the outcome of the loop as SaveSizes.                    *)
(***************************************************************************)
EXTENDS Integers

CONSTANTS
  Width,  \* the width of size_t
  Mod     \* 2^Width

ASSUME GrowAssumption ==
  Width \in Nat \ {0} /\ Mod \in Nat \ {0, 1} /\ Mod = 2^Width

VARIABLES
  pc,        \* "test", "loop", "malloc", "go_on" or "abort"
  asked,     \* save_stack.sz before, history
  sz,        \* save_stack.sz
  valid_sz,  \* save_stack.valid_sz
  ptr        \* save_stack.ptr: the size of the area it points to, 0 if NULL

vars == <<pc, asked, sz, valid_sz, ptr>>

Size == 0..(Mod - 1)

TypeOK ==
  /\ pc \in {"test", "loop", "malloc", "go_on", "abort"}
  /\ asked \in Size \ {0} /\ sz \in Size /\ valid_sz \in Size /\ ptr \in Size

\* aco_create never leaves a save stack of size 0.
Init ==
  /\ pc = "test"
  /\ asked \in Size \ {0}
  /\ valid_sz \in Size
  /\ sz = asked
  /\ ptr = asked

Test ==
  /\ pc = "test"
  /\ IF sz < valid_sz
     THEN pc' = "loop" /\ ptr' = 0
     ELSE pc' = "go_on" /\ UNCHANGED ptr
  /\ UNCHANGED <<asked, sz, valid_sz>>

\* Mutant: the size stays at its largest power of two instead of wrapping.
DoubledUpTo(n) == IF 2 * n < Mod THEN 2 * n ELSE n

\* Mutant: a type wider than size_t.
DoubledWide(n) == 2 * n

\* Mutant: two bits at once.
Quadrupled(n) == (4 * n) % Mod

\* Mutant: one word more than the double.
DoubledAndOne(n) == (2 * n + 1) % Mod

\* The shift by one bit.
Doubled(n) == (2 * n) % Mod

\* Mutant: one doubling is taken to be enough.
EnoughAtOnce(n) == TRUE

Enough(n) == n >= valid_sz

Double ==
  /\ pc = "loop"
  /\ sz' = Doubled(sz)
  /\ pc' = IF sz' = 0 THEN "abort" ELSE IF Enough(sz') THEN "malloc" ELSE "loop"
  /\ UNCHANGED <<asked, valid_sz, ptr>>

Malloc ==
  /\ pc = "malloc"
  /\ \/ ptr' = sz /\ pc' = "go_on"
     \/ pc' = "abort" /\ UNCHANGED ptr
  /\ UNCHANGED <<asked, sz, valid_sz>>

Next == Test \/ Double \/ Malloc

\* The thread that executes the loop is scheduled again and again.
Spec == Init /\ [][Next]_vars /\ WF_vars(Next)

-----------------------------------------------------------------------------
\* The copy that follows fits in the area save_stack.ptr points to, which is
\* as large as save_stack.sz says and, if it has grown, less than twice what
\* is needed: a size that has lost a bit never passes for a larger one.
FitsWhenCopied ==
  pc = "go_on" =>
    /\ ptr = sz /\ valid_sz <= sz
    /\ sz # asked => sz < 2 * valid_sz

\* The loop gives up over the size only if more than half of all addresses
\* would have to be saved, although its assertion sees a lost bit late.
DiesOfOverflowOnly ==
  pc = "abort" /\ sz = 0 => 2 * valid_sz > Mod

\* The size the loop stops at is the one SaveSizes of module Aco gives, as
\* long as no more than half of all addresses are to be saved. Above that a
\* size that has lost a bit may be doubled to a sufficient one that is no
\* multiple of the old one.
AsInAco ==
  pc = "go_on" /\ 2 * valid_sz <= Mod =>
    sz \in IF valid_sz <= asked
           THEN {asked}
           ELSE {n \in valid_sz..(2 * valid_sz - 1) :
                   \E k \in 1..Width : n = asked * 2^k}

\* The loop ends for every size and every need: either the size suffices or
\* all its bits are shifted out, a wrapped size being doubled on.
LoopEnds == <>(pc \in {"go_on", "abort"})
=============================================================================
