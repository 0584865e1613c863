--------------------------- MODULE ShareStackSize ---------------------------
(***************************************************************************)
(* aco_share_stack_new2 and aco_share_stack_destroy in bytes: the size the *)
(* caller asks for is rounded with w-bit arithmetic, an area is allocated, *)
(* its lowest page is made a guard page, and the pointers module Aco works *)
(* with are laid out in it. Module Aco has these two calls as single       *)
(* steps; LimitBelowStack is what it assumes of their outcome.             *)
(*                                                                         *)
(* Masks with the page size, a power of two, are written with %. What the  *)
(* code asserts of the page size and of the smallest size (lines 223, 226  *)
(* and 282) is part of SizeAssumption.                                     *)
(***************************************************************************)
EXTENDS Integers

CONSTANTS
  Mod,          \* 2^w, w the width of size_t and uintptr_t
  PtrSize,      \* sizeof(void* )
  MinSize,      \* 4096
  DefaultSize,  \* 2MB
  PageSizes,    \* what sysconf(_SC_PAGESIZE) may return
  Addrs         \* addresses an allocator may return

ASSUME SizeAssumption ==
  /\ Mod \in Nat
  /\ PtrSize \in {4, 8}
  /\ MinSize \in Nat /\ MinSize > 16 + 3 * PtrSize
  /\ DefaultSize \in Nat /\ DefaultSize >= MinSize /\ DefaultSize < Mod
  /\ \A pg \in PageSizes :
       /\ pg \in Nat \ {0}
       /\ 2 * pg < Mod
       /\ Mod % (2 * pg) = 0
  /\ Addrs \subseteq 1..(Mod - 1)
  /\ \A a \in Addrs : a % 16 = 0

VARIABLES
  phase,      \* how far the call has come
  asked,      \* the argument sz
  guard,      \* the argument guard_page_enabled
  pg,         \* u_pgsz, 0 without guard page
  sz,         \* the local variable sz
  descriptor, \* the aco_share_stack_t is held from malloc
  p,          \* its fields
  allocated,  \* areas <<address, size>> held from malloc or mmap
  readonly    \* areas made read-only by mprotect

call == <<asked, guard, pg>>
vars == <<phase, call, sz, descriptor, p, allocated, readonly>>

NoStack == [real_ptr |-> 0, real_sz |-> 0, ptr |-> 0, sz |-> 0,
            align_highptr |-> 0, align_retptr |-> 0, align_limit |-> 0]

Phases == {"called", "sized", "described", "mapped", "ready", "destroyed",
           "abort_size", "abort_alloc", "abort_munmap"}

Size == 0..(Mod - 1)

TypeOK ==
  /\ phase \in Phases
  /\ asked \in Size /\ sz \in Size
  /\ guard \in BOOLEAN /\ descriptor \in BOOLEAN
  /\ pg \in PageSizes \cup {0}
  /\ p \in [DOMAIN NoStack -> Size]
  /\ allocated \subseteq Size \X Size
  /\ readonly \subseteq Size \X Size

Init ==
  /\ phase = "called"
  /\ asked \in Size
  /\ guard \in BOOLEAN
  /\ IF guard THEN pg \in PageSizes ELSE pg = 0
  /\ sz = asked
  /\ descriptor = FALSE
  /\ p = NoStack
  /\ allocated = {}
  /\ readonly = {}

-----------------------------------------------------------------------------
\* Mutant: the smallest size replaces the default only.
MinimumOrGiven(n) == IF n = 0 THEN MinSize ELSE n

\* The size before pages are counted.
Wanted(n) ==
  LET m == IF n = 0 THEN DefaultSize ELSE n
  IN IF m < MinSize THEN MinSize ELSE m

\* Mutant: the sum is computed in a type wider than size_t.
WithGuardWide(n, g) ==
  IF n <= g THEN 2 * g
  ELSE IF n % g # 0 THEN n - (n % g) + 2 * g
  ELSE n + g

\* n in whole pages of g bytes plus the guard page.
WithGuard(n, g) ==
  IF n <= g THEN (2 * g) % Mod
  ELSE IF n % g # 0 THEN (n - (n % g) + 2 * g) % Mod
  ELSE (n + g) % Mod

\* Mutant: the two tests of aco_size_t_safe_add_assert are missing.
AssertsDivisions(n, g) ==
  n > g => WithGuard(n, g) % g = 0

\* The assertions on the sum: it does not wrap, it has the expected number
\* of pages, and there are at least two of them.
AssertsHold(n, g) ==
  n > g =>
    LET new == WithGuard(n, g)
        low == n - (n % g)
        add == IF n % g # 0 THEN 2 ELSE 1
    IN /\ low >= g
       /\ new >= low
       /\ (n \div g + add) % Mod = new \div g
       /\ new \div g > 1 /\ new % g = 0

SettleSize ==
  /\ phase = "called"
  /\ LET n == Wanted(sz) IN
       \/ /\ guard /\ AssertsHold(n, pg)
          /\ sz' = WithGuard(n, pg)
          /\ phase' = "sized"
       \/ /\ guard /\ ~AssertsHold(n, pg)
          /\ phase' = "abort_size"
          /\ UNCHANGED sz
       \/ /\ ~guard
          /\ sz' = n
          /\ phase' = "sized"
  /\ UNCHANGED <<call, descriptor, p, allocated, readonly>>

-----------------------------------------------------------------------------
\* The descriptor is allocated, and set to 0.
MallocDescriptor ==
  /\ phase = "sized"
  /\ descriptor' = TRUE
  /\ p' = NoStack
  /\ phase' = "described"
  /\ UNCHANGED <<call, sz, allocated, readonly>>

\* mmap, whose areas start at a page, and mprotect of the first page.
MapWithGuard(a) ==
  /\ phase = "described"
  /\ guard
  /\ a % pg = 0 /\ a + sz <= Mod
  /\ p' = [p EXCEPT !.real_ptr = a, !.real_sz = sz,
                    !.ptr = a + pg, !.sz = sz - pg]
  /\ allocated' = {<<a, sz>>}
  /\ readonly' = {<<a, pg>>}
  /\ phase' = "mapped"
  /\ UNCHANGED <<call, sz, descriptor>>

Malloc(a) ==
  /\ phase = "described"
  /\ ~guard
  /\ a + sz <= Mod
  /\ p' = [p EXCEPT !.ptr = a, !.sz = sz]
  /\ allocated' = {<<a, sz>>}
  /\ phase' = "mapped"
  /\ UNCHANGED <<call, sz, descriptor, readonly>>

\* Either malloc, mmap or mprotect fails; the process ends with what it holds.
AllocFails ==
  /\ phase \in {"sized", "described"}
  /\ phase' = "abort_alloc"
  /\ UNCHANGED <<call, sz, descriptor, p, allocated, readonly>>

\* Mutant: align_limit leaves out the 16 bytes lost to the alignment.
LayWithoutSlack ==
  /\ phase = "mapped"
  /\ LET u_p == (p.sz - 2 * PtrSize + p.ptr) % Mod
         high == u_p - (u_p % 16)
     IN p' = [p EXCEPT !.align_highptr = high,
                       !.align_retptr = high - PtrSize,
                       !.align_limit = p.sz - 2 * PtrSize]
  /\ phase' = "ready"
  /\ UNCHANGED <<call, sz, descriptor, allocated, readonly>>

\* The slot of the return address lies one word below an address that is a
\* multiple of 16, as at the entry of any function.
LayOut ==
  /\ phase = "mapped"
  /\ LET u_p == (p.sz - 2 * PtrSize + p.ptr) % Mod
         high == u_p - (u_p % 16)
     IN p' = [p EXCEPT !.align_highptr = high,
                       !.align_retptr = high - PtrSize,
                       !.align_limit = p.sz - 16 - 2 * PtrSize]
  /\ phase' = "ready"
  /\ UNCHANGED <<call, sz, descriptor, allocated, readonly>>

\* Mutant: the usable part is unmapped, the guard page stays.
FreeUsable == <<p.ptr, p.sz>>

\* The area that aco_share_stack_destroy gives back.
Freed == IF guard THEN <<p.real_ptr, p.real_sz>> ELSE <<p.ptr, p.sz>>

\* The area first, then the descriptor; munmap may fail.
Destroy ==
  /\ phase = "ready"
  /\ \/ /\ allocated' = allocated \ {Freed}
        /\ readonly' = {}
        /\ descriptor' = FALSE
        /\ p' = NoStack
        /\ phase' = "destroyed"
     \/ /\ guard
        /\ phase' = "abort_munmap"
        /\ UNCHANGED <<descriptor, p, allocated, readonly>>
  /\ UNCHANGED <<call, sz>>

Next ==
  \/ SettleSize \/ MallocDescriptor
  \/ \E a \in Addrs : MapWithGuard(a) \/ Malloc(a)
  \/ AllocFails \/ LayOut \/ Destroy

Spec == Init /\ [][Next]_vars

-----------------------------------------------------------------------------
\* README.md:313-317: the area that can be used is at least 4096 bytes and at
\* least what was asked for, whole pages when there is a guard page, and the
\* smallest such size.
SizeAsPromised ==
  phase \in {"mapped", "ready"} =>
    /\ p.sz >= MinSize
    /\ p.sz >= asked
    /\ asked = 0 => p.sz >= DefaultSize
    /\ LET want == IF asked = 0 THEN DefaultSize ELSE asked
       IN IF guard
          THEN p.sz % pg = 0 /\ (p.sz - pg < want \/ p.sz - pg < MinSize)
          ELSE p.sz \in {want, MinSize}

\* The call dies over the size only when a size_t cannot hold the pages it
\* has to allocate: wrapped arithmetic is never taken for a size, and no
\* assertion fails for a size that could be served.
DiesOfOverflowOnly ==
  guard /\ phase # "called" =>
    LET pages == (Wanted(asked) + pg - 1) \div pg + 1
    IN phase = "abort_size" <=> pages * pg >= Mod

\* A stack pointer aco_resume accepts, from align_highptr - align_limit up,
\* lies in the usable area, and so does the slot of the return address; no
\* byte of either is in the guard page, which is right below.
LayoutFits ==
  phase = "ready" =>
    LET lowest == p.align_highptr - p.align_limit
    IN /\ p.align_highptr % 16 = 0
       /\ p.ptr <= lowest /\ lowest <= p.align_retptr
       /\ p.align_retptr + PtrSize <= p.ptr + p.sz
       /\ guard =>
            /\ readonly = {<<p.real_ptr, p.ptr - p.real_ptr>>}
            /\ p.ptr + p.sz = p.real_ptr + p.real_sz

\* AcoAssumption on Limit and Room of module Aco: counted in words, the limit
\* is positive and does not exceed what lies below align_retptr.
LimitBelowStack ==
  phase = "ready" =>
    LET Limit == p.align_limit \div PtrSize
        Room  == (p.align_retptr - p.ptr) \div PtrSize
    IN Limit >= 1 /\ Limit - 1 <= Room

\* aco_share_stack_destroy gives back all that aco_share_stack_new2 took: the
\* area, as it was allocated, and the descriptor.
AllIsFreed == phase = "destroyed" => allocated = {} /\ ~descriptor
=============================================================================
