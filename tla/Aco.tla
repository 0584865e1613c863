-------------------------------- MODULE Aco --------------------------------
(***************************************************************************)
(* One instance of libaco in one thread: the main coroutine, the non-main  *)
(* coroutines, the share stacks they execute on and the private save       *)
(* stacks their frames are copied to when another coroutine needs the same *)
(* share stack (aco.c, and the macros aco_yield1 and aco_exit1 of aco.h).  *)
(*                                                                         *)
(* Pointers are model values: an element of Co is an address malloc may    *)
(* return for an aco_t, and it is handed out again after aco_destroy.      *)
(* Sizes and offsets count words of sizeof(void* ). The stack pointer of a *)
(* coroutine is its distance below align_retptr of its share stack: 0 at   *)
(* entry to its function, growing with every push, -1 once the slot        *)
(* holding the return address has been popped.                             *)
(*                                                                         *)
(* acosw is one step here: it saves the registers of one coroutine and     *)
(* loads those of another, of which the stack pointer and the address to   *)
(* continue at are kept.                                                   *)
(***************************************************************************)
EXTENDS Integers, Sequences

CONSTANTS
  Co,           \* addresses of non-main coroutines
  Stack,        \* addresses of share stacks
  MainCo,       \* address of the main coroutine
  NULL,
  Word,         \* what a coroutine may push on its stack
  Junk,         \* what malloc and mmap leave in memory nobody has written
  Protector,    \* the address of aco_funcp_protector_asm
  Limit,        \* align_limit / sizeof(void* )
  Room,         \* words of a share stack that lie below align_retptr
  SaveArgs,     \* values passed for the argument save_stack_sz of aco_create
  DefaultSave   \* what a save_stack_sz of 0 stands for

ASSUME AcoAssumption ==
  /\ NULL \notin Co \cup Stack \cup {MainCo}
  /\ MainCo \notin Co
  /\ Protector \notin Word \cup {Junk}
  /\ Limit \in Nat \ {0}
  /\ Room \in Nat
  /\ Limit - 1 <= Room
  /\ SaveArgs \subseteq Nat
  /\ DefaultSave \in Nat \ {0}

VARIABLES
  live,           \* the aco_t that have been created and not destroyed
  share_stack,    \* co->share_stack
  is_end,         \* co->is_end
  reg,            \* co->reg: stack pointer sp and return address ip
  save_stack,     \* co->save_stack: sz, valid_sz and the bytes at ptr
  stacks,         \* the share stacks that exist
  owner,          \* sstk->owner
  align_validsz,  \* sstk->align_validsz
  mem,            \* words of a share stack; index 0 is the one at align_retptr
  cpu,            \* whose code executes (co), its stack pointer, where it is
  aco_gtls_co,    \* the thread-local variable of the same name
  abort           \* the assertion that ended the process, or "none"

coVars    == <<live, share_stack, is_end, save_stack>>
stackVars == <<stacks, owner, align_validsz, mem>>
runVars   == <<reg, cpu, aco_gtls_co>>
vars      == <<coVars, stackVars, runVars, abort>>

Cell    == Word \cup {Junk}
\* Where a coroutine continues: the start of its function, after a call of
\* acosw, the protector, or an address that is none of these.
Address == {"fp", "acosw", "protector", "wild"}
NoSave  == [sz |-> 0, valid_sz |-> 0, buf |-> <<>>]
NewMem  == [i \in 0..Room |-> IF i = 0 THEN Protector ELSE Junk]

\* The assertions of aco.c and aco.h, by what they test.
Assertions ==
  {"resume_end",         \* aco.c:365, the coroutine to resume has ended
   "owner_share_stack",  \* aco.c:371, the owner uses another share stack
   "sp_bounds",          \* aco.c:373, the owner's stack pointer is outside
   "valid_sz",           \* aco.c:434, too much to restore
   "yield_main_co",      \* aco.h:191, the caller of aco_yield is a main co
   "exit_owner",         \* aco.h:212, an exiting co does not own its stack
   "protector",          \* aco.c:165 and 197, a co returned from its function
   "alloc"}              \* assertalloc_ptr and assertalloc_bool

TypeOK ==
  /\ live \subseteq Co \cup {MainCo}
  /\ share_stack \in [Co -> Stack \cup {NULL}]
  /\ is_end \in [Co -> BOOLEAN]
  /\ reg \in [Co \cup {MainCo} -> [sp : -1..Room, ip : Address]]
  /\ save_stack \in [Co -> [sz : Nat, valid_sz : Nat, buf : Seq(Cell)]]
  /\ stacks \subseteq Stack
  /\ owner \in [Stack -> Co \cup {NULL}]
  /\ align_validsz \in [Stack -> Nat]
  /\ mem \in [Stack -> [0..Room -> Cell \cup {Protector}]]
  /\ cpu \in [co : Co \cup {MainCo}, sp : -1..Room, ip : Address]
  /\ aco_gtls_co \in Co \cup {MainCo, NULL}
  /\ abort \in Assertions \cup {"none"}

\* A thread that has called aco_thread_init and nothing else of libaco.
Init ==
  /\ live = {}
  /\ share_stack = [c \in Co |-> NULL]
  /\ is_end = [c \in Co |-> FALSE]
  /\ reg = [c \in Co \cup {MainCo} |-> [sp |-> 0, ip |-> "acosw"]]
  /\ save_stack = [c \in Co |-> NoSave]
  /\ stacks = {}
  /\ owner = [s \in Stack |-> NULL]
  /\ align_validsz = [s \in Stack |-> 0]
  /\ mem = [s \in Stack |-> NewMem]
  /\ cpu = [co |-> MainCo, sp |-> 0, ip |-> "acosw"]
  /\ aco_gtls_co = NULL
  /\ abort = "none"

-----------------------------------------------------------------------------
\* The process is alive and executes code of the program, which may call
\* libaco, rather than the protector.
Running == abort = "none" /\ cpu.ip \in {"fp", "acosw"}

\* abort(): nothing that happens to the state afterwards can be observed.
Die(assertion) ==
  /\ abort' = assertion
  /\ UNCHANGED <<coVars, stackVars, runVars>>

\* acosw(from, to), called with the stack pointer and to return to the
\* address given in at.
acosw(from, to, at) ==
  /\ reg' = [reg EXCEPT ![from] = at]
  /\ cpu' = [co |-> to, sp |-> reg[to].sp, ip |-> reg[to].ip]

Here == [sp |-> cpu.sp, ip |-> "acosw"]

\* Share stack s has no owner any more.
Disown(s) ==
  /\ owner' = [owner EXCEPT ![s] = NULL]
  /\ align_validsz' = [align_validsz EXCEPT ![s] = 0]

-----------------------------------------------------------------------------
(***************************************************************************)
(* Share stacks.                                                           *)
(***************************************************************************)

\* aco_share_stack_new2, once it has settled the size.
aco_share_stack_new(s) ==
  /\ Running
  /\ s \notin stacks
  /\ stacks' = stacks \cup {s}
  /\ owner' = [owner EXCEPT ![s] = NULL]
  /\ align_validsz' = [align_validsz EXCEPT ![s] = 0]
  /\ mem' = [mem EXCEPT ![s] = NewMem]
  /\ UNCHANGED <<coVars, runVars, abort>>

\* Legal once every coroutine that uses the stack is destroyed
\* (README.md:331). The fields of freed memory are given initial values.
aco_share_stack_destroy(s) ==
  /\ Running
  /\ s \in stacks
  /\ \A c \in live \cap Co : share_stack[c] # s
  /\ stacks' = stacks \ {s}
  /\ mem' = [mem EXCEPT ![s] = NewMem]
  /\ UNCHANGED <<coVars, owner, align_validsz, runVars, abort>>

-----------------------------------------------------------------------------
(***************************************************************************)
(* Creating and destroying coroutines.                                     *)
(***************************************************************************)

\* aco_create with a main_co of NULL.
CreateMain ==
  /\ Running
  /\ MainCo \notin live
  /\ live' = live \cup {MainCo}
  /\ UNCHANGED <<share_stack, is_end, save_stack, stackVars, runVars, abort>>

\* aco_create for a non-main coroutine. The caller may be any coroutine.
aco_create(c, s, save_stack_sz) ==
  /\ Running
  /\ MainCo \in live
  /\ c \notin live
  /\ s \in stacks
  /\ live' = live \cup {c}
  /\ share_stack' = [share_stack EXCEPT ![c] = s]
  /\ is_end' = [is_end EXCEPT ![c] = FALSE]
  /\ reg' = [reg EXCEPT ![c] = [sp |-> 0, ip |-> "fp"]]
  /\ save_stack' = [save_stack EXCEPT ![c] =
       [sz       |-> IF save_stack_sz = 0 THEN DefaultSave ELSE save_stack_sz,
        valid_sz |-> 0,
        buf      |-> <<>>]]
  /\ UNCHANGED <<stackVars, cpu, aco_gtls_co, abort>>

\* Mutant: the owner field is left to dangle.
KeepOnDestroy(c) == UNCHANGED <<owner, align_validsz>>

\* A coroutine about to be freed must not remain the owner of its stack.
DisownOnDestroy(c) ==
  IF owner[share_stack[c]] = c
  THEN Disown(share_stack[c])
  ELSE UNCHANGED <<owner, align_validsz>>

\* aco_destroy of a non-main coroutine, by any coroutine but itself. The
\* fields of the freed aco_t are given initial values.
aco_destroy(c) ==
  /\ Running
  /\ c \in live \ {MainCo, cpu.co}
  /\ DisownOnDestroy(c)
  /\ live' = live \ {c}
  /\ share_stack' = [share_stack EXCEPT ![c] = NULL]
  /\ is_end' = [is_end EXCEPT ![c] = FALSE]
  /\ reg' = [reg EXCEPT ![c] = [sp |-> 0, ip |-> "acosw"]]
  /\ save_stack' = [save_stack EXCEPT ![c] = NoSave]
  /\ UNCHANGED <<stacks, mem, cpu, aco_gtls_co, abort>>

\* aco_destroy of the main coroutine, the last one to go.
DestroyMain ==
  /\ Running
  /\ live = {MainCo}
  /\ live' = {}
  /\ UNCHANGED <<share_stack, is_end, save_stack, stackVars, runVars, abort>>

-----------------------------------------------------------------------------
(***************************************************************************)
(* aco_resume(c), called by the main coroutine of c (README.md:363).       *)
(***************************************************************************)
CanCallResume(c) == Running /\ cpu.co = MainCo /\ c \in live \ {MainCo}

\* Mutant: the test of is_end is forgotten.
AnyMayRun(c) == TRUE

\* The test of aco.c:366 on the coroutine to resume.
HasNotEnded(c) == ~is_end[c]

\* Mutant: only the upper end of the stack is tested.
SpBelowReturn(o) == 0 <= reg[o].sp

\* The bounds an owner's stack pointer is asserted to respect when its
\* frames are saved.
SpInBounds(o) == 0 <= reg[o].sp /\ reg[o].sp <= Limit - 1

\* The first assertion aco_resume(c) fails before it switches, or "none". The
\* owner's frames are saved before the last one is tested, but nobody can see
\* that in a process that aborts.
FailedAssertion(c) ==
  LET s == share_stack[c]
      o == owner[s]
  IN IF ~HasNotEnded(c) THEN "resume_end"
     ELSE IF o = c THEN "none"
     ELSE IF o # NULL /\ share_stack[o] # s THEN "owner_share_stack"
     ELSE IF o # NULL /\ ~SpInBounds(o) THEN "sp_bounds"
     ELSE IF save_stack[c].valid_sz > Limit - 1 THEN "valid_sz"
     ELSE "none"

ResumeAborts(c) ==
  /\ CanCallResume(c)
  /\ FailedAssertion(c) # "none"
  /\ Die(FailedAssertion(c))

MayResume(c) == CanCallResume(c) /\ FailedAssertion(c) = "none"

\* Mutant: one doubling instead of a loop.
DoubledOnce(o, need) ==
  {IF need <= save_stack[o].sz THEN save_stack[o].sz ELSE 2 * save_stack[o].sz}

\* The sizes a save stack of o may have once it must hold need words: the
\* one it has if that is enough, else what the doubling loop stops at, the
\* first multiple by a power of two that is not below need.
SaveSizes(o, need) ==
  LET sz == save_stack[o].sz IN
  IF need <= sz
  THEN {sz}
  ELSE {n \in need..(2 * need - 1) : \E k \in 1..need : n = sz * 2^k}

\* Mutant: the copy starts at align_retptr, one word too high.
SavedFromReturn(o, s, n) ==
  [sz |-> n, valid_sz |-> reg[o].sp,
   buf |-> [i \in 1..reg[o].sp |-> mem[s][i - 1]]]

\* Mutant: nothing is copied unless the stack grew since the last save.
SavedIfGrown(o, s, n) ==
  [sz |-> n, valid_sz |-> reg[o].sp,
   buf |-> IF reg[o].sp > save_stack[o].valid_sz
           THEN [i \in 1..reg[o].sp |-> mem[s][i]]
           ELSE save_stack[o].buf]

\* o's frames copied from share stack s to its save stack, grown to n words.
Saved(o, s, n) ==
  [sz       |-> n,
   valid_sz |-> reg[o].sp,
   buf      |-> IF reg[o].sp > 0 THEN [i \in 1..reg[o].sp |-> mem[s][i]]
                                 ELSE save_stack[o].buf]

\* Mutant: the frames end at align_highptr instead of align_retptr.
RestoredOnReturn(c, s) ==
  [i \in 0..Room |-> IF i + 1 \in 1..save_stack[c].valid_sz
                     THEN save_stack[c].buf[i + 1]
                     ELSE mem[s][i]]

\* The words of s once what c has saved is copied below align_retptr.
Restored(c, s) ==
  [i \in 0..Room |-> IF i \in 1..save_stack[c].valid_sz
                     THEN save_stack[c].buf[i]
                     ELSE mem[s][i]]

\* Occupy share stack s, which has no owner any more, with the frames of c.
Occupy(c, s) ==
  /\ mem' = [mem EXCEPT ![s] = Restored(c, s)]
  /\ align_validsz' =
       [align_validsz EXCEPT ![s] = save_stack[c].valid_sz + 1]
  /\ owner' = [owner EXCEPT ![s] = c]
  /\ UNCHANGED stacks

\* Mutant: aco_gtls_co keeps naming the main coroutine.
SwitchUnnamed(c) ==
  /\ acosw(MainCo, c, Here)
  /\ UNCHANGED <<aco_gtls_co, live, share_stack, is_end, abort>>

\* The assignment to aco_gtls_co and the switch that end aco_resume.
SwitchTo(c) ==
  /\ aco_gtls_co' = c
  /\ acosw(MainCo, c, Here)
  /\ UNCHANGED <<live, share_stack, is_end, abort>>

\* c still owns its share stack: nothing is copied.
ResumeOwner(c) ==
  /\ MayResume(c)
  /\ owner[share_stack[c]] = c
  /\ SwitchTo(c)
  /\ UNCHANGED <<save_stack, stackVars>>

\* Nobody owns the share stack: the frames of c are copied to it.
ResumeFree(c) ==
  LET s == share_stack[c]
  IN /\ MayResume(c)
     /\ owner[s] = NULL
     /\ Occupy(c, s)
     /\ SwitchTo(c)
     /\ UNCHANGED save_stack

\* Mutant: the owner is evicted even when it is c itself.
EvictAnyOwner(c) ==
  LET s == share_stack[c]
      o == owner[s]
  IN /\ MayResume(c)
     /\ o # NULL
     /\ \E n \in SaveSizes(o, reg[o].sp) :
          save_stack' = [save_stack EXCEPT ![o] = Saved(o, s, n)]
     /\ Occupy(c, s)
     /\ SwitchTo(c)

\* Another coroutine owns the share stack: its frames are saved first.
ResumeEvict(c) ==
  LET s == share_stack[c]
      o == owner[s]
  IN /\ MayResume(c)
     /\ o \notin {c, NULL}
     /\ \E n \in SaveSizes(o, reg[o].sp) :
          save_stack' = [save_stack EXCEPT ![o] = Saved(o, s, n)]
     /\ Occupy(c, s)
     /\ SwitchTo(c)

aco_resume(c) ==
  ResumeAborts(c) \/ ResumeOwner(c) \/ ResumeFree(c) \/ ResumeEvict(c)

-----------------------------------------------------------------------------
(***************************************************************************)
(* Calls of the running coroutine that give control back. They include the *)
(* last statement of aco_resume, which the main coroutine then executes.   *)
(***************************************************************************)

\* aco_yield1(c), called with the stack pointer and return address in at.
YieldFrom(c, at) ==
  /\ acosw(c, MainCo, at)
  /\ aco_gtls_co' = MainCo

\* aco_yield1(aco_gtls_co). A program does not call it when its main coroutine
\* has been destroyed: the macro would read a freed aco_t.
aco_yield ==
  /\ Running
  /\ aco_gtls_co \in live \cup {NULL}
  /\ IF aco_gtls_co \in {NULL, MainCo}
     THEN Die("yield_main_co")
     ELSE /\ YieldFrom(aco_gtls_co, Here)
          /\ UNCHANGED <<coVars, stackVars, abort>>

\* aco_exit1(aco_gtls_co); its caller must be a non-main coroutine.
aco_exit ==
  LET c == aco_gtls_co
      s == share_stack[c]
  IN /\ Running
     /\ cpu.co \in Co
     /\ IF owner[s] # c
        THEN Die("exit_owner")
        ELSE /\ is_end' = [is_end EXCEPT ![c] = TRUE]
             /\ Disown(s)
             /\ YieldFrom(c, Here)
             /\ UNCHANGED <<live, share_stack, save_stack, stacks, mem, abort>>

-----------------------------------------------------------------------------
(***************************************************************************)
(* The code of the running coroutine and the protector.                    *)
(***************************************************************************)

\* The stack the running coroutine executes on.
CurStack == share_stack[cpu.co]

\* The code the word at align_retptr of s is the address of.
ReturnTarget(s) == IF mem[s][0] = Protector THEN "protector" ELSE "wild"

Push(w) ==
  /\ Running
  /\ cpu.co \in Co
  /\ cpu.sp < Room
  /\ mem' = [mem EXCEPT ![CurStack][cpu.sp + 1] = w]
  /\ cpu' = [cpu EXCEPT !.sp = @ + 1]
  /\ UNCHANGED <<coVars, stacks, owner, align_validsz, reg, aco_gtls_co, abort>>

Pop ==
  /\ Running
  /\ cpu.co \in Co
  /\ cpu.sp > 0
  /\ cpu' = [cpu EXCEPT !.sp = @ - 1]
  /\ UNCHANGED <<coVars, stackVars, reg, aco_gtls_co, abort>>

\* The function of the coroutine returns instead of calling aco_exit.
Return ==
  /\ Running
  /\ cpu.co \in Co
  /\ cpu.sp = 0
  /\ cpu' = [cpu EXCEPT !.sp = -1, !.ip = ReturnTarget(CurStack)]
  /\ UNCHANGED <<coVars, stackVars, reg, aco_gtls_co, abort>>

\* An aco_yield that ends the function, compiled to a jump to acosw: the
\* return address acosw finds on the stack is the one of the function.
TailYield ==
  /\ Running
  /\ cpu.co \in Co
  /\ cpu.sp = 0
  /\ YieldFrom(aco_gtls_co, [sp |-> -1, ip |-> ReturnTarget(CurStack)])
  /\ UNCHANGED <<coVars, stackVars, abort>>

\* aco_funcp_protector: the last words are said and the process aborts.
aco_funcp_protector ==
  /\ abort = "none"
  /\ cpu.ip = "protector"
  /\ Die("protector")

\* malloc or mmap fails: in the program's next call that needs memory.
AllocFails == Running /\ Die("alloc")

\* An aborted process takes no step.
Aborted == abort # "none" /\ UNCHANGED vars

-----------------------------------------------------------------------------
Next ==
  \/ CreateMain \/ DestroyMain
  \/ \E s \in Stack : aco_share_stack_new(s) \/ aco_share_stack_destroy(s)
  \/ \E c \in Co :
       \/ \E s \in Stack, n \in SaveArgs : aco_create(c, s, n)
       \/ aco_destroy(c)
       \/ aco_resume(c)
  \/ aco_yield \/ aco_exit
  \/ \E w \in Word : Push(w)
  \/ Pop \/ Return \/ TailYield
  \/ aco_funcp_protector \/ AllocFails \/ Aborted

Spec == Init /\ [][Next]_vars

-----------------------------------------------------------------------------
(***************************************************************************)
(* Properties.                                                             *)
(***************************************************************************)

\* The owner field of a share stack never dangles: it is NULL or a coroutine
\* that exists, has not ended and executes on that very stack; and
\* align_validsz is what was restored for the owner plus the return address,
\* or 0. aco_resume reads the owner's stack pointer and save stack through
\* this field, aco_exit and aco_destroy must have cleared it.
OwnerIsValid ==
  \A s \in Stack :
    IF owner[s] = NULL
    THEN align_validsz[s] = 0
    ELSE /\ s \in stacks
         /\ owner[s] \in live
         /\ share_stack[owner[s]] = s
         /\ ~is_end[owner[s]]
         /\ align_validsz[s] = save_stack[owner[s]].valid_sz + 1

\* The coroutine whose code executes is the one aco_get_co returns, owns the
\* stack it executes on and has not ended, so that aco_yield and aco_exit,
\* which act on aco_gtls_co, save the right registers and the protector
\* names the right coroutine; while the main coroutine executes, aco_gtls_co
\* names no other, so that an aco_yield there is caught.
RunnerIsCurrent ==
  IF cpu.co = MainCo
  THEN aco_gtls_co \in {NULL, MainCo}
  ELSE /\ aco_gtls_co = cpu.co
       /\ cpu.co \in live
       /\ owner[share_stack[cpu.co]] = cpu.co

\* The frames of a coroutine that does not own its stack and may still be
\* resumed are in its save stack, all of them, within the bytes allocated
\* for it, and few enough to be restored above the end of the share stack.
EvictedFramesFit ==
  \A c \in live \cap Co :
    ~is_end[c] /\ owner[share_stack[c]] # c =>
      /\ save_stack[c].valid_sz = reg[c].sp
      /\ reg[c].sp \in 0..(Limit - 1)
      /\ reg[c].sp <= save_stack[c].sz

\* A program that follows the rules of README.md never triggers the
\* assertions aco.c and aco.h make about libaco's own bookkeeping, whatever
\* the order in which it creates, resumes, ends and destroys coroutines.
OwnAssertionsHold ==
  abort \notin {"owner_share_stack", "valid_sz", "exit_owner"}

\* Restoring frames never overwrites the word at align_retptr, so that a
\* function that returns always lands in the protector.
ReturnIsCaught ==
  /\ cpu.ip # "wild"
  /\ \A c \in live : reg[c].ip # "wild"

\* Once aco_exit has marked a coroutine it never executes again, and the mark
\* stays for as long as the coroutine exists.
EndIsFinal ==
  [][\A c \in Co : c \in live /\ is_end[c] =>
       cpu'.co # c /\ (c \in live' => is_end'[c])]_vars

-----------------------------------------------------------------------------
(***************************************************************************)
(* The coroutines as their program sees them: where the frames of each are *)
(* stored does not matter.                                                 *)
(***************************************************************************)
StatusOf(c) ==
  IF c \notin live THEN "absent"
  ELSE IF is_end[c] THEN "end"
  ELSE IF cpu.co = c THEN "running"
  ELSE IF reg[c].ip = "fp" THEN "init" ELSE "yielded"

FramesOf(c) ==
  LET s == share_stack[c]
      d == IF cpu.co = c THEN cpu.sp ELSE reg[c].sp
  IN IF c \notin live \/ is_end[c] THEN <<>>
     ELSE IF owner[s] = c THEN [i \in 1..d |-> mem[s][i]]
     ELSE [i \in 1..save_stack[c].valid_sz |-> save_stack[c].buf[i]]

Abstract == INSTANCE Coroutines WITH
  current <- cpu.co,
  status  <- [c \in Co |-> StatusOf(c)],
  frames  <- [c \in Co |-> FramesOf(c)],
  aborted <- abort # "none"

\* Copying stacks in and out of share stacks cannot be observed: whenever a
\* coroutine continues, its frames are those it had when it gave control
\* back, whoever used the share stack meanwhile.
ImplementsCoroutines == Abstract!Spec
=============================================================================
