------------------------------- MODULE AcoSw -------------------------------
(***************************************************************************)
(* The context switch of libaco, one instruction at a time (acosw.S), with *)
(* what sets it up: aco_thread_init, the registers aco_create prepares and *)
(* the protector a returning function ends in. A signal handler may run on *)
(* the current stack between any two instructions.                         *)
(*                                                                         *)
(* Every coroutine has a stack of its own here; sharing one is the subject *)
(* of module Aco. Addresses and offsets are in bytes. A register or a word *)
(* of memory holds a tuple whose first component says what it is:          *)
(*   <<"stack", c, a>>  offset a in the stack of c                         *)
(*   <<"aco_t", c>>     the aco_t of c                                     *)
(*   <<"ret", c>>       the address c's call of acosw returns to           *)
(*   <<"fp", c>>        the function of c                                  *)
(*   <<"protector">>    aco_funcp_protector_asm                            *)
(*   <<x, c, s>>        what the program of c computed in register x, when *)
(*                      its frames reached down to offset s                *)
(***************************************************************************)
EXTENDS Integers, Sequences

CONSTANTS
  Co,        \* non-main coroutines
  MainCo,
  Arch,      \* "i386" or "amd64"
  ShareEnv,  \* whether ACO_CONFIG_SHARE_FPU_MXCSR_ENV is defined
  StackSz,   \* bytes of a stack
  Setting    \* tells apart the control words a program sets; 0 is memset's

ASSUME AcoSwAssumption ==
  /\ Arch \in {"i386", "amd64"} /\ ShareEnv \in BOOLEAN
  /\ MainCo \notin Co
  /\ StackSz \in Nat \ {0} /\ StackSz % 16 = 0
  /\ 0 \in Setting

VARIABLES
  ip,     \* the next instruction: an address, or <<"acosw", its number>>
  r,      \* the registers
  env,    \* the control words of the x87 unit and of MXCSR
  stack,  \* the stacks
  reg,    \* co->reg, by byte offset
  live,   \* the coroutines that exist
  aco_gtls_fpucw_mxcsr,   \* the thread's reference control words
  aco_gtls_last_word_fp,  \* the thread's last-word function
  called,     \* history: who called acosw, in which context
  reference,  \* history: the words when aco_thread_init was last called
  promised    \* history: the reference when a coroutine was created

progVars == <<live, aco_gtls_fpucw_mxcsr, aco_gtls_last_word_fp, called,
              reference, promised>>
vars     == <<ip, r, env, stack, reg, progVars>>

All  == Co \cup {MainCo}
I386 == Arch = "i386"
W    == IF I386 THEN 4 ELSE 8
SP   == IF I386 THEN "esp" ELSE "rsp"

Saved   == IF I386 THEN {"ebp", "edi", "esi", "ebx"}
                   ELSE {"r12", "r13", "r14", "r15", "rbx", "rbp"}
Scratch == IF I386 THEN {"eax", "ecx", "edx"}
                   ELSE {"rax", "rcx", "rdx", "rdi", "rsi"}

\* The places of co->reg: ACO_REG_IDX_RETADDR, ACO_REG_IDX_SP, ACO_REG_IDX_FPU.
RETADDR == IF I386 THEN 0 ELSE 32
SPIDX   == IF I386 THEN 4 ELSE 40
FPU     == IF I386 THEN 24 ELSE 64
\* Where the control words go; other fields of aco_t when they are shared.
Words   == {FPU, FPU + 4}
Fields  == {W * i : i \in 0..(FPU \div W - 1)} \cup Words

Slots  == {W * i : i \in 0..(StackSz \div W - 1)}
RetPtr == StackSz - W

EnvOf(n) == [fpucw |-> <<"fpucw", n>>, mxcsr |-> <<"mxcsr", n>>]
Zero == <<"zero">>
Junk == <<"junk">>

-----------------------------------------------------------------------------
(***************************************************************************)
(* The instructions. ld and st move a word between a register and memory   *)
(* at an offset from another register; cw is fnstcw or fldcw and mx is     *)
(* stmxcsr or ldmxcsr.                                                     *)
(***************************************************************************)
ins(op, x, base, off) == [op |-> op, x |-> x, base |-> base, off |-> off]
ld(x, base, off)  == ins("ld", x, base, off)
st(base, off, x)  == ins("st", x, base, off)
lea(x, base, off) == ins("lea", x, base, off)
mov(x, y)         == ins("mov", x, y, 0)
clear(x)          == ins("clear", x, x, 0)
jmp(x)            == ins("jmp", x, x, 0)

\* What is left out when the environment is shared.
IfOwnEnv(s) == IF ShareEnv THEN <<>> ELSE s

SaveEnv(base) == IfOwnEnv(<<ins("stcw", "fpucw", base, FPU),
                            ins("stcw", "mxcsr", base, FPU + 4)>>)
LoadEnv(base) == IfOwnEnv(<<ins("ldcw", "fpucw", base, FPU),
                            ins("ldcw", "mxcsr", base, FPU + 4)>>)

\* Mutant: the stack pointer is saved without dropping the return address.
SavesOwnEsp ==
  << ld("eax", "esp", 4), ld("edx", "esp", 0), lea("ecx", "esp", 0),
     st("eax", 8, "ebp"), st("eax", 4, "ecx"), st("eax", 0, "edx"),
     st("eax", 12, "edi"), ld("ecx", "esp", 8),
     st("eax", 16, "esi"), st("eax", 20, "ebx") >> \o SaveEnv("eax")

SaveI386 ==
  << ld("eax", "esp", 4), ld("edx", "esp", 0), lea("ecx", "esp", 4),
     st("eax", 8, "ebp"), st("eax", 4, "ecx"), st("eax", 0, "edx"),
     st("eax", 12, "edi"), ld("ecx", "esp", 8),
     st("eax", 16, "esi"), st("eax", 20, "ebx") >> \o SaveEnv("eax")

\* Mutant: the stack pointer walks over the aco_t, popping its fields.
LoadThroughEsp ==
  << mov("esp", "ecx"),
     ld("edx", "esp", 4), ld("ebp", "esp", 8), ld("eax", "esp", 0),
     ld("edi", "esp", 12), ld("esi", "esp", 16), ld("ebx", "esp", 20) >>
  \o LoadEnv("ecx")
  \o << clear("ecx"), mov("esp", "edx"), clear("edx"), jmp("eax") >>

LoadI386 ==
  << ld("edx", "ecx", 4), ld("ebp", "ecx", 8), ld("eax", "ecx", 0),
     ld("edi", "ecx", 12), ld("esi", "ecx", 16), ld("ebx", "ecx", 20) >>
  \o LoadEnv("ecx")
  \o << clear("ecx"), mov("esp", "edx"), clear("edx"), jmp("eax") >>

\* Mutant: the return address and the stack pointer change places.
SwapsRetaddr ==
  << ld("rdx", "rsp", 0), lea("rcx", "rsp", 8),
     st("rdi", 0, "r12"), st("rdi", 8, "r13"), st("rdi", 16, "r14"),
     st("rdi", 24, "r15"), st("rdi", 32, "rcx"), st("rdi", 40, "rdx"),
     st("rdi", 48, "rbx"), st("rdi", 56, "rbp") >> \o SaveEnv("rdi")

SaveAmd64 ==
  << ld("rdx", "rsp", 0), lea("rcx", "rsp", 8),
     st("rdi", 0, "r12"), st("rdi", 8, "r13"), st("rdi", 16, "r14"),
     st("rdi", 24, "r15"), st("rdi", 32, "rdx"), st("rdi", 40, "rcx"),
     st("rdi", 48, "rbx"), st("rdi", 56, "rbp") >> \o SaveEnv("rdi")

\* Mutant: rbx is not restored.
LoadsNoRbx ==
  << ld("r12", "rsi", 0), ld("r13", "rsi", 8), ld("r14", "rsi", 16),
     ld("r15", "rsi", 24), ld("rax", "rsi", 32), ld("rcx", "rsi", 40),
     ld("rbp", "rsi", 56) >> \o LoadEnv("rsi")
  \o << mov("rsp", "rcx"), jmp("rax") >>

\* Mutant: the stack pointer points into the aco_t for a while.
LoadWithRspAway == << mov("rsp", "rsi") >> \o LoadsNoRbx

LoadAmd64 ==
  << ld("r12", "rsi", 0), ld("r13", "rsi", 8), ld("r14", "rsi", 16),
     ld("r15", "rsi", 24), ld("rax", "rsi", 32), ld("rcx", "rsi", 40),
     ld("rbx", "rsi", 48), ld("rbp", "rsi", 56) >> \o LoadEnv("rsi")
  \o << mov("rsp", "rcx"), jmp("rax") >>

acosw == IF I386 THEN SaveI386 \o LoadI386 ELSE SaveAmd64 \o LoadAmd64

-----------------------------------------------------------------------------
(***************************************************************************)
(* Whose code executes, and the context a coroutine relies on: the         *)
(* registers a call must preserve, the stack pointer, the frames at and    *)
(* above it, where it goes on and, unless shared, the control words.       *)
(***************************************************************************)
InSwitch == ip[1] = "acosw"
InCode   == ip[1] \in {"fp", "ret"}
Me       == r[SP][2]

Frames(c, sp) == [a \in {b \in Slots : b >= sp[3]} |-> stack[c][a]]
Mine(words)   == IF ShareEnv THEN "shared" ELSE words

MyContext ==
  [regs |-> [x \in Saved |-> r[x]], sp |-> r[SP], next |-> ip,
   env  |-> Mine(env), frames |-> Frames(Me, r[SP])]

\* Mutant: a new coroutine inherits the words of the one that creates it.
WordsOfCreator == env

\* The control words aco_create puts in co->reg.
WordsOfThread == aco_gtls_fpucw_mxcsr

\* The place of each register in co->reg.
Place == IF I386
  THEN [x \in Saved |-> CASE x = "ebp" -> 8 [] x = "edi" -> 12
                          [] x = "esi" -> 16 [] x = "ebx" -> 20]
  ELSE [x \in Saved |-> CASE x = "r12" -> 0 [] x = "r13" -> 8 [] x = "r14" -> 16
                          [] x = "r15" -> 24 [] x = "rbx" -> 48 [] x = "rbp" -> 56]

ContextIn(c) ==
  [regs |-> [x \in Saved |-> reg[c][Place[x]]],
   sp |-> reg[c][SPIDX], next |-> reg[c][RETADDR],
   env  |-> IF ShareEnv THEN "shared"
            ELSE [fpucw |-> reg[c][FPU], mxcsr |-> reg[c][FPU + 4]],
   frames |-> Frames(c, reg[c][SPIDX])]

-----------------------------------------------------------------------------
\* A thread whose main coroutine executes, before aco_thread_init.
Init ==
  /\ ip = <<"ret", MainCo>>
  /\ r = [x \in Saved \cup Scratch \cup {SP} |->
            IF x = SP THEN <<"stack", MainCo, StackSz - 16>> ELSE Junk]
  /\ env = EnvOf(0)
  /\ stack = [c \in All |-> [a \in Slots |-> Junk]]
  /\ reg = [c \in All |-> [f \in Fields |-> Zero]]
  /\ live = {MainCo}
  /\ aco_gtls_fpucw_mxcsr = EnvOf(0)
  /\ aco_gtls_last_word_fp = "default"
  /\ called = [by |-> MainCo, context |-> "none"]
  /\ reference = EnvOf(0)
  /\ promised = [c \in Co |-> EnvOf(0)]

(***************************************************************************)
(* The program.                                                            *)
(***************************************************************************)
\* The program sets the control words of the x87 unit and of MXCSR.
SetEnv(n) ==
  /\ InCode
  /\ env' = EnvOf(n)
  /\ UNCHANGED <<ip, r, stack, reg, progVars>>

\* aco_thread_init, with aco_save_fpucw_mxcsr.
aco_thread_init(last_word_co_fp) ==
  /\ InCode
  /\ aco_gtls_fpucw_mxcsr' = env
  /\ aco_gtls_last_word_fp' = IF last_word_co_fp # "NULL"
                              THEN last_word_co_fp
                              ELSE aco_gtls_last_word_fp
  /\ reference' = env
  /\ UNCHANGED <<ip, r, env, stack, reg, live, called, promised>>

\* What aco_create prepares for the first switch to c. The protector's
\* address was put at align_retptr when the stack was created.
aco_create(c) ==
  /\ InCode
  /\ c \in Co \ live
  /\ live' = live \cup {c}
  /\ reg' = [reg EXCEPT ![c] = [f \in Fields |->
       CASE f = RETADDR -> <<"fp", c>>
         [] f = SPIDX   -> <<"stack", c, RetPtr>>
         [] f \in Words /\ ~ShareEnv -> IF f = FPU THEN WordsOfThread.fpucw
                                                   ELSE WordsOfThread.mxcsr
         [] OTHER       -> Zero]]
  /\ stack' = [stack EXCEPT ![c][RetPtr] = <<"protector">>]
  /\ promised' = [promised EXCEPT ![c] = reference]
  /\ UNCHANGED <<ip, r, env, aco_gtls_fpucw_mxcsr, aco_gtls_last_word_fp,
                 called, reference>>

\* The executing coroutine computes, with frames down to offset s of its
\* stack, and calls acosw(Me, to). Its two arguments are in registers on
\* amd64 and on top of its frames on i386. By the rules of aco_resume and
\* aco_yield one of the two coroutines is the main one.
Call(to, s) ==
  LET c    == Me
      regs == [x \in Saved |-> <<x, c, s>>]
      new  == [a \in Slots |->
                 CASE a = s - W          -> <<"ret", c>>
                   [] I386 /\ a = s      -> <<"aco_t", c>>
                   [] I386 /\ a = s + W  -> <<"aco_t", to>>
                   [] a \in s..(RetPtr - 1) \ (IF I386 THEN {s, s + W} ELSE {})
                                         -> <<"word", c, s>>
                   [] OTHER              -> stack[c][a]]
  IN /\ InCode
     /\ to \in live \ {c} /\ MainCo \in {c, to}
     /\ s % 16 = 0
     /\ ip' = <<"acosw", 1>>
     /\ r' = [x \in DOMAIN r |->
                CASE x \in Saved -> regs[x]
                  [] x = "rdi"   -> <<"aco_t", c>>
                  [] x = "rsi"   -> <<"aco_t", to>>
                  [] x = SP      -> <<"stack", c, s - W>>
                  [] OTHER       -> Junk]
     /\ stack' = [stack EXCEPT ![c] = new]
     /\ called' = [by |-> c, context |->
          [regs |-> regs, sp |-> <<"stack", c, s>>, next |-> <<"ret", c>>,
           env |-> Mine(env), frames |-> [a \in {b \in Slots : b >= s} |-> new[a]]]]
     /\ UNCHANGED <<env, reg, live, aco_gtls_fpucw_mxcsr,
                    aco_gtls_last_word_fp, reference, promised>>

\* A signal handler executes on the current stack: it leaves its frames
\* below the stack pointer, in the red zone of amd64 too, which acosw, a
\* leaf function that stores nothing there, does not need.
Signal ==
  /\ ip[1] \notin {"protector", "last_word"}
  /\ r[SP][1] = "stack"
  /\ stack' = [stack EXCEPT ![Me] =
       [a \in Slots |-> IF a < r[SP][3] THEN Junk ELSE @[a]]]
  /\ UNCHANGED <<ip, r, env, reg, progVars>>

-----------------------------------------------------------------------------
(***************************************************************************)
(* The instructions of acosw.                                              *)
(***************************************************************************)
I == acosw[ip[2]]
Executes(op) == InSwitch /\ I.op = op
Advance      == ip' = <<"acosw", ip[2] + 1>>

\* The word at an offset from where register base points.
At(base, off) == LET p == r[base] IN
  IF p[1] = "aco_t" THEN reg[p[2]][off] ELSE stack[p[2]][p[3] + off]

Set(x, value) ==
  /\ r' = [r EXCEPT ![x] = value]
  /\ Advance
  /\ UNCHANGED <<env, stack, reg, progVars>>

Load  == Executes("ld") /\ Set(I.x, At(I.base, I.off))
Lea   == Executes("lea") /\ LET p == r[I.base] IN Set(I.x, <<p[1], p[2], p[3] + I.off>>)
Move  == Executes("mov") /\ Set(I.x, r[I.base])
Clear == Executes("clear") /\ Set(I.x, Zero)

Store ==
  /\ Executes("st")
  /\ reg' = [reg EXCEPT ![r[I.base][2]][I.off] = r[I.x]]
  /\ Advance
  /\ UNCHANGED <<r, env, stack, progVars>>

StoreEnv ==
  /\ Executes("stcw")
  /\ reg' = [reg EXCEPT ![r[I.base][2]][I.off] = env[I.x]]
  /\ Advance
  /\ UNCHANGED <<r, env, stack, progVars>>

RestoreEnv ==
  /\ Executes("ldcw")
  /\ env' = [env EXCEPT ![I.x] = At(I.base, I.off)]
  /\ Advance
  /\ UNCHANGED <<r, stack, reg, progVars>>

Jump ==
  /\ Executes("jmp")
  /\ ip' = r[I.x]
  /\ UNCHANGED <<r, env, stack, reg, progVars>>

-----------------------------------------------------------------------------
(***************************************************************************)
(* A function that returns.                                                *)
(***************************************************************************)
\* ret, once the frames are gone: pop the word at align_retptr.
Return ==
  /\ InCode /\ Me # MainCo
  /\ ip' = stack[Me][RetPtr]
  /\ r' = [r EXCEPT ![SP] = <<"stack", Me, RetPtr + W>>]
  /\ UNCHANGED <<env, stack, reg, progVars>>

\* aco_funcp_protector_asm aligns the stack and calls aco_funcp_protector,
\* which calls the last-word function; the process then aborts.
aco_funcp_protector ==
  LET a == r[SP][3] IN
  /\ ip = <<"protector">>
  /\ ip' = <<"last_word", aco_gtls_last_word_fp>>
  /\ r' = [r EXCEPT ![SP] = <<"stack", Me, (a - (a % 16)) - W>>]
  /\ stack' = [stack EXCEPT ![Me][(a - (a % 16)) - W] = <<"protector">>]
  /\ UNCHANGED <<env, reg, progVars>>

Aborted == ip[1] = "last_word" /\ UNCHANGED vars

Next ==
  \/ \E n \in Setting : SetEnv(n)
  \/ \E fp \in {"NULL", "given"} : aco_thread_init(fp)
  \/ \E c \in Co : aco_create(c)
  \/ \E to \in All, s \in Slots \ {0} : Call(to, s)
  \/ Signal
  \/ Load \/ Lea \/ Move \/ Clear \/ Store \/ StoreEnv \/ RestoreEnv \/ Jump
  \/ Return \/ aco_funcp_protector \/ Aborted

Spec == Init /\ [][Next]_vars

-----------------------------------------------------------------------------
(***************************************************************************)
(* Properties.                                                             *)
(***************************************************************************)
\* The registers hold something of their kind at every point: a program
\* executes at an address of code, never at a word a handler left behind.
TypeOK ==
  /\ \/ ip \in {<<"ret", Me>>, <<"fp", Me>>, <<"protector">>}
     \/ InSwitch /\ ip[2] \in DOMAIN acosw
     \/ ip \in {<<"last_word", fp>> : fp \in {"default", "given"}}
  /\ env \in [fpucw : {<<"fpucw", s>> : s \in Setting},
              mxcsr : {<<"mxcsr", s>> : s \in Setting}]
  /\ live \in SUBSET All
  /\ \A c \in live : reg[c][RETADDR] \in {Zero, <<"ret", c>>, <<"fp", c>>}

\* At every instruction the stack pointer is one of the coroutine that is
\* left or of the one that is entered, never one into an aco_t, and no frame
\* of its coroutine lies below it, where a handler would overwrite it
\* (acosw.S:18-33). At the entry of a function it is aligned (README.md:741).
StackPointerIsValid ==
  /\ r[SP][1] = "stack"
  /\ InSwitch => LET relies == IF Me = called.by THEN called.context.sp
                                               ELSE reg[Me][SPIDX]
                 IN r[SP][3] <= relies[3]
  /\ ip[1] \in {"fp", "last_word"} => (r[SP][3] + W) % 16 = 0

\* A function starts with the control words that were in force when
\* aco_thread_init was last called before its coroutine was created
\* (README.md, aco_thread_init), whatever its creator, or the coroutine that
\* first resumes it, has set since.
StartsWithThreadWords ==
  ~ShareEnv => \A c \in live \ {MainCo} :
    reg[c][RETADDR] = <<"fp", c>> /\ ~(InCode /\ Me = c)
      => /\ reg[c][FPU] = promised[c].fpucw
         /\ reg[c][FPU + 4] = promised[c].mxcsr

\* Each instruction of acosw and each signal is a step of module Contexts:
\* when a coroutine goes on, its registers, stack pointer, frames and
\* control words are what they were when it called acosw (README.md,
\* constraints C2.0 to C2.2).
Abstract == INSTANCE Contexts WITH
  Co      <- All,
  live    <- live,
  running <- IF InSwitch THEN called.by ELSE Me,
  context <- [c \in All |->
    IF c \notin live THEN [next |-> Zero]
    ELSE IF InSwitch /\ c = called.by THEN called.context
    ELSE IF ~InSwitch /\ c = Me THEN MyContext
    ELSE ContextIn(c)]

ImplementsContexts == Abstract!Spec
=============================================================================
