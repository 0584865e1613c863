---------------------------- MODULE AcoSwProofs ----------------------------
(***************************************************************************)
(* The context switch is correct on both architectures, with the           *)
(* environment switched or shared, for any coroutines and any stack size.  *)
(*                                                                         *)
(* Outside acosw the invariant says that every coroutine but the one that  *)
(* executes is ready to be switched to. Inside, it says for each           *)
(* instruction what has been stored of the caller (Written), what has been *)
(* loaded of the callee (Switched) and what the scratch registers hold     *)
(* until they are used (ScratchOK), so that the jump finds the caller      *)
(* ready and the callee's context in force.                                *)
(***************************************************************************)
EXTENDS AcoSw, TLAPS

\* What control words may be.
EnvSet == [fpucw : {<<"fpucw", n>> : n \in Setting},
           mxcsr : {<<"mxcsr", n>> : n \in Setting}]

(***************************************************************************)
(* The instructions of acosw by their numbers in the program that switches *)
(* the environment too, and the numbers the proofs speak of.               *)
(***************************************************************************)
ListingAmd64 ==
  << ld("rdx", "rsp", 0), lea("rcx", "rsp", 8),
     st("rdi", 0, "r12"), st("rdi", 8, "r13"), st("rdi", 16, "r14"),
     st("rdi", 24, "r15"), st("rdi", 32, "rdx"), st("rdi", 40, "rcx"),
     st("rdi", 48, "rbx"), st("rdi", 56, "rbp"),
     ins("stcw", "fpucw", "rdi", 64), ins("stcw", "mxcsr", "rdi", 68),
     ld("r12", "rsi", 0), ld("r13", "rsi", 8), ld("r14", "rsi", 16),
     ld("r15", "rsi", 24), ld("rax", "rsi", 32), ld("rcx", "rsi", 40),
     ld("rbx", "rsi", 48), ld("rbp", "rsi", 56),
     ins("ldcw", "fpucw", "rsi", 64), ins("ldcw", "mxcsr", "rsi", 68),
     mov("rsp", "rcx"), jmp("rax") >>

ListingI386 ==
  << ld("eax", "esp", 4), ld("edx", "esp", 0), lea("ecx", "esp", 4),
     st("eax", 8, "ebp"), st("eax", 4, "ecx"), st("eax", 0, "edx"),
     st("eax", 12, "edi"), ld("ecx", "esp", 8),
     st("eax", 16, "esi"), st("eax", 20, "ebx"),
     ins("stcw", "fpucw", "eax", 24), ins("stcw", "mxcsr", "eax", 28),
     ld("edx", "ecx", 4), ld("ebp", "ecx", 8), ld("eax", "ecx", 0),
     ld("edi", "ecx", 12), ld("esi", "ecx", 16), ld("ebx", "ecx", 20),
     ins("ldcw", "fpucw", "ecx", 24), ins("ldcw", "mxcsr", "ecx", 28),
     clear("ecx"), mov("esp", "edx"), clear("edx"), jmp("eax") >>

Listing == IF I386 THEN ListingI386 ELSE ListingAmd64

\* The number of instruction i in the listing, which has those that switch
\* the environment: the 11th and the 12th, and two more from EnvNo on.
EnvNo == IF I386 THEN 19 ELSE 21
No(i) == IF ~ShareEnv \/ i <= 10 THEN i
         ELSE IF i + 2 < EnvNo THEN i + 2 ELSE i + 4
Follows(p) == IF ShareEnv /\ p = 10 THEN 13
              ELSE IF ShareEnv /\ p + 1 = EnvNo THEN EnvNo + 2 ELSE p + 1

\* Each instruction is the one listed under its number, and the next one
\* follows; those of the environment are left out where it is shared.
LEMMA Listed ==
  ASSUME NEW i \in DOMAIN acosw
  PROVE  /\ No(i) \in 1..24 /\ acosw[i] = Listing[No(i)]
         /\ No(i) # 24 => i + 1 \in DOMAIN acosw /\ No(i + 1) = Follows(No(i))
         /\ ShareEnv => No(i) \notin {11, 12, EnvNo, EnvNo + 1}
<1>1. CASE I386 /\ ShareEnv
  BY <1>1 DEF acosw, SaveI386, LoadI386, SaveEnv, LoadEnv, IfOwnEnv, No,
              Listing, ListingI386, EnvNo, Follows, FPU
<1>2. CASE I386 /\ ~ShareEnv
  BY <1>2 DEF acosw, SaveI386, LoadI386, SaveEnv, LoadEnv, IfOwnEnv, No,
              Listing, ListingI386, EnvNo, Follows, FPU
<1>3. CASE ~I386 /\ ShareEnv
  BY <1>3 DEF acosw, SaveAmd64, LoadAmd64, SaveEnv, LoadEnv, IfOwnEnv, No,
              Listing, ListingAmd64, EnvNo, Follows, FPU
<1>4. CASE ~I386 /\ ~ShareEnv
  BY <1>4 DEF acosw, SaveAmd64, LoadAmd64, SaveEnv, LoadEnv, IfOwnEnv, No,
              Listing, ListingAmd64, EnvNo, Follows, FPU
<1> QED
  BY <1>1, <1>2, <1>3, <1>4

\* The switch begins with the first of them.
LEMMA Begins == 1 \in DOMAIN acosw /\ No(1) = 1
  BY DEF acosw, SaveAmd64, LoadAmd64, SaveI386, LoadI386, SaveEnv,
         LoadEnv, IfOwnEnv, No

-----------------------------------------------------------------------------
\* Variables are functions on their domains.
Shapes ==
  /\ DOMAIN r = Saved \cup Scratch \cup {SP}
  /\ DOMAIN stack = All /\ \A e \in All : DOMAIN stack[e] = Slots
  /\ DOMAIN reg = All /\ \A e \in All : DOMAIN reg[e] = Fields
  /\ live \in SUBSET All /\ MainCo \in live

\* Control words are words that were set; a coroutine that has not begun has
\* those it was promised.
WordsOK ==
  /\ env \in EnvSet /\ reference \in EnvSet /\ promised \in [Co -> EnvSet]
  /\ aco_gtls_fpucw_mxcsr = reference
  /\ aco_gtls_last_word_fp \in {"default", "given"}
  /\ ~ShareEnv => \A e \in live \ {MainCo} :
       reg[e][RETADDR] = <<"fp", e>> => /\ reg[e][FPU] = promised[e].fpucw
                                        /\ reg[e][FPU + 4] = promised[e].mxcsr

\* A return address is one, and the one at the top of a stack is the
\* protector's.
PlacesOK ==
  /\ \A e \in live : reg[e][RETADDR] \in {Zero, <<"ret", e>>, <<"fp", e>>}
  /\ \A e \in live \ {MainCo} : stack[e][RetPtr] = <<"protector">>

\* A coroutine that can be switched to.
Ready(e) ==
  /\ \/ /\ reg[e][RETADDR] = <<"ret", e>>
        /\ \E a \in Slots : a % 16 = 0 /\ reg[e][SPIDX] = <<"stack", e, a>>
     \/ /\ reg[e][RETADDR] = <<"fp", e>> /\ e # MainCo
        /\ reg[e][SPIDX] = <<"stack", e, RetPtr>>
  /\ ~ShareEnv => [fpucw |-> reg[e][FPU], mxcsr |-> reg[e][FPU + 4]] \in EnvSet

\* Coroutine m executes its program or ends, with the stack pointer at a.
Executing(m, a) ==
  /\ m \in live /\ a \in Nat
  /\ r[SP] = <<"stack", m, a>>
  /\ \/ ip = <<"ret", m>> /\ a % 16 = 0 /\ a <= RetPtr
     \/ ip = <<"fp", m>> /\ a = RetPtr /\ m # MainCo
     \/ ip = <<"protector">> /\ a = StackSz /\ m # MainCo
     \/ /\ ip \in {<<"last_word", fp>> : fp \in {"default", "given"}}
        /\ a = RetPtr /\ m # MainCo
  /\ \A e \in live \ {m} : Ready(e)

\* The number of the instruction that stores a field of the caller, of the
\* one that loads a saved register of the callee, and of the one that changes
\* the stack.
StoreNo == IF I386
  THEN [f \in Fields |->
          CASE f = 8 -> 4 [] f = 4 -> 5 [] f = 0 -> 6 [] f = 12 -> 7
            [] f = 16 -> 9 [] f = 20 -> 10 [] f = 24 -> 11 [] f = 28 -> 12]
  ELSE [f \in Fields |->
          CASE f = 0 -> 3 [] f = 8 -> 4 [] f = 16 -> 5 [] f = 24 -> 6
            [] f = 32 -> 7 [] f = 40 -> 8 [] f = 48 -> 9 [] f = 56 -> 10
            [] f = 64 -> 11 [] f = 68 -> 12]
LoadNo == IF I386
  THEN [x \in Saved |-> CASE x = "ebp" -> 14 [] x = "edi" -> 16
                          [] x = "esi" -> 17 [] x = "ebx" -> 18]
  ELSE [x \in Saved |-> CASE x = "r12" -> 13 [] x = "r13" -> 14 [] x = "r14" -> 15
                          [] x = "r15" -> 16 [] x = "rbx" -> 19 [] x = "rbp" -> 20]
PivotNo == IF I386 THEN 22 ELSE 23

\* c has called acosw(c, d) with its frames down to s and the words w.
Caller(c, d, s, w) ==
  /\ c \in live /\ d \in live \ {c}
  /\ s \in Slots \ {0} /\ s % 16 = 0 /\ w \in EnvSet
  /\ called.by = c
  /\ called.context =
       [regs |-> [x \in Saved |-> <<x, c, s>>], sp |-> <<"stack", c, s>>,
        next |-> <<"ret", c>>, env |-> Mine(w),
        frames |-> Frames(c, <<"stack", c, s>>)]
  /\ stack[c][s - W] = <<"ret", c>>
  /\ I386 => stack[c][s] = <<"aco_t", c>> /\ stack[c][s + W] = <<"aco_t", d>>
  /\ \A e \in live \ {c} : Ready(e)

\* What the caller leaves in a field.
Word(c, s, w, f) ==
  CASE f = RETADDR -> <<"ret", c>>
    [] f = SPIDX   -> <<"stack", c, s>>
    [] f = FPU     -> w.fpucw
    [] f = FPU + 4 -> w.mxcsr
    [] OTHER       -> <<CHOOSE x \in Saved : Place[x] = f, c, s>>

\* What has been stored before instruction p.
Written(c, s, w, p) ==
  \A f \in Fields : p > StoreNo[f] /\ (ShareEnv => f \notin Words)
    => reg[c][f] = Word(c, s, w, f)

\* What the saved registers, the stack pointer and the environment are.
Switched(c, d, s, w, p) ==
  /\ \A x \in Saved :
       r[x] = IF p > LoadNo[x] THEN reg[d][Place[x]] ELSE <<x, c, s>>
  /\ r[SP] = IF p > PivotNo THEN reg[d][SPIDX] ELSE <<"stack", c, s - W>>
  /\ ~ShareEnv =>
       /\ env.fpucw = IF p > EnvNo THEN reg[d][FPU] ELSE w.fpucw
       /\ env.mxcsr = IF p > EnvNo + 1 THEN reg[d][FPU + 4] ELSE w.mxcsr

\* What the scratch registers are as long as they are used.
ScratchAmd64(c, d, s, p) ==
  /\ r["rdi"] = <<"aco_t", c>> /\ r["rsi"] = <<"aco_t", d>>
  /\ p > 1 => r["rdx"] = <<"ret", c>>
  /\ p \in 3..18 => r["rcx"] = <<"stack", c, s>>
  /\ p > 17 => r["rax"] = reg[d][RETADDR]
  /\ p > 18 => r["rcx"] = reg[d][SPIDX]

ScratchI386(c, d, s, p) ==
  /\ p \in 2..15 => r["eax"] = <<"aco_t", c>>
  /\ p \in 3..13 => r["edx"] = <<"ret", c>>
  /\ p \in 4..8  => r["ecx"] = <<"stack", c, s>>
  /\ p \in 9..21 => r["ecx"] = <<"aco_t", d>>
  /\ p \in 14..23 => r["edx"] = reg[d][SPIDX]
  /\ p > 15 => r["eax"] = reg[d][RETADDR]

ScratchOK(c, d, s, p) ==
  IF I386 THEN ScratchI386(c, d, s, p) ELSE ScratchAmd64(c, d, s, p)

Switching(c, d, s, w, p) ==
  /\ Caller(c, d, s, w)
  /\ Written(c, s, w, p)
  /\ Switched(c, d, s, w, p)
  /\ ScratchOK(c, d, s, p)

Inside == \E c, d \in All, s \in Slots, w \in EnvSet, i \in DOMAIN acosw :
            ip = <<"acosw", i>> /\ Switching(c, d, s, w, No(i))
Outside == \E m \in All, a \in Nat : Executing(m, a)

IInv == Shapes /\ WordsOK /\ PlacesOK /\ (Outside \/ Inside)

-----------------------------------------------------------------------------
\* The actions of the instructions, and what an operation o on register x does
\* with a word at offset f from where register b points.
Instruction ==
  Load \/ Lea \/ Move \/ Clear \/ Store \/ StoreEnv \/ RestoreEnv \/ Jump

Effect(o, x, b, f) ==
  /\ o \in {"ld", "lea", "mov", "clear"} =>
       /\ r' = [r EXCEPT ![x] =
            CASE o = "ld"  -> At(b, f)
              [] o = "lea" -> <<r[b][1], r[b][2], r[b][3] + f>>
              [] o = "mov" -> r[b]
              [] o = "clear" -> Zero]
       /\ UNCHANGED <<env, stack, reg>>
  /\ o \in {"st", "stcw"} =>
       /\ reg' = [reg EXCEPT ![r[b][2]][f] = IF o = "st" THEN r[x] ELSE env[x]]
       /\ UNCHANGED <<r, env, stack>>
  /\ o = "ldcw" =>
       env' = [env EXCEPT ![x] = At(b, f)] /\ UNCHANGED <<r, stack, reg>>
  /\ o = "jmp" => ip' = r[x] /\ UNCHANGED <<r, env, stack, reg>>
  /\ o # "jmp" => ip' = <<"acosw", ip[2] + 1>>
  /\ UNCHANGED progVars

\* The action of an instruction has the effect of its operation.
LEMMA InstructionHasEffect ==
  ASSUME NEW o, NEW x, NEW b, NEW f, I = ins(o, x, b, f), Instruction
  PROVE  Effect(o, x, b, f)
BY DEF Effect, Instruction, Load, Lea, Move, Clear, Store, StoreEnv, RestoreEnv,
       Jump, Executes, Set, Advance, ins

\* The fields of co->reg one by one.
LEMMA FieldsAre ==
  Fields = IF I386 THEN {0, 4, 8, 12, 16, 20, 24, 28}
                   ELSE {0, 8, 16, 24, 32, 40, 48, 56, 64, 68}
<1>1. CASE I386
  <2>1. FPU \div W = 6 /\ W = 4 /\ Words = {24, 28}
    BY <1>1 DEF FPU, W, Words
  <2>2. 0..(FPU \div W - 1) = {0, 1, 2, 3, 4, 5}
    BY <2>1
  <2> QED
    BY <1>1, <2>1, <2>2 DEF Fields
<1>2. CASE ~I386
  <2>1. FPU \div W = 8 /\ W = 8 /\ Words = {64, 68}
    BY <1>2 DEF FPU, W, Words
  <2>2. 0..(FPU \div W - 1) = {0, 1, 2, 3, 4, 5, 6, 7}
    BY <2>1
  <2> QED
    BY <1>2, <2>1, <2>2 DEF Fields
<1> QED
  BY <1>1, <1>2

\* The fields that are no saved register's.
LEMMA OtherFields ==
  /\ RETADDR \in Fields /\ SPIDX \in Fields /\ FPU \in Fields /\ FPU + 4 \in Fields
  /\ RETADDR # SPIDX /\ RETADDR \notin Words /\ SPIDX \notin Words
  /\ FPU # FPU + 4 /\ Words = {FPU, FPU + 4}
<1>1. CASE I386
  BY <1>1, FieldsAre DEF RETADDR, SPIDX, FPU, Words
<1>2. CASE ~I386
  BY <1>2, FieldsAre DEF RETADDR, SPIDX, FPU, Words
<1> QED
  BY <1>1, <1>2

\* Each saved register has a place of its own, no other field's.
LEMMA PlacesAreApart ==
  ASSUME NEW x \in Saved
  PROVE  /\ Place[x] \in Fields /\ Place[x] \notin {RETADDR, SPIDX, FPU, FPU + 4}
         /\ \A y \in Saved : x # y => Place[x] # Place[y]
<1>1. CASE I386
  BY <1>1, FieldsAre DEF RETADDR, SPIDX, FPU, Place, Saved
<1>2. CASE ~I386
  BY <1>2, FieldsAre DEF RETADDR, SPIDX, FPU, Place, Saved
<1> QED
  BY <1>1, <1>2

\* What the caller leaves there.
LEMMA WordOfRegister ==
  ASSUME NEW c, NEW s, NEW w, NEW x \in Saved
  PROVE  Word(c, s, w, Place[x]) = <<x, c, s>>
BY PlacesAreApart DEF Word

\* Addresses of a stack, and the frames of a call of acosw.
LEMMA Addresses ==
  /\ W \in {4, 8} /\ StackSz \in Nat /\ StackSz >= 16 /\ StackSz % 16 = 0
  /\ RetPtr \in Slots /\ Slots \subseteq Nat
  /\ \A a \in Slots : a <= RetPtr
  /\ (RetPtr + W) % 16 = 0 /\ RetPtr + W = StackSz
  /\ \A s \in Slots \ {0} : s % 16 = 0 =>
       /\ s - W \in Slots /\ s <= StackSz - 16
       /\ I386 => s + W \in Slots /\ s + W < RetPtr
<1>1. W \in {4, 8} /\ StackSz \in Nat /\ StackSz >= 16 /\ StackSz % 16 = 0
  BY AcoSwAssumption DEF W
<1>2. ASSUME NEW a PROVE a \in Slots <=> (a \in Nat /\ a % W = 0 /\ a < StackSz)
  <2>1. ASSUME a \in Slots PROVE a \in Nat /\ a % W = 0 /\ a < StackSz
    <3>1. PICK i \in 0..(StackSz \div W - 1) : a = W * i
      BY <2>1 DEF Slots
    <3>2. CASE W = 4
      BY <1>1, <3>1, <3>2
    <3>3. CASE W = 8
      BY <1>1, <3>1, <3>3
    <3> QED
      BY <1>1, <3>2, <3>3
  <2>2. ASSUME a \in Nat, a % W = 0, a < StackSz PROVE a \in Slots
    <3>1. CASE W = 4
      <4>1. a \div 4 \in 0..(StackSz \div 4 - 1) /\ a = 4 * (a \div 4)
        BY <1>1, <2>2, <3>1
      <4> QED
        BY <3>1, <4>1 DEF Slots
    <3>2. CASE W = 8
      <4>1. a \div 8 \in 0..(StackSz \div 8 - 1) /\ a = 8 * (a \div 8)
        BY <1>1, <2>2, <3>2
      <4> QED
        BY <3>2, <4>1 DEF Slots
    <3> QED
      BY <1>1, <3>1, <3>2
  <2> QED
    BY <2>1, <2>2
<1> QED
  BY <1>1, <1>2 DEF RetPtr, W

\* Numbers of instructions.
LEMMA LoadNumbers ==
  ASSUME NEW x \in Saved
  PROVE  /\ LoadNo[x] \in 13..20 /\ LoadNo[x] < EnvNo
         /\ \A y \in Saved : x # y => LoadNo[x] # LoadNo[y]
<1>1. CASE I386
  BY <1>1 DEF LoadNo, Saved, EnvNo
<1>2. CASE ~I386
  BY <1>2 DEF LoadNo, Saved, EnvNo
<1> QED
  BY <1>1, <1>2

\* Each field is stored once, the control words last.
LEMMA StoreNumbers ==
  ASSUME NEW f \in Fields
  PROVE  /\ StoreNo[f] \in 3..12
         /\ \A g \in Fields : f # g => StoreNo[f] # StoreNo[g]
         /\ f \in Words <=> StoreNo[f] \in {11, 12}
<1>1. CASE I386
  BY <1>1, FieldsAre DEF StoreNo, Words, FPU
<1>2. CASE ~I386
  BY <1>2, FieldsAre DEF StoreNo, Words, FPU
<1> QED
  BY <1>1, <1>2

\* No register is of two kinds.
LEMMA RegistersApart ==
  SP \notin Saved /\ SP \notin Scratch /\ Saved \cap Scratch = {}
BY DEF SP, Saved, Scratch

\* An instruction that stores a field of the caller: which and what.
Stores(c, s, w, p, o, x, b, f) ==
  /\ o \in {"st", "stcw"} /\ f \in Fields /\ StoreNo[f] = p
  /\ r[b][2] = c
  /\ (IF o = "st" THEN r[x] ELSE env[x]) = Word(c, s, w, f)

\* On amd64 instructions 3 to 12 store.
LEMMA Amd64Stores ==
  ASSUME ~I386, NEW c \in All, NEW d \in All, NEW s \in Slots, NEW w \in EnvSet,
         NEW p \in 3..12, Switching(c, d, s, w, p), ShareEnv => p < 11,
         NEW o, NEW x, NEW b, NEW f, Listing[p] = ins(o, x, b, f)
  PROVE  Stores(c, s, w, p, o, x, b, f)
<1>1. /\ o = IF p < 11 THEN "st" ELSE "stcw"
      /\ b = "rdi" /\ f \in Fields /\ StoreNo[f] = p
  BY FieldsAre DEF Listing, ListingAmd64, st, ins, StoreNo
<1>2. r[b][2] = c
  BY <1>1 DEF Switching, ScratchOK, ScratchAmd64
<1>3. CASE x \in Saved
  <2>1. p < 11 /\ p \notin {7, 8} /\ f = Place[x]
    BY <1>3 DEF Listing, ListingAmd64, st, ins, Place, Saved
  <2>2. r[x] = <<x, c, s>>
    <3>1. ~(p > LoadNo[x])
      BY <1>3, <2>1, LoadNumbers
    <3> QED
      BY <1>3, <3>1 DEF Switching, Switched
  <2> QED
    BY <1>1, <1>2, <1>3, <2>1, <2>2, WordOfRegister DEF Stores
<1>4. CASE x \notin Saved
  <2>1. p \in {7, 8, 11, 12}
    BY <1>4 DEF Listing, ListingAmd64, st, ins, Saved
  <2> QED
    BY <1>1, <1>2, <2>1 DEF Listing, ListingAmd64, st, ins, Word, RETADDR, SPIDX,
       FPU, Switching, Switched, ScratchOK, ScratchAmd64, EnvNo, Stores
<1> QED
  BY <1>3, <1>4

\* On i386 instructions 4 to 12 store, except the 8th.
LEMMA I386Stores ==
  ASSUME I386, NEW c \in All, NEW d \in All, NEW s \in Slots, NEW w \in EnvSet,
         NEW p \in 4..12, p # 8, Switching(c, d, s, w, p), ShareEnv => p < 11,
         NEW o, NEW x, NEW b, NEW f, Listing[p] = ins(o, x, b, f)
  PROVE  Stores(c, s, w, p, o, x, b, f)
<1>1. /\ o = IF p < 11 THEN "st" ELSE "stcw"
      /\ b = "eax" /\ f \in Fields /\ StoreNo[f] = p
  BY FieldsAre DEF Listing, ListingI386, st, ins, StoreNo
<1>2. r[b][2] = c
  BY <1>1 DEF Switching, ScratchOK, ScratchI386
<1>3. CASE x \in Saved
  <2>1. p < 11 /\ p \notin {5, 6} /\ f = Place[x]
    BY <1>3 DEF Listing, ListingI386, st, ins, Place, Saved
  <2>2. r[x] = <<x, c, s>>
    <3>1. ~(p > LoadNo[x])
      BY <1>3, <2>1, LoadNumbers
    <3> QED
      BY <1>3, <3>1 DEF Switching, Switched
  <2> QED
    BY <1>1, <1>2, <1>3, <2>1, <2>2, WordOfRegister DEF Stores
<1>4. CASE x \notin Saved
  <2>1. p \in {5, 6, 11, 12}
    BY <1>4 DEF Listing, ListingI386, st, ins, Saved
  <2> QED
    BY <1>1, <1>2, <2>1 DEF Listing, ListingI386, st, ins, Word, RETADDR, SPIDX,
       FPU, Switching, Switched, ScratchOK, ScratchI386, EnvNo, Stores
<1> QED
  BY <1>3, <1>4

\* A store changes the field it is about and nothing else.
LEMMA StoreStep ==
  ASSUME Shapes, NEW c \in All, NEW d \in All,
         NEW s \in Slots, NEW w \in EnvSet,
         NEW p \in 3..12, Switching(c, d, s, w, p), I386 => p \notin {3, 8},
         NEW o, NEW x, NEW b, NEW f, Effect(o, x, b, f),
         Stores(c, s, w, p, o, x, b, f)
  PROVE  /\ Switching(c, d, s, w, p + 1)'
         /\ UNCHANGED <<r, env, stack>>
         /\ reg' = [reg EXCEPT ![c][f] = Word(c, s, w, f)]
<1>1. /\ UNCHANGED <<r, env, stack, progVars>>
      /\ reg' = [reg EXCEPT ![c][f] = Word(c, s, w, f)]
      /\ f \in Fields /\ StoreNo[f] = p
  BY DEF Effect, Stores
<1>2. /\ DOMAIN reg = All /\ DOMAIN reg[c] = Fields
      /\ \A e \in All \ {c} : reg'[e] = reg[e]
      /\ \A g \in Fields : reg'[c][g] = IF g = f THEN Word(c, s, w, f) ELSE reg[c][g]
  BY <1>1 DEF Shapes
<1>3. d # c
  BY DEF Switching, Caller
<1>4. Caller(c, d, s, w)'
  BY <1>1, <1>2 DEF Switching, Caller, progVars, Ready, Frames, Shapes
<1>5. Written(c, s, w, p + 1)'
  BY <1>1, <1>2, StoreNumbers DEF Switching, Written
<1>6. Switched(c, d, s, w, p + 1)'
  BY <1>1, <1>2, <1>3, LoadNumbers DEF Switching, Switched, EnvNo, PivotNo
<1>7. ScratchOK(c, d, s, p + 1)'
  BY <1>1, <1>2, <1>3 DEF Switching, ScratchOK, ScratchAmd64, ScratchI386
<1> QED
  BY <1>1, <1>4, <1>5, <1>6, <1>7 DEF Switching

\* The scratch registers: each instruction by itself.
Scratches == IF I386 THEN {1, 2, 3, 8, 13, 15, 21, 23} ELSE {1, 2, 17, 18}

\* On amd64 they fetch the two words to return with, of the caller and of the
\* callee.
LEMMA Amd64ScratchStep ==
  ASSUME ~I386, Shapes, NEW c \in All, NEW d \in All,
         NEW s \in Slots, NEW w \in EnvSet,
         NEW p \in Scratches, Switching(c, d, s, w, p),
         NEW o, NEW x, NEW b, NEW f, Effect(o, x, b, f),
         Listing[p] = ins(o, x, b, f)
  PROVE  /\ x \in Scratch /\ o \in {"ld", "lea", "clear"}
         /\ ScratchOK(c, d, s, p + 1)'
<1> USE DEF Listing, ListingAmd64, ld, lea, ins, Effect, At,
            Scratch, Scratches,
            Switching, Switched, ScratchOK, ScratchAmd64, PivotNo, SP, W
<1>1. x \in Scratch /\ o \in {"ld", "lea", "clear"}
  OBVIOUS
<1>2. DOMAIN r = Saved \cup Scratch \cup {SP} /\ s \in Int
  BY DEF Shapes, Slots
<1>3. UNCHANGED <<reg, stack>>
  BY <1>1
<1>4. CASE p = 1
  BY <1>2, <1>3, <1>4 DEF Caller
<1>5. CASE p = 2
  BY <1>2, <1>3, <1>5
<1>6. CASE p = 17
  BY <1>2, <1>3, <1>6 DEF RETADDR
<1>7. CASE p = 18
  BY <1>2, <1>3, <1>7 DEF SPIDX
<1> QED
  BY <1>1, <1>4, <1>5, <1>6, <1>7

\* On i386 they fetch the arguments too, from above the return address, and
\* clear what is left in them.
LEMMA I386ScratchStep ==
  ASSUME I386, Shapes, NEW c \in All, NEW d \in All,
         NEW s \in Slots, NEW w \in EnvSet,
         NEW p \in Scratches, Switching(c, d, s, w, p),
         NEW o, NEW x, NEW b, NEW f, Effect(o, x, b, f),
         Listing[p] = ins(o, x, b, f)
  PROVE  /\ x \in Scratch /\ o \in {"ld", "lea", "clear"}
         /\ ScratchOK(c, d, s, p + 1)'
<1> USE DEF Listing, ListingI386, ld, lea, clear, ins, Effect, At,
            Scratch, Scratches,
            Switching, Switched, ScratchOK, ScratchI386, PivotNo, SP, W
<1>1. x \in Scratch /\ o \in {"ld", "lea", "clear"}
  OBVIOUS
<1>2. DOMAIN r = Saved \cup Scratch \cup {SP} /\ s \in Int
  BY DEF Shapes, Slots
<1>3. /\ UNCHANGED <<reg, stack>>
      /\ stack[c][s - 4] = <<"ret", c>> /\ stack[c][s] = <<"aco_t", c>>
      /\ stack[c][s + 4] = <<"aco_t", d>>
  BY <1>1 DEF Caller
<1>4. CASE p = 1
  <2>1. r' = [r EXCEPT !["eax"] = stack[c][(s - 4) + 4]]
    BY <1>4
  <2>2. (s - 4) + 4 = s
    BY <1>2
  <2> QED
    BY <1>2, <1>3, <1>4, <2>1, <2>2
<1>5. CASE p = 2
  <2>1. r' = [r EXCEPT !["edx"] = stack[c][(s - 4) + 0]]
    BY <1>5
  <2>2. (s - 4) + 0 = s - 4
    BY <1>2
  <2> QED
    BY <1>2, <1>3, <1>5, <2>1, <2>2
<1>6. CASE p = 3
  BY <1>2, <1>3, <1>6
<1>7. CASE p = 8
  BY <1>2, <1>3, <1>7
<1>8. CASE p = 13
  BY <1>2, <1>3, <1>8 DEF SPIDX
<1>9. CASE p = 15
  BY <1>2, <1>3, <1>9 DEF RETADDR
<1>10. CASE p \in {21, 23}
  BY <1>2, <1>3, <1>10
<1> QED
  BY <1>1, <1>4, <1>5, <1>6, <1>7, <1>8, <1>9, <1>10

\* An instruction on a scratch register changes nothing else.
LEMMA ScratchStep ==
  ASSUME Shapes, NEW c \in All, NEW d \in All,
         NEW s \in Slots, NEW w \in EnvSet,
         NEW p \in Scratches, Switching(c, d, s, w, p),
         NEW o, NEW x, NEW b, NEW f, Effect(o, x, b, f),
         Listing[p] = ins(o, x, b, f)
  PROVE  /\ Switching(c, d, s, w, p + 1)'
         /\ UNCHANGED <<env, stack, reg>> /\ DOMAIN r' = DOMAIN r
<1>1. /\ x \in Scratch /\ o \in {"ld", "lea", "clear"}
      /\ ScratchOK(c, d, s, p + 1)'
  BY Amd64ScratchStep, I386ScratchStep
<1>2. /\ UNCHANGED <<env, stack, reg, progVars>> /\ DOMAIN r' = DOMAIN r
      /\ \A y \in Saved \cup {SP} : r'[y] = r[y]
  BY <1>1, RegistersApart DEF Effect, Shapes
<1>3. /\ p \in 1..24 /\ p \notin 4..7 /\ p \notin 9..12
      /\ p \notin {EnvNo, EnvNo + 1, PivotNo}
      /\ \A y \in Saved : LoadNo[y] # p
  BY DEF Scratches, EnvNo, PivotNo, LoadNo, Saved
<1>4. \A g \in Fields : StoreNo[g] # p
  BY FieldsAre DEF Scratches, StoreNo
<1>5. Caller(c, d, s, w)'
  BY <1>2 DEF Switching, Caller, progVars, Ready, Frames, Mine
<1>6. Written(c, s, w, p + 1)'
  BY <1>2, <1>3, <1>4, StoreNumbers DEF Switching, Written
<1>7. Switched(c, d, s, w, p + 1)'
  <2>1. \A y \in Saved : p + 1 > LoadNo[y] <=> p > LoadNo[y]
    BY <1>3, LoadNumbers
  <2> QED
    BY <1>2, <1>3, <2>1 DEF Switching, Switched, EnvNo, PivotNo
<1> QED
  BY <1>1, <1>2, <1>5, <1>6, <1>7 DEF Switching

\* A saved register is loaded from its place in the callee's aco_t.
LEMMA LoadStep ==
  ASSUME Shapes, NEW c \in All, NEW d \in All,
         NEW s \in Slots, NEW w \in EnvSet,
         NEW p \in 1..24, Switching(c, d, s, w, p),
         NEW y \in Saved, LoadNo[y] = p,
         NEW o, NEW x, NEW b, NEW f, Effect(o, x, b, f),
         Listing[p] = ins(o, x, b, f)
  PROVE  /\ Switching(c, d, s, w, p + 1)'
         /\ UNCHANGED <<env, stack, reg>> /\ DOMAIN r' = DOMAIN r
<1>1. o = "ld" /\ x = y /\ f = Place[y] /\ b = IF I386 THEN "ecx" ELSE "rsi"
  <2>1. CASE I386
    BY <2>1 DEF Listing, ListingI386, ld, ins, LoadNo, Saved, Place
  <2>2. CASE ~I386
    BY <2>2 DEF Listing, ListingAmd64, ld, ins, LoadNo, Saved, Place
  <2> QED
    BY <2>1, <2>2
<1>2. p \in 13..20 /\ p < EnvNo /\ (I386 => p \notin {13, 15})
      /\ (~I386 => p \notin {17, 18})
      /\ p # PivotNo
  BY DEF LoadNo, Saved, EnvNo, PivotNo
<1>3. r[b] = <<"aco_t", d>>
  BY <1>1, <1>2 DEF Switching, ScratchOK, ScratchI386, ScratchAmd64
<1>4. /\ UNCHANGED <<env, stack, reg, progVars>>
      /\ r' = [r EXCEPT ![y] = reg[d][Place[y]]]
  BY <1>1, <1>3 DEF Effect, At
<1>5. /\ DOMAIN r' = DOMAIN r /\ r'[y] = reg[d][Place[y]]
      /\ \A z \in (Saved \cup Scratch \cup {SP}) \ {y} : r'[z] = r[z]
  BY <1>4 DEF Shapes
<1>6. Caller(c, d, s, w)'
  BY <1>4 DEF Switching, Caller, progVars, Ready, Frames, Mine
<1>7. Written(c, s, w, p + 1)'
  BY <1>2, <1>4, StoreNumbers DEF Switching, Written
<1>8. Switched(c, d, s, w, p + 1)'
  <2>1. \A z \in Saved : p + 1 > LoadNo[z] <=> (p > LoadNo[z] \/ z = y)
    BY <1>2, LoadNumbers
  <2>2. \A z \in Saved : r'[z] = IF p + 1 > LoadNo[z] THEN reg'[d][Place[z]]
                                                    ELSE <<z, c, s>>
    BY <1>4, <1>5, <2>1 DEF Switching, Switched
  <2>3. r'[SP] = r[SP]
    BY <1>5, RegistersApart
  <2> QED
    BY <1>2, <1>4, <2>2, <2>3 DEF Switching, Switched, EnvNo, PivotNo
<1>9. ScratchOK(c, d, s, p + 1)'
  <2>1. \A z \in Scratch : r'[z] = r[z]
    BY <1>5, RegistersApart
  <2>2. CASE I386
    BY <1>2, <1>4, <2>1, <2>2 DEF Switching, ScratchOK, ScratchI386, Scratch
  <2>3. CASE ~I386
    BY <1>2, <1>4, <2>1, <2>3 DEF Switching, ScratchOK, ScratchAmd64, Scratch
  <2> QED
    BY <2>2, <2>3
<1> QED
  BY <1>4, <1>5, <1>6, <1>7, <1>8, <1>9 DEF Switching

\* The callee's control words are put in force, one after the other.
LEMMA RestoreEnvStep ==
  ASSUME Shapes, env \in EnvSet, ~ShareEnv,
         NEW c \in All, NEW d \in All, NEW s \in Slots, NEW w \in EnvSet,
         NEW p \in {EnvNo, EnvNo + 1}, Switching(c, d, s, w, p),
         NEW o, NEW x, NEW b, NEW f, Effect(o, x, b, f),
         Listing[p] = ins(o, x, b, f)
  PROVE  /\ Switching(c, d, s, w, p + 1)'
         /\ UNCHANGED <<r, stack, reg>> /\ env' \in EnvSet
<1>1. /\ o = "ldcw" /\ b = IF I386 THEN "ecx" ELSE "rsi"
      /\ x = IF p = EnvNo THEN "fpucw" ELSE "mxcsr"
      /\ f = IF p = EnvNo THEN FPU ELSE FPU + 4
  <2>1. CASE I386
    BY <2>1 DEF Listing, ListingI386, ld, ins, EnvNo, FPU
  <2>2. CASE ~I386
    BY <2>2 DEF Listing, ListingAmd64, ld, ins, EnvNo, FPU
  <2> QED
    BY <2>1, <2>2
<1>2. r[b] = <<"aco_t", d>>
  BY <1>1 DEF Switching, ScratchOK, ScratchI386, ScratchAmd64, EnvNo
<1>3. /\ UNCHANGED <<r, stack, reg, progVars>>
      /\ env' = [env EXCEPT ![x] = reg[d][f]]
  BY <1>1, <1>2 DEF Effect, At
<1>4. reg[d][FPU] \in {<<"fpucw", n>> : n \in Setting}
      /\ reg[d][FPU + 4] \in {<<"mxcsr", n>> : n \in Setting}
  BY DEF Switching, Caller, Ready, EnvSet
<1>5. env' \in EnvSet /\ env'.fpucw = (IF p = EnvNo THEN reg[d][FPU] ELSE env.fpucw)
      /\ env'.mxcsr = (IF p = EnvNo THEN env.mxcsr ELSE reg[d][FPU + 4])
  BY <1>1, <1>3, <1>4 DEF EnvSet
<1>6. Caller(c, d, s, w)'
  BY <1>3 DEF Switching, Caller, progVars, Ready, Frames, Mine
<1>7. Written(c, s, w, p + 1)'
  BY <1>3, StoreNumbers DEF Switching, Written, EnvNo
<1>8. Switched(c, d, s, w, p + 1)'
  BY <1>3, <1>5, LoadNumbers DEF Switching, Switched, EnvNo, PivotNo
<1>9. ScratchOK(c, d, s, p + 1)'
  BY <1>3 DEF Switching, ScratchOK, ScratchI386, ScratchAmd64, EnvNo
<1> QED
  BY <1>3, <1>5, <1>6, <1>7, <1>8, <1>9 DEF Switching

\* The stack pointer becomes the callee's.
LEMMA PivotStep ==
  ASSUME Shapes, NEW c \in All, NEW d \in All,
         NEW s \in Slots, NEW w \in EnvSet,
         Switching(c, d, s, w, PivotNo),
         NEW o, NEW x, NEW b, NEW f, Effect(o, x, b, f),
         Listing[PivotNo] = ins(o, x, b, f)
  PROVE  /\ Switching(c, d, s, w, PivotNo + 1)'
         /\ UNCHANGED <<env, stack, reg>> /\ DOMAIN r' = DOMAIN r
<1>1. o = "mov" /\ x = SP /\ b = IF I386 THEN "edx" ELSE "rcx"
  BY DEF Listing, ListingI386, ListingAmd64, mov, ins, PivotNo, SP
<1>2. r[b] = reg[d][SPIDX]
  BY <1>1 DEF Switching, ScratchOK, ScratchI386, ScratchAmd64, PivotNo
<1>3. /\ UNCHANGED <<env, stack, reg, progVars>>
      /\ r' = [r EXCEPT ![SP] = reg[d][SPIDX]]
  BY <1>1, <1>2 DEF Effect
<1>4. /\ DOMAIN r' = DOMAIN r /\ r'[SP] = reg[d][SPIDX]
      /\ \A z \in Saved \cup Scratch : r'[z] = r[z]
  BY <1>3, RegistersApart DEF Shapes
<1>5. Caller(c, d, s, w)'
  BY <1>3 DEF Switching, Caller, progVars, Ready, Frames, Mine
<1>6. Written(c, s, w, PivotNo + 1)'
  BY <1>3, StoreNumbers DEF Switching, Written, PivotNo
<1>7. Switched(c, d, s, w, PivotNo + 1)'
  BY <1>3, <1>4, LoadNumbers DEF Switching, Switched, EnvNo, PivotNo
<1>8. ScratchOK(c, d, s, PivotNo + 1)'
  BY <1>3, <1>4 DEF Switching, ScratchOK, ScratchI386, ScratchAmd64, PivotNo, Scratch
<1> QED
  BY <1>3, <1>4, <1>5, <1>6, <1>7, <1>8 DEF Switching

\* Where the environment is shared nothing depends on the words.
LEMMA SkipsEnv ==
  ASSUME ShareEnv, NEW c \in All, NEW d \in All,
         NEW s \in Slots, NEW w \in EnvSet,
         NEW p \in {11, EnvNo}, Switching(c, d, s, w, p)'
  PROVE  Switching(c, d, s, w, p + 2)'
<1>1. Caller(c, d, s, w)'
  BY DEF Switching
<1>2. Written(c, s, w, p + 2)'
  <2>1. \A f \in Fields : f \in Words \/ (p + 2 > StoreNo[f] <=> p > StoreNo[f])
    BY StoreNumbers DEF EnvNo
  <2> QED
    BY <2>1 DEF Switching, Written
<1>3. Switched(c, d, s, w, p + 2)'
  <2>1. \A x \in Saved : p + 2 > LoadNo[x] <=> p > LoadNo[x]
    BY LoadNumbers DEF EnvNo
  <2> QED
    BY <2>1 DEF Switching, Switched, EnvNo, PivotNo
<1>4. ScratchOK(c, d, s, p + 2)'
  BY DEF Switching, ScratchOK, ScratchI386, ScratchAmd64, EnvNo
<1> QED
  BY <1>1, <1>2, <1>3, <1>4 DEF Switching

\* Every instruction is of one of these kinds.
LEMMA Kinds ==
  ASSUME NEW p \in 1..24
  PROVE  \/ p \in 3..12 /\ (I386 => p \notin {3, 8})
         \/ p \in Scratches
         \/ \E y \in Saved : LoadNo[y] = p
         \/ p \in {EnvNo, EnvNo + 1}
         \/ p = PivotNo
         \/ p = 24
<1>1. CASE I386
  BY <1>1 DEF Scratches, LoadNo, Saved, EnvNo, PivotNo
<1>2. CASE ~I386
  BY <1>2 DEF Scratches, LoadNo, Saved, EnvNo, PivotNo
<1> QED
  BY <1>1, <1>2

\* What is listed is an instruction.
LEMMA ListedIns ==
  ASSUME NEW p \in 1..24
  PROVE  \E o, x, b, f : Listing[p] = ins(o, x, b, f)
<1>1. CASE I386
  BY <1>1 DEF Listing, ListingI386, ld, st, lea, mov, clear, jmp
<1>2. CASE ~I386
  BY <1>2 DEF Listing, ListingAmd64, ld, st, lea, mov, clear, jmp
<1> QED
  BY <1>1, <1>2

\* What an instruction other than the jump leaves alone.
Leaves(c) ==
  /\ DOMAIN r' = DOMAIN r /\ UNCHANGED stack
  /\ DOMAIN reg' = DOMAIN reg /\ \A e \in All : DOMAIN reg'[e] = DOMAIN reg[e]
  /\ \A e \in All \ {c} : reg'[e] = reg[e]
  /\ env' \in EnvSet

\* An instruction takes the switch to the next one.
LEMMA NextInstruction ==
  ASSUME Shapes, WordsOK,
         NEW c \in All, NEW d \in All, NEW s \in Slots, NEW w \in EnvSet,
         NEW i \in DOMAIN acosw, ip = <<"acosw", i>>, No(i) # 24,
         Switching(c, d, s, w, No(i)), Instruction
  PROVE  /\ ip' = <<"acosw", i + 1>> /\ i + 1 \in DOMAIN acosw
         /\ Switching(c, d, s, w, No(i + 1))'
         /\ Leaves(c) /\ UNCHANGED progVars
         /\ \/ UNCHANGED reg
            \/ \E f \in Fields : /\ StoreNo[f] = No(i)
                                 /\ reg' = [reg EXCEPT ![c][f] = Word(c, s, w, f)]
<1> DEFINE p == No(i)
<1>1. /\ p \in 1..24 /\ I = Listing[p] /\ i + 1 \in DOMAIN acosw
      /\ No(i + 1) = Follows(p) /\ (ShareEnv => p \notin {11, 12, EnvNo, EnvNo + 1})
  BY Listed DEF I
<1> HIDE DEF p
<1>2. PICK o, x, b, f : Listing[p] = ins(o, x, b, f)
  BY <1>1, ListedIns
<1>3. Effect(o, x, b, f)
  BY <1>1, <1>2, InstructionHasEffect
<1>4. ip' = <<"acosw", i + 1>> /\ UNCHANGED progVars
  <2>1. o # "jmp"
    <3>1. CASE I386
      BY <1>1, <1>2, <3>1 DEF p, Listing, ListingI386, ld, st, lea, mov,
         clear, jmp, ins
    <3>2. CASE ~I386
      BY <1>1, <1>2, <3>2 DEF p, Listing, ListingAmd64, ld, st, lea, mov,
         clear, jmp, ins
    <3> QED
      BY <3>1, <3>2
  <2> QED
    BY <1>3, <2>1 DEF Effect
<1>5. Switching(c, d, s, w, p)
  BY DEF p
<1>6. /\ Switching(c, d, s, w, p + 1)' /\ Leaves(c)
      /\ \/ UNCHANGED reg
         \/ \E g \in Fields : /\ StoreNo[g] = p
                              /\ reg' = [reg EXCEPT ![c][g] = Word(c, s, w, g)]
  <2>1. CASE p \in 3..12 /\ (I386 => p \notin {3, 8})
    <3>1. Stores(c, s, w, p, o, x, b, f)
      BY <1>1, <1>2, <1>5, <2>1, Amd64Stores, I386Stores
    <3>2. /\ Switching(c, d, s, w, p + 1)' /\ UNCHANGED <<r, env, stack>>
          /\ reg' = [reg EXCEPT ![c][f] = Word(c, s, w, f)]
      BY <1>3, <1>5, <2>1, <3>1, StoreStep
    <3>3. f \in Fields /\ StoreNo[f] = p
      BY <3>1 DEF Stores
    <3> QED
      BY <3>2, <3>3 DEF Leaves, Shapes, WordsOK
  <2>2. CASE p \in Scratches
    BY <1>2, <1>3, <1>5, <2>2, ScratchStep DEF Leaves, WordsOK
  <2>3. CASE \E y \in Saved : LoadNo[y] = p
    BY <1>1, <1>2, <1>3, <1>5, <2>3, LoadStep DEF Leaves, WordsOK
  <2>4. CASE p \in {EnvNo, EnvNo + 1}
    BY <1>1, <1>2, <1>3, <1>5, <2>4, RestoreEnvStep DEF Leaves, WordsOK
  <2>5. CASE p = PivotNo
    BY <1>2, <1>3, <1>5, <2>5, PivotStep DEF Leaves, WordsOK
  <2> QED
    BY <1>1, <2>1, <2>2, <2>3, <2>4, <2>5, Kinds DEF p
<1>7. Switching(c, d, s, w, Follows(p))'
  <2>1. CASE ShareEnv /\ p + 1 \in {11, EnvNo}
    <3>1. Switching(c, d, s, w, (p + 1) + 2)'
      BY <1>6, <2>1, SkipsEnv
    <3> QED
      BY <1>1, <2>1, <3>1 DEF Follows, EnvNo
  <2>2. CASE ~(ShareEnv /\ p + 1 \in {11, EnvNo})
    BY <1>1, <1>6, <2>2 DEF Follows
  <2> QED
    BY <2>1, <2>2
<1> QED
  BY <1>1, <1>4, <1>6, <1>7 DEF p

\* The jump: the caller has been saved as it was, the callee restored.
LEMMA Lands ==
  ASSUME Shapes,
         NEW c \in All, NEW d \in All, NEW s \in Slots, NEW w \in EnvSet,
         NEW i \in DOMAIN acosw, ip = <<"acosw", i>>, No(i) = 24,
         Switching(c, d, s, w, 24), Instruction
  PROVE  /\ ip' = reg[d][RETADDR] /\ r[SP] = reg[d][SPIDX]
         /\ UNCHANGED <<r, env, stack, reg, progVars>>
         /\ \E a \in Nat : Executing(d, a)'
<1>1. I = Listing[24]
  BY Listed DEF I
<1>2. Listing[24] = ins("jmp", IF I386 THEN "eax" ELSE "rax",
                               IF I386 THEN "eax" ELSE "rax", 0)
  BY DEF Listing, ListingI386, ListingAmd64, jmp
<1>3. Effect("jmp", IF I386 THEN "eax" ELSE "rax", IF I386 THEN "eax" ELSE "rax", 0)
  BY <1>1, <1>2, InstructionHasEffect
<1>4. ip' = reg[d][RETADDR] /\ r[SP] = reg[d][SPIDX]
  BY <1>3 DEF Effect, Switching, Switched, ScratchOK, ScratchI386,
     ScratchAmd64, PivotNo
<1>5. UNCHANGED <<r, env, stack, reg, progVars>>
  BY <1>3 DEF Effect
<1>6. Ready(c)
  <2>1. /\ reg[c][RETADDR] = Word(c, s, w, RETADDR)
        /\ reg[c][SPIDX] = Word(c, s, w, SPIDX)
        /\ ~ShareEnv => /\ reg[c][FPU] = Word(c, s, w, FPU)
                        /\ reg[c][FPU + 4] = Word(c, s, w, FPU + 4)
    BY OtherFields, StoreNumbers DEF Switching, Written
  <2>2. /\ reg[c][RETADDR] = <<"ret", c>> /\ reg[c][SPIDX] = <<"stack", c, s>>
        /\ ~ShareEnv => reg[c][FPU] = w.fpucw /\ reg[c][FPU + 4] = w.mxcsr
    BY <2>1, OtherFields DEF Word
  <2> QED
    BY <2>1, <2>2 DEF Ready, Switching, Caller, EnvSet
<1>7. Ready(d) /\ d \in live /\ \A e \in live \ {d} : Ready(e)
  BY <1>6 DEF Switching, Caller
<1>8. \E a \in Nat : Executing(d, a)'
  <2>1. \A e \in live' \ {d} : Ready(e)'
    BY <1>5, <1>7 DEF Ready, progVars
  <2>2. CASE reg[d][RETADDR] = <<"ret", d>>
    <3>1. PICK a \in Slots : a % 16 = 0 /\ reg[d][SPIDX] = <<"stack", d, a>>
      BY <1>7, <2>2 DEF Ready
    <3> QED
      BY <1>4, <1>5, <1>7, <2>1, <2>2, <3>1, Addresses DEF Executing, progVars
  <2>3. CASE reg[d][RETADDR] = <<"fp", d>>
    BY <1>4, <1>5, <1>7, <2>1, <2>3, Addresses DEF Executing, progVars, Ready
  <2> QED
    BY <1>7, <2>2, <2>3 DEF Ready
<1> QED
  BY <1>4, <1>5, <1>8

-----------------------------------------------------------------------------
\* A program, or the end of one, is not the switch.
LEMMA OutsideIsNotSwitch ==
  ASSUME NEW m, NEW a, Executing(m, a)
  PROVE  /\ ip[1] \in {"ret", "fp", "protector", "last_word"} /\ ~InSwitch
         /\ Me = m
BY DEF Executing, InSwitch, Me

\* Nor is the switch a program.
LEMMA InsideIsSwitch ==
  ASSUME Inside
  PROVE  InSwitch /\ ~InCode /\ ip # <<"protector">> /\ ip[1] # "last_word"
BY DEF Inside, InSwitch, InCode

\* The thread starts in the main coroutine, alone.
LEMMA InitIInv == Init => IInv
<1> SUFFICES ASSUME Init
             PROVE  IInv
  OBVIOUS
<1>1. Shapes
  BY DEF Init, Shapes, All
<1>2. EnvOf(0) \in EnvSet
  BY AcoSwAssumption DEF EnvOf, EnvSet
<1>3. WordsOK
  BY <1>2 DEF Init, WordsOK
<1>4. PlacesOK
  BY OtherFields DEF Init, PlacesOK, All
<1>5. Executing(MainCo, StackSz - 16)
  <2>1. (StackSz - 16) \in Nat /\ (StackSz - 16) % 16 = 0 /\ StackSz - 16 <= RetPtr
    BY Addresses DEF RetPtr
  <2> QED
    BY <2>1 DEF Init, Executing
<1>6. Outside
  BY <1>5, Addresses DEF Outside, All, RetPtr
<1> QED
  BY <1>1, <1>3, <1>4, <1>6 DEF IInv

\* The program sets control words.
LEMMA SetEnvKeepsIInv ==
  ASSUME IInv, NEW n \in Setting, SetEnv(n)
  PROVE  IInv'
<1>1. EnvOf(n) \in EnvSet
  BY DEF EnvOf, EnvSet
<1>2. PICK m \in All, a \in Nat : Executing(m, a)
  BY InsideIsSwitch DEF IInv, Outside, SetEnv
<1>3. Executing(m, a)'
  BY <1>2 DEF SetEnv, Executing, progVars, Ready
<1>4. Shapes' /\ WordsOK' /\ PlacesOK'
  BY <1>1 DEF IInv, SetEnv, Shapes, WordsOK, PlacesOK, progVars
<1> QED
  BY <1>3, <1>4 DEF IInv, Outside

\* The thread's reference words become those in force.
LEMMA ThreadInitKeepsIInv ==
  ASSUME IInv, NEW fp \in {"NULL", "given"}, aco_thread_init(fp)
  PROVE  IInv'
<1>1. PICK m \in All, a \in Nat : Executing(m, a)
  BY InsideIsSwitch DEF IInv, Outside, aco_thread_init
<1>2. Executing(m, a)'
  BY <1>1 DEF aco_thread_init, Executing, Ready
<1>3. Shapes' /\ WordsOK' /\ PlacesOK'
  BY DEF IInv, aco_thread_init, Shapes, WordsOK, PlacesOK
<1> QED
  BY <1>2, <1>3 DEF IInv, Outside

\* A new coroutine is ready, with the thread's reference words.
LEMMA CreateKeepsIInv ==
  ASSUME IInv, NEW c \in Co, aco_create(c)
  PROVE  IInv'
<1>1. PICK m \in All, a \in Nat : Executing(m, a)
  BY InsideIsSwitch DEF IInv, Outside, aco_create
<1>2. c \in All /\ c # MainCo /\ c \notin live /\ live' = live \cup {c} /\ m # c
  BY <1>1, AcoSwAssumption DEF aco_create, All, Executing
<1>3. /\ reg'[c][RETADDR] = <<"fp", c>> /\ reg'[c][SPIDX] = <<"stack", c, RetPtr>>
      /\ ~ShareEnv => /\ reg'[c][FPU] = reference.fpucw
                      /\ reg'[c][FPU + 4] = reference.mxcsr
      /\ \A e \in All \ {c} : reg'[e] = reg[e]
      /\ DOMAIN reg' = All /\ DOMAIN reg'[c] = Fields
  BY <1>2, OtherFields DEF aco_create, IInv, Shapes, WordsOK, WordsOfThread
<1>4. /\ stack'[c][RetPtr] = <<"protector">>
      /\ \A e \in All \ {c} : stack'[e] = stack[e]
      /\ DOMAIN stack' = All /\ DOMAIN stack'[c] = Slots
  BY <1>2, Addresses DEF aco_create, IInv, Shapes
<1>5. Shapes'
  BY <1>2, <1>3, <1>4 DEF aco_create, IInv, Shapes
<1>6. WordsOK'
  <2>1. /\ promised' \in [Co -> EnvSet] /\ promised'[c] = reference
        /\ \A e \in Co \ {c} : promised'[e] = promised[e]
    BY DEF aco_create, IInv, WordsOK
  <2>2. ASSUME ~ShareEnv, NEW e \in live' \ {MainCo}, reg'[e][RETADDR] = <<"fp", e>>
        PROVE  /\ reg'[e][FPU] = promised'[e].fpucw
               /\ reg'[e][FPU + 4] = promised'[e].mxcsr
    <3>1. CASE e = c
      BY <1>3, <2>1, <2>2, <3>1
    <3>2. CASE e # c
      <4>1. e \in live \ {MainCo} /\ e \in Co \ {c} /\ e \in All \ {c}
        BY <1>2, <2>2, <3>2 DEF IInv, Shapes, All
      <4> QED
        BY <1>3, <2>1, <2>2, <4>1 DEF IInv, WordsOK
    <3> QED
      BY <3>1, <3>2
  <2> QED
    BY <2>1, <2>2 DEF aco_create, IInv, WordsOK
<1>7. PlacesOK'
  BY <1>2, <1>3, <1>4 DEF IInv, Shapes, PlacesOK
<1>8. Ready(c)'
  BY <1>2, <1>3 DEF Ready, IInv, WordsOK, EnvSet
<1>9. \A e \in live \ {m} : Ready(e)'
  BY <1>1, <1>2, <1>3 DEF Executing, Ready, IInv, Shapes
<1>10. Executing(m, a)'
  BY <1>1, <1>2, <1>8, <1>9 DEF Executing, aco_create
<1> QED
  BY <1>5, <1>6, <1>7, <1>10 DEF IInv, Outside

\* What c's call acosw(c, to) at offset s of its stack does.
CallEffect(c, to, s) ==
  /\ c # to /\ to \in live /\ MainCo \in {c, to} /\ s % 16 = 0
  /\ ip' = <<"acosw", 1>> /\ DOMAIN r' = DOMAIN r
  /\ \A x \in Saved : r'[x] = <<x, c, s>>
  /\ ~I386 => r'["rdi"] = <<"aco_t", c>> /\ r'["rsi"] = <<"aco_t", to>>
  /\ r'[SP] = <<"stack", c, s - W>>
  /\ DOMAIN stack' = All /\ DOMAIN stack'[c] = Slots
  /\ \A e \in All \ {c} : stack'[e] = stack[e]
  /\ stack'[c][s - W] = <<"ret", c>>
  /\ I386 => stack'[c][s] = <<"aco_t", c>> /\ stack'[c][s + W] = <<"aco_t", to>>
  /\ stack'[c][RetPtr] = stack[c][RetPtr]
  /\ called' = [by |-> c, context |->
       [regs |-> [x \in Saved |-> <<x, c, s>>], sp |-> <<"stack", c, s>>,
        next |-> <<"ret", c>>, env |-> Mine(env),
        frames |-> Frames(c, <<"stack", c, s>>)']]
  /\ UNCHANGED <<env, reg, live, aco_gtls_fpucw_mxcsr,
                 aco_gtls_last_word_fp, reference, promised>>

\* The frames of a call, written out.
LEMMA CallFrames ==
  ASSUME IInv, NEW to \in All, NEW s \in Slots \ {0}, Call(to, s),
         NEW c \in All, NEW a \in Nat, Executing(c, a)
  PROVE  CallEffect(c, to, s)
<1>1. Me = c
  BY DEF Executing, Me
<1>2. /\ s - W \in Slots /\ s <= StackSz - 16 /\ s \in Nat /\ W \in {4, 8}
      /\ RetPtr \in Slots /\ RetPtr + W = StackSz /\ RetPtr \in Nat
      /\ I386 => s + W \in Slots /\ s + W < RetPtr
  BY Addresses DEF Call
<1> DEFINE new == [b \in Slots |->
                 CASE b = s - W          -> <<"ret", c>>
                   [] I386 /\ b = s      -> <<"aco_t", c>>
                   [] I386 /\ b = s + W  -> <<"aco_t", to>>
                   [] b \in s..(RetPtr - 1) \ (IF I386 THEN {s, s + W} ELSE {})
                                         -> <<"word", c, s>>
                   [] OTHER              -> stack[c][b]]
<1>3. stack' = [stack EXCEPT ![c] = new]
  BY <1>1 DEF Call
<1>4. /\ DOMAIN stack' = All /\ stack'[c] = new
      /\ \A e \in All \ {c} : stack'[e] = stack[e]
  BY <1>3 DEF IInv, Shapes
<1>5. /\ DOMAIN new = Slots /\ new[s - W] = <<"ret", c>>
      /\ I386 => new[s] = <<"aco_t", c>> /\ new[s + W] = <<"aco_t", to>>
      /\ new[RetPtr] = stack[c][RetPtr]
  BY <1>2
<1>6. called' = [by |-> c, context |->
              [regs |-> [x \in Saved |-> <<x, c, s>>], sp |-> <<"stack", c, s>>,
               next |-> <<"ret", c>>, env |-> Mine(env),
               frames |-> [b \in {q \in Slots : q >= s} |-> new[b]]]]
  BY <1>1 DEF Call
<1> HIDE DEF new
<1>7. Frames(c, <<"stack", c, s>>)' = [b \in {q \in Slots : q >= s} |-> new[b]]
  BY <1>4 DEF Frames
<1>8. /\ c # to /\ to \in live /\ MainCo \in {c, to} /\ s % 16 = 0
      /\ ip' = <<"acosw", 1>>
      /\ UNCHANGED <<env, reg, live, aco_gtls_fpucw_mxcsr,
                     aco_gtls_last_word_fp, reference, promised>>
  BY <1>1 DEF Call
<1>9. r' = [x \in DOMAIN r |->
                CASE x \in Saved -> <<x, c, s>>
                  [] x = "rdi"   -> <<"aco_t", c>>
                  [] x = "rsi"   -> <<"aco_t", to>>
                  [] x = SP      -> <<"stack", c, s - W>>
                  [] OTHER       -> Junk]
  BY <1>1 DEF Call
<1>10. /\ DOMAIN r' = DOMAIN r /\ \A x \in Saved : r'[x] = <<x, c, s>>
       /\ ~I386 => r'["rdi"] = <<"aco_t", c>> /\ r'["rsi"] = <<"aco_t", to>>
       /\ r'[SP] = <<"stack", c, s - W>>
  BY <1>9, RegistersApart DEF IInv, Shapes, Scratch, Saved, SP
<1> QED
  BY <1>4, <1>5, <1>6, <1>7, <1>8, <1>10 DEF CallEffect

\* A call begins a switch, with nothing stored nor loaded.
LEMMA CallKeepsIInv ==
  ASSUME IInv, NEW to \in All, NEW s \in Slots \ {0}, Call(to, s)
  PROVE  IInv'
<1>1. PICK c \in All, a \in Nat : Executing(c, a)
  BY InsideIsSwitch DEF IInv, Outside, Call
<1>2. CallEffect(c, to, s)
  BY <1>1, CallFrames
<1>3. ASSUME NEW v \in EnvSet, v = env PROVE Caller(c, to, s, v)'
  <2>1. c \in live' /\ to \in live' \ {c}
    BY <1>1, <1>2 DEF CallEffect, Executing
  <2>2. ASSUME NEW e \in live' \ {c} PROVE Ready(e)'
    BY <1>1, <1>2, <2>2 DEF CallEffect, Executing, Ready
  <2> QED
    BY <1>2, <1>3, <2>1, <2>2 DEF CallEffect, Caller, Mine
<1>4. ASSUME NEW v \in EnvSet PROVE Written(c, s, v, 1)'
  BY StoreNumbers DEF Written
<1>5. ASSUME NEW v \in EnvSet, v = env PROVE Switched(c, to, s, v, 1)'
  <2>1. \A x \in Saved : ~(1 > LoadNo[x])
    BY LoadNumbers
  <2> QED
    BY <1>2, <1>5, <2>1 DEF CallEffect, Switched, PivotNo, EnvNo
<1>6. ScratchOK(c, to, s, 1)'
  BY <1>2 DEF CallEffect, ScratchOK, ScratchI386, ScratchAmd64
<1>7. Inside'
  <2>1. PICK v \in EnvSet : v = env
    BY DEF IInv, WordsOK
  <2>2. Switching(c, to, s, v, No(1))'
    BY <1>3, <1>4, <1>5, <1>6, <2>1, Begins DEF Switching
  <2>3. ip' = <<"acosw", 1>> /\ 1 \in DOMAIN acosw
    BY <1>2, Begins DEF CallEffect
  <2> QED
    BY <2>2, <2>3 DEF Inside
<1>8. \A e \in All : DOMAIN stack'[e] = Slots
  BY <1>2 DEF CallEffect, IInv, Shapes
<1>9. \A e \in live \ {MainCo} : stack'[e][RetPtr] = <<"protector">>
  BY <1>2 DEF CallEffect, IInv, Shapes, PlacesOK
<1>10. Shapes' /\ WordsOK' /\ PlacesOK'
  BY <1>2, <1>8, <1>9 DEF CallEffect, IInv, Shapes, WordsOK, PlacesOK
<1> QED
  BY <1>7, <1>10 DEF IInv

\* A function returns to the word at the top of its stack.
LEMMA ReturnKeepsIInv ==
  ASSUME IInv, Return
  PROVE  IInv'
<1>1. PICK m \in All, a \in Nat : Executing(m, a)
  BY InsideIsSwitch DEF IInv, Outside, Return
<1>2. Me = m /\ m # MainCo /\ m \in live
  BY <1>1 DEF Return, Executing, Me
<1>3. ip' = <<"protector">>
  BY <1>2 DEF Return, IInv, PlacesOK
<1>4. r'[SP] = <<"stack", m, StackSz>> /\ DOMAIN r' = DOMAIN r
  BY <1>2, Addresses DEF Return, IInv, Shapes
<1>5. Executing(m, StackSz)'
  BY <1>1, <1>2, <1>3, <1>4, Addresses DEF Executing, Return, progVars, Ready
<1>6. Shapes' /\ WordsOK' /\ PlacesOK'
  BY <1>4 DEF IInv, Return, progVars, Shapes, WordsOK, PlacesOK
<1> QED
  BY <1>5, <1>6, Addresses DEF IInv, Outside

\* The protector calls the last-word function with its own address where it
\* was.
LEMMA ProtectorKeepsIInv ==
  ASSUME IInv, aco_funcp_protector
  PROVE  IInv'
<1>1. PICK m \in All, a \in Nat : Executing(m, a)
  BY InsideIsSwitch DEF IInv, Outside, aco_funcp_protector
<1>2. a = StackSz /\ Me = m /\ m # MainCo /\ r[SP][3] = a
  BY <1>1 DEF aco_funcp_protector, Executing, Me
<1>3. (a - (a % 16)) - W = RetPtr
  BY <1>2, Addresses
<1>4. /\ stack' = [stack EXCEPT ![m][RetPtr] = <<"protector">>]
      /\ r' = [r EXCEPT ![SP] = <<"stack", m, RetPtr>>]
      /\ ip' = <<"last_word", aco_gtls_last_word_fp>>
      /\ UNCHANGED <<env, reg, progVars>>
  BY <1>2, <1>3 DEF aco_funcp_protector
<1>5. /\ DOMAIN stack' = All /\ \A e \in All : DOMAIN stack'[e] = Slots
      /\ stack'[m][RetPtr] = <<"protector">>
      /\ \A e \in All \ {m} : stack'[e] = stack[e]
      /\ DOMAIN r' = DOMAIN r /\ r'[SP] = <<"stack", m, RetPtr>>
  BY <1>4, Addresses DEF IInv, Shapes
<1>6. Executing(m, RetPtr)'
  BY <1>1, <1>2, <1>4, <1>5, Addresses DEF Executing, progVars, Ready, IInv, WordsOK
<1>7. Shapes' /\ WordsOK' /\ PlacesOK'
  BY <1>4, <1>5 DEF IInv, progVars, Shapes, WordsOK, PlacesOK
<1> QED
  BY <1>6, <1>7, Addresses DEF IInv, Outside

\* A handler spares what is at or above the stack pointer.
LEMMA SignalSpares ==
  ASSUME Shapes, Signal, NEW m \in All, NEW a, r[SP] = <<"stack", m, a>>
  PROVE  /\ UNCHANGED <<ip, r, env, reg, progVars>>
         /\ DOMAIN stack' = All /\ \A e \in All : DOMAIN stack'[e] = Slots
         /\ \A e \in All \ {m} : stack'[e] = stack[e]
         /\ \A b \in Slots : ~(b < a) => stack'[m][b] = stack[m][b]
<1>1. stack' = [stack EXCEPT ![m] = [b \in Slots |-> IF b < a THEN Junk ELSE @[b]]]
  BY DEF Signal, Me
<1> QED
  BY <1>1 DEF Signal, Shapes

\* Where the stack pointer is in the switch: in the frames of acosw, one
\* word below those of its caller, or where the callee's frames end.
LEMMA SwitchPointer ==
  ASSUME NEW c \in All, NEW d \in All, NEW s \in Slots, NEW w \in EnvSet,
         NEW p \in 1..24, Switching(c, d, s, w, p)
  PROVE  \E m \in {c, d}, a \in Slots :
           /\ r[SP] = <<"stack", m, a>>
           /\ m = c => a = s - W
           /\ m = d => reg[d][SPIDX] = <<"stack", d, a>>
<1>1. c # d /\ Ready(d) /\ s - W \in Slots
  BY Addresses DEF Switching, Caller
<1>2. CASE p > PivotNo
  BY <1>1, <1>2, Addresses DEF Switching, Switched, Ready
<1>3. CASE ~(p > PivotNo)
  BY <1>1, <1>3 DEF Switching, Switched
<1> QED
  BY <1>2, <1>3

\* The frames the caller counts on are not the handler's.
LEMMA SignalKeepsFrames ==
  ASSUME Shapes, Signal, NEW m \in All, NEW a \in Nat, r[SP] = <<"stack", m, a>>,
         NEW e \in All, NEW b \in Nat, m = e => a <= b
  PROVE  Frames(e, <<"stack", e, b>>)' = Frames(e, <<"stack", e, b>>)
<1>1. \A q \in {x \in Slots : x >= b} : stack'[e][q] = stack[e][q]
  <2>1. ASSUME NEW q \in Slots, q >= b, m = e PROVE ~(q < a)
    BY <2>1, Addresses
  <2> QED
    BY <2>1, SignalSpares
<1> QED
  BY <1>1 DEF Frames

\* A handler may run between any two instructions.
LEMMA SignalKeepsIInv ==
  ASSUME IInv, Signal
  PROVE  IInv'
<1> USE DEF IInv
<1>1. CASE Outside
  <2>1. PICK m \in All, a \in Nat : Executing(m, a)
    BY <1>1 DEF Outside
  <2>2. r[SP] = <<"stack", m, a>> /\ a <= RetPtr
    BY <2>1 DEF Signal, Executing
  <2>3. Executing(m, a)'
    BY <2>1, <2>2, SignalSpares DEF Executing, progVars, Ready
  <2>4. Shapes' /\ WordsOK'
    BY <2>2, SignalSpares DEF Shapes, WordsOK, progVars
  <2>5. PlacesOK'
    BY <2>2, SignalSpares, Addresses DEF Shapes, PlacesOK, progVars
  <2> QED
    BY <2>3, <2>4, <2>5 DEF Outside
<1>2. CASE Inside
  <2>1. PICK c \in All, d \in All, s \in Slots, w \in EnvSet,
            i \in DOMAIN acosw :
          ip = <<"acosw", i>> /\ Switching(c, d, s, w, No(i))
    BY <1>2 DEF Inside
  <2>2. PICK m \in {c, d}, a \in Slots :
           /\ r[SP] = <<"stack", m, a>>
           /\ m = c => a = s - W
           /\ m = d => reg[d][SPIDX] = <<"stack", d, a>>
    BY <2>1, SwitchPointer, Listed
  <2>3. /\ UNCHANGED <<ip, r, env, reg, progVars>>
        /\ DOMAIN stack' = All /\ \A e \in All : DOMAIN stack'[e] = Slots
        /\ \A e \in All \ {m} : stack'[e] = stack[e]
        /\ \A b \in Slots : ~(b < a) => stack'[m][b] = stack[m][b]
    BY <2>2, SignalSpares
  <2>4. a \in Nat /\ a <= RetPtr /\ s \in Nat /\ s - W \in Slots /\ s <= RetPtr
        /\ (I386 => s + W \in Slots) /\ W \in {4, 8} /\ RetPtr \in Slots
    BY <2>1, Addresses DEF Switching, Caller
  <2>5. Frames(c, <<"stack", c, s>>)' = Frames(c, <<"stack", c, s>>)
    BY <2>2, <2>4, SignalKeepsFrames
  <2>6. stack'[c][s - W] = stack[c][s - W]
        /\ (I386 => stack'[c][s] = stack[c][s] /\ stack'[c][s + W] = stack[c][s + W])
    BY <2>2, <2>3, <2>4
  <2>7. Caller(c, d, s, w)'
    BY <2>1, <2>3, <2>5, <2>6 DEF Switching, Caller, progVars, Ready, Mine
  <2>8. Switching(c, d, s, w, No(i))'
    BY <2>1, <2>3, <2>7 DEF Switching, Written, Switched, ScratchOK,
       ScratchI386, ScratchAmd64
  <2>9. Shapes' /\ WordsOK'
    BY <2>3 DEF Shapes, WordsOK, progVars
  <2>10. PlacesOK'
    <3>1. ~(RetPtr < a)
      BY <2>4, Addresses
    <3>2. \A e \in All : stack'[e][RetPtr] = stack[e][RetPtr]
      BY <2>2, <2>3, <2>4, <3>1
    <3> QED
      BY <2>3, <3>2 DEF Shapes, PlacesOK, progVars
  <2> QED
    BY <2>1, <2>3, <2>8, <2>9, <2>10 DEF Inside
<1> QED
  BY <1>1, <1>2

\* The instructions.
LEMMA InstructionKeepsIInv ==
  ASSUME IInv, Instruction
  PROVE  IInv'
<1> USE DEF IInv
<1>1. InSwitch
  BY DEF Instruction, Load, Lea, Move, Clear, Store, StoreEnv, RestoreEnv, Jump,
         Executes
<1>2. PICK c \in All, d \in All, s \in Slots, w \in EnvSet,
          i \in DOMAIN acosw :
        ip = <<"acosw", i>> /\ Switching(c, d, s, w, No(i))
  BY <1>1, OutsideIsNotSwitch DEF Inside, Outside
<1>3. CASE No(i) = 24
  <2>1. /\ UNCHANGED <<r, env, stack, reg, progVars>>
        /\ \E a \in Nat : Executing(d, a)'
    BY <1>2, <1>3, Lands
  <2> QED
    BY <2>1 DEF Outside, Shapes, WordsOK, PlacesOK, progVars
<1>4. CASE No(i) # 24
  <2>1. /\ ip' = <<"acosw", i + 1>> /\ i + 1 \in DOMAIN acosw
        /\ Switching(c, d, s, w, No(i + 1))'
        /\ Leaves(c) /\ UNCHANGED progVars
        /\ \/ UNCHANGED reg
           \/ \E f \in Fields : /\ StoreNo[f] = No(i)
                                /\ reg' = [reg EXCEPT ![c][f] = Word(c, s, w, f)]
    BY <1>2, <1>4, NextInstruction
  <2>2. Shapes'
    BY <2>1 DEF Leaves, Shapes, progVars
  <2>3. c \in live /\ reg[c][RETADDR] \in {Zero, <<"ret", c>>, <<"fp", c>>}
    BY <1>2 DEF Switching, Caller, PlacesOK
  <2>4. /\ reg'[c][RETADDR] \in {Zero, <<"ret", c>>, <<"fp", c>>}
        /\ ~ShareEnv /\ c # MainCo /\ reg'[c][RETADDR] = <<"fp", c>>
             => /\ reg'[c][FPU] = promised[c].fpucw
                /\ reg'[c][FPU + 4] = promised[c].mxcsr
    <3>1. CASE UNCHANGED reg
      BY <2>3, <3>1 DEF WordsOK
    <3>2. ASSUME NEW f \in Fields, StoreNo[f] = No(i),
                 reg' = [reg EXCEPT ![c][f] = Word(c, s, w, f)]
          PROVE  /\ reg'[c][RETADDR] \in {Zero, <<"ret", c>>, <<"fp", c>>}
                 /\ ~ShareEnv /\ c # MainCo /\ reg'[c][RETADDR] = <<"fp", c>>
                      => /\ reg'[c][FPU] = promised[c].fpucw
                         /\ reg'[c][FPU + 4] = promised[c].mxcsr
      <4>1. /\ reg'[c][f] = Word(c, s, w, f)
            /\ \A g \in Fields \ {f} : reg'[c][g] = reg[c][g]
        BY <3>2 DEF Shapes
      <4>2. Word(c, s, w, RETADDR) = <<"ret", c>>
        BY OtherFields DEF Word
      <4>3. CASE f = RETADDR
        BY <4>1, <4>2, <4>3
      <4>4. CASE f \in Words
        <5>1. No(i) > StoreNo[RETADDR]
          BY <3>2, <4>4, OtherFields, StoreNumbers
        <5>2. reg[c][RETADDR] = <<"ret", c>>
          BY <1>2, <4>2, <5>1, OtherFields DEF Switching, Written
        <5> QED
          BY <4>1, <4>4, <5>2, OtherFields
      <4>5. CASE f \notin Words \cup {RETADDR}
        BY <2>3, <4>1, <4>5, OtherFields DEF WordsOK
      <4> QED
        BY <4>3, <4>4, <4>5
    <3> QED
      BY <2>1, <3>1, <3>2
  <2>5. WordsOK'
    BY <2>1, <2>3, <2>4 DEF Leaves, WordsOK, Shapes, progVars
  <2>6. PlacesOK'
    BY <2>1, <2>3, <2>4 DEF Leaves, PlacesOK, Shapes, progVars
  <2> QED
    BY <2>1, <2>2, <2>5, <2>6 DEF Inside
<1> QED
  BY <1>3, <1>4

\* Every step keeps the invariant.
LEMMA NextKeepsIInv == IInv /\ [Next]_vars => IInv'
<1> SUFFICES ASSUME IInv, [Next]_vars
             PROVE  IInv'
  OBVIOUS
<1>1. CASE \E n \in Setting : SetEnv(n)
  BY <1>1, SetEnvKeepsIInv
<1>2. CASE \E fp \in {"NULL", "given"} : aco_thread_init(fp)
  BY <1>2, ThreadInitKeepsIInv
<1>3. CASE \E c \in Co : aco_create(c)
  BY <1>3, CreateKeepsIInv
<1>4. CASE \E to \in All, s \in Slots \ {0} : Call(to, s)
  BY <1>4, CallKeepsIInv
<1>5. CASE Signal
  BY <1>5, SignalKeepsIInv
<1>6. CASE Instruction
  BY <1>6, InstructionKeepsIInv
<1>7. CASE Return
  BY <1>7, ReturnKeepsIInv
<1>8. CASE aco_funcp_protector
  BY <1>8, ProtectorKeepsIInv
<1>9. CASE UNCHANGED vars
  <2>1. UNCHANGED <<ip, r, env, stack, reg, live, aco_gtls_fpucw_mxcsr,
                    aco_gtls_last_word_fp, called, reference, promised>>
    BY <1>9 DEF vars, progVars
  <2>2. Shapes' /\ WordsOK' /\ PlacesOK'
    BY <2>1 DEF IInv, Shapes, WordsOK, PlacesOK
  <2>4. ASSUME NEW m \in All, NEW a \in Nat, Executing(m, a) PROVE Executing(m, a)'
    BY <2>1, <2>4 DEF Executing, Ready
  <2>5. ASSUME NEW c \in All, NEW d \in All, NEW s \in Slots, NEW w \in EnvSet,
               NEW p, Switching(c, d, s, w, p)
        PROVE  Switching(c, d, s, w, p)'
    <3>1. Caller(c, d, s, w)'
      BY <2>1, <2>5 DEF Switching, Caller, Ready, Frames, Mine
    <3> QED
      BY <2>1, <2>5, <3>1 DEF Switching, Written, Switched, ScratchOK, ScratchI386,
         ScratchAmd64
  <2>6. (Outside \/ Inside)'
    BY <2>1, <2>4, <2>5 DEF IInv, Outside, Inside
  <2> QED
    BY <2>2, <2>6 DEF IInv
<1> QED
  BY <1>1, <1>2, <1>3, <1>4, <1>5, <1>6, <1>7, <1>8, <1>9
     DEF Next, Instruction, Aborted

\* The invariant holds on both architectures, whether or not the environment
\* is shared, for any coroutines and any size of their stacks.
THEOREM SwitchInvariance == Spec => []IInv
BY InitIInv, NextKeepsIInv, PTL DEF Spec

\* Code executes at addresses of code only.
THEOREM SwitchTypeCorrect == Spec => []TypeOK
<1>1. IInv => TypeOK
  <2> SUFFICES ASSUME IInv
               PROVE  TypeOK
    OBVIOUS
  <2>1. /\ env \in [fpucw : {<<"fpucw", s>> : s \in Setting},
                    mxcsr : {<<"mxcsr", s>> : s \in Setting}]
        /\ live \in SUBSET All
        /\ \A c \in live : reg[c][RETADDR] \in {Zero, <<"ret", c>>, <<"fp", c>>}
    BY DEF IInv, Shapes, WordsOK, PlacesOK, EnvSet
  <2>2. CASE Outside
    <3>1. PICK m \in All, a \in Nat : Executing(m, a)
      BY <2>2 DEF Outside
    <3>2. ip \in {<<"ret", Me>>, <<"fp", Me>>, <<"protector">>}
          \/ ip \in {<<"last_word", fp>> : fp \in {"default", "given"}}
      BY <3>1, OutsideIsNotSwitch DEF Executing
    <3> QED
      BY <2>1, <3>2 DEF TypeOK
  <2>3. CASE Inside
    <3>1. InSwitch /\ ip[2] \in DOMAIN acosw
      BY <2>3 DEF Inside, InSwitch
    <3> QED
      BY <2>1, <3>1 DEF TypeOK
  <2> QED
    BY <2>2, <2>3 DEF IInv
<1> QED
  BY SwitchInvariance, <1>1, PTL

\* A signal between any two instructions meets a valid stack.
THEOREM StackPointerAlwaysValid == Spec => []StackPointerIsValid
<1>1. IInv => StackPointerIsValid
  <2> SUFFICES ASSUME IInv
               PROVE  StackPointerIsValid
    OBVIOUS
  <2>1. CASE Outside
    <3>1. PICK m \in All, a \in Nat : Executing(m, a)
      BY <2>1 DEF Outside
    <3> QED
      BY <3>1, OutsideIsNotSwitch, Addresses DEF Executing, StackPointerIsValid
  <2>2. CASE Inside
    <3>1. PICK c \in All, d \in All, s \in Slots, w \in EnvSet,
              i \in DOMAIN acosw :
            ip = <<"acosw", i>> /\ Switching(c, d, s, w, No(i))
      BY <2>2 DEF Inside
    <3>2. PICK m \in {c, d}, a \in Slots :
             /\ r[SP] = <<"stack", m, a>>
             /\ m = c => a = s - W
             /\ m = d => reg[d][SPIDX] = <<"stack", d, a>>
      BY <3>1, SwitchPointer, Listed
    <3>3. /\ c # d /\ called.by = c /\ called.context.sp = <<"stack", c, s>>
          /\ s \in Nat /\ a \in Nat /\ W \in {4, 8} /\ Me = m
          /\ ip[1] = "acosw"
      BY <3>1, <3>2, Addresses DEF Switching, Caller, Me
    <3> QED
      BY <3>2, <3>3 DEF StackPointerIsValid
  <2> QED
    BY <2>1, <2>2 DEF IInv
<1> QED
  BY SwitchInvariance, <1>1, PTL

\* A function starts with the words of its thread.
THEOREM StartsAsPromised == Spec => []StartsWithThreadWords
<1>1. IInv => StartsWithThreadWords
  BY DEF IInv, WordsOK, StartsWithThreadWords
<1> QED
  BY SwitchInvariance, <1>1, PTL

-----------------------------------------------------------------------------
(***************************************************************************)
(* The refinement of Contexts.                                             *)
(***************************************************************************)
\* The coroutine that executes, and the context of each, as Contexts sees them.
Runner == IF InSwitch THEN called.by ELSE Me

ContextOf(c) ==
  IF c \notin live THEN [next |-> Zero]
  ELSE IF InSwitch /\ c = called.by THEN called.context
  ELSE IF ~InSwitch /\ c = Me THEN MyContext
  ELSE ContextIn(c)

\* A step after which the others have the contexts they had is a computation.
LEMMA IsCompute ==
  ASSUME Shapes, UNCHANGED live, Runner' = Runner,
         \A e \in live \ {Runner} : ContextOf(e)' = ContextOf(e)
  PROVE  Abstract!Compute
BY DEF Abstract!Compute, Abstract!Kept, Runner, ContextOf, Shapes

\* A step that adds a coroutine and leaves the contexts alone creates it.
LEMMA IsCreate ==
  ASSUME Shapes, NEW c \in All \ live, live' = live \cup {c}, Runner' = Runner,
         \A e \in live : ContextOf(e)' = ContextOf(e)
  PROVE  Abstract!Create(c)
BY DEF Abstract!Create, Abstract!Kept, Runner, ContextOf, Shapes

\* A step to another coroutine that leaves all contexts alone is a switch.
LEMMA IsSwitch ==
  ASSUME Shapes, UNCHANGED live, Runner' \in live \ {Runner},
         \A e \in live : ContextOf(e)' = ContextOf(e)
  PROVE  Abstract!Switch
BY DEF Abstract!Switch, Abstract!Kept, Runner, ContextOf, Shapes

\* A context kept in an aco_t is disturbed through the aco_t or the frames.
LEMMA ContextInStays ==
  ASSUME NEW e, reg'[e] = reg[e],
         Frames(e, reg[e][SPIDX])' = Frames(e, reg[e][SPIDX])
  PROVE  ContextIn(e)' = ContextIn(e)
BY DEF ContextIn

\* If neither its aco_t nor its stack changes, it is what it was.
LEMMA UndisturbedStays ==
  ASSUME NEW e, reg'[e] = reg[e], stack'[e] = stack[e]
  PROVE  ContextIn(e)' = ContextIn(e)
BY DEF ContextIn, Frames

\* In the switch the caller's context is the one it called with and the
\* others' are in their aco_t.
LEMMA InsideContexts ==
  ASSUME NEW c \in All, NEW d \in All, NEW s \in Slots, NEW w \in EnvSet, NEW i,
         ip = <<"acosw", i>>, Caller(c, d, s, w)
  PROVE  /\ Runner = c /\ ContextOf(c) = called.context
         /\ \A e \in live \ {c} : ContextOf(e) = ContextIn(e)
BY DEF Caller, Runner, ContextOf, InSwitch

\* Outside the switch the executing coroutine's context is in the registers.
LEMMA OutsideContexts ==
  ASSUME NEW m, NEW a, Executing(m, a)
  PROVE  /\ Runner = m /\ ContextOf(m) = MyContext
         /\ \A e \in live \ {m} : ContextOf(e) = ContextIn(e)
<1>1. m \in live
  BY DEF Executing
<1> QED
  BY <1>1, OutsideIsNotSwitch DEF Runner, ContextOf

\* What the program does changes no context but the runner's.
LEMMA ProgramComputes ==
  ASSUME IInv, ~InSwitch,
         \/ \E n \in Setting : SetEnv(n)
         \/ \E fp \in {"NULL", "given"} : aco_thread_init(fp)
         \/ Return \/ aco_funcp_protector
  PROVE  Abstract!Compute
<1>1. PICK m \in All, a \in Nat : Executing(m, a)
  BY InsideIsSwitch DEF IInv, Outside
<1>2. Runner = m /\ \A e \in live \ {m} : ContextOf(e) = ContextIn(e)
  BY <1>1, OutsideContexts
<1>3. /\ ~InSwitch' /\ Me' = m
      /\ UNCHANGED <<reg, live>> /\ \A e \in live \ {m} : stack'[e] = stack[e]
  <2>1. ~InSwitch /\ Me = m
    BY <1>1, OutsideIsNotSwitch
  <2>2. CASE \E n \in Setting : SetEnv(n)
    BY <2>1, <2>2 DEF SetEnv, InSwitch, Me, progVars
  <2>3. CASE \E fp \in {"NULL", "given"} : aco_thread_init(fp)
    BY <2>1, <2>3 DEF aco_thread_init, InSwitch, Me
  <2>4. CASE Return
    <3>1. m \in live \ {MainCo}
      BY <1>1, <2>1, <2>4 DEF Return, Executing
    <3>2. ip' = <<"protector">> /\ r' = [r EXCEPT ![SP] = <<"stack", m, RetPtr + W>>]
      BY <2>1, <2>4, <3>1 DEF Return, IInv, PlacesOK
    <3>3. r'[SP] = <<"stack", m, RetPtr + W>>
      BY <3>2 DEF IInv, Shapes
    <3> QED
      BY <2>4, <3>2, <3>3 DEF Return, progVars, InSwitch, Me
  <2>5. CASE aco_funcp_protector
    <3>1. PICK b : r' = [r EXCEPT ![SP] = <<"stack", m, b>>]
                   /\ stack' = [stack EXCEPT ![m][b] = <<"protector">>]
      BY <2>1, <2>5 DEF aco_funcp_protector
    <3>2. r'[SP] = <<"stack", m, b>> /\ \A e \in live \ {m} : stack'[e] = stack[e]
      BY <3>1 DEF IInv, Shapes
    <3> QED
      BY <2>5, <3>2 DEF aco_funcp_protector, progVars, InSwitch, Me
  <2> QED
    BY <2>2, <2>3, <2>4, <2>5
<1>4. Runner' = m /\ \A e \in live \ {m} : ContextOf(e)' = ContextIn(e)'
  BY <1>3 DEF Runner, ContextOf
<1>5. \A e \in live \ {m} : ContextOf(e)' = ContextOf(e)
  BY <1>2, <1>3, <1>4, UndisturbedStays
<1> QED
  BY <1>2, <1>3, <1>4, <1>5, IsCompute DEF IInv

\* A new coroutine has a context; the others keep theirs.
LEMMA CreateCreates ==
  ASSUME IInv, NEW c \in Co, aco_create(c)
  PROVE  Abstract!Create(c)
<1>1. PICK m \in All, a \in Nat : Executing(m, a)
  BY InsideIsSwitch DEF IInv, Outside, aco_create
<1>2. /\ Runner = m /\ ContextOf(m) = MyContext
      /\ \A e \in live \ {m} : ContextOf(e) = ContextIn(e)
  BY <1>1, OutsideContexts
<1>3. ~InSwitch /\ Me = m /\ m \in live
  BY <1>1, OutsideIsNotSwitch DEF Executing
<1>4. /\ c \in All \ live /\ live' = live \cup {c} /\ UNCHANGED <<ip, r, env>>
      /\ \A e \in live : stack'[e] = stack[e] /\ reg'[e] = reg[e]
  BY DEF aco_create, All, IInv, Shapes
<1>5. ~InSwitch' /\ Me' = m /\ Runner' = m
  BY <1>3, <1>4 DEF InSwitch, Me, Runner
<1>6. MyContext' = MyContext
  BY <1>3, <1>4, <1>5 DEF MyContext, Frames, Mine
<1>7. \A e \in live \ {m} : ContextOf(e)' = ContextOf(e)
  BY <1>2, <1>4, <1>5, UndisturbedStays DEF ContextOf
<1>8. ContextOf(m)' = ContextOf(m)
  BY <1>2, <1>3, <1>4, <1>5, <1>6 DEF ContextOf
<1> QED
  BY <1>2, <1>4, <1>5, <1>7, <1>8, IsCreate DEF IInv

\* A call changes the context of its caller, for the last time.
LEMMA CallComputes ==
  ASSUME IInv, NEW to \in All, NEW s \in Slots \ {0}, Call(to, s)
  PROVE  Abstract!Compute
<1>1. PICK c \in All, a \in Nat : Executing(c, a)
  BY InsideIsSwitch DEF IInv, Outside, Call
<1>2. Runner = c /\ \A e \in live \ {c} : ContextOf(e) = ContextIn(e)
  BY <1>1, OutsideContexts
<1>3. CallEffect(c, to, s)
  BY <1>1, CallFrames
<1>4. /\ InSwitch' /\ called'.by = c /\ UNCHANGED <<live, reg>>
      /\ \A e \in live \ {c} : stack'[e] = stack[e]
  BY <1>3 DEF CallEffect, InSwitch, IInv, Shapes
<1>5. Runner' = c /\ \A e \in live \ {c} : ContextOf(e)' = ContextIn(e)'
  BY <1>4 DEF Runner, ContextOf
<1>6. \A e \in live \ {c} : ContextOf(e)' = ContextOf(e)
  BY <1>2, <1>4, <1>5, UndisturbedStays
<1> QED
  BY <1>2, <1>4, <1>5, <1>6, IsCompute DEF IInv

\* A handler's frames are in nobody's context but the runner's.
LEMMA SignalComputes ==
  ASSUME IInv, Signal
  PROVE  Abstract!Compute
<1>1. PICK m \in live, a \in Nat :
        /\ r[SP] = <<"stack", m, a>>
        /\ \A e \in live \ {Runner} :
             ContextOf(e) = ContextIn(e) /\ Ready(e)
             /\ (e = m => reg[e][SPIDX] = <<"stack", e, a>>)
  <2>1. CASE Outside
    <3>1. PICK m \in All, a \in Nat : Executing(m, a)
      BY <2>1 DEF Outside
    <3> QED
      BY <3>1, OutsideContexts DEF Executing
  <2>2. CASE Inside
    <3>1. PICK c \in All, d \in All, s \in Slots, w \in EnvSet,
              i \in DOMAIN acosw :
            ip = <<"acosw", i>> /\ Switching(c, d, s, w, No(i))
      BY <2>2 DEF Inside
    <3>2. PICK m \in {c, d}, a \in Slots :
             /\ r[SP] = <<"stack", m, a>>
             /\ m = c => a = s - W
             /\ m = d => reg[d][SPIDX] = <<"stack", d, a>>
      BY <3>1, SwitchPointer, Listed
    <3>3. /\ Runner = c /\ \A e \in live \ {c} : ContextOf(e) = ContextIn(e)
      BY <3>1, InsideContexts DEF Switching
    <3>4. c \in live /\ d \in live /\ a \in Nat /\ \A e \in live \ {c} : Ready(e)
      BY <3>1, <3>2, Addresses DEF Switching, Caller
    <3> QED
      BY <3>2, <3>3, <3>4
  <2> QED
    BY <2>1, <2>2 DEF IInv
<1>2. m \in All
  BY DEF IInv, Shapes
<1>3. UNCHANGED <<ip, r, reg, live, called>>
  BY DEF Signal, progVars
<1>4. Runner' = Runner /\ \A e \in live \ {Runner} : ContextOf(e)' = ContextIn(e)'
  BY <1>3 DEF Runner, ContextOf, InSwitch, Me
<1>5. ASSUME NEW e \in live \ {Runner} PROVE ContextIn(e)' = ContextIn(e)
  <2>1. e \in All
    BY DEF IInv, Shapes
  <2>2. PICK b \in Slots : reg[e][SPIDX] = <<"stack", e, b>>
    BY <1>1, Addresses DEF Ready
  <2>3. b \in Nat /\ (m = e => a <= b)
    BY <1>1, <2>2, Addresses
  <2>4. Frames(e, <<"stack", e, b>>)' = Frames(e, <<"stack", e, b>>)
    BY <1>1, <1>2, <2>1, <2>3, SignalKeepsFrames DEF IInv
  <2>5. Frames(e, reg[e][SPIDX])' = Frames(e, reg[e][SPIDX])
    BY <1>3, <2>2, <2>4
  <2> QED
    BY <1>3, <2>5, ContextInStays
<1> QED
  BY <1>1, <1>3, <1>4, <1>5, IsCompute DEF IInv

\* An instruction before the jump is seen by nobody.
LEMMA InstructionComputes ==
  ASSUME IInv, Instruction,
         NEW c \in All, NEW d \in All, NEW s \in Slots, NEW w \in EnvSet,
         NEW i \in DOMAIN acosw, ip = <<"acosw", i>>, No(i) # 24,
         Switching(c, d, s, w, No(i))
  PROVE  Abstract!Compute
<1>1. ip' = <<"acosw", i + 1>> /\ Leaves(c) /\ UNCHANGED progVars
  BY NextInstruction DEF IInv
<1>2. Runner = c /\ \A e \in live \ {c} : ContextOf(e) = ContextIn(e)
  BY InsideContexts DEF Switching
<1>3. /\ UNCHANGED <<live, called, stack>> /\ called.by = c
      /\ \A e \in live \ {c} : reg'[e] = reg[e]
  BY <1>1 DEF Leaves, progVars, IInv, Shapes, Switching, Caller
<1>4. Runner' = c /\ \A e \in live \ {c} : ContextOf(e)' = ContextIn(e)'
  BY <1>1, <1>3 DEF Runner, ContextOf, InSwitch
<1>5. \A e \in live \ {c} : ContextOf(e)' = ContextOf(e)
  BY <1>2, <1>3, <1>4, UndisturbedStays
<1> QED
  BY <1>2, <1>3, <1>4, <1>5, IsCompute DEF IInv

\* What has been saved is the context the caller called with.
LEMMA SavedAsCalled ==
  ASSUME NEW c \in All, NEW d \in All, NEW s \in Slots, NEW w \in EnvSet,
         Switching(c, d, s, w, 24)
  PROVE  ContextIn(c) = called.context
<1>1. \A f \in Fields : (ShareEnv => f \notin Words) => reg[c][f] = Word(c, s, w, f)
  BY StoreNumbers DEF Switching, Written
<1>2. \A x \in Saved : reg[c][Place[x]] = <<x, c, s>>
  <2>1. ASSUME NEW x \in Saved PROVE reg[c][Place[x]] = <<x, c, s>>
    <3>1. Place[x] \in Fields /\ Place[x] \notin Words
      BY PlacesAreApart, OtherFields
    <3> QED
      BY <1>1, <3>1, WordOfRegister
  <2> QED
    BY <2>1
<1>3. reg[c][RETADDR] = <<"ret", c>> /\ reg[c][SPIDX] = <<"stack", c, s>>
  BY <1>1, OtherFields DEF Word
<1>4. ~ShareEnv => reg[c][FPU] = w.fpucw /\ reg[c][FPU + 4] = w.mxcsr
  BY <1>1, OtherFields DEF Word
<1>5. (IF ShareEnv THEN "shared"
       ELSE [fpucw |-> reg[c][FPU], mxcsr |-> reg[c][FPU + 4]]) = Mine(w)
  BY <1>4 DEF Mine, EnvSet
<1>6. [x \in Saved |-> reg[c][Place[x]]] = [x \in Saved |-> <<x, c, s>>]
  BY <1>2
<1> QED
  BY <1>3, <1>5, <1>6 DEF ContextIn, Switching, Caller

\* What is in force at the jump is the context the callee left.
LEMMA RestoredAsLeft ==
  ASSUME IInv, Instruction,
         NEW c \in All, NEW d \in All, NEW s \in Slots, NEW w \in EnvSet,
         NEW i \in DOMAIN acosw, ip = <<"acosw", i>>, No(i) = 24,
         Switching(c, d, s, w, 24)
  PROVE  Me' = d /\ MyContext' = ContextIn(d)
<1>1. /\ ip' = reg[d][RETADDR] /\ r[SP] = reg[d][SPIDX]
      /\ UNCHANGED <<r, env, stack, reg, progVars>>
  BY Lands DEF IInv
<1>2. Me' = d
  <2>1. PICK a : reg[d][SPIDX] = <<"stack", d, a>>
    BY DEF Switching, Caller, Ready
  <2> QED
    BY <1>1, <2>1 DEF Me
<1>3. [x \in Saved |-> r[x]] = [x \in Saved |-> reg[d][Place[x]]]
  <2>1. \A x \in Saved : 24 > LoadNo[x]
    BY LoadNumbers
  <2> QED
    BY <2>1 DEF Switching, Switched
<1>4. Mine(env) = IF ShareEnv THEN "shared"
                  ELSE [fpucw |-> reg[d][FPU], mxcsr |-> reg[d][FPU + 4]]
  <2>1. ~ShareEnv => env.fpucw = reg[d][FPU] /\ env.mxcsr = reg[d][FPU + 4]
    BY DEF Switching, Switched, EnvNo
  <2>2. env = [fpucw |-> env.fpucw, mxcsr |-> env.mxcsr]
    BY DEF IInv, WordsOK, EnvSet
  <2> QED
    BY <2>1, <2>2 DEF Mine
<1>5. Frames(Me, r[SP])' = Frames(d, reg[d][SPIDX])
  BY <1>1, <1>2 DEF Frames
<1>6. MyContext' = [regs |-> [x \in Saved |-> r[x]], sp |-> r[SP],
                    next |-> reg[d][RETADDR], env |-> Mine(env),
                    frames |-> Frames(d, reg[d][SPIDX])]
  BY <1>1, <1>5 DEF MyContext, Mine
<1> QED
  BY <1>1, <1>2, <1>3, <1>4, <1>6 DEF ContextIn

\* The jump is the switch.
LEMMA JumpSwitches ==
  ASSUME IInv, Instruction,
         NEW c \in All, NEW d \in All, NEW s \in Slots, NEW w \in EnvSet,
         NEW i \in DOMAIN acosw, ip = <<"acosw", i>>, No(i) = 24,
         Switching(c, d, s, w, 24)
  PROVE  Abstract!Switch
<1>1. /\ UNCHANGED <<r, env, stack, reg, progVars>>
      /\ \E a \in Nat : Executing(d, a)'
  BY Lands DEF IInv
<1>2. UNCHANGED <<live, called>> /\ c # d /\ c \in live /\ d \in live
  BY <1>1 DEF progVars, Switching, Caller
<1>3. /\ Runner = c /\ ContextOf(c) = called.context
      /\ \A e \in live \ {c} : ContextOf(e) = ContextIn(e)
  BY InsideContexts DEF Switching
<1>4. ~InSwitch' /\ Me' = d
  BY <1>1 DEF Executing, InSwitch, Me
<1>5. Runner' = d /\ ContextOf(d)' = MyContext'
      /\ \A e \in live \ {d} : ContextOf(e)' = ContextIn(e)'
  BY <1>2, <1>4 DEF Runner, ContextOf
<1>6. \A e \in live : ContextIn(e)' = ContextIn(e)
  BY <1>1, UndisturbedStays
<1>7. ASSUME NEW e \in live PROVE ContextOf(e)' = ContextOf(e)
  <2>1. CASE e = c
    BY <1>2, <1>3, <1>5, <1>6, <2>1, SavedAsCalled
  <2>2. CASE e = d
    BY <1>2, <1>3, <1>5, <2>2, RestoredAsLeft
  <2>3. CASE e \notin {c, d}
    BY <1>3, <1>5, <1>6, <2>3
  <2> QED
    BY <2>1, <2>2, <2>3
<1> QED
  BY <1>2, <1>3, <1>5, <1>7, IsSwitch DEF IInv

\* Nothing happens at first.
LEMMA InitRefines == Init => Abstract!Init
BY DEF Init, Abstract!Init, InSwitch, Me

\* Every step is one of Contexts, or changes nothing it sees.
THEOREM StepRefines == IInv /\ [Next]_vars => [Abstract!Next]_(Abstract!vars)
<1> SUFFICES ASSUME IInv, [Next]_vars
             PROVE  Abstract!Next \/ UNCHANGED Abstract!vars
  OBVIOUS
<1>1. CASE \/ \E n \in Setting : SetEnv(n)
           \/ \E fp \in {"NULL", "given"} : aco_thread_init(fp)
           \/ Return \/ aco_funcp_protector
  <2>1. ~InSwitch
    BY <1>1 DEF SetEnv, aco_thread_init, Return, aco_funcp_protector, InCode,
       InSwitch
  <2> QED
    BY <1>1, <2>1, ProgramComputes DEF Abstract!Next
<1>2. CASE \E c \in Co : aco_create(c)
  BY <1>2, CreateCreates DEF Abstract!Next, All
<1>3. CASE \E to \in All, s \in Slots \ {0} : Call(to, s)
  BY <1>3, CallComputes DEF Abstract!Next
<1>4. CASE Signal
  BY <1>4, SignalComputes DEF Abstract!Next
<1>5. CASE Instruction
  <2>1. InSwitch
    BY <1>5 DEF Instruction, Load, Lea, Move, Clear, Store, StoreEnv, RestoreEnv,
       Jump, Executes
  <2>2. PICK c \in All, d \in All, s \in Slots, w \in EnvSet,
            i \in DOMAIN acosw :
          ip = <<"acosw", i>> /\ Switching(c, d, s, w, No(i))
    BY <2>1, OutsideIsNotSwitch DEF IInv, Inside, Outside
  <2>3. CASE No(i) = 24
    BY <1>5, <2>2, <2>3, JumpSwitches DEF Abstract!Next
  <2>4. CASE No(i) # 24
    BY <1>5, <2>2, <2>4, InstructionComputes DEF Abstract!Next
  <2> QED
    BY <2>3, <2>4
<1>6. CASE UNCHANGED vars
  BY <1>6 DEF vars, progVars, Abstract!vars, InSwitch, Me, MyContext,
     ContextIn, Frames, Mine
<1> QED
  BY <1>1, <1>2, <1>3, <1>4, <1>5, <1>6 DEF Next, Instruction, Aborted

\* The context switch does what Contexts promises.
THEOREM SwitchImplementsContexts == Spec => ImplementsContexts
BY SwitchInvariance, InitRefines, StepRefines, PTL
   DEF Spec, ImplementsContexts, Abstract!Spec
=============================================================================
