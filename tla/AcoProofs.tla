----------------------------- MODULE AcoProofs -----------------------------
(***************************************************************************)
(* Proofs about module Aco, for any number of coroutines and share stacks, *)
(* any size of them and any values of the words on them.                   *)
(***************************************************************************)
EXTENDS Aco, TLAPS, SequenceTheorems

\* A share stack is not destroyed under the coroutines that execute on it.
LiveHaveStacks == \A c \in live \cap Co : share_stack[c] \in stacks

\* What a save stack claims to hold it holds, and it can be restored.
SavedIsThere ==
  \A c \in Co : /\ save_stack[c].valid_sz <= Limit - 1
                /\ save_stack[c].valid_sz <= Len(save_stack[c].buf)

\* Only the word at align_retptr is the address of the protector, and always.
SlotsIntact ==
  \A s \in Stack : /\ mem[s][0] = Protector
                   /\ \A i \in 1..Room : mem[s][i] \in Cell

\* A coroutine continues in its own code, with its stack pointer at or below
\* the slot of the return address, or in the protector.
InCodeOrCaught(r) == r.ip # "wild" /\ (r.ip = "protector" \/ r.sp >= 0)

NoneIsWild ==
  /\ InCodeOrCaught(cpu)
  /\ \A c \in Co \cup {MainCo} : InCodeOrCaught(reg[c])

\* The inductive invariant. The properties of module Aco hold each other up:
\* the owner field must be valid for the evicted frames to be found, those
\* must fit for the restored words to stay off the slot of the return address.
IInv ==
  /\ TypeOK
  /\ OwnerIsValid
  /\ RunnerIsCurrent
  /\ EvictedFramesFit
  /\ OwnAssertionsHold
  /\ LiveHaveStacks
  /\ SavedIsThere
  /\ SlotsIntact
  /\ NoneIsWild

-----------------------------------------------------------------------------
\* The invariant holds at the start of a thread.
LEMMA InitIInv == Init => IInv
<1> SUFFICES ASSUME Init PROVE IInv
  OBVIOUS
<1> USE AcoAssumption DEF Init
<1>1. TypeOK
  BY DEF TypeOK, NoSave, NewMem, Address, Cell
<1>2. OwnerIsValid /\ RunnerIsCurrent /\ EvictedFramesFit /\ OwnAssertionsHold
  BY DEF OwnerIsValid, RunnerIsCurrent, EvictedFramesFit, OwnAssertionsHold
<1>3. LiveHaveStacks /\ SavedIsThere
  BY DEF LiveHaveStacks, SavedIsThere, NoSave
<1>4. SlotsIntact /\ NoneIsWild
  BY DEF SlotsIntact, NoneIsWild, InCodeOrCaught, NewMem, Cell
<1> QED
  BY <1>1, <1>2, <1>3, <1>4 DEF IInv

\* A step that changes nothing but why the process aborted.
LEMMA DieKeepsIInv ==
  ASSUME IInv, NEW a \in Assertions, Die(a),
         a \notin {"owner_share_stack", "valid_sz", "exit_owner"}
  PROVE  IInv'
<1> USE DEF Die, vars, coVars, stackVars, runVars
<1>1. TypeOK'
  BY DEF IInv, TypeOK
<1>2. OwnerIsValid' /\ RunnerIsCurrent' /\ EvictedFramesFit'
  BY DEF IInv, OwnerIsValid, RunnerIsCurrent, EvictedFramesFit
<1>3. OwnAssertionsHold'
  BY DEF OwnAssertionsHold
<1>4. LiveHaveStacks' /\ SavedIsThere' /\ SlotsIntact' /\ NoneIsWild'
  BY DEF IInv, LiveHaveStacks, SavedIsThere, SlotsIntact, NoneIsWild
<1> QED
  BY <1>1, <1>2, <1>3, <1>4 DEF IInv

\* A new coroutine owns no stack yet, and an address that is used again
\* is no longer an owner.
LEMMA CreateKeepsIInv ==
  ASSUME IInv, NEW c \in Co, NEW s \in Stack, NEW n \in SaveArgs,
         aco_create(c, s, n)
  PROVE  IInv'
<1> USE AcoAssumption DEF aco_create, stackVars
<1> DEFINE sz == IF n = 0 THEN DefaultSave ELSE n
<1>1. sz \in Nat
  OBVIOUS
<1>2. save_stack' = [save_stack EXCEPT ![c] =
                       [sz |-> sz, valid_sz |-> 0, buf |-> <<>>]]
  BY DEF NoSave
<1> HIDE DEF sz
<1>3. TypeOK'
  BY <1>1, <1>2 DEF IInv, TypeOK, Address
<1>4. OwnerIsValid'
  BY <1>2 DEF IInv, TypeOK, OwnerIsValid
<1>5. RunnerIsCurrent'
  BY DEF IInv, TypeOK, RunnerIsCurrent, OwnerIsValid
<1>6. EvictedFramesFit'
  BY <1>1, <1>2 DEF IInv, TypeOK, OwnerIsValid, EvictedFramesFit
<1>7. OwnAssertionsHold' /\ LiveHaveStacks'
  BY DEF IInv, TypeOK, OwnAssertionsHold, LiveHaveStacks
<1>8. SavedIsThere'
  BY <1>2 DEF IInv, TypeOK, SavedIsThere
<1>9. SlotsIntact' /\ NoneIsWild'
  BY DEF IInv, TypeOK, SlotsIntact, NoneIsWild, InCodeOrCaught
<1> QED
  BY <1>3, <1>4, <1>5, <1>6, <1>7, <1>8, <1>9 DEF IInv

\* aco_destroy clears the owner field of the stack it leaves.
LEMMA DestroyKeepsIInv ==
  ASSUME IInv, NEW c \in Co, aco_destroy(c)
  PROVE  IInv'
<1> USE AcoAssumption
<1> DEFINE s == share_stack[c]
<1>1. s \in Stack /\ c \in live /\ c # cpu.co
  BY DEF aco_destroy, IInv, TypeOK, LiveHaveStacks
<1>2. /\ owner' \in [Stack -> Co \cup {NULL}]
      /\ align_validsz' \in [Stack -> Nat]
      /\ \A t \in Stack : IF owner[t] = c
                          THEN owner'[t] = NULL /\ align_validsz'[t] = 0
                          ELSE /\ owner'[t] = owner[t]
                               /\ align_validsz'[t] = align_validsz[t]
  <2>1. owner \in [Stack -> Co \cup {NULL}] /\ align_validsz \in [Stack -> Nat]
    BY DEF IInv, TypeOK
  <2>2. \A t \in Stack : owner[t] = c => t = s
    BY DEF IInv, OwnerIsValid
  <2>3. CASE owner[s] = c
    BY <1>1, <2>1, <2>2, <2>3 DEF aco_destroy, DisownOnDestroy, Disown
  <2>4. CASE owner[s] # c
    BY <2>1, <2>2, <2>4 DEF aco_destroy, DisownOnDestroy
  <2> QED
    BY <2>3, <2>4
<1>3. /\ live' = live \ {c}
      /\ share_stack' = [share_stack EXCEPT ![c] = NULL]
      /\ is_end' = [is_end EXCEPT ![c] = FALSE]
      /\ reg' = [reg EXCEPT ![c] = [sp |-> 0, ip |-> "acosw"]]
      /\ save_stack' = [save_stack EXCEPT ![c] =
                          [sz |-> 0, valid_sz |-> 0, buf |-> <<>>]]
      /\ UNCHANGED <<stacks, mem, cpu, aco_gtls_co, abort>>
  BY DEF aco_destroy, NoSave
<1>4. TypeOK'
  BY <1>1, <1>2, <1>3 DEF IInv, TypeOK, Address
<1>5. OwnerIsValid'
  BY <1>1, <1>2, <1>3 DEF IInv, TypeOK, OwnerIsValid
<1>6. RunnerIsCurrent'
  BY <1>1, <1>2, <1>3 DEF IInv, TypeOK, LiveHaveStacks, RunnerIsCurrent
<1>7. EvictedFramesFit'
  BY <1>1, <1>2, <1>3 DEF IInv, TypeOK, LiveHaveStacks, EvictedFramesFit
<1>8. OwnAssertionsHold' /\ LiveHaveStacks'
  BY <1>3 DEF IInv, TypeOK, OwnAssertionsHold, LiveHaveStacks
<1>9. SavedIsThere'
  BY <1>3 DEF IInv, TypeOK, SavedIsThere
<1>10. SlotsIntact' /\ NoneIsWild'
  BY <1>3 DEF IInv, TypeOK, SlotsIntact, NoneIsWild, InCodeOrCaught
<1> QED
  BY <1>4, <1>5, <1>6, <1>7, <1>8, <1>9, <1>10 DEF IInv

\* Share stacks come and go.
LEMMA StacksKeepIInv ==
  ASSUME IInv, NEW s \in Stack,
         aco_share_stack_new(s) \/ aco_share_stack_destroy(s)
  PROVE  IInv'
<1> USE AcoAssumption DEF aco_share_stack_new, aco_share_stack_destroy,
                          coVars, stackVars, runVars
<1>1. NewMem \in [0..Room -> Cell \cup {Protector}]
      /\ NewMem[0] = Protector /\ \A i \in 1..Room : NewMem[i] \in Cell
  BY DEF NewMem, Cell
<1>2. UNCHANGED <<live, share_stack, is_end, reg, save_stack, cpu,
                  aco_gtls_co, abort>>
  OBVIOUS
<1>3. /\ mem' = [mem EXCEPT ![s] = NewMem]
      /\ \A t \in stacks : t # s => t \in stacks'
      /\ stacks' \subseteq Stack
      /\ owner[s] = NULL
      /\ owner' = owner /\ align_validsz' = align_validsz
  <2>1. owner[s] = NULL /\ align_validsz[s] = 0
    BY DEF IInv, TypeOK, OwnerIsValid
  <2> QED
    BY <2>1 DEF IInv, TypeOK
<1>4. TypeOK'
  BY <1>1, <1>2, <1>3 DEF IInv, TypeOK
<1>5. OwnerIsValid' /\ RunnerIsCurrent' /\ EvictedFramesFit'
  BY <1>2, <1>3 DEF IInv, TypeOK, OwnerIsValid, RunnerIsCurrent, EvictedFramesFit
<1>6. OwnAssertionsHold' /\ SavedIsThere' /\ NoneIsWild'
  BY <1>2 DEF IInv, OwnAssertionsHold, SavedIsThere, NoneIsWild
<1>7. LiveHaveStacks'
  BY <1>2, <1>3 DEF IInv, LiveHaveStacks
<1>8. SlotsIntact'
  BY <1>1, <1>3 DEF IInv, TypeOK, SlotsIntact
<1> QED
  BY <1>4, <1>5, <1>6, <1>7, <1>8 DEF IInv

\* The main coroutine comes and goes.
LEMMA MainKeepsIInv ==
  ASSUME IInv, CreateMain \/ DestroyMain
  PROVE  IInv'
<1> USE AcoAssumption DEF CreateMain, DestroyMain, coVars, stackVars, runVars
<1>1. live' \subseteq live \cup {MainCo} /\ live' \cap Co = live \cap Co
  BY DEF IInv, TypeOK
<1>2. UNCHANGED <<share_stack, is_end, save_stack, stacks, owner,
                  align_validsz, mem, reg, cpu, aco_gtls_co, abort>>
  OBVIOUS
<1>3. TypeOK'
  BY <1>1, <1>2 DEF IInv, TypeOK
<1>4. OwnerIsValid' /\ RunnerIsCurrent' /\ EvictedFramesFit'
  BY <1>1, <1>2 DEF IInv, TypeOK, OwnerIsValid, RunnerIsCurrent, EvictedFramesFit
<1>5. OwnAssertionsHold' /\ SavedIsThere' /\ NoneIsWild' /\ LiveHaveStacks'
      /\ SlotsIntact'
  BY <1>1, <1>2 DEF IInv, OwnAssertionsHold, SavedIsThere, NoneIsWild,
                    LiveHaveStacks, SlotsIntact
<1> QED
  BY <1>3, <1>4, <1>5 DEF IInv

\* Code of the running coroutine that stays on its own stack.
LEMMA WorkKeepsIInv ==
  ASSUME IInv, (\E w \in Word : Push(w)) \/ Pop \/ Return
  PROVE  IInv'
<1> USE AcoAssumption DEF Push, Pop, Return, coVars, stackVars, runVars
<1>1. /\ UNCHANGED <<live, share_stack, is_end, reg, save_stack, stacks, owner,
                     align_validsz, aco_gtls_co, abort>>
      /\ cpu.co \in Co
  OBVIOUS
<1>2. CurStack \in Stack
  BY <1>1 DEF CurStack, IInv, TypeOK, RunnerIsCurrent, LiveHaveStacks
<1>3. ReturnTarget(CurStack) = "protector"
  BY <1>2 DEF IInv, SlotsIntact, ReturnTarget
<1>4. cpu' \in [co : Co \cup {MainCo}, sp : -1..Room, ip : Address]
      /\ cpu'.co = cpu.co /\ InCodeOrCaught(cpu')
  <2>1. /\ cpu.co \in Co \cup {MainCo} /\ cpu.sp \in 0..Room
        /\ cpu.ip \in Address \ {"wild", "protector"}
        /\ cpu = [co |-> cpu.co, sp |-> cpu.sp, ip |-> cpu.ip]
    BY DEF IInv, TypeOK, Running, Address, NoneIsWild, InCodeOrCaught
  <2>2. CASE \E w \in Word : Push(w)
    <3>1. cpu' = [co |-> cpu.co, sp |-> cpu.sp + 1, ip |-> cpu.ip]
          /\ cpu.sp < Room
      BY <2>1, <2>2
    <3> QED
      BY <2>1, <3>1 DEF InCodeOrCaught
  <2>3. CASE Pop
    <3>1. cpu' = [co |-> cpu.co, sp |-> cpu.sp - 1, ip |-> cpu.ip]
          /\ cpu.sp > 0
      BY <2>1, <2>3
    <3> QED
      BY <2>1, <3>1 DEF InCodeOrCaught
  <2>4. CASE Return
    <3>1. cpu' = [co |-> cpu.co, sp |-> -1, ip |-> "protector"]
      BY <1>3, <2>1, <2>4
    <3> QED
      BY <2>1, <3>1 DEF InCodeOrCaught, Address
  <2> QED
    BY <2>2, <2>3, <2>4
<1>5. /\ mem' \in [Stack -> [0..Room -> Cell \cup {Protector}]]
      /\ \A s \in Stack : /\ mem'[s][0] = Protector
                          /\ \A i \in 1..Room : mem'[s][i] \in Cell
  <2>1. mem \in [Stack -> [0..Room -> Cell \cup {Protector}]]
        /\ cpu.sp \in -1..Room
        /\ \A s \in Stack : /\ mem[s][0] = Protector
                            /\ \A i \in 1..Room : mem[s][i] \in Cell
    BY DEF IInv, TypeOK, SlotsIntact
  <2>2. cpu.sp \in 0..Room
    BY <2>1 DEF IInv, NoneIsWild, InCodeOrCaught, Running
  <2>3. ASSUME NEW w \in Word, Push(w)
        PROVE  /\ mem' = [mem EXCEPT ![CurStack][cpu.sp + 1] = w]
               /\ w \in Cell
               /\ cpu.sp + 1 \in 1..Room
    BY <2>2, <2>3 DEF Cell
  <2>4. CASE \E w \in Word : Push(w)
    <3>1. PICK w \in Word : Push(w)
      BY <2>4
    <3>2. mem' \in [Stack -> [0..Room -> Cell \cup {Protector}]]
      BY <1>2, <2>1, <2>3, <3>1
    <3>3. ASSUME NEW s \in Stack
          PROVE  mem'[s][0] = Protector /\ \A i \in 1..Room : mem'[s][i] \in Cell
      <4>1. /\ mem' = [mem EXCEPT ![CurStack][cpu.sp + 1] = w]
            /\ w \in Cell /\ cpu.sp + 1 \in 1..Room
        BY <2>3, <3>1
      <4>2. CASE s = CurStack
        <5>1. mem'[s] = [mem[s] EXCEPT ![cpu.sp + 1] = w]
          BY <1>2, <2>1, <4>1, <4>2
        <5> HIDE DEF Push, Pop, Return
        <5> QED
          BY <2>1, <4>1, <5>1
      <4>3. CASE s # CurStack
        BY <1>2, <2>1, <4>1, <4>3
      <4> QED
        BY <4>2, <4>3
    <3> QED
      BY <3>2, <3>3
  <2>5. CASE Pop \/ Return
    BY <2>1, <2>5
  <2> QED
    BY <2>4, <2>5
<1>6. TypeOK'
  BY <1>1, <1>4, <1>5 DEF IInv, TypeOK
<1>7. OwnerIsValid' /\ RunnerIsCurrent' /\ EvictedFramesFit'
  BY <1>1, <1>4 DEF IInv, TypeOK, OwnerIsValid, RunnerIsCurrent, EvictedFramesFit
<1>8. OwnAssertionsHold' /\ SavedIsThere' /\ NoneIsWild' /\ LiveHaveStacks'
      /\ SlotsIntact'
  BY <1>1, <1>4, <1>5 DEF IInv, OwnAssertionsHold, SavedIsThere, NoneIsWild,
                          LiveHaveStacks, SlotsIntact
<1> QED
  BY <1>6, <1>7, <1>8 DEF IInv

-----------------------------------------------------------------------------
(***************************************************************************)
(* Lemmas about what aco_resume copies.                                    *)
(***************************************************************************)

\* The doubling loop ends with room for what is to be saved.
LEMMA SaveSizesSuffice ==
  ASSUME IInv, NEW o \in Co, NEW need \in Nat, NEW n \in SaveSizes(o, need)
  PROVE  n \in Nat /\ n >= need
<1>1. save_stack[o].sz \in Nat
  BY DEF IInv, TypeOK
<1>2. CASE need <= save_stack[o].sz
  BY <1>1, <1>2 DEF SaveSizes
<1>3. CASE ~(need <= save_stack[o].sz)
  <2>1. n \in need..(2 * need - 1)
    BY <1>3 DEF SaveSizes
  <2> QED
    BY <2>1
<1> QED
  BY <1>2, <1>3

\* Saving takes words of the program only, and all that are in use.
LEMMA SavedIsComplete ==
  ASSUME IInv, NEW o \in Co, NEW s \in Stack, NEW n \in Nat, SpInBounds(o)
  PROVE  /\ Saved(o, s, n) \in [sz : Nat, valid_sz : Nat, buf : Seq(Cell)]
         /\ Saved(o, s, n).sz = n
         /\ Saved(o, s, n).valid_sz = reg[o].sp
         /\ reg[o].sp \in 0..(Limit - 1)
         /\ reg[o].sp <= Len(Saved(o, s, n).buf)
<1> DEFINE d == reg[o].sp
<1>1. d \in 0..(Limit - 1) /\ d \in 0..Room
  BY AcoAssumption DEF SpInBounds, IInv, TypeOK
<1>2. save_stack[o].buf \in Seq(Cell) /\ Len(save_stack[o].buf) \in Nat
  BY DEF IInv, TypeOK
<1>3. \A i \in 1..d : mem[s][i] \in Cell
  BY <1>1, AcoAssumption DEF IInv, SlotsIntact
<1> HIDE DEF d
<1>4. /\ [i \in 1..d |-> mem[s][i]] \in Seq(Cell)
      /\ Len([i \in 1..d |-> mem[s][i]]) = d
  BY <1>1, <1>3
<1>5. /\ (IF d > 0 THEN [i \in 1..d |-> mem[s][i]] ELSE save_stack[o].buf)
           \in Seq(Cell)
      /\ d <= Len(IF d > 0 THEN [i \in 1..d |-> mem[s][i]]
                           ELSE save_stack[o].buf)
  <2>1. CASE d > 0
    BY <1>1, <1>4, <2>1
  <2>2. CASE ~(d > 0)
    BY <1>1, <1>2, <2>2, AcoAssumption
  <2> QED
    BY <2>1, <2>2
<1>6. d \in Nat
  BY <1>1
<1> QED
  BY <1>1, <1>5, <1>6 DEF Saved, d

\* Restoring writes words of the program only, below the return address.
LEMMA RestoredKeepsSlot ==
  ASSUME IInv, NEW c \in Co, NEW s \in Stack
  PROVE  /\ Restored(c, s) \in [0..Room -> Cell \cup {Protector}]
         /\ Restored(c, s)[0] = Protector
         /\ \A i \in 1..Room : Restored(c, s)[i] \in Cell
<1> DEFINE v == save_stack[c].valid_sz
           buf == save_stack[c].buf
<1>1. v \in Nat /\ buf \in Seq(Cell) /\ v <= Len(buf)
  BY DEF IInv, TypeOK, SavedIsThere
<1>2. /\ Room \in Nat
      /\ mem[s] \in [0..Room -> Cell \cup {Protector}]
      /\ mem[s][0] = Protector
      /\ \A i \in 1..Room : mem[s][i] \in Cell
  BY AcoAssumption DEF IInv, TypeOK, SlotsIntact
<1> HIDE DEF v, buf
<1>3. \A i \in 1..v : buf[i] \in Cell
  BY <1>1
<1>4. Restored(c, s) = [i \in 0..Room |-> IF i \in 1..v THEN buf[i] ELSE mem[s][i]]
  BY DEF Restored, v, buf
<1> QED
  BY <1>1, <1>2, <1>3, <1>4

-----------------------------------------------------------------------------
(***************************************************************************)
(* Steps that switch.                                                      *)
(***************************************************************************)
LEMMA HereIsInCode ==
  ASSUME IInv, Running
  PROVE  /\ Here \in [sp : -1..Room, ip : Address]
         /\ InCodeOrCaught(Here)
BY DEF IInv, TypeOK, Running, NoneIsWild, InCodeOrCaught, Here, Address

\* A switch never sends a coroutine where it has no code to execute.
LEMMA SwitchKeepsRegisters ==
  ASSUME IInv, NEW from \in Co \cup {MainCo}, NEW to \in Co \cup {MainCo},
         NEW at \in [sp : -1..Room, ip : Address], InCodeOrCaught(at),
         acosw(from, to, at)
  PROVE  /\ reg' \in [Co \cup {MainCo} -> [sp : -1..Room, ip : Address]]
         /\ cpu' \in [co : Co \cup {MainCo}, sp : -1..Room, ip : Address]
         /\ cpu'.co = to
         /\ NoneIsWild'
<1>1. reg \in [Co \cup {MainCo} -> [sp : -1..Room, ip : Address]]
  BY DEF IInv, TypeOK
<1>2. reg' = [reg EXCEPT ![from] = at]
      /\ cpu' = [co |-> to, sp |-> reg[to].sp, ip |-> reg[to].ip]
  BY DEF acosw
<1>3. reg[to] \in [sp : -1..Room, ip : Address] /\ InCodeOrCaught(reg[to])
  BY <1>1 DEF IInv, NoneIsWild
<1>4. InCodeOrCaught(cpu') /\ cpu'.co = to
      /\ cpu' \in [co : Co \cup {MainCo}, sp : -1..Room, ip : Address]
  BY <1>2, <1>3 DEF InCodeOrCaught
<1>5. reg' \in [Co \cup {MainCo} -> [sp : -1..Room, ip : Address]]
  BY <1>1, <1>2
<1>6. \A c \in Co \cup {MainCo} : InCodeOrCaught(reg'[c])
  BY <1>1, <1>2 DEF IInv, NoneIsWild
<1> QED
  BY <1>4, <1>5, <1>6 DEF NoneIsWild

\* What every successful resume finds and does.
LEMMA ResumeFacts ==
  ASSUME IInv, NEW c \in Co, MayResume(c), SwitchTo(c)
  PROVE  /\ share_stack[c] \in stacks /\ share_stack[c] \in Stack
         /\ c \in live /\ ~is_end[c] /\ cpu.co = MainCo
         /\ reg' \in [Co \cup {MainCo} -> [sp : -1..Room, ip : Address]]
         /\ cpu' \in [co : Co \cup {MainCo}, sp : -1..Room, ip : Address]
         /\ NoneIsWild' /\ cpu'.co = c /\ aco_gtls_co' = c
         /\ \A d \in Co : reg'[d] = reg[d]
         /\ UNCHANGED <<live, share_stack, is_end, abort>>
<1>1. Running /\ cpu.co = MainCo /\ c \in live /\ ~is_end[c]
  BY DEF MayResume, CanCallResume, FailedAssertion, HasNotEnded
<1>2. share_stack[c] \in stacks /\ share_stack[c] \in Stack
  BY <1>1 DEF IInv, TypeOK, LiveHaveStacks
<1>3. acosw(MainCo, c, Here) /\ aco_gtls_co' = c
      /\ UNCHANGED <<live, share_stack, is_end, abort>>
  BY DEF SwitchTo
<1>4. /\ reg' \in [Co \cup {MainCo} -> [sp : -1..Room, ip : Address]]
      /\ cpu' \in [co : Co \cup {MainCo}, sp : -1..Room, ip : Address]
      /\ NoneIsWild' /\ cpu'.co = c
  BY <1>1, <1>3, HereIsInCode, SwitchKeepsRegisters
<1>5. \A d \in Co : reg'[d] = reg[d]
  BY <1>3, AcoAssumption DEF acosw, IInv, TypeOK
<1> QED
  BY <1>1, <1>2, <1>3, <1>4, <1>5

\* Resuming the owner of a stack copies nothing.
LEMMA ResumeOwnerKeepsIInv ==
  ASSUME IInv, NEW c \in Co, ResumeOwner(c)
  PROVE  IInv'
<1>1. /\ MayResume(c) /\ SwitchTo(c)
      /\ owner[share_stack[c]] = c
      /\ UNCHANGED <<save_stack, stacks, owner, align_validsz, mem>>
  BY DEF ResumeOwner, stackVars
<1>2. /\ c \in live
      /\ reg' \in [Co \cup {MainCo} -> [sp : -1..Room, ip : Address]]
      /\ cpu' \in [co : Co \cup {MainCo}, sp : -1..Room, ip : Address]
      /\ NoneIsWild' /\ cpu'.co = c /\ aco_gtls_co' = c
      /\ \A d \in Co : reg'[d] = reg[d]
      /\ UNCHANGED <<live, share_stack, is_end, abort>>
  BY <1>1, ResumeFacts
<1>3. TypeOK'
  BY <1>1, <1>2 DEF IInv, TypeOK
<1>4. OwnerIsValid' /\ RunnerIsCurrent' /\ EvictedFramesFit'
  BY <1>1, <1>2, AcoAssumption
     DEF IInv, OwnerIsValid, RunnerIsCurrent, EvictedFramesFit
<1>5. OwnAssertionsHold' /\ SavedIsThere' /\ LiveHaveStacks' /\ SlotsIntact'
  BY <1>1, <1>2
     DEF IInv, OwnAssertionsHold, SavedIsThere, LiveHaveStacks, SlotsIntact
<1> QED
  BY <1>2, <1>3, <1>4, <1>5 DEF IInv

\* What occupying a share stack does to the share stacks.
LEMMA OccupyFacts ==
  ASSUME IInv, NEW c \in Co, NEW s \in Stack, Occupy(c, s)
  PROVE  /\ mem' \in [Stack -> [0..Room -> Cell \cup {Protector}]]
         /\ SlotsIntact'
         /\ owner' = [owner EXCEPT ![s] = c]
         /\ align_validsz' =
              [align_validsz EXCEPT ![s] = save_stack[c].valid_sz + 1]
         /\ owner' \in [Stack -> Co \cup {NULL}]
         /\ align_validsz' \in [Stack -> Nat]
         /\ stacks' = stacks
<1>1. mem \in [Stack -> [0..Room -> Cell \cup {Protector}]]
      /\ mem' = [mem EXCEPT ![s] = Restored(c, s)]
  BY DEF IInv, TypeOK, Occupy
<1>2. /\ Restored(c, s) \in [0..Room -> Cell \cup {Protector}]
      /\ Restored(c, s)[0] = Protector
      /\ \A i \in 1..Room : Restored(c, s)[i] \in Cell
  BY RestoredKeepsSlot
<1>3. SlotsIntact'
  BY <1>1, <1>2 DEF IInv, SlotsIntact
<1>4. mem' \in [Stack -> [0..Room -> Cell \cup {Protector}]]
  BY <1>1, <1>2
<1>5. /\ owner' = [owner EXCEPT ![s] = c]
      /\ align_validsz' =
           [align_validsz EXCEPT ![s] = save_stack[c].valid_sz + 1]
      /\ stacks' = stacks
  BY DEF Occupy
<1>6. save_stack[c].valid_sz + 1 \in Nat
  BY DEF IInv, TypeOK
<1>7. owner' \in [Stack -> Co \cup {NULL}] /\ align_validsz' \in [Stack -> Nat]
  BY <1>5, <1>6 DEF IInv, TypeOK
<1> QED
  BY <1>3, <1>4, <1>5, <1>7

\* Resuming on a stack without owner only restores.
LEMMA ResumeFreeKeepsIInv ==
  ASSUME IInv, NEW c \in Co, ResumeFree(c)
  PROVE  IInv'
<1> DEFINE s == share_stack[c]
<1>1. MayResume(c) /\ SwitchTo(c) /\ Occupy(c, s) /\ owner[s] = NULL
      /\ UNCHANGED save_stack
  BY DEF ResumeFree
<1>2. /\ s \in stacks /\ s \in Stack /\ c \in live /\ ~is_end[c]
      /\ reg' \in [Co \cup {MainCo} -> [sp : -1..Room, ip : Address]]
      /\ cpu' \in [co : Co \cup {MainCo}, sp : -1..Room, ip : Address]
      /\ NoneIsWild' /\ cpu'.co = c /\ aco_gtls_co' = c
      /\ \A d \in Co : reg'[d] = reg[d]
      /\ UNCHANGED <<live, share_stack, is_end, abort>>
  BY <1>1, ResumeFacts
<1>3. /\ mem' \in [Stack -> [0..Room -> Cell \cup {Protector}]]
      /\ SlotsIntact'
      /\ owner' = [owner EXCEPT ![s] = c]
      /\ align_validsz' =
           [align_validsz EXCEPT ![s] = save_stack[c].valid_sz + 1]
      /\ owner' \in [Stack -> Co \cup {NULL}]
      /\ align_validsz' \in [Stack -> Nat]
      /\ stacks' = stacks
  BY <1>1, <1>2, OccupyFacts
<1>4. TypeOK'
  BY <1>1, <1>2, <1>3 DEF IInv, TypeOK
<1>5. OwnerIsValid'
  <2>1. SUFFICES ASSUME NEW t \in Stack
                 PROVE  IF owner'[t] = NULL
                        THEN align_validsz'[t] = 0
                        ELSE /\ t \in stacks'
                             /\ owner'[t] \in live'
                             /\ share_stack'[owner'[t]] = t
                             /\ ~is_end'[owner'[t]]
                             /\ align_validsz'[t] =
                                  save_stack'[owner'[t]].valid_sz + 1
    BY DEF OwnerIsValid
  <2>2. CASE t = s
    <3>1. owner'[t] = c /\ align_validsz'[t] = save_stack'[c].valid_sz + 1
          /\ share_stack'[c] = t
      BY <1>1, <1>2, <1>3, <2>2 DEF IInv, TypeOK
    <3> QED
      BY <1>2, <1>3, <2>2, <3>1, AcoAssumption
  <2>3. CASE t # s
    <3>1. owner'[t] = owner[t] /\ align_validsz'[t] = align_validsz[t]
      BY <1>3, <2>3 DEF IInv, TypeOK
    <3> QED
      BY <1>1, <1>2, <1>3, <3>1 DEF IInv, OwnerIsValid
  <2> QED
    BY <2>2, <2>3
<1>6. RunnerIsCurrent'
  BY <1>2, <1>3, AcoAssumption DEF IInv, TypeOK, RunnerIsCurrent
<1>7. EvictedFramesFit'
  <2>1. SUFFICES ASSUME NEW d \in live \cap Co, ~is_end[d],
                        owner'[share_stack[d]] # d
                 PROVE  /\ save_stack[d].valid_sz = reg[d].sp
                        /\ reg[d].sp \in 0..(Limit - 1)
                        /\ reg[d].sp <= save_stack[d].sz
    BY <1>1, <1>2 DEF EvictedFramesFit
  <2>2. d # c
    BY <1>2, <1>3, <2>1 DEF IInv, TypeOK
  <2>3. owner[share_stack[d]] # d
    BY <1>1, <1>2, <1>3, <2>1, <2>2, AcoAssumption DEF IInv, TypeOK, LiveHaveStacks
  <2> QED
    BY <2>1, <2>3 DEF IInv, EvictedFramesFit
<1>8. OwnAssertionsHold' /\ SavedIsThere' /\ LiveHaveStacks'
  BY <1>1, <1>2, <1>3 DEF IInv, OwnAssertionsHold, SavedIsThere, LiveHaveStacks
<1> QED
  BY <1>2, <1>3, <1>4, <1>5, <1>6, <1>7, <1>8 DEF IInv

\* Resuming on another's stack saves first and restores then.
LEMMA ResumeEvictKeepsIInv ==
  ASSUME IInv, NEW c \in Co, ResumeEvict(c)
  PROVE  IInv'
<1> DEFINE s == share_stack[c]
           o == owner[s]
<1>1. MayResume(c) /\ SwitchTo(c) /\ Occupy(c, s) /\ o # c /\ o # NULL
  BY DEF ResumeEvict
<1>2. /\ s \in stacks /\ s \in Stack /\ c \in live /\ ~is_end[c]
      /\ reg' \in [Co \cup {MainCo} -> [sp : -1..Room, ip : Address]]
      /\ cpu' \in [co : Co \cup {MainCo}, sp : -1..Room, ip : Address]
      /\ NoneIsWild' /\ cpu'.co = c /\ aco_gtls_co' = c
      /\ \A d \in Co : reg'[d] = reg[d]
      /\ UNCHANGED <<live, share_stack, is_end, abort>>
  BY <1>1, ResumeFacts
<1>3. /\ mem' \in [Stack -> [0..Room -> Cell \cup {Protector}]]
      /\ SlotsIntact'
      /\ owner' = [owner EXCEPT ![s] = c]
      /\ align_validsz' =
           [align_validsz EXCEPT ![s] = save_stack[c].valid_sz + 1]
      /\ owner' \in [Stack -> Co \cup {NULL}]
      /\ align_validsz' \in [Stack -> Nat]
      /\ stacks' = stacks
  BY <1>1, <1>2, OccupyFacts
<1>4. /\ o \in Co /\ o \in live /\ share_stack[o] = s
      /\ SpInBounds(o)
  <2>1. o \in Co /\ o \in live /\ share_stack[o] = s
    BY <1>1, <1>2 DEF IInv, TypeOK, OwnerIsValid
  <2>2. SpInBounds(o)
    BY <1>1, <2>1 DEF MayResume, FailedAssertion
  <2> QED
    BY <2>1, <2>2
<1>5. reg[o].sp \in Nat
  BY <1>4 DEF SpInBounds, IInv, TypeOK
<1>6. PICK n \in SaveSizes(o, reg[o].sp) :
        save_stack' = [save_stack EXCEPT ![o] = Saved(o, s, n)]
  BY DEF ResumeEvict
<1>7. n \in Nat /\ n >= reg[o].sp
  BY <1>4, <1>5, SaveSizesSuffice
<1> DEFINE S == Saved(o, s, n)
<1>8. /\ S \in [sz : Nat, valid_sz : Nat, buf : Seq(Cell)]
      /\ S.sz = n /\ S.valid_sz = reg[o].sp
      /\ reg[o].sp \in 0..(Limit - 1)
      /\ reg[o].sp <= Len(S.buf)
  BY <1>2, <1>4, <1>7, SavedIsComplete
<1>9. save_stack \in [Co -> [sz : Nat, valid_sz : Nat, buf : Seq(Cell)]]
      /\ save_stack' = [save_stack EXCEPT ![o] = S]
  BY <1>6 DEF IInv, TypeOK
<1> HIDE DEF S, o, s
<1>10. /\ save_stack' \in [Co -> [sz : Nat, valid_sz : Nat, buf : Seq(Cell)]]
       /\ save_stack'[o] = S
       /\ \A d \in Co : d # o => save_stack'[d] = save_stack[d]
  BY <1>4, <1>8, <1>9
<1>11. TypeOK'
  BY <1>2, <1>3, <1>10 DEF IInv, TypeOK
<1>12. OwnerIsValid'
  <2>1. SUFFICES ASSUME NEW t \in Stack, owner'[t] # NULL
                 PROVE  /\ t \in stacks
                        /\ owner'[t] \in live
                        /\ share_stack[owner'[t]] = t
                        /\ ~is_end[owner'[t]]
                        /\ align_validsz'[t] = save_stack'[owner'[t]].valid_sz + 1
    <3>1. \A t \in Stack : owner'[t] = NULL => t # s
      BY <1>3, AcoAssumption DEF IInv, TypeOK
    <3>2. \A t \in Stack : owner'[t] = NULL => align_validsz'[t] = 0
      BY <1>3, <3>1 DEF IInv, TypeOK, OwnerIsValid
    <3> QED
      BY <1>2, <1>3, <3>2 DEF OwnerIsValid
  <2>2. CASE t = s
    <3>1. owner'[t] = c /\ align_validsz'[t] = save_stack[c].valid_sz + 1
      BY <1>3, <2>2 DEF IInv, TypeOK
    <3>2. save_stack'[c] = save_stack[c] /\ share_stack[c] = s
      BY <1>1, <1>10 DEF s, o
    <3> QED
      BY <1>2, <2>2, <3>1, <3>2
  <2>3. CASE t # s
    <3>1. owner'[t] = owner[t] /\ align_validsz'[t] = align_validsz[t]
          /\ owner[t] \in Co
      BY <1>3, <2>1, <2>3 DEF IInv, TypeOK
    <3>2. /\ t \in stacks /\ owner[t] \in live /\ share_stack[owner[t]] = t
          /\ ~is_end[owner[t]]
          /\ align_validsz[t] = save_stack[owner[t]].valid_sz + 1
      BY <2>1, <3>1 DEF IInv, OwnerIsValid
    <3>3. owner[t] # o
      BY <1>4, <2>3, <3>2
    <3> QED
      BY <1>10, <3>1, <3>2, <3>3
  <2> QED
    BY <2>2, <2>3
<1>13. RunnerIsCurrent'
  BY <1>2, <1>3, AcoAssumption DEF IInv, TypeOK, RunnerIsCurrent, s
<1>14. EvictedFramesFit'
  <2>1. SUFFICES ASSUME NEW d \in live \cap Co, ~is_end[d],
                        owner'[share_stack[d]] # d
                 PROVE  /\ save_stack'[d].valid_sz = reg[d].sp
                        /\ reg[d].sp \in 0..(Limit - 1)
                        /\ reg[d].sp <= save_stack'[d].sz
    BY <1>2 DEF EvictedFramesFit
  <2>2. CASE d = o
    BY <1>7, <1>8, <1>10, <2>2
  <2>3. CASE d # o
    <3>1. d # c
      BY <1>2, <1>3, <2>1 DEF IInv, TypeOK, s
    <3>2. owner[share_stack[d]] # d
      BY <1>2, <1>3, <2>1, <2>3, <3>1 DEF IInv, TypeOK, LiveHaveStacks, o
    <3> QED
      BY <1>10, <2>1, <2>3, <3>2 DEF IInv, EvictedFramesFit
  <2> QED
    BY <2>2, <2>3
<1>15. SavedIsThere'
  <2>1. SUFFICES ASSUME NEW d \in Co
                 PROVE  /\ save_stack'[d].valid_sz <= Limit - 1
                        /\ save_stack'[d].valid_sz <= Len(save_stack'[d].buf)
    BY DEF SavedIsThere
  <2>2. CASE d = o
    BY <1>8, <1>10, <2>2, AcoAssumption
  <2>3. CASE d # o
    BY <1>10, <2>3 DEF IInv, SavedIsThere
  <2> QED
    BY <2>2, <2>3
<1>16. OwnAssertionsHold' /\ LiveHaveStacks'
  BY <1>2, <1>3 DEF IInv, OwnAssertionsHold, LiveHaveStacks
<1> QED
  BY <1>2, <1>3, <1>11, <1>12, <1>13, <1>14, <1>15, <1>16 DEF IInv

\* An assertion of aco_resume that fails is not one of its bookkeeping.
LEMMA ResumeAbortsKeepsIInv ==
  ASSUME IInv, NEW c \in Co, ResumeAborts(c)
  PROVE  IInv'
<1> DEFINE s == share_stack[c]
           o == owner[s]
<1>1. c \in live /\ s \in Stack /\ Die(FailedAssertion(c))
      /\ FailedAssertion(c) # "none"
  BY DEF ResumeAborts, CanCallResume, IInv, TypeOK, LiveHaveStacks
<1>2. FailedAssertion(c) # "owner_share_stack"
  <2>1. o # NULL => share_stack[o] = s
    BY <1>1 DEF IInv, OwnerIsValid
  <2> QED
    BY <2>1 DEF FailedAssertion
<1>3. FailedAssertion(c) # "valid_sz"
  <2>1. save_stack[c].valid_sz <= Limit - 1
        /\ save_stack[c].valid_sz \in Nat /\ Limit \in Nat
    BY AcoAssumption DEF IInv, TypeOK, SavedIsThere
  <2>2. ~(save_stack[c].valid_sz > Limit - 1)
    BY <2>1
  <2> QED
    BY <2>2 DEF FailedAssertion
<1>4. FailedAssertion(c) \in Assertions
      /\ FailedAssertion(c) # "exit_owner"
  BY <1>1 DEF FailedAssertion, Assertions
<1> QED
  BY <1>1, <1>2, <1>3, <1>4, DieKeepsIInv

\* Giving control back, by aco_yield or by a tail call of it.
LEMMA YieldFromKeepsIInv ==
  ASSUME IInv, cpu.co \in Co,
         NEW at \in [sp : -1..Room, ip : Address], InCodeOrCaught(at),
         YieldFrom(cpu.co, at),
         UNCHANGED <<coVars, stackVars, abort>>
  PROVE  IInv'
<1> USE DEF coVars, stackVars
<1>1. acosw(cpu.co, MainCo, at) /\ aco_gtls_co' = MainCo
  BY DEF YieldFrom
<1>2. /\ reg' \in [Co \cup {MainCo} -> [sp : -1..Room, ip : Address]]
      /\ cpu' \in [co : Co \cup {MainCo}, sp : -1..Room, ip : Address]
      /\ cpu'.co = MainCo /\ NoneIsWild'
  BY <1>1, SwitchKeepsRegisters
<1>3. \A d \in Co : d # cpu.co => reg'[d] = reg[d]
  BY <1>1 DEF acosw, IInv, TypeOK
<1>4. TypeOK'
  BY <1>1, <1>2 DEF IInv, TypeOK
<1>5. OwnerIsValid' /\ RunnerIsCurrent' /\ OwnAssertionsHold'
      /\ SavedIsThere' /\ LiveHaveStacks' /\ SlotsIntact'
  BY <1>1, <1>2 DEF IInv, OwnerIsValid, RunnerIsCurrent, OwnAssertionsHold,
                    SavedIsThere, LiveHaveStacks, SlotsIntact
<1>6. EvictedFramesFit'
  <2>1. owner[share_stack[cpu.co]] = cpu.co
    BY AcoAssumption DEF IInv, RunnerIsCurrent
  <2> QED
    BY <1>3, <2>1 DEF IInv, EvictedFramesFit
<1> QED
  BY <1>2, <1>4, <1>5, <1>6 DEF IInv

\* aco_yield leaves the frames where they are.
LEMMA YieldKeepsIInv ==
  ASSUME IInv, aco_yield
  PROVE  IInv'
<1>1. Running
  BY DEF aco_yield
<1>2. CASE aco_gtls_co \in {NULL, MainCo}
  BY <1>2, DieKeepsIInv DEF aco_yield, Assertions
<1>3. CASE aco_gtls_co \notin {NULL, MainCo}
  <2>1. aco_gtls_co = cpu.co /\ cpu.co \in Co
    BY <1>3 DEF IInv, TypeOK, RunnerIsCurrent
  <2>2. YieldFrom(cpu.co, Here) /\ UNCHANGED <<coVars, stackVars, abort>>
    BY <1>3, <2>1 DEF aco_yield
  <2> QED
    BY <1>1, <2>1, <2>2, HereIsInCode, YieldFromKeepsIInv
<1> QED
  BY <1>2, <1>3

\* After a tail call of aco_yield the coroutine goes on in the protector.
LEMMA TailYieldKeepsIInv ==
  ASSUME IInv, TailYield
  PROVE  IInv'
<1> DEFINE at == [sp |-> -1, ip |-> ReturnTarget(CurStack)]
<1>1. /\ cpu.co \in Co /\ YieldFrom(aco_gtls_co, at)
      /\ UNCHANGED <<coVars, stackVars, abort>>
  BY DEF TailYield
<1>2. aco_gtls_co = cpu.co /\ CurStack \in Stack
  BY <1>1, AcoAssumption DEF IInv, TypeOK, RunnerIsCurrent, LiveHaveStacks, CurStack
<1>3. ReturnTarget(CurStack) = "protector"
  BY <1>2 DEF IInv, SlotsIntact, ReturnTarget
<1>4. at \in [sp : -1..Room, ip : Address] /\ InCodeOrCaught(at)
  BY <1>3, AcoAssumption DEF Address, InCodeOrCaught
<1> QED
  BY <1>1, <1>2, <1>4, YieldFromKeepsIInv

\* aco_exit clears the owner field of the stack the coroutine had.
LEMMA ExitKeepsIInv ==
  ASSUME IInv, aco_exit
  PROVE  IInv'
<1> DEFINE c == cpu.co
           s == share_stack[c]
<1>1. /\ c \in Co /\ aco_gtls_co = c /\ c \in live /\ s \in Stack
      /\ owner[s] = c /\ Running
  BY AcoAssumption DEF aco_exit, IInv, TypeOK, RunnerIsCurrent, LiveHaveStacks
<1>2. /\ is_end' = [is_end EXCEPT ![c] = TRUE]
      /\ owner' = [owner EXCEPT ![s] = NULL]
      /\ align_validsz' = [align_validsz EXCEPT ![s] = 0]
      /\ acosw(c, MainCo, Here) /\ aco_gtls_co' = MainCo
      /\ UNCHANGED <<live, share_stack, save_stack, stacks, mem, abort>>
  BY <1>1 DEF aco_exit, Disown, YieldFrom
<1>3. /\ reg' \in [Co \cup {MainCo} -> [sp : -1..Room, ip : Address]]
      /\ cpu' \in [co : Co \cup {MainCo}, sp : -1..Room, ip : Address]
      /\ cpu'.co = MainCo /\ NoneIsWild'
  BY <1>1, <1>2, HereIsInCode, SwitchKeepsRegisters
<1>4. \A d \in Co : d # c => reg'[d] = reg[d]
  BY <1>2 DEF acosw, IInv, TypeOK
<1> HIDE DEF c, s
<1>5. TypeOK'
  BY <1>1, <1>2, <1>3 DEF IInv, TypeOK
<1>6. OwnerIsValid'
  <2>1. \A t \in Stack : t # s => owner[t] # c
    BY <1>1, AcoAssumption DEF IInv, OwnerIsValid, s
  <2> QED
    BY <1>1, <1>2, <2>1 DEF IInv, TypeOK, OwnerIsValid
<1>7. RunnerIsCurrent' /\ OwnAssertionsHold' /\ SavedIsThere'
      /\ LiveHaveStacks' /\ SlotsIntact'
  BY <1>2, <1>3 DEF IInv, RunnerIsCurrent, OwnAssertionsHold,
                    SavedIsThere, LiveHaveStacks, SlotsIntact
<1>8. EvictedFramesFit'
  <2>1. SUFFICES ASSUME NEW d \in live \cap Co, ~is_end'[d],
                        owner'[share_stack[d]] # d
                 PROVE  /\ save_stack[d].valid_sz = reg'[d].sp
                        /\ reg'[d].sp \in 0..(Limit - 1)
                        /\ reg'[d].sp <= save_stack[d].sz
    BY <1>2 DEF EvictedFramesFit
  <2>2. d # c
    BY <1>1, <1>2, <2>1 DEF IInv, TypeOK
  <2>3. owner[share_stack[d]] # d /\ ~is_end[d]
    BY <1>1, <1>2, <2>1, <2>2 DEF IInv, TypeOK, LiveHaveStacks
  <2> QED
    BY <1>4, <2>1, <2>2, <2>3 DEF IInv, EvictedFramesFit
<1> QED
  BY <1>3, <1>5, <1>6, <1>7, <1>8 DEF IInv

-----------------------------------------------------------------------------
(***************************************************************************)
(* The theorems.                                                           *)
(***************************************************************************)

\* Every step of every coroutine keeps the inductive invariant.
THEOREM NextKeepsIInv == IInv /\ [Next]_vars => IInv'
<1> SUFFICES ASSUME IInv, [Next]_vars PROVE IInv'
  OBVIOUS
<1>1. CASE UNCHANGED vars
  BY <1>1 DEF vars, coVars, stackVars, runVars, IInv, TypeOK, OwnerIsValid,
     RunnerIsCurrent, EvictedFramesFit, OwnAssertionsHold, LiveHaveStacks,
     SavedIsThere, SlotsIntact, NoneIsWild
<1>2. CASE CreateMain \/ DestroyMain
  BY <1>2, MainKeepsIInv
<1>3. CASE \E s \in Stack : aco_share_stack_new(s) \/ aco_share_stack_destroy(s)
  BY <1>3, StacksKeepIInv
<1>4. CASE \E c \in Co, s \in Stack, n \in SaveArgs : aco_create(c, s, n)
  BY <1>4, CreateKeepsIInv
<1>5. CASE \E c \in Co : aco_destroy(c)
  BY <1>5, DestroyKeepsIInv
<1>6. CASE \E c \in Co : aco_resume(c)
  BY <1>6, ResumeAbortsKeepsIInv, ResumeOwnerKeepsIInv, ResumeFreeKeepsIInv,
     ResumeEvictKeepsIInv DEF aco_resume
<1>7. CASE aco_yield \/ aco_exit \/ TailYield
  BY <1>7, YieldKeepsIInv, ExitKeepsIInv, TailYieldKeepsIInv
<1>8. CASE (\E w \in Word : Push(w)) \/ Pop \/ Return
  BY <1>8, WorkKeepsIInv
<1>9. CASE aco_funcp_protector \/ AllocFails
  BY <1>9, DieKeepsIInv DEF aco_funcp_protector, AllocFails, Assertions
<1>10. CASE Aborted
  BY <1>1, <1>10 DEF Aborted
<1> QED
  BY <1>1, <1>2, <1>3, <1>4, <1>5, <1>6, <1>7, <1>8, <1>9, <1>10 DEF Next

\* The inductive invariant holds in every reachable state.
THEOREM Invariance == Spec => []IInv
BY InitIInv, NextKeepsIInv, PTL DEF Spec

\* The fields of the model keep their types: sizes never go below zero, stack
\* pointers stay on their stack, saved words are words a program pushed.
THEOREM TypeCorrect == Spec => []TypeOK
<1>1. IInv => TypeOK
  BY DEF IInv
<1> QED
  BY <1>1, Invariance, PTL

\* The owner field of a share stack never dangles (aco.c:370, 426, 484 and
\* aco.h:213).
THEOREM OwnerNeverDangles == Spec => []OwnerIsValid
<1>1. IInv => OwnerIsValid
  BY DEF IInv
<1> QED
  BY <1>1, Invariance, PTL

\* aco_gtls_co names the coroutine that executes, which owns its stack.
THEOREM RunnerOwnsItsStack == Spec => []RunnerIsCurrent
<1>1. IInv => RunnerIsCurrent
  BY DEF IInv
<1> QED
  BY <1>1, Invariance, PTL

\* What is evicted fits the save stack and the share stack it must return to.
THEOREM EvictionIsSound == Spec => []EvictedFramesFit
<1>1. IInv => EvictedFramesFit
  BY DEF IInv
<1> QED
  BY <1>1, Invariance, PTL

\* The assertions about libaco's own bookkeeping never fail.
THEOREM BookkeepingIsSound == Spec => []OwnAssertionsHold
<1>1. IInv => OwnAssertionsHold
  BY DEF IInv
<1> QED
  BY <1>1, Invariance, PTL

\* A function that returns always lands in the protector.
THEOREM ReturnsAreCaught == Spec => []ReturnIsCaught
<1>1. IInv => ReturnIsCaught
  BY DEF IInv, TypeOK, NoneIsWild, InCodeOrCaught, ReturnIsCaught
<1> QED
  BY <1>1, Invariance, PTL

\* No step executes a coroutine that has called aco_exit or removes its mark.
THEOREM EndedNeverExecutes == Spec => EndIsFinal
<1>1. ASSUME IInv, [Next]_vars, NEW c \in Co, c \in live, is_end[c]
      PROVE  cpu'.co # c /\ (c \in live' => is_end'[c])
  <2>1. cpu.co # c
    BY <1>1, AcoAssumption DEF IInv, OwnerIsValid, RunnerIsCurrent, TypeOK,
                              LiveHaveStacks
  <2>2. CASE UNCHANGED <<live, is_end, cpu>>
    BY <1>1, <2>1, <2>2
  <2>3. CASE \E d \in Co : aco_resume(d)
    <3>1. PICK d \in Co : aco_resume(d)
      BY <2>3
    <3>2. CASE ResumeAborts(d)
      BY <1>1, <2>1, <3>2 DEF ResumeAborts, Die, coVars, runVars
    <3>3. CASE MayResume(d) /\ SwitchTo(d)
      BY <1>1, <3>3, ResumeFacts
    <3> QED
      BY <3>1, <3>2, <3>3 DEF aco_resume, ResumeOwner, ResumeFree, ResumeEvict
  <2>4. CASE aco_yield \/ aco_exit \/ TailYield
    <3>1. CASE \E a \in Assertions : Die(a)
      BY <1>1, <2>1, <3>1 DEF Die, coVars, runVars
    <3>2. CASE /\ \E at, d : acosw(d, MainCo, at)
               /\ \/ UNCHANGED is_end
                  \/ is_end' = [is_end EXCEPT ![aco_gtls_co] = TRUE]
      <4>1. cpu'.co = MainCo
        BY <3>2 DEF acosw
      <4>2. is_end \in [Co -> BOOLEAN]
        BY <1>1 DEF IInv, TypeOK
      <4>3. is_end'[c]
        BY <1>1, <3>2, <4>2
      <4> QED
        BY <1>1, <4>1, <4>3, AcoAssumption
    <3>3. CASE aco_yield
      BY <3>1, <3>2, <3>3 DEF aco_yield, YieldFrom, Assertions, coVars
    <3>4. CASE aco_exit
      BY <3>1, <3>2, <3>4 DEF aco_exit, YieldFrom, Assertions
    <3>5. CASE TailYield
      BY <3>2, <3>5 DEF TailYield, YieldFrom, coVars
    <3> QED
      BY <2>4, <3>3, <3>4, <3>5
  <2>5. CASE \E d \in Co, s \in Stack, n \in SaveArgs : aco_create(d, s, n)
    BY <1>1, <2>1, <2>5 DEF aco_create, IInv, TypeOK
  <2>6. CASE \E d \in Co : aco_destroy(d)
    BY <1>1, <2>1, <2>6 DEF aco_destroy, IInv, TypeOK
  <2>7. CASE \/ CreateMain \/ DestroyMain
             \/ \E s \in Stack : aco_share_stack_new(s) \/ aco_share_stack_destroy(s)
    BY <1>1, <2>1, <2>7 DEF CreateMain, DestroyMain, aco_share_stack_new,
       aco_share_stack_destroy, coVars, runVars
  <2>8. CASE (\E w \in Word : Push(w)) \/ Pop \/ Return
    BY <1>1, <2>1, <2>8 DEF Push, Pop, Return, coVars, IInv, TypeOK
  <2>9. CASE aco_funcp_protector \/ AllocFails
    BY <2>2, <2>9 DEF aco_funcp_protector, AllocFails, Die, coVars, runVars
  <2>10. CASE Aborted \/ UNCHANGED vars
    BY <2>2, <2>10 DEF Aborted, vars, coVars, runVars
  <2> QED
    BY <1>1, <2>3, <2>4, <2>5, <2>6, <2>7, <2>8, <2>9, <2>10 DEF Next
<1>2. IInv /\ [Next]_vars =>
        [\A c \in Co : c \in live /\ is_end[c] =>
           cpu'.co # c /\ (c \in live' => is_end'[c])]_vars
  BY <1>1
<1> QED
  BY <1>2, Invariance, PTL DEF Spec, EndIsFinal

-----------------------------------------------------------------------------
(***************************************************************************)
(* The refinement: module Aco implements module Coroutines, so that no     *)
(* program can tell that its coroutines share stacks. The status and the   *)
(* frames a coroutine shows are followed through each action; all but the  *)
(* coroutine that acts show the same before and after, although their      *)
(* frames may have moved.                                                  *)
(***************************************************************************)

\* What module Coroutines sees of the coroutines.
StatusView == [c \in Co |-> StatusOf(c)]
FramesView == [c \in Co |-> FramesOf(c)]

\* The frames of c when they lie on its share stack and d words are in use,
\* and when they lie in its save stack.
OnStack(c, d) == [i \in 1..d |-> mem[share_stack[c]][i]]
Evicted(c) == [i \in 1..save_stack[c].valid_sz |-> save_stack[c].buf[i]]

\* Nothing of coroutine d that can be seen changes.
Looks(d) == StatusOf(d)' = StatusOf(d) /\ FramesOf(d)' = FramesOf(d)

\* If all coroutines look the same, so do the views.
LEMMA AllLook ==
  ASSUME \A d \in Co : Looks(d)
  PROVE  StatusView' = StatusView /\ FramesView' = FramesView
BY DEF Looks, StatusView, FramesView

\* If all but c do, the views change at c only.
LEMMA OthersLook ==
  ASSUME NEW c \in Co, \A d \in Co \ {c} : Looks(d)
  PROVE  /\ StatusView' = [StatusView EXCEPT ![c] = StatusOf(c)']
         /\ FramesView' = [FramesView EXCEPT ![c] = FramesOf(c)']
BY DEF Looks, StatusView, FramesView

\* A coroutine whose fields, whose ownership and whose words in use are left
\* alone looks the same.
LEMMA Untouched ==
  ASSUME IInv, NEW d \in Co,
         d \in live' <=> d \in live,
         d \in live =>
           /\ share_stack'[d] = share_stack[d]
           /\ is_end'[d] = is_end[d]
           /\ save_stack'[d] = save_stack[d]
           /\ reg'[d] = reg[d]
           /\ owner'[share_stack[d]] = d <=> owner[share_stack[d]] = d
           /\ owner[share_stack[d]] = d =>
                mem'[share_stack[d]] = mem[share_stack[d]]
           /\ cpu'.co # d /\ cpu.co # d
  PROVE  Looks(d)
<1>1. CASE d \notin live
  BY <1>1 DEF Looks, StatusOf, FramesOf
<1>2. CASE d \in live
  <2>1. StatusOf(d)' = StatusOf(d)
    BY <1>2 DEF StatusOf
  <2>2. FramesOf(d)' = FramesOf(d)
    BY <1>2 DEF FramesOf
  <2> QED
    BY <2>1, <2>2 DEF Looks
<1> QED
  BY <1>1, <1>2

\* The frames of a coroutine that has not ended, by where they are.
LEMMA WhereFramesAre ==
  ASSUME NEW c \in Co, c \in live, ~is_end[c]
  PROVE  FramesOf(c) =
           IF owner[share_stack[c]] = c
           THEN OnStack(c, IF cpu.co = c THEN cpu.sp ELSE reg[c].sp)
           ELSE Evicted(c)
BY DEF FramesOf, OnStack, Evicted

-----------------------------------------------------------------------------
(***************************************************************************)
(* The running coroutine works on its stack.                               *)
(***************************************************************************)

\* The running coroutine owns its stack, and its frames are on it.
LEMMA RunnerFacts ==
  ASSUME IInv, Running, NEW c \in Co, cpu.co = c
  PROVE  /\ c \in live /\ c # MainCo /\ ~is_end[c]
         /\ aco_gtls_co = c
         /\ CurStack = share_stack[c] /\ CurStack \in Stack
         /\ owner[CurStack] = c
         /\ cpu.sp \in 0..Room
         /\ StatusOf(c) = "running"
         /\ FramesOf(c) = OnStack(c, cpu.sp)
<1>1. /\ c \in live /\ c # MainCo
      /\ aco_gtls_co = c /\ owner[CurStack] = c
      /\ CurStack = share_stack[c] /\ CurStack \in Stack
  BY AcoAssumption DEF IInv, TypeOK, RunnerIsCurrent, LiveHaveStacks, CurStack
<1>2. ~is_end[c]
  BY <1>1, AcoAssumption DEF IInv, OwnerIsValid
<1>3. cpu.sp \in 0..Room
  BY AcoAssumption DEF IInv, TypeOK, NoneIsWild, InCodeOrCaught, Running
<1>4. StatusOf(c) = "running"
  BY <1>1, <1>2 DEF StatusOf
<1>5. FramesOf(c) = OnStack(c, cpu.sp)
  BY <1>1, <1>2, WhereFramesAre
<1> QED
  BY <1>1, <1>2, <1>3, <1>4, <1>5

\* Work of the running coroutine changes words and its stack pointer only.
LEMMA OthersSeeNoWork ==
  ASSUME IInv, Running, NEW c \in Co, cpu.co = c, cpu'.co = c,
         \A t \in Stack \ {CurStack} : mem'[t] = mem[t],
         UNCHANGED <<coVars, owner, reg>>
  PROVE  /\ \A d \in Co \ {c} : Looks(d)
         /\ StatusOf(c)' = "running"
<1>1. /\ c \in live /\ c # MainCo /\ ~is_end[c]
      /\ owner[CurStack] = c
  BY RunnerFacts
<1>2. ASSUME NEW d \in Co \ {c}
      PROVE  Looks(d)
  <2>1. ASSUME d \in live, owner[share_stack[d]] = d
        PROVE  mem'[share_stack[d]] = mem[share_stack[d]]
    <3>1. share_stack[d] \in Stack
      BY <2>1 DEF IInv, TypeOK, LiveHaveStacks
    <3>2. share_stack[d] # CurStack
      BY <1>1, <1>2, <2>1
    <3> QED
      BY <3>1, <3>2
  <2> QED
    BY <1>2, <2>1, Untouched DEF coVars
<1>3. StatusOf(c)' = "running"
  BY <1>1 DEF StatusOf, coVars
<1> QED
  BY <1>2, <1>3

\* A status that is written again is no change.
LEMMA StatusStays ==
  ASSUME NEW c \in Co, StatusOf(c)' = StatusOf(c),
         \A d \in Co \ {c} : Looks(d)
  PROVE  StatusView' = StatusView
BY DEF Looks, StatusView

\* A push appends a word to the frames of the running coroutine and changes
\* nothing else that can be seen.
LEMMA PushAppends ==
  ASSUME IInv, NEW w \in Word, Push(w), NEW c \in Co, cpu.co = c
  PROVE  /\ cpu'.co = c /\ cpu'.sp = cpu.sp + 1 /\ abort' = abort
         /\ StatusOf(c) = "running" /\ StatusOf(c)' = "running"
         /\ FramesOf(c)' = Append(FramesOf(c), w)
         /\ \A d \in Co \ {c} : Looks(d)
<1> DEFINE n == cpu.sp
<1>1. Running /\ n < Room
      /\ mem' = [mem EXCEPT ![CurStack][n + 1] = w]
      /\ cpu' = [cpu EXCEPT !.sp = n + 1]
      /\ UNCHANGED <<coVars, owner, reg, abort>>
  BY DEF Push
<1>2. /\ c \in live /\ ~is_end[c] /\ owner[CurStack] = c
      /\ CurStack = share_stack[c] /\ CurStack \in Stack /\ n \in 0..Room
      /\ StatusOf(c) = "running" /\ FramesOf(c) = OnStack(c, n)
  BY <1>1, RunnerFacts
<1>3. /\ cpu'.co = c /\ cpu'.sp = n + 1
  BY <1>1 DEF IInv, TypeOK
<1>4. mem \in [Stack -> [0..Room -> Cell \cup {Protector}]]
  BY DEF IInv, TypeOK
<1>5. /\ \A d \in Co \ {c} : Looks(d)
      /\ StatusOf(c)' = StatusOf(c)
  <2>1. \A t \in Stack \ {CurStack} : mem'[t] = mem[t]
    BY <1>1, <1>4
  <2> QED
    BY <1>1, <1>2, <1>3, <2>1, OthersSeeNoWork
<1>6. FramesOf(c)' = [i \in 1..(n + 1) |-> mem'[CurStack][i]]
  BY <1>1, <1>2, <1>3 DEF FramesOf, coVars
<1>7. FramesOf(c)' = Append(FramesOf(c), w)
  <2> DEFINE m == mem[CurStack]
             f == [i \in 1..n |-> m[i]]
  <2>1. f = FramesOf(c)
    BY <1>2 DEF OnStack
  <2>2. mem'[CurStack] = [m EXCEPT ![n + 1] = w] /\ DOMAIN m = 0..Room
    BY <1>1, <1>2, <1>4
  <2>3. \A i \in 1..n : m[i] \in Cell \cup {Protector}
    BY <1>2, <1>4, AcoAssumption
  <2> HIDE DEF m
  <2>4. f \in Seq(Cell \cup {Protector}) /\ Len(f) = n
    BY <1>2, <2>3
  <2>5. Append(f, w) = [i \in 1..(n + 1) |-> IF i = n + 1 THEN w ELSE f[i]]
    BY <1>2, <2>4
  <2>6. \A i \in 1..(n + 1) :
          mem'[CurStack][i] = IF i = n + 1 THEN w ELSE f[i]
    <3>1. Room \in Nat /\ n \in Nat /\ n < Room
      BY <1>1, <1>2, AcoAssumption
    <3>2. \A i \in 1..(n + 1) : i \in 0..Room /\ (i # n + 1 => i \in 1..n)
      BY <3>1
    <3> HIDE DEF n
    <3> QED
      BY <2>2, <3>2
  <2> QED
    BY <1>6, <2>1, <2>5, <2>6
<1> QED
  BY <1>1, <1>2, <1>3, <1>5, <1>7

\* A push is work.
LEMMA PushIsWork ==
  ASSUME IInv, NEW w \in Word, Push(w), NEW c \in Co, cpu.co = c
  PROVE  Abstract!Work(c)
<1>1. /\ StatusView' = StatusView
      /\ FramesView' = [FramesView EXCEPT ![c] = Append(FramesOf(c), w)]
  BY PushAppends, OthersLook, StatusStays
<1>2. FramesView[c] = FramesOf(c)
  BY DEF FramesView
<1>3. cpu'.co = c /\ abort' = abort
  BY PushAppends
<1> QED
  BY <1>1, <1>2, <1>3 DEF Abstract!Work, StatusView, FramesView, Cell

\* A pop takes the last word away.
LEMMA PopIsWork ==
  ASSUME IInv, Pop, NEW c \in Co, cpu.co = c
  PROVE  Abstract!Work(c)
<1> DEFINE n == cpu.sp
<1>1. Running /\ n > 0
      /\ cpu' = [cpu EXCEPT !.sp = n - 1]
      /\ UNCHANGED <<coVars, owner, mem, reg, abort>>
  BY DEF Pop, stackVars
<1>2. /\ c \in live /\ ~is_end[c] /\ owner[CurStack] = c
      /\ CurStack = share_stack[c] /\ CurStack \in Stack /\ n \in 0..Room
      /\ StatusOf(c) = "running" /\ FramesOf(c) = OnStack(c, n)
  BY <1>1, RunnerFacts
<1>3. cpu'.co = c /\ cpu'.sp = n - 1
  BY <1>1 DEF IInv, TypeOK
<1>4. /\ \A d \in Co \ {c} : Looks(d)
      /\ StatusOf(c)' = StatusOf(c)
  BY <1>1, <1>2, <1>3, OthersSeeNoWork
<1>5. FramesOf(c)' = [i \in 1..(n - 1) |-> mem[CurStack][i]]
  BY <1>1, <1>2, <1>3 DEF FramesOf, coVars
<1>6. /\ FramesOf(c) # <<>>
      /\ FramesOf(c)' = SubSeq(FramesOf(c), 1, Len(FramesOf(c)) - 1)
  <2> DEFINE m == mem[CurStack]
             f == [i \in 1..n |-> m[i]]
  <2>1. f = FramesOf(c)
    BY <1>2 DEF OnStack
  <2>2. \A i \in 1..n : m[i] \in Cell \cup {Protector}
    <3>1. mem \in [Stack -> [0..Room -> Cell \cup {Protector}]]
      BY DEF IInv, TypeOK
    <3> QED
      BY <1>2, <3>1, AcoAssumption
  <2>3. n \in Nat /\ n > 0
    BY <1>1, <1>2, AcoAssumption
  <2> HIDE DEF m, n
  <2>4. f \in Seq(Cell \cup {Protector}) /\ Len(f) = n
    BY <2>2, <2>3
  <2>5. f # <<>>
    BY <2>3, <2>4
  <2>6. SubSeq(f, 1, n - 1) = [i \in 1..(n - 1) |-> m[i]]
    BY <2>3, <2>4
  <2> QED
    BY <1>5, <2>1, <2>4, <2>5, <2>6 DEF m
<1>7. /\ StatusView' = StatusView
      /\ FramesView' = [FramesView EXCEPT
                          ![c] = SubSeq(FramesOf(c), 1, Len(FramesOf(c)) - 1)]
  BY <1>1, <1>4, <1>6, OthersLook, StatusStays
<1>8. FramesView[c] = FramesOf(c)
  BY <1>1 DEF FramesView
<1> QED
  BY <1>1, <1>3, <1>6, <1>7, <1>8 DEF Abstract!Work, StatusView, FramesView

\* A return cannot be seen before the protector aborts the process.
LEMMA ReturnIsStutter ==
  ASSUME IInv, Return, NEW c \in Co, cpu.co = c
  PROVE  UNCHANGED Abstract!vars
<1>1. Running /\ cpu.sp = 0
      /\ cpu' = [cpu EXCEPT !.sp = -1, !.ip = ReturnTarget(CurStack)]
      /\ UNCHANGED <<coVars, owner, mem, reg, abort>>
  BY DEF Return, stackVars
<1>2. /\ c \in live /\ ~is_end[c] /\ owner[CurStack] = c
      /\ CurStack = share_stack[c]
      /\ StatusOf(c) = "running" /\ FramesOf(c) = OnStack(c, 0)
  BY <1>1, RunnerFacts
<1>3. cpu'.co = c /\ cpu'.sp = -1
  BY <1>1 DEF IInv, TypeOK
<1>4. /\ \A d \in Co \ {c} : Looks(d)
      /\ StatusOf(c)' = StatusOf(c)
  BY <1>1, <1>2, <1>3, OthersSeeNoWork
<1>5. FramesOf(c)' = FramesOf(c)
  BY <1>1, <1>2, <1>3 DEF FramesOf, OnStack, coVars
<1>6. \A d \in Co : Looks(d)
  BY <1>4, <1>5 DEF Looks
<1> QED
  BY <1>1, <1>3, <1>6, AllLook DEF Abstract!vars, StatusView, FramesView

-----------------------------------------------------------------------------
(***************************************************************************)
(* The running coroutine gives control back.                               *)
(***************************************************************************)

\* The frames stay where they are; only the others are not looked at.
LEMMA YieldFromIsYield ==
  ASSUME IInv, Running, NEW c \in Co, cpu.co = c,
         NEW at \in [sp : -1..Room, ip : Address],
         at.ip # "fp", at.sp = cpu.sp \/ (cpu.sp = 0 /\ at.sp = -1),
         YieldFrom(c, at),
         UNCHANGED <<coVars, stackVars, abort>>
  PROVE  Abstract!Yield(c)
<1>1. /\ reg' = [reg EXCEPT ![c] = at]
      /\ cpu'.co = MainCo
      /\ UNCHANGED <<live, share_stack, is_end, save_stack, owner, mem, abort>>
  BY DEF YieldFrom, acosw, coVars, stackVars
<1>2. /\ c \in live /\ ~is_end[c] /\ owner[share_stack[c]] = c /\ c # MainCo
      /\ FramesOf(c) = OnStack(c, cpu.sp)
  BY RunnerFacts
<1>3. reg'[c] = at /\ \A d \in Co \ {c} : reg'[d] = reg[d]
  BY <1>1 DEF IInv, TypeOK
<1>4. \A d \in Co \ {c} : Looks(d)
  BY <1>1, <1>3, Untouched, AcoAssumption
<1>5. StatusOf(c)' = "yielded"
  BY <1>1, <1>2, <1>3 DEF StatusOf
<1>6. FramesOf(c)' = FramesOf(c)
  <2>1. FramesOf(c)' = [i \in 1..at.sp |-> mem[share_stack[c]][i]]
    BY <1>1, <1>2, <1>3 DEF FramesOf
  <2> QED
    BY <1>2, <2>1 DEF OnStack
<1>7. StatusView' = [StatusView EXCEPT ![c] = "yielded"]
  BY <1>4, <1>5, OthersLook
<1>8. FramesView' = FramesView
  BY <1>4, <1>6 DEF Looks, FramesView
<1> QED
  BY <1>1, <1>7, <1>8 DEF Abstract!Yield, StatusView, FramesView

\* aco_yield by a coroutine.
LEMMA YieldIsYield ==
  ASSUME IInv, aco_yield
  PROVE  (\E c \in Co : Abstract!Yield(c)) \/ Die("yield_main_co")
<1>1. Running
  BY DEF aco_yield
<1>2. CASE aco_gtls_co \in {NULL, MainCo}
  BY <1>2 DEF aco_yield
<1>3. CASE aco_gtls_co \notin {NULL, MainCo}
  <2>1. PICK c \in Co : cpu.co = c /\ aco_gtls_co = c
    BY <1>3 DEF IInv, TypeOK, RunnerIsCurrent
  <2>2. YieldFrom(c, Here) /\ UNCHANGED <<coVars, stackVars, abort>>
    BY <1>3, <2>1 DEF aco_yield
  <2>3. /\ Here \in [sp : -1..Room, ip : Address]
        /\ Here.ip # "fp" /\ Here.sp = cpu.sp
    BY <1>1, HereIsInCode DEF Here
  <2> QED
    BY <1>1, <2>1, <2>2, <2>3, YieldFromIsYield
<1> QED
  BY <1>2, <1>3

\* An aco_yield that ends a function yields as well; what happens when the
\* coroutine is resumed is up to the protector.
LEMMA TailYieldIsYield ==
  ASSUME IInv, TailYield, NEW c \in Co, cpu.co = c
  PROVE  Abstract!Yield(c)
<1> DEFINE at == [sp |-> -1, ip |-> ReturnTarget(CurStack)]
<1>1. /\ Running /\ YieldFrom(aco_gtls_co, at)
      /\ cpu.sp = 0
      /\ UNCHANGED <<coVars, stackVars, abort>>
  BY DEF TailYield
<1>2. aco_gtls_co = c
  BY <1>1, RunnerFacts
<1>3. at \in [sp : -1..Room, ip : Address] /\ at.ip # "fp" /\ at.sp = -1
  BY AcoAssumption DEF Address, ReturnTarget
<1> HIDE DEF at
<1> QED
  BY <1>1, <1>2, <1>3, YieldFromIsYield

\* aco_exit: the coroutine ends and its frames are gone.
LEMMA ExitIsExit ==
  ASSUME IInv, aco_exit, NEW c \in Co, cpu.co = c
  PROVE  Abstract!Exit(c)
<1> DEFINE s == share_stack[c]
<1>1. Running
  BY DEF aco_exit
<1>2. /\ c \in live /\ ~is_end[c] /\ owner[s] = c /\ c # MainCo
      /\ aco_gtls_co = c /\ s \in Stack
  BY <1>1, RunnerFacts
<1>3. /\ is_end' = [is_end EXCEPT ![c] = TRUE]
      /\ owner' = [owner EXCEPT ![s] = NULL]
      /\ reg' = [reg EXCEPT ![c] = Here]
      /\ cpu'.co = MainCo
      /\ UNCHANGED <<live, share_stack, save_stack, mem, abort>>
  BY <1>2 DEF aco_exit, Disown, YieldFrom, acosw
<1>4. /\ is_end'[c] = TRUE
      /\ \A d \in Co \ {c} : is_end'[d] = is_end[d] /\ reg'[d] = reg[d]
  BY <1>1, <1>3 DEF IInv, TypeOK
<1>5. ASSUME NEW d \in Co \ {c}
      PROVE  Looks(d)
  <2>1. d \in live =>
          (owner'[share_stack[d]] = d <=> owner[share_stack[d]] = d)
    BY <1>2, <1>3, <1>5, AcoAssumption DEF IInv, TypeOK, LiveHaveStacks
  <2> QED
    BY <1>3, <1>4, <1>5, <2>1, Untouched, AcoAssumption
<1>6. StatusOf(c)' = "end" /\ FramesOf(c)' = <<>>
  BY <1>2, <1>3, <1>4 DEF StatusOf, FramesOf
<1>7. /\ StatusView' = [StatusView EXCEPT ![c] = "end"]
      /\ FramesView' = [FramesView EXCEPT ![c] = <<>>]
  BY <1>1, <1>5, <1>6, OthersLook
<1> QED
  BY <1>1, <1>3, <1>7 DEF Abstract!Exit, StatusView, FramesView

-----------------------------------------------------------------------------
(***************************************************************************)
(* Creating and destroying coroutines.                                     *)
(***************************************************************************)

\* A coroutine starts with nothing on its stack: an address that is handed
\* out again does not bring the frames of its former bearer along.
LEMMA CreateIsCreate ==
  ASSUME IInv, NEW c \in Co, NEW s \in Stack, NEW n \in SaveArgs,
         aco_create(c, s, n)
  PROVE  Abstract!Create(c)
<1> DEFINE sz == IF n = 0 THEN DefaultSave ELSE n
<1>1. /\ c \notin live /\ s \in stacks
      /\ live' = live \cup {c}
      /\ share_stack' = [share_stack EXCEPT ![c] = s]
      /\ is_end' = [is_end EXCEPT ![c] = FALSE]
      /\ reg' = [reg EXCEPT ![c] = [sp |-> 0, ip |-> "fp"]]
      /\ save_stack' = [save_stack EXCEPT ![c] =
                          [sz |-> sz, valid_sz |-> 0, buf |-> <<>>]]
      /\ UNCHANGED <<owner, mem, cpu, abort>>
  BY DEF aco_create, stackVars
<1> HIDE DEF sz
<1>2. /\ share_stack'[c] = s /\ is_end'[c] = FALSE
      /\ reg'[c].ip = "fp" /\ save_stack'[c].valid_sz = 0
  BY <1>1 DEF IInv, TypeOK
<1>3. cpu.co # c /\ owner[s] # c
  BY <1>1, AcoAssumption DEF IInv, RunnerIsCurrent, OwnerIsValid
<1>4. ASSUME NEW d \in Co \ {c}
      PROVE  Looks(d)
  <2>1. /\ share_stack'[d] = share_stack[d] /\ is_end'[d] = is_end[d]
        /\ reg'[d] = reg[d] /\ save_stack'[d] = save_stack[d]
        /\ d \in live' <=> d \in live
    BY <1>1, <1>4 DEF IInv, TypeOK
  <2>2. StatusOf(d)' = StatusOf(d)
    BY <1>1, <2>1 DEF StatusOf
  <2>3. FramesOf(d)' = FramesOf(d)
    BY <1>1, <2>1 DEF FramesOf
  <2> QED
    BY <2>2, <2>3 DEF Looks
<1>5. StatusOf(c) = "absent" /\ FramesOf(c) = <<>>
  BY <1>1 DEF StatusOf, FramesOf
<1>6. StatusOf(c)' = "init"
  BY <1>1, <1>2, <1>3 DEF StatusOf
<1>7. FramesOf(c)' = <<>>
  <2>1. FramesOf(c)' = [i \in 1..0 |-> save_stack'[c].buf[i]]
    BY <1>1, <1>2, <1>3 DEF FramesOf
  <2> QED
    BY <2>1
<1>8. StatusView' = [StatusView EXCEPT ![c] = "init"]
  BY <1>4, <1>6, OthersLook
<1>9. FramesView' = FramesView
  BY <1>4, <1>5, <1>7 DEF Looks, FramesView
<1> QED
  BY <1>1, <1>5, <1>8, <1>9 DEF Abstract!Create, StatusView, FramesView

\* A coroutine that is destroyed leaves the frames of all others alone.
LEMMA DestroyIsDestroy ==
  ASSUME IInv, NEW c \in Co, aco_destroy(c)
  PROVE  Abstract!Destroy(c)
<1> DEFINE s == share_stack[c]
<1>1. /\ c \in live /\ c # cpu.co
      /\ live' = live \ {c}
      /\ share_stack' = [share_stack EXCEPT ![c] = NULL]
      /\ is_end' = [is_end EXCEPT ![c] = FALSE]
      /\ reg' = [reg EXCEPT ![c] = [sp |-> 0, ip |-> "acosw"]]
      /\ save_stack' = [save_stack EXCEPT ![c] = NoSave]
      /\ UNCHANGED <<mem, cpu, abort>>
  BY DEF aco_destroy
<1>2. \A t \in Stack, d \in Co \ {c} : owner'[t] = d <=> owner[t] = d
  <2>1. CASE owner[s] = c
    <3>1. owner' = [owner EXCEPT ![s] = NULL]
      BY <2>1 DEF aco_destroy, DisownOnDestroy, Disown
    <3> QED
      BY <2>1, <3>1, AcoAssumption DEF IInv, TypeOK
  <2>2. CASE owner[s] # c
    BY <2>2 DEF aco_destroy, DisownOnDestroy
  <2> QED
    BY <2>1, <2>2
<1>3. ASSUME NEW d \in Co \ {c}
      PROVE  Looks(d)
  <2>1. /\ share_stack'[d] = share_stack[d] /\ is_end'[d] = is_end[d]
        /\ reg'[d] = reg[d] /\ save_stack'[d] = save_stack[d]
        /\ d \in live' <=> d \in live
    BY <1>1, <1>3 DEF IInv, TypeOK
  <2>2. d \in live =>
          (owner'[share_stack[d]] = d <=> owner[share_stack[d]] = d)
    BY <1>2, <1>3 DEF IInv, TypeOK, LiveHaveStacks
  <2>3. StatusOf(d)' = StatusOf(d)
    BY <1>1, <2>1 DEF StatusOf
  <2>4. FramesOf(d)' = FramesOf(d)
    BY <1>1, <2>1, <2>2 DEF FramesOf
  <2> QED
    BY <2>3, <2>4 DEF Looks
<1>4. StatusOf(c) \in {"init", "yielded", "end"}
  BY <1>1 DEF StatusOf
<1>5. StatusOf(c)' = "absent" /\ FramesOf(c)' = <<>>
  BY <1>1 DEF StatusOf, FramesOf
<1>6. /\ StatusView' = [StatusView EXCEPT ![c] = "absent"]
      /\ FramesView' = [FramesView EXCEPT ![c] = <<>>]
  BY <1>3, <1>5, OthersLook
<1> QED
  BY <1>1, <1>4, <1>6 DEF Abstract!Destroy, StatusView, FramesView

\* Share stacks and the main coroutine come and go unseen.
LEMMA StacksAreUnseen ==
  ASSUME IInv,
         \/ CreateMain \/ DestroyMain
         \/ \E s \in Stack : aco_share_stack_new(s) \/ aco_share_stack_destroy(s)
  PROVE  UNCHANGED Abstract!vars
<1>1. /\ UNCHANGED <<share_stack, is_end, save_stack, reg, cpu, abort>>
      /\ \A d \in Co : d \in live' <=> d \in live
  BY AcoAssumption DEF CreateMain, DestroyMain, aco_share_stack_new,
     aco_share_stack_destroy, coVars, stackVars, runVars, IInv, TypeOK
<1>2. ASSUME NEW d \in Co, d \in live
      PROVE  /\ owner'[share_stack[d]] = owner[share_stack[d]]
             /\ mem'[share_stack[d]] = mem[share_stack[d]]
  <2> DEFINE t == share_stack[d]
  <2>1. t \in stacks /\ t \in Stack
    BY <1>2 DEF IInv, TypeOK, LiveHaveStacks
  <2>2. owner \in [Stack -> Co \cup {NULL}] /\ DOMAIN mem = Stack
    BY DEF IInv, TypeOK
  <2>3. CASE CreateMain \/ DestroyMain
    BY <2>3 DEF CreateMain, DestroyMain, stackVars
  <2>4. ASSUME NEW s \in Stack, aco_share_stack_new(s)
        PROVE  owner'[t] = owner[t] /\ mem'[t] = mem[t]
    BY <2>1, <2>2, <2>4 DEF aco_share_stack_new
  <2>5. ASSUME NEW s \in Stack, aco_share_stack_destroy(s)
        PROVE  owner'[t] = owner[t] /\ mem'[t] = mem[t]
    BY <1>2, <2>1, <2>2, <2>5 DEF aco_share_stack_destroy
  <2> QED
    BY <2>3, <2>4, <2>5
<1>3. ASSUME NEW d \in Co
      PROVE  Looks(d)
  <2>1. StatusOf(d)' = StatusOf(d)
    BY <1>1 DEF StatusOf
  <2>2. FramesOf(d)' = FramesOf(d)
    BY <1>1, <1>2 DEF FramesOf
  <2> QED
    BY <2>1, <2>2 DEF Looks
<1> QED
  BY <1>1, <1>3, AllLook DEF Abstract!vars, StatusView, FramesView

-----------------------------------------------------------------------------
(***************************************************************************)
(* Resuming.                                                               *)
(***************************************************************************)

\* A resume that changes the frames of nobody is one of the abstract
\* specification. That it changes none is what the three lemmas that follow
\* show for its three paths.
LEMMA ResumeIsResume ==
  ASSUME IInv, NEW c \in Co, MayResume(c), SwitchTo(c),
         \A d \in Co : FramesOf(d)' = FramesOf(d)
  PROVE  Abstract!Resume(c)
<1>1. /\ c \in live /\ ~is_end[c] /\ cpu.co = MainCo
      /\ cpu'.co = c /\ \A d \in Co : reg'[d] = reg[d]
      /\ UNCHANGED <<live, share_stack, is_end, abort>>
  BY ResumeFacts
<1>2. c # MainCo /\ \A d \in Co : d # MainCo
  BY AcoAssumption
<1>3. StatusOf(c) \in {"init", "yielded"}
  BY <1>1, <1>2 DEF StatusOf
<1>4. StatusOf(c)' = "running"
  BY <1>1 DEF StatusOf
<1>5. \A d \in Co \ {c} : StatusOf(d)' = StatusOf(d)
  BY <1>1, <1>2 DEF StatusOf
<1>6. StatusView' = [StatusView EXCEPT ![c] = "running"]
  BY <1>4, <1>5 DEF StatusView
<1>7. FramesView' = FramesView
  BY DEF FramesView
<1> QED
  BY <1>1, <1>3, <1>6, <1>7 DEF Abstract!Resume, StatusView, FramesView

\* The coroutine still owns its share stack: its frames are where they were.
LEMMA ResumeOwnerIsResume ==
  ASSUME IInv, NEW c \in Co, ResumeOwner(c)
  PROVE  Abstract!Resume(c)
<1>1. /\ MayResume(c) /\ SwitchTo(c)
      /\ UNCHANGED <<save_stack, owner, mem>>
  BY DEF ResumeOwner, stackVars
<1>2. /\ cpu.co = MainCo /\ cpu'.co = c
      /\ cpu'.sp = reg[c].sp
      /\ \A d \in Co : reg'[d] = reg[d]
      /\ UNCHANGED <<live, share_stack, is_end>>
  BY <1>1, ResumeFacts DEF SwitchTo, acosw
<1>3. \A d \in Co : FramesOf(d)' = FramesOf(d)
  BY <1>1, <1>2, AcoAssumption DEF FramesOf
<1> QED
  BY <1>1, <1>3, ResumeIsResume

\* What was restored is what was evicted. The words above the restored ones
\* belong to nobody.
LEMMA RestoredIsEvicted ==
  ASSUME IInv, NEW c \in Co, c \in live, ~is_end[c],
         owner[share_stack[c]] # c,
         mem' = [mem EXCEPT ![share_stack[c]] = Restored(c, share_stack[c])],
         owner' = [owner EXCEPT ![share_stack[c]] = c],
         cpu'.co = c, cpu'.sp = reg[c].sp,
         UNCHANGED <<live, share_stack, is_end>>
  PROVE  FramesOf(c)' = FramesOf(c)
<1> DEFINE s == share_stack[c]
           v == save_stack[c].valid_sz
           buf == save_stack[c].buf
<1>1. s \in Stack /\ DOMAIN mem = Stack /\ DOMAIN owner = Stack
  BY DEF IInv, TypeOK, LiveHaveStacks
<1>2. v = reg[c].sp /\ v \in 0..Room /\ Room \in Nat
  BY AcoAssumption DEF IInv, EvictedFramesFit
<1>3. FramesOf(c) = [i \in 1..v |-> buf[i]]
  BY DEF FramesOf
<1>4. mem'[s] = Restored(c, s) /\ owner'[s] = c
  BY <1>1
<1>5. FramesOf(c)' = [i \in 1..v |-> Restored(c, s)[i]]
  <2>1. FramesOf(c)' = [i \in 1..cpu'.sp |-> mem'[s][i]]
    BY <1>4 DEF FramesOf
  <2> QED
    BY <1>2, <1>4, <2>1
<1>6. \A i \in 1..v : Restored(c, s)[i] = buf[i]
  <2>1. Restored(c, s) = [i \in 0..Room |-> IF i \in 1..v THEN buf[i] ELSE mem[s][i]]
    BY DEF Restored
  <2> HIDE DEF v, buf, s
  <2>2. \A i \in 1..v : i \in 0..Room
    BY <1>2
  <2> QED
    BY <2>1, <2>2
<1> QED
  BY <1>3, <1>5, <1>6

\* Coroutines other than the one that comes in and the one that is evicted.
LEMMA BystandersKeepFrames ==
  ASSUME IInv, NEW c \in Co, NEW s \in Stack, NEW d \in Co, d # c,
         owner[s] # d,
         mem' = [mem EXCEPT ![s] = Restored(c, s)],
         owner' = [owner EXCEPT ![s] = c],
         cpu.co # d, cpu'.co # d,
         reg'[d] = reg[d], save_stack'[d] = save_stack[d],
         UNCHANGED <<live, share_stack, is_end>>
  PROVE  FramesOf(d)' = FramesOf(d)
<1>1. CASE d \notin live \/ is_end[d]
  BY <1>1 DEF FramesOf
<1>2. CASE d \in live /\ ~is_end[d]
  <2> DEFINE t == share_stack[d]
  <2>1. t \in Stack /\ DOMAIN mem = Stack /\ DOMAIN owner = Stack
    BY <1>2 DEF IInv, TypeOK, LiveHaveStacks
  <2>2. owner'[t] = d <=> owner[t] = d
    BY <2>1
  <2>3. owner[t] = d => mem'[t] = mem[t]
    BY <2>1
  <2>4. FramesOf(d)' = IF owner'[t] = d
                       THEN [i \in 1..reg[d].sp |-> mem'[t][i]]
                       ELSE Evicted(d)
    BY <1>2 DEF FramesOf, Evicted
  <2>5. FramesOf(d) = IF owner[t] = d
                      THEN [i \in 1..reg[d].sp |-> mem[t][i]]
                      ELSE Evicted(d)
    BY <1>2 DEF FramesOf, Evicted
  <2> QED
    BY <2>2, <2>3, <2>4, <2>5
<1> QED
  BY <1>1, <1>2

\* Nobody owned the share stack.
LEMMA ResumeFreeIsResume ==
  ASSUME IInv, NEW c \in Co, ResumeFree(c)
  PROVE  Abstract!Resume(c)
<1> DEFINE s == share_stack[c]
<1>1. MayResume(c) /\ SwitchTo(c) /\ Occupy(c, s) /\ owner[s] = NULL
      /\ UNCHANGED save_stack
  BY DEF ResumeFree
<1>2. /\ s \in Stack /\ c \in live /\ ~is_end[c]
      /\ cpu.co = MainCo /\ cpu'.co = c
      /\ cpu'.sp = reg[c].sp
      /\ \A d \in Co : reg'[d] = reg[d]
      /\ UNCHANGED <<live, share_stack, is_end>>
  BY <1>1, ResumeFacts DEF SwitchTo, acosw
<1>3. /\ mem' = [mem EXCEPT ![s] = Restored(c, s)]
      /\ owner' = [owner EXCEPT ![s] = c]
  BY <1>1 DEF Occupy
<1>4. \A d \in Co : d # NULL /\ d # MainCo
  BY AcoAssumption
<1>5. FramesOf(c)' = FramesOf(c)
  BY <1>1, <1>2, <1>3, <1>4, RestoredIsEvicted
<1>6. \A d \in Co \ {c} : FramesOf(d)' = FramesOf(d)
  BY <1>1, <1>2, <1>3, <1>4, BystandersKeepFrames
<1> QED
  BY <1>1, <1>5, <1>6, ResumeIsResume

\* The owner is evicted with as many words as it had in use.
LEMMA SavedIsWhatWasUsed ==
  ASSUME IInv, NEW o \in Co, o \in live, ~is_end[o], NEW n \in Nat,
         owner[share_stack[o]] = o, cpu.co # o, cpu'.co # o,
         SpInBounds(o),
         save_stack'[o] = Saved(o, share_stack[o], n),
         owner'[share_stack[o]] # o,
         UNCHANGED <<live, share_stack, is_end>>
  PROVE  FramesOf(o)' = FramesOf(o)
<1> DEFINE s == share_stack[o]
           v == reg[o].sp
<1>1. v \in Nat
  BY DEF SpInBounds, IInv, TypeOK
<1>2. FramesOf(o) = [i \in 1..v |-> mem[s][i]]
  BY DEF FramesOf
<1>3. /\ save_stack'[o].valid_sz = v
      /\ v > 0 => save_stack'[o].buf = [i \in 1..v |-> mem[s][i]]
  BY DEF Saved
<1>4. FramesOf(o)' = [i \in 1..v |-> save_stack'[o].buf[i]]
  BY <1>3 DEF FramesOf
<1>5. \A i \in 1..v : save_stack'[o].buf[i] = mem[s][i]
  <2> HIDE DEF v, s
  <2>1. ASSUME NEW i \in 1..v
        PROVE  v > 0
    BY <1>1
  <2> QED
    BY <1>3, <2>1
<1> QED
  BY <1>2, <1>4, <1>5

\* Another coroutine owned the share stack.
LEMMA ResumeEvictIsResume ==
  ASSUME IInv, NEW c \in Co, ResumeEvict(c)
  PROVE  Abstract!Resume(c)
<1> DEFINE s == share_stack[c]
<1>1. /\ MayResume(c) /\ SwitchTo(c) /\ Occupy(c, s)
      /\ owner[s] # c /\ owner[s] # NULL
  BY DEF ResumeEvict
<1>2. /\ s \in Stack /\ c \in live /\ ~is_end[c]
      /\ cpu.co = MainCo /\ cpu'.co = c
      /\ cpu'.sp = reg[c].sp
      /\ \A d \in Co : reg'[d] = reg[d]
      /\ UNCHANGED <<live, share_stack, is_end>>
  BY <1>1, ResumeFacts DEF SwitchTo, acosw
<1>3. /\ mem' = [mem EXCEPT ![s] = Restored(c, s)]
      /\ owner' = [owner EXCEPT ![s] = c]
  BY <1>1 DEF Occupy
<1>4. \A d \in Co : d # MainCo
  BY AcoAssumption
<1>5. PICK o \in Co : owner[s] = o
  BY <1>1, <1>2 DEF IInv, TypeOK
<1>6. /\ o # c /\ o \in live /\ share_stack[o] = s /\ ~is_end[o]
      /\ SpInBounds(o)
  <2>1. o # c /\ o # NULL /\ o \in live /\ share_stack[o] = s /\ ~is_end[o]
    BY <1>1, <1>2, <1>5 DEF IInv, OwnerIsValid
  <2>2. SpInBounds(o)
    BY <1>1, <1>5, <2>1 DEF MayResume, FailedAssertion
  <2> QED
    BY <2>1, <2>2
<1>7. PICK n \in SaveSizes(o, reg[o].sp) :
        save_stack' = [save_stack EXCEPT ![o] = Saved(o, s, n)]
  BY <1>5 DEF ResumeEvict
<1>8. n \in Nat
  <2>1. reg[o].sp \in Nat
    BY <1>6 DEF SpInBounds, IInv, TypeOK
  <2> QED
    BY <1>6, <2>1, SaveSizesSuffice
<1>9. /\ save_stack'[o] = Saved(o, s, n)
      /\ \A d \in Co : d # o => save_stack'[d] = save_stack[d]
  BY <1>6, <1>7 DEF IInv, TypeOK
<1>10. owner'[s] = c
  BY <1>2, <1>3 DEF IInv, TypeOK
<1> HIDE DEF s
<1>11. FramesOf(o)' = FramesOf(o)
  BY <1>1, <1>2, <1>5, <1>4, <1>6, <1>8, <1>9, <1>10, SavedIsWhatWasUsed
<1>12. FramesOf(c)' = FramesOf(c)
  BY <1>1, <1>2, <1>3, <1>6, <1>9, RestoredIsEvicted DEF s
<1>13. \A d \in Co \ {c, o} : FramesOf(d)' = FramesOf(d)
  BY <1>2, <1>3, <1>5, <1>4, <1>9, BystandersKeepFrames
<1> QED
  BY <1>1, <1>11, <1>12, <1>13, ResumeIsResume

-----------------------------------------------------------------------------
(***************************************************************************)
(* The refinement.                                                         *)
(***************************************************************************)

\* A failed assertion ends the process with every stack as it was.
LEMMA DieIsAbort ==
  ASSUME NEW a \in Assertions, Die(a), abort = "none"
  PROVE  Abstract!Next
<1>1. abort' # "none"
  BY DEF Die, Assertions
<1>2. UNCHANGED <<live, share_stack, is_end, save_stack, owner, mem, reg, cpu>>
  BY DEF Die, coVars, stackVars, runVars
<1>3. \A d \in Co : Looks(d)
  BY <1>2 DEF Looks, StatusOf, FramesOf
<1> QED
  BY <1>1, <1>2, <1>3, AllLook
     DEF Abstract!Next, Abstract!Abort, StatusView, FramesView

\* What the library does as long as the process lives is a step of the
\* abstract specification or nothing that can be seen.
LEMMA LivingStep ==
  ASSUME abort = "none", NEW c \in Co,
         \/ Abstract!Create(c) \/ Abstract!Resume(c) \/ Abstract!Yield(c)
         \/ Abstract!Exit(c) \/ Abstract!Work(c) \/ Abstract!Destroy(c)
  PROVE  Abstract!Next
BY DEF Abstract!Next

\* A thread that has called nothing of libaco yet has no coroutines.
LEMMA InitRefines == Init => Abstract!Init
<1> SUFFICES ASSUME Init PROVE Abstract!Init
  OBVIOUS
<1>1. \A d \in Co : StatusOf(d) = "absent" /\ FramesOf(d) = <<>>
  BY DEF Init, StatusOf, FramesOf
<1>2. cpu.co = MainCo /\ abort = "none"
  BY DEF Init
<1> QED
  BY <1>1, <1>2 DEF Abstract!Init

\* Each call of the library, each path of aco_resume and each instruction of
\* the program is a step of the abstract specification or a stutter.
THEOREM StepRefines == IInv /\ [Next]_vars => [Abstract!Next]_(Abstract!vars)
<1> SUFFICES ASSUME IInv, [Next]_vars
             PROVE  Abstract!Next \/ UNCHANGED Abstract!vars
  OBVIOUS
<1>1. CASE UNCHANGED vars
  <2>1. \A d \in Co : Looks(d)
    BY <1>1 DEF vars, coVars, stackVars, runVars, Looks, StatusOf, FramesOf
  <2> QED
    BY <1>1, <2>1, AllLook DEF vars, runVars, Abstract!vars, StatusView, FramesView
<1>2. CASE \/ CreateMain \/ DestroyMain
           \/ \E s \in Stack : aco_share_stack_new(s) \/ aco_share_stack_destroy(s)
  BY <1>2, StacksAreUnseen
<1>3. ASSUME NEW c \in Co, NEW s \in Stack, NEW n \in SaveArgs,
             aco_create(c, s, n)
      PROVE  Abstract!Next
  BY <1>3, CreateIsCreate, LivingStep DEF aco_create, Running
<1>4. ASSUME NEW c \in Co, aco_destroy(c)
      PROVE  Abstract!Next
  BY <1>4, DestroyIsDestroy, LivingStep DEF aco_destroy, Running
<1>5. ASSUME NEW c \in Co, aco_resume(c)
      PROVE  Abstract!Next
  <2>1. CASE ResumeAborts(c)
    <3>1. abort = "none" /\ FailedAssertion(c) \in Assertions
          /\ Die(FailedAssertion(c))
      BY <2>1 DEF ResumeAborts, CanCallResume, Running, FailedAssertion, Assertions
    <3> QED
      BY <3>1, DieIsAbort
  <2>2. CASE ResumeOwner(c)
    BY <2>2, ResumeOwnerIsResume, LivingStep
       DEF ResumeOwner, MayResume, CanCallResume, Running
  <2>3. CASE ResumeFree(c)
    BY <2>3, ResumeFreeIsResume, LivingStep
       DEF ResumeFree, MayResume, CanCallResume, Running
  <2>4. CASE ResumeEvict(c)
    BY <2>4, ResumeEvictIsResume, LivingStep
       DEF ResumeEvict, MayResume, CanCallResume, Running
  <2> QED
    BY <1>5, <2>1, <2>2, <2>3, <2>4 DEF aco_resume
<1>6. CASE aco_yield
  <2>1. abort = "none"
    BY <1>6 DEF aco_yield, Running
  <2> QED
    BY <1>6, <2>1, YieldIsYield, LivingStep, DieIsAbort DEF Assertions
<1>7. CASE aco_exit \/ TailYield
  <2>1. PICK c \in Co : cpu.co = c
    BY <1>7 DEF aco_exit, TailYield
  <2>2. abort = "none"
    BY <1>7 DEF aco_exit, TailYield, Running
  <2> QED
    BY <1>7, <2>1, <2>2, ExitIsExit, TailYieldIsYield, LivingStep
<1>8. CASE (\E w \in Word : Push(w)) \/ Pop \/ Return
  <2>1. PICK c \in Co : cpu.co = c
    BY <1>8 DEF Push, Pop, Return
  <2>2. abort = "none"
    BY <1>8 DEF Push, Pop, Return, Running
  <2> QED
    BY <1>8, <2>1, <2>2, PushIsWork, PopIsWork, ReturnIsStutter, LivingStep
<1>9. CASE aco_funcp_protector \/ AllocFails
  BY <1>9, DieIsAbort DEF aco_funcp_protector, AllocFails, Running, Assertions
<1>10. CASE Aborted
  BY <1>1, <1>10 DEF Aborted
<1> QED
  BY <1>1, <1>2, <1>3, <1>4, <1>5, <1>6, <1>7, <1>8, <1>9, <1>10 DEF Next

\* The copies cannot be observed: for any number of coroutines and share
\* stacks, a program sees coroutines that each have a stack of their own.
THEOREM RefinesCoroutines == Spec => ImplementsCoroutines
BY InitRefines, StepRefines, Invariance, PTL
   DEF Spec, ImplementsCoroutines, Abstract!Spec
=============================================================================
