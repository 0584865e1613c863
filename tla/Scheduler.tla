----------------------------- MODULE Scheduler -----------------------------
(***************************************************************************)
(* The scheduler of test_aco_tutorial_6.c, a program on top of module Aco: *)
(* coroutines with one share stack are resumed in turn until all of them   *)
(* have ended. Their function co_fp0 keeps its two local variables on the  *)
(* share stack (word 1 is loop_ct, word 2 is ct), so that it counts right  *)
(* only if the library puts its frame back each time.                      *)
(***************************************************************************)
EXTENDS Aco, FiniteSets

CONSTANTS
  Loops   \* values of the argument of co_fp0, rand() % 1000 in the program

\* There are coroutines to schedule. The locals of co_fp0 hold all it counts,
\* and both fit on the share stack.
ASSUME SchedulerAssumption ==
  /\ IsFiniteSet(Co) /\ Co # {}
  /\ Loops \subseteq Nat
  /\ \A n \in Loops : 0..n \subseteq Word
  /\ Limit >= 3
  /\ 0 \in SaveArgs

VARIABLES
  pc,       \* where main() is
  coarray,  \* the coroutines by index, NULL once destroyed
  ct,       \* the local variables of main()
  null_ct,
  arg,      \* co->arg
  at,       \* where the co_fp0 of each coroutine is
  resumes   \* history: how often each coroutine was resumed

mainVars == <<pc, coarray, ct, null_ct>>
coFpVars == <<arg, at>>
allVars  == <<vars, mainVars, coFpVars, resumes>>

co_amount == Cardinality(Co)
Index     == 0..(co_amount - 1)

SchedInit ==
  /\ Init
  /\ pc = "main_co"
  /\ coarray = [i \in Index |-> NULL]
  /\ ct = 0 /\ null_ct = 0
  /\ arg = [c \in Co |-> 0]
  /\ at = [c \in Co |-> "entry"]
  /\ resumes = [c \in Co |-> 0]

MainAt(label) == cpu.co = MainCo /\ abort = "none" /\ pc = label
Goto(label)   == pc' = label

-----------------------------------------------------------------------------
(***************************************************************************)
(* main().                                                                 *)
(***************************************************************************)
SetUp ==
  /\ \/ MainAt("main_co") /\ CreateMain /\ Goto("sstk")
     \/ MainAt("sstk") /\ Goto("create") /\ \E s \in Stack : aco_share_stack_new(s)
  /\ UNCHANGED <<coarray, ct, null_ct, coFpVars, resumes>>

CreateNext ==
  /\ MainAt("create")
  /\ IF ct < co_amount
     THEN /\ \E c \in Co, s \in stacks, n \in Loops :
               /\ aco_create(c, s, 0)
               /\ coarray' = [coarray EXCEPT ![ct] = c]
               /\ arg' = [arg EXCEPT ![c] = n]
          /\ ct' = ct + 1
          /\ UNCHANGED pc
     ELSE /\ ct' = 0 /\ Goto("scan")
          /\ UNCHANGED <<vars, coarray, arg>>
  /\ UNCHANGED <<null_ct, at, resumes>>

\* Mutant: the inner loop starts over with the first coroutine each time.
StartOver(i) == 0

NextIndex(i) == IF i + 1 < co_amount THEN i + 1 ELSE 0

ResumeNext ==
  /\ MainAt("scan")
  /\ coarray[ct] # NULL
  /\ aco_resume(coarray[ct])
  /\ resumes' = [resumes EXCEPT ![coarray[ct]] = @ + 1]
  /\ Goto("resumed")
  /\ UNCHANGED <<coarray, ct, null_ct, coFpVars>>

\* Mutant: finished coroutines are counted over the whole run.
KeepNullCt == null_ct

\* null_ct counts the empty places seen in a row.
NewNullCt == 0

\* Mutant: an ended coroutine is dropped without being destroyed.
DropEnded ==
  IF is_end[coarray[ct]]
  THEN coarray' = [coarray EXCEPT ![ct] = NULL] /\ UNCHANGED vars
  ELSE UNCHANGED <<vars, coarray>>

DestroyEnded ==
  IF is_end[coarray[ct]]
  THEN /\ aco_destroy(coarray[ct])
       /\ coarray' = [coarray EXCEPT ![ct] = NULL]
  ELSE UNCHANGED <<vars, coarray>>

\* Back from aco_resume.
AfterResume ==
  /\ MainAt("resumed")
  /\ null_ct' = NewNullCt
  /\ DestroyEnded
  /\ ct' = NextIndex(ct)
  /\ Goto("scan")
  /\ UNCHANGED <<coFpVars, resumes>>

SkipNull ==
  /\ MainAt("scan")
  /\ coarray[ct] = NULL
  /\ null_ct' = null_ct + 1
  /\ IF null_ct + 1 >= co_amount
     THEN ct' = 0 /\ Goto("END")
     ELSE ct' = NextIndex(ct) /\ UNCHANGED pc
  /\ UNCHANGED <<vars, coarray, coFpVars, resumes>>

\* The assertion at END, and what follows it.
CleanUp ==
  /\ \/ /\ MainAt("END") /\ ct < co_amount
        /\ ct' = ct + 1
        /\ IF coarray[ct] = NULL THEN UNCHANGED pc ELSE Goto("failed")
        /\ UNCHANGED vars
     \/ /\ MainAt("END") /\ ct = co_amount
        /\ Goto("destroy_main")
        /\ \E s \in stacks : aco_share_stack_destroy(s)
        /\ UNCHANGED ct
     \/ MainAt("destroy_main") /\ DestroyMain /\ Goto("return") /\ UNCHANGED ct
  /\ UNCHANGED <<coarray, null_ct, coFpVars, resumes>>

-----------------------------------------------------------------------------
(***************************************************************************)
(* co_fp0.                                                                 *)
(***************************************************************************)
CoAt(label)    == abort = "none" /\ cpu.co \in Co /\ at[cpu.co] = label
CoGoto(label)  == at' = [at EXCEPT ![cpu.co] = label]
Local(i)       == mem[CurStack][i]

Enter ==
  /\ CoAt("entry")
  /\ \/ cpu.sp = 0 /\ Push(arg[cpu.co]) /\ UNCHANGED at
     \/ cpu.sp = 1 /\ Push(0) /\ CoGoto("while")
  /\ UNCHANGED <<mainVars, arg, resumes>>

While ==
  /\ CoAt("while")
  /\ IF Local(2) < Local(1)
     THEN aco_yield /\ CoGoto("ct++")
     ELSE aco_exit /\ UNCHANGED at
  /\ UNCHANGED <<mainVars, arg, resumes>>

Increment ==
  /\ CoAt("ct++")
  /\ mem' = [mem EXCEPT ![CurStack][2] = @ + 1]
  /\ CoGoto("while")
  /\ UNCHANGED <<coVars, stacks, owner, align_validsz, runVars, abort,
                 mainVars, arg, resumes>>

-----------------------------------------------------------------------------
Step ==
  \/ SetUp \/ CreateNext \/ ResumeNext \/ AfterResume \/ SkipNull \/ CleanUp
  \/ Enter \/ While \/ Increment

\* The program ends, or dies for want of memory.
OutOfMemory == AllocFails /\ UNCHANGED <<mainVars, coFpVars, resumes>>
Ended == (pc \in {"return", "failed"} \/ abort # "none") /\ UNCHANGED allVars

SchedNext == Step \/ OutOfMemory \/ Ended

\* The operating system schedules the thread again and again.
SchedSpec == SchedInit /\ [][SchedNext]_allVars /\ WF_allVars(Step)

-----------------------------------------------------------------------------
\* Every coroutine runs to its end and the program to its last statement,
\* unless memory runs out: the scheduler neither starves a coroutine nor
\* misses that all have ended.
Completes == <>(pc = "return" \/ abort = "alloc")

\* None of the library's assertions fails in this program, nor does the one
\* at END: all places are empty when null_ct has reached co_amount.
NoAssertionFails == abort \in {"none", "alloc"} /\ pc # "failed"

\* A coroutine that has ended was resumed once for each of its yields and
\* once to start: its counter survived every other coroutine's use of the
\* share stack.
ResumedAsAsked ==
  \A c \in live \cap Co : is_end[c] => resumes[c] = arg[c] + 1

\* Between two coroutines that both go on, the one with the lower index is
\* ahead by at most one turn.
TakeTurns ==
  \A i, j \in Index :
    i < j /\ coarray[i] # NULL /\ coarray[j] # NULL /\ pc # "create"
      => resumes[coarray[i]] - resumes[coarray[j]] \in {0, 1}
=============================================================================
