-------------------------- MODULE SchedulerProofs --------------------------
(***************************************************************************)
(* Proofs about module Scheduler, for any number of coroutines and loops.  *)
(* They see the coroutines only as module Coroutines does: that the frames *)
(* of each stay what they were while others use the share stack is what    *)
(* the lemmas of AcoProofs say of each call of the library.                *)
(***************************************************************************)
EXTENDS Scheduler, AcoProofs, FiniteSetTheorems

\* What co_fp0 of c has on its stack, by where it is. A coroutine that waits
\* for its turn in the loop has been resumed once more than it has counted.
Frame(c, k) == FramesOf(c) = <<arg[c], k>>

Runs(c) ==
  \/ /\ at[c] = "entry" /\ resumes[c] = 1
     /\ FramesOf(c) = <<>> \/ FramesOf(c) = <<arg[c]>>
  \/ at[c] = "while" /\ \E k \in 0..arg[c] : Frame(c, k) /\ resumes[c] = k + 1
  \/ at[c] = "ct++" /\ \E k \in 0..arg[c] :
                         Frame(c, k) /\ k < arg[c] /\ resumes[c] = k + 2

Waits(c) ==
  /\ at[c] = "ct++"
  /\ \E k \in 0..arg[c] : Frame(c, k) /\ k < arg[c] /\ resumes[c] = k + 1

Counts(c) ==
  /\ StatusOf(c) # "absent" => arg[c] \in Loops
  /\ StatusOf(c) = "init" =>
       at[c] = "entry" /\ FramesOf(c) = <<>> /\ resumes[c] = 0
  /\ StatusOf(c) = "running" => Runs(c)
  /\ StatusOf(c) = "yielded" => Waits(c)
  /\ StatusOf(c) = "end" => resumes[c] = arg[c] + 1

SchedTypeOK ==
  /\ pc \in {"main_co", "sstk", "create", "scan", "resumed",
             "END", "destroy_main", "return"}
  /\ coarray \in [Index -> Co \cup {NULL}]
  /\ ct \in Nat /\ null_ct \in Nat
  /\ arg \in [Co -> Nat]
  /\ at \in [Co -> {"entry", "while", "ct++"}]
  /\ resumes \in [Co -> Nat]
  /\ abort \in {"none", "alloc"}

\* No coroutine has two places.
Distinct ==
  \A i, j \in Index : coarray[i] # NULL /\ coarray[i] = coarray[j] => i = j

\* Code of a coroutine executes only below the aco_resume of main().
InTurn ==
  cpu.co # MainCo => pc = "resumed" /\ ct \in Index /\ coarray[ct] = cpu.co

\* Until all are created, places are filled one after the other.
Filling ==
  pc \in {"main_co", "sstk", "create"} =>
    /\ null_ct = 0
    /\ ct <= co_amount
    /\ pc # "create" => ct = 0
    /\ \A i \in Index : IF i < ct THEN /\ coarray[i] # NULL
                                       /\ StatusOf(coarray[i]) = "init"
                                  ELSE coarray[i] = NULL
    /\ \A c \in Co : at[c] = "entry" /\ resumes[c] = 0

\* Whether place i had its turn in this round.
Turn(i) == IF i < ct \/ (i = ct /\ pc = "resumed") THEN 1 ELSE 0

\* Those that go on have been resumed equally often, but for the turn they
\* had in this round.
EvenRounds ==
  \A i, j \in Index : coarray[i] # NULL /\ coarray[j] # NULL =>
    resumes[coarray[i]] + Turn(j) = resumes[coarray[j]] + Turn(i)

\* How many places ago the scan has visited place i.
Ago(i) == IF i < ct THEN ct - i ELSE ct + co_amount - i

\* The last null_ct places visited are empty.
EmptySeen == \A i \in Index : Ago(i) <= null_ct => coarray[i] = NULL

Scanning ==
  pc \in {"scan", "resumed"} =>
    /\ ct \in Index
    /\ \A i \in Index :
         coarray[i] # NULL /\ StatusOf(coarray[i]) = "end" =>
           pc = "resumed" /\ i = ct
    /\ EvenRounds
    /\ pc = "scan" => EmptySeen
    /\ pc = "resumed" => coarray[ct] # NULL

Emptied ==
  pc \in {"END", "destroy_main", "return"} =>
    \A i \in Index : coarray[i] = NULL

\* The inductive invariant.
SchedInv ==
  /\ SchedTypeOK
  /\ \A c \in Co : Counts(c)
  /\ Distinct
  /\ InTurn
  /\ Filling
  /\ Scanning
  /\ Emptied

-----------------------------------------------------------------------------
(***************************************************************************)
(* What the calls of the library show of the coroutines.                   *)
(***************************************************************************)

\* Only c shows something else than before, namely st and fr.
Shows(c, st, fr) ==
  \A d \in Co : /\ StatusOf(d)' = IF d = c THEN st ELSE StatusOf(d)
                /\ FramesOf(d)' = IF d = c THEN fr ELSE FramesOf(d)

\* There is a first place.
LEMMA AmountIsPositive ==
  /\ co_amount \in Nat /\ co_amount > 0
  /\ 0 \in Index
  /\ \A i \in Index : i \in Nat /\ i < co_amount
BY SchedulerAssumption, FS_CardinalityType, FS_EmptySet DEF co_amount, Index

\* A new coroutine has nothing on its stack.
LEMMA CreateShows ==
  ASSUME IInv, NEW c \in Co, NEW s \in stacks, aco_create(c, s, 0)
  PROVE  /\ StatusOf(c) = "absent"
         /\ Shows(c, "init", <<>>)
         /\ cpu' = cpu /\ abort' = abort
<1>1. s \in Stack /\ 0 \in SaveArgs
  BY SchedulerAssumption DEF IInv, TypeOK
<1>2. Abstract!Create(c)
  BY <1>1, CreateIsCreate
<1>3. StatusOf(c) = "absent" /\ FramesOf(c) = <<>>
  BY DEF aco_create, StatusOf, FramesOf
<1> QED
  BY <1>2, <1>3 DEF Abstract!Create, Shows, aco_create

\* A coroutine that is destroyed shows nothing any more.
LEMMA DestroyShows ==
  ASSUME IInv, NEW c \in Co, aco_destroy(c)
  PROVE  /\ Shows(c, "absent", <<>>)
         /\ cpu' = cpu /\ abort' = abort
<1>1. Abstract!Destroy(c)
  BY DestroyIsDestroy
<1> QED
  BY <1>1 DEF Abstract!Destroy, Shows, aco_destroy

\* Making and unmaking share stacks and the main coroutine shows nothing.
LEMMA StacksShowNothing ==
  ASSUME IInv,
         \/ CreateMain \/ DestroyMain
         \/ \E s \in Stack : aco_share_stack_new(s) \/ aco_share_stack_destroy(s)
  PROVE  /\ \A d \in Co : Looks(d)
         /\ cpu' = cpu /\ abort' = abort
<1>1. UNCHANGED Abstract!vars
  BY StacksAreUnseen
<1>2. cpu' = cpu /\ abort' = abort
  BY DEF CreateMain, DestroyMain, aco_share_stack_new, aco_share_stack_destroy,
     runVars
<1> QED
  BY <1>1, <1>2 DEF Abstract!vars, Looks

\* A coroutine that is resumed finds its frames, wherever they were.
LEMMA ResumeShows ==
  ASSUME IInv, NEW c \in Co, aco_resume(c), FailedAssertion(c) = "none"
  PROVE  /\ StatusOf(c) \in {"init", "yielded"}
         /\ Shows(c, "running", FramesOf(c))
         /\ cpu'.co = c /\ abort' = abort
<1>1. Abstract!Resume(c)
  BY ResumeOwnerIsResume, ResumeFreeIsResume, ResumeEvictIsResume
     DEF aco_resume, ResumeAborts
<1>2. abort' = abort
  BY DEF aco_resume, ResumeAborts, ResumeOwner, ResumeFree, ResumeEvict, SwitchTo
<1> QED
  BY <1>1, <1>2 DEF Abstract!Resume, Shows

\* A coroutine that yields keeps its frames.
LEMMA YieldShows ==
  ASSUME IInv, aco_yield, NEW c \in Co, cpu.co = c
  PROVE  /\ Shows(c, "yielded", FramesOf(c))
         /\ cpu'.co = MainCo /\ abort' = abort
<1>1. /\ aco_gtls_co = c /\ c \notin {NULL, MainCo}
  BY AcoAssumption, RunnerFacts DEF aco_yield
<1>2. abort' = abort /\ abort = "none"
  BY <1>1 DEF aco_yield, Running
<1>3. PICK d \in Co : Abstract!Yield(d)
  BY <1>2, YieldIsYield DEF Die
<1>4. d = c
  BY <1>3 DEF Abstract!Yield
<1> QED
  BY <1>2, <1>3, <1>4 DEF Abstract!Yield, Shows

\* A coroutine that exits has ended.
LEMMA ExitShows ==
  ASSUME IInv, aco_exit, NEW c \in Co, cpu.co = c
  PROVE  /\ Shows(c, "end", <<>>)
         /\ cpu'.co = MainCo /\ abort' = abort
<1>1. Abstract!Exit(c)
  BY ExitIsExit
<1>2. aco_gtls_co = c /\ owner[share_stack[c]] = c
  BY RunnerFacts DEF aco_exit
<1>3. abort' = abort
  BY <1>2 DEF aco_exit
<1> QED
  BY <1>1, <1>3 DEF Abstract!Exit, Shows

\* The coroutines that show the same and whose history stands still count
\* what they counted.
LEMMA OthersCount ==
  ASSUME SchedInv, NEW c, NEW st, NEW fr, Shows(c, st, fr),
         \A d \in Co \ {c} : /\ arg'[d] = arg[d]
                             /\ at'[d] = at[d]
                             /\ resumes'[d] = resumes[d]
  PROVE  \A d \in Co \ {c} : Counts(d)'
<1>1. ASSUME NEW d \in Co \ {c}
      PROVE  Counts(d)'
  <2>1. StatusOf(d)' = StatusOf(d) /\ FramesOf(d)' = FramesOf(d)
    BY DEF Shows
  <2>2. Counts(d)
    BY DEF SchedInv
  <2> QED
    BY <2>1, <2>2 DEF Counts, Runs, Waits, Frame
<1> QED
  BY <1>1

\* When nothing is shown at all, this is so for every coroutine.
LEMMA AllCount ==
  ASSUME SchedInv, \A d \in Co : Looks(d), UNCHANGED <<arg, at, resumes>>
  PROVE  \A d \in Co : Counts(d)'
<1>1. ASSUME NEW d \in Co
      PROVE  Counts(d)'
  BY DEF SchedInv, Counts, Runs, Waits, Frame, Looks
<1> QED
  BY <1>1

-----------------------------------------------------------------------------
(***************************************************************************)
(* main().                                                                 *)
(***************************************************************************)

\* Before the first coroutine there is nothing to disturb.
LEMMA SetUpKeeps ==
  ASSUME IInv, SchedInv, SetUp
  PROVE  SchedInv'
<1>1. /\ \A d \in Co : Looks(d)
      /\ cpu' = cpu /\ abort' = abort
  BY StacksShowNothing DEF SetUp
<1>2. /\ pc \in {"main_co", "sstk"} /\ pc' \in {"sstk", "create"}
      /\ cpu.co = MainCo
      /\ UNCHANGED <<coarray, ct, null_ct, arg, at, resumes>>
  BY DEF SetUp, MainAt, Goto, coFpVars
<1>3. SchedTypeOK'
  BY <1>1, <1>2 DEF SchedInv, SchedTypeOK
<1>4. \A c \in Co : Counts(c)'
  BY <1>1, <1>2, AllCount
<1>5. Distinct' /\ InTurn' /\ Scanning' /\ Emptied'
  BY <1>1, <1>2 DEF SchedInv, Distinct, InTurn, Scanning, Emptied
<1>6. Filling'
  BY <1>1, <1>2, AmountIsPositive DEF SchedInv, SchedTypeOK, Filling, Looks
<1> QED
  BY <1>3, <1>4, <1>5, <1>6 DEF SchedInv

\* A new coroutine is at no other place, since those there exist already.
LEMMA CreateKeeps ==
  ASSUME IInv, SchedInv, MainAt("create"), ct < co_amount,
         NEW c \in Co, NEW s \in stacks, NEW n \in Loops, aco_create(c, s, 0),
         coarray' = [coarray EXCEPT ![ct] = c],
         arg' = [arg EXCEPT ![c] = n],
         ct' = ct + 1,
         UNCHANGED <<pc, null_ct, at, resumes>>
  PROVE  SchedInv'
<1>1. /\ StatusOf(c) = "absent"
      /\ Shows(c, "init", <<>>)
      /\ cpu' = cpu /\ abort' = abort
  BY CreateShows
<1>2. /\ SchedTypeOK /\ Filling /\ pc = "create" /\ cpu.co = MainCo
      /\ ct \in Index /\ co_amount \in Nat /\ n \in Nat
  BY AmountIsPositive, SchedulerAssumption
     DEF SchedInv, SchedTypeOK, MainAt, Index
<1>3. \A i \in Index : i < ct => coarray[i] \in Co \ {c}
  BY <1>1, <1>2 DEF Filling, SchedTypeOK
<1>4. \A i \in Index : coarray'[i] = IF i = ct THEN c ELSE coarray[i]
  BY <1>2 DEF SchedTypeOK
<1>5. \A i \in Index : i > ct => coarray[i] = NULL
  BY <1>2 DEF Filling, Index
<1>6. SchedTypeOK'
  BY <1>1, <1>2 DEF SchedTypeOK
<1>7. \A d \in Co : Counts(d)'
  <2>1. \A d \in Co \ {c} : Counts(d)'
    BY <1>1, <1>2, OthersCount DEF SchedTypeOK
  <2>2. Counts(c)'
    BY <1>1, <1>2 DEF Counts, Shows, Filling, SchedTypeOK
  <2> QED
    BY <2>1, <2>2
<1>8. Distinct'
  <2>1. \A i \in Index : i = ct \/ i < ct \/ i > ct
    BY <1>2 DEF Index
  <2> QED
    BY <1>3, <1>4, <1>5, <2>1 DEF SchedInv, Distinct
<1>9. InTurn' /\ Scanning' /\ Emptied'
  BY <1>1, <1>2 DEF InTurn, Scanning, Emptied
<1>10. Filling'
  <2>1. ASSUME NEW i \in Index
        PROVE  IF i < ct + 1 THEN /\ coarray'[i] # NULL
                                  /\ StatusOf(coarray[i])' = "init"
                             ELSE coarray'[i] = NULL
    <3>1. CASE i = ct
      BY <1>1, <1>2, <1>4, <3>1, AcoAssumption DEF Shows, Index
    <3>2. CASE i < ct
      <4>1. /\ coarray'[i] = coarray[i] /\ coarray[i] \in Co \ {c}
            /\ coarray[i] # NULL /\ StatusOf(coarray[i]) = "init"
        BY <1>2, <1>3, <1>4, <3>2 DEF Filling, Index
      <4>2. PICK d \in Co \ {c} : coarray'[i] = d
        BY <4>1
      <4>3. StatusOf(d)' = StatusOf(d)
        BY <1>1 DEF Shows
      <4> QED
        BY <1>2, <3>2, <4>1, <4>2, <4>3 DEF Index, SchedTypeOK
    <3>3. CASE i > ct
      BY <1>2, <1>4, <1>5, <3>3 DEF Index, SchedTypeOK
    <3> QED
      BY <1>2, <3>1, <3>2, <3>3 DEF Index, SchedTypeOK
  <2> QED
    BY <1>2, <2>1 DEF Filling, Index, SchedTypeOK
<1> QED
  BY <1>6, <1>7, <1>8, <1>9, <1>10 DEF SchedInv

\* All are created: the scan starts with everyone equally far.
LEMMA CreatedKeeps ==
  ASSUME SchedInv, MainAt("create"), ~(ct < co_amount),
         ct' = 0, pc' = "scan",
         UNCHANGED <<vars, coarray, arg, null_ct, at, resumes>>
  PROVE  SchedInv'
<1>1. /\ SchedTypeOK /\ Filling /\ pc = "create" /\ cpu.co = MainCo
      /\ null_ct = 0
  BY DEF SchedInv, MainAt, Filling
<1>2. /\ \A d \in Co : Looks(d)
      /\ cpu' = cpu /\ abort' = abort
  BY DEF vars, coVars, stackVars, runVars, Looks, StatusOf, FramesOf
<1>3. SchedTypeOK'
  BY <1>1, <1>2 DEF SchedTypeOK
<1>4. \A c \in Co : Counts(c)'
  BY <1>2, AllCount
<1>5. Distinct' /\ InTurn' /\ Filling' /\ Emptied'
  BY <1>1, <1>2 DEF SchedInv, Distinct, InTurn, Filling, Emptied
<1>6. Scanning'
  <2>1. ct' \in Index
    BY AmountIsPositive
  <2>2. ASSUME NEW i \in Index, coarray[i] # NULL
        PROVE  StatusOf(coarray[i])' = "init" /\ resumes[coarray[i]] = 0
    <3>1. coarray[i] \in Co /\ StatusOf(coarray[i]) = "init"
      BY <1>1, <2>2 DEF Filling, SchedTypeOK
    <3>2. PICK d \in Co : d = coarray[i]
      BY <3>1
    <3>3. coarray'[i] = d /\ StatusOf(d)' = StatusOf(d) /\ resumes[d] = 0
      BY <1>1, <1>2, <3>2 DEF Looks, Filling
    <3> QED
      BY <3>1, <3>2, <3>3
  <2>3. EvenRounds'
    BY <2>2, AmountIsPositive DEF EvenRounds, Turn
  <2>4. EmptySeen'
    BY <1>1, AmountIsPositive DEF EmptySeen, Ago
  <2>5. \A i \in Index : ~(coarray'[i] # NULL /\ StatusOf(coarray[i])' = "end")
    BY <2>2
  <2> QED
    BY <2>1, <2>3, <2>4, <2>5 DEF Scanning
<1> QED
  BY <1>3, <1>4, <1>5, <1>6 DEF SchedInv

\* The coroutine that owns a share stack while main() executes has two words
\* on it or none: few enough to be saved.
LEMMA OwnerIsShallow ==
  ASSUME IInv, SchedInv, cpu.co = MainCo, NEW s \in Stack, NEW o \in Co,
         owner[s] = o
  PROVE  /\ share_stack[o] = s
         /\ SpInBounds(o)
<1>1. /\ o \in live /\ share_stack[o] = s /\ ~is_end[o]
      /\ cpu.co # o
      /\ reg[o].sp \in -1..Room /\ Limit \in Nat /\ Room \in Nat
  BY AcoAssumption DEF IInv, TypeOK, OwnerIsValid
<1>2. FramesOf(o) = [i \in 1..reg[o].sp |-> mem[s][i]]
  BY <1>1 DEF FramesOf
<1>3. Counts(o) /\ arg[o] \in Nat
  BY DEF SchedInv, SchedTypeOK
<1>4. CASE reg[o].ip = "fp"
  <2>1. FramesOf(o) = <<>>
    BY <1>1, <1>3, <1>4 DEF StatusOf, Counts
  <2>2. reg[o].sp >= 0
    BY <1>4 DEF IInv, NoneIsWild, InCodeOrCaught
  <2>3. ~(reg[o].sp >= 1)
    BY <1>1, <1>2, <2>1
  <2> QED
    BY <1>1, <2>2, <2>3, AcoAssumption DEF SpInBounds
<1>5. CASE reg[o].ip # "fp"
  <2>1. PICK k \in 0..arg[o] : FramesOf(o) = <<arg[o], k>>
    BY <1>1, <1>3, <1>5 DEF StatusOf, Counts, Waits, Frame
  <2>2. DOMAIN FramesOf(o) = 1..2
    BY <2>1
  <2>3. 1..reg[o].sp = 1..2
    BY <1>2, <2>2
  <2>4. 2 \in 1..reg[o].sp /\ ~(3 \in 1..reg[o].sp)
    BY <2>3
  <2>5. reg[o].sp = 2
    BY <1>1, <2>4
  <2> QED
    BY <1>1, <2>5, SchedulerAssumption DEF SpInBounds
<1> QED
  BY <1>1, <1>4, <1>5

\* main() resumes nobody who has ended, and the library finds its own
\* fields as it left them.
LEMMA ResumeSucceeds ==
  ASSUME IInv, SchedInv, MainAt("scan"), aco_resume(coarray[ct])
  PROVE  /\ ct \in Index /\ coarray[ct] \in Co
         /\ FailedAssertion(coarray[ct]) = "none"
<1>1. /\ SchedTypeOK /\ Scanning /\ pc = "scan" /\ ct \in Index
      /\ cpu.co = MainCo
  BY DEF SchedInv, Scanning, MainAt
<1>2. coarray[ct] \in live \ {MainCo}
  BY DEF aco_resume, ResumeAborts, ResumeOwner, ResumeFree, ResumeEvict,
     MayResume, CanCallResume
<1>3. PICK c \in Co : c = coarray[ct]
  BY <1>2 DEF IInv, TypeOK
<1>4. ~is_end[c]
  <2>1. StatusOf(c) # "end"
    BY <1>1, <1>3, AcoAssumption DEF Scanning
  <2> QED
    BY <1>2, <1>3, <2>1 DEF StatusOf
<1>5. /\ share_stack[c] \in Stack
      /\ owner[share_stack[c]] \in Co \cup {NULL}
      /\ ~(save_stack[c].valid_sz > Limit - 1)
  <2>1. /\ share_stack[c] \in Stack
        /\ owner[share_stack[c]] \in Co \cup {NULL}
    BY <1>2, <1>3 DEF IInv, TypeOK, LiveHaveStacks
  <2>2. save_stack[c].valid_sz \in Nat /\ save_stack[c].valid_sz <= Limit - 1
        /\ Limit \in Nat
    BY AcoAssumption DEF IInv, TypeOK, SavedIsThere
  <2> QED
    BY <2>1, <2>2
<1>6. ASSUME owner[share_stack[c]] # NULL
      PROVE  /\ share_stack[owner[share_stack[c]]] = share_stack[c]
             /\ SpInBounds(owner[share_stack[c]])
  <2>1. PICK o \in Co : owner[share_stack[c]] = o
    BY <1>5, <1>6
  <2> QED
    BY <1>1, <1>5, <2>1, OwnerIsShallow
<1>7. FailedAssertion(c) = "none"
  BY <1>4, <1>5, <1>6 DEF FailedAssertion, HasNotEnded
<1> QED
  BY <1>1, <1>3, <1>7

\* The coroutine in turn is resumed once more.
LEMMA ResumeKeeps ==
  ASSUME IInv, SchedInv, ResumeNext
  PROVE  SchedInv'
<1>1. /\ SchedTypeOK /\ Scanning /\ pc = "scan" /\ pc' = "resumed"
      /\ cpu.co = MainCo /\ aco_resume(coarray[ct])
      /\ resumes' = [resumes EXCEPT ![coarray[ct]] = @ + 1]
      /\ UNCHANGED <<coarray, ct, null_ct, arg, at>>
  BY DEF SchedInv, ResumeNext, MainAt, Goto, coFpVars
<1>2. PICK c \in Co : c = coarray[ct]
  BY ResumeSucceeds DEF ResumeNext
<1>3. /\ StatusOf(c) \in {"init", "yielded"}
      /\ Shows(c, "running", FramesOf(c))
      /\ cpu'.co = c /\ abort' = abort
  BY <1>1, <1>2, ResumeSucceeds, ResumeShows DEF ResumeNext
<1>4. /\ ct \in Index /\ resumes[c] \in Nat /\ c # MainCo /\ c # NULL
      /\ resumes'[c] = resumes[c] + 1
      /\ \A d \in Co \ {c} : resumes'[d] = resumes[d]
  BY <1>1, <1>2, AcoAssumption DEF Scanning, SchedTypeOK
<1>5. SchedTypeOK'
  BY <1>1, <1>2, <1>3 DEF SchedTypeOK
<1>6. \A d \in Co : Counts(d)'
  <2>1. \A d \in Co \ {c} : Counts(d)'
    BY <1>1, <1>3, <1>4, OthersCount
  <2>2. StatusOf(c)' = "running" /\ FramesOf(c)' = FramesOf(c)
    BY <1>3 DEF Shows
  <2>3. Runs(c)'
    <3>1. Counts(c) /\ arg[c] \in Nat
      BY <1>1 DEF SchedInv, SchedTypeOK
    <3>2. CASE StatusOf(c) = "init"
      BY <1>1, <1>4, <2>2, <3>1, <3>2 DEF Counts, Runs
    <3>3. CASE StatusOf(c) = "yielded"
      <4>1. PICK k \in 0..arg[c] :
              Frame(c, k) /\ k < arg[c] /\ resumes[c] = k + 1
        BY <3>1, <3>3 DEF Counts, Waits
      <4>2. at[c] = "ct++"
        BY <3>1, <3>3 DEF Counts, Waits
      <4>3. k \in 0..arg'[c] /\ Frame(c, k)' /\ k < arg'[c]
            /\ resumes'[c] = k + 2
        BY <1>1, <1>4, <2>2, <3>1, <4>1 DEF Frame
      <4> QED
        BY <1>1, <4>2, <4>3 DEF Runs
    <3> QED
      BY <1>3, <3>2, <3>3
  <2>4. Counts(c)'
    BY <1>1, <1>3, <2>2, <2>3 DEF SchedInv, Counts
  <2> QED
    BY <2>1, <2>4
<1>7. Distinct' /\ Filling' /\ Emptied'
  BY <1>1 DEF SchedInv, Distinct, Filling, Emptied
<1>8. InTurn'
  BY <1>1, <1>2, <1>3, <1>4 DEF InTurn
<1>9. Scanning'
  <2>1. \A i \in Index : i # ct /\ coarray[i] # NULL => coarray[i] \in Co \ {c}
    BY <1>1, <1>2, <1>4 DEF SchedInv, SchedTypeOK, Distinct
  <2>2. ASSUME NEW i \in Index, coarray[i] # NULL
        PROVE  StatusOf(coarray[i])' # "end"
    <3>1. PICK d \in Co : d = coarray[i]
      BY <1>1, <2>2 DEF SchedTypeOK
    <3>2. StatusOf(d) # "end"
      BY <1>1, <2>2, <3>1 DEF Scanning
    <3>3. StatusOf(d)' # "end"
      BY <1>3, <3>2 DEF Shows
    <3> QED
      BY <1>1, <3>1, <3>3
  <2>3. EvenRounds'
    <3>1. EvenRounds /\ pc = "scan"
      BY <1>1 DEF Scanning
    <3>2. ct \in Nat /\ \A i \in Index : i \in Nat
      BY <1>4, AmountIsPositive
    <3>3. \A i \in Index : Turn(i)' = IF i = ct THEN 1 ELSE Turn(i)
      BY <1>1, <3>2 DEF Turn
    <3>4. Turn(ct) = 0
      BY <1>1, <3>2 DEF Turn
    <3>5. \A i \in Index : coarray[i] # NULL =>
            /\ resumes[coarray[i]] \in Nat
            /\ resumes'[coarray[i]] =
                 IF i = ct THEN resumes[c] + 1 ELSE resumes[coarray[i]]
      BY <1>1, <1>2, <1>4, <2>1 DEF SchedTypeOK
    <3>6. \A i \in Index : Turn(i) \in {0, 1}
      BY DEF Turn
    <3> QED
      BY <1>1, <1>2, <1>4, <3>1, <3>3, <3>4, <3>5, <3>6 DEF EvenRounds
  <2> QED
    BY <1>1, <1>2, <1>4, <2>2, <2>3 DEF Scanning
<1> QED
  BY <1>5, <1>6, <1>7, <1>8, <1>9 DEF SchedInv

\* The next place is a place.
LEMMA NextIsPlace ==
  ASSUME NEW i \in Index
  PROVE  /\ NextIndex(i) \in Index
         /\ \/ NextIndex(i) = i + 1
            \/ NextIndex(i) = 0 /\ i = co_amount - 1
BY AmountIsPositive DEF NextIndex, Index

\* Whether place i has had its turn once the scan has left place ct: so have
\* all places when it starts over.
LEMMA TurnsGoOn ==
  ASSUME ct \in Index, ct' = NextIndex(ct), pc' = "scan",
         NEW i \in Index, i = ct => pc = "resumed"
  PROVE  Turn(i)' = IF NextIndex(ct) = 0 THEN 0 ELSE Turn(i)
<1>1. /\ ct \in Nat /\ i \in Nat /\ i < co_amount /\ co_amount \in Nat
  BY AmountIsPositive
<1>2. CASE ct' = ct + 1
  BY <1>1, <1>2 DEF Turn
<1>3. CASE ct' = 0
  BY <1>1, <1>3 DEF Turn
<1> QED
  BY <1>2, <1>3, NextIsPlace

\* The rounds stay even when the scan leaves a place that is empty or was
\* resumed: when it starts over, all that go on have had their turn.
LEMMA RoundsStayEven ==
  ASSUME SchedTypeOK, EvenRounds, ct \in Index, ct' = NextIndex(ct),
         pc' = "scan", resumes' = resumes,
         pc = "resumed" \/ (pc = "scan" /\ coarray[ct] = NULL),
         \A i \in Index : coarray'[i] # NULL => coarray'[i] = coarray[i]
  PROVE  EvenRounds'
<1>1. ASSUME NEW i \in Index, coarray[i] # NULL
      PROVE  /\ Turn(i)' = IF NextIndex(ct) = 0 THEN 0 ELSE Turn(i)
             /\ NextIndex(ct) = 0 => Turn(i) = 1
             /\ resumes[coarray[i]] \in Nat
  <2>1. i = ct => pc = "resumed"
    BY <1>1
  <2>2. Turn(i)' = IF NextIndex(ct) = 0 THEN 0 ELSE Turn(i)
    BY <2>1, TurnsGoOn
  <2>3. NextIndex(ct) = 0 => Turn(i) = 1
    <3>1. /\ ct \in Nat /\ i \in Nat /\ i < co_amount /\ co_amount \in Nat
      BY AmountIsPositive
    <3> QED
      BY <2>1, <3>1, NextIsPlace DEF Turn
  <2> QED
    BY <1>1, <2>2, <2>3 DEF SchedTypeOK
<1>2. \A i \in Index : Turn(i) \in {0, 1}
  BY DEF Turn
<1>3. ASSUME NEW i \in Index, NEW j \in Index,
             coarray'[i] # NULL, coarray'[j] # NULL
      PROVE  resumes'[coarray'[i]] + Turn(j)' = resumes'[coarray'[j]] + Turn(i)'
  <2>1. coarray'[i] = coarray[i] /\ coarray'[j] = coarray[j]
    BY <1>3
  <2>2. resumes[coarray[i]] + Turn(j) = resumes[coarray[j]] + Turn(i)
    BY <1>3, <2>1 DEF EvenRounds
  <2> QED
    BY <1>1, <1>2, <1>3, <2>1, <2>2
<1> QED
  BY <1>3 DEF EvenRounds

\* Back in main(): a coroutine that has ended is destroyed at once, and its
\* place is empty from then on.
LEMMA AfterResumeKeeps ==
  ASSUME IInv, SchedInv, AfterResume
  PROVE  SchedInv'
<1>1. /\ SchedTypeOK /\ Scanning /\ pc = "resumed" /\ pc' = "scan"
      /\ cpu.co = MainCo /\ ct \in Index /\ ct' = NextIndex(ct)
      /\ null_ct' = 0 /\ DestroyEnded
      /\ UNCHANGED <<arg, at, resumes>>
  BY DEF SchedInv, Scanning, AfterResume, MainAt, Goto, coFpVars, NewNullCt
<1>2. PICK c \in Co : c = coarray[ct]
  BY <1>1 DEF Scanning, SchedTypeOK
<1>3. c # NULL /\ \A i \in Index : i # ct => coarray[i] # c
  BY <1>1, <1>2, AcoAssumption DEF SchedInv, Distinct
<1>4. /\ cpu' = cpu /\ abort' = abort
      /\ \A d \in Co \ {c} : StatusOf(d)' = StatusOf(d)
      /\ \A d \in Co : Counts(d)'
      /\ \/ coarray' = [coarray EXCEPT ![ct] = NULL]
         \/ coarray' = coarray /\ StatusOf(c)' # "end"
  <2>1. CASE is_end[c]
    <3>1. aco_destroy(c) /\ coarray' = [coarray EXCEPT ![ct] = NULL]
      BY <1>1, <1>2, <2>1 DEF DestroyEnded
    <3>2. Shows(c, "absent", <<>>) /\ cpu' = cpu /\ abort' = abort
      BY <3>1, DestroyShows
    <3>3. \A d \in Co \ {c} : Counts(d)'
      BY <1>1, <3>2, OthersCount
    <3>4. Counts(c)'
      BY <3>2 DEF Shows, Counts
    <3> QED
      BY <3>1, <3>2, <3>3, <3>4 DEF Shows
  <2>2. CASE ~is_end[c]
    <3>1. UNCHANGED vars /\ coarray' = coarray
      BY <1>1, <1>2, <2>2 DEF DestroyEnded
    <3>2. /\ \A d \in Co : Looks(d)
          /\ cpu' = cpu /\ abort' = abort /\ is_end' = is_end
      BY <3>1 DEF vars, coVars, stackVars, runVars, Looks, StatusOf, FramesOf
    <3>3. \A d \in Co : Counts(d)'
      BY <1>1, <3>2, AllCount
    <3>4. StatusOf(c)' # "end"
      BY <2>2, <3>2 DEF StatusOf
    <3> QED
      BY <3>1, <3>2, <3>3, <3>4 DEF Looks
  <2> QED
    BY <2>1, <2>2
<1>5. \A i \in Index : /\ coarray'[i] # NULL => coarray'[i] = coarray[i]
                       /\ coarray'[i] \in Co \cup {NULL}
                       /\ i # ct => coarray'[i] = coarray[i]
  BY <1>1, <1>4 DEF SchedTypeOK
<1>6. SchedTypeOK'
  <2>1. ct' \in Nat
    BY <1>1, NextIsPlace, AmountIsPositive
  <2>2. coarray' \in [Index -> Co \cup {NULL}]
    BY <1>1, <1>4 DEF SchedTypeOK
  <2> QED
    BY <1>1, <1>4, <2>1, <2>2 DEF SchedTypeOK
<1>7. Distinct' /\ InTurn' /\ Filling' /\ Emptied'
  BY <1>1, <1>4, <1>5 DEF SchedInv, Distinct, InTurn, Filling, Emptied
<1>8. Scanning'
  <2>1. ct' \in Index
    BY <1>1, NextIsPlace
  <2>2. ASSUME NEW i \in Index, coarray'[i] # NULL
        PROVE  \A d \in Co : d = coarray'[i] => StatusOf(d)' # "end"
    <3>1. CASE i = ct
      BY <1>1, <1>2, <1>4, <2>2, <3>1 DEF SchedTypeOK
    <3>2. CASE i # ct
      <4>1. PICK d \in Co \ {c} : d = coarray'[i] /\ d = coarray[i]
        BY <1>3, <1>5, <2>2, <3>2
      <4>2. StatusOf(d) # "end"
        BY <1>1, <2>2, <3>2, <4>1 DEF Scanning
      <4> QED
        BY <1>4, <4>1, <4>2
    <3> QED
      BY <3>1, <3>2
  <2>3. \A i \in Index : ~(coarray'[i] # NULL /\ StatusOf(coarray[i])' = "end")
    <3>1. ASSUME NEW i \in Index, coarray'[i] # NULL
          PROVE  StatusOf(coarray[i])' # "end"
      <4>1. PICK d \in Co : d = coarray'[i]
        BY <1>5, <3>1
      <4> QED
        BY <2>2, <3>1, <4>1
    <3> QED
      BY <3>1
  <2>4. EvenRounds'
    BY <1>1, <1>5, RoundsStayEven DEF Scanning
  <2>5. EmptySeen'
    <3>1. \A i \in Index : Ago(i)' > 0
      BY <2>1, AmountIsPositive DEF Ago
    <3> QED
      BY <1>1, <3>1, <2>1, AmountIsPositive DEF EmptySeen, Ago
  <2> QED
    BY <1>1, <2>1, <2>3, <2>4, <2>5 DEF Scanning
<1> QED
  BY <1>4, <1>6, <1>7, <1>8 DEF SchedInv

\* An empty place: when co_amount of them in a row have been seen, these are
\* all the places there are.
LEMMA SkipNullKeeps ==
  ASSUME SchedInv, SkipNull
  PROVE  SchedInv'
<1>1. /\ SchedTypeOK /\ Scanning /\ EmptySeen /\ pc = "scan"
      /\ cpu.co = MainCo /\ ct \in Index /\ coarray[ct] = NULL
      /\ null_ct' = null_ct + 1
      /\ UNCHANGED <<vars, coarray, arg, at, resumes>>
  BY DEF SchedInv, Scanning, SkipNull, MainAt, coFpVars
<1>2. /\ \A d \in Co : Looks(d)
      /\ cpu' = cpu /\ abort' = abort
  BY <1>1 DEF vars, coVars, stackVars, runVars, Looks, StatusOf, FramesOf
<1>3. /\ ct \in Nat /\ ct < co_amount /\ co_amount \in Nat /\ null_ct \in Nat
      /\ \A i \in Index : i \in Nat /\ i < co_amount
  BY <1>1, AmountIsPositive DEF SchedTypeOK
<1>4. \A d \in Co : Counts(d)'
  BY <1>1, <1>2, AllCount
<1>5. Distinct'
  BY <1>1 DEF SchedInv, Distinct
<1>6. CASE null_ct + 1 >= co_amount
  <2>1. ct' = 0 /\ pc' = "END"
    BY <1>6 DEF SkipNull, Goto
  <2>2. \A i \in Index : i # ct => Ago(i) <= null_ct
    BY <1>3, <1>6 DEF Ago
  <2>3. \A i \in Index : coarray[i] = NULL
    BY <1>1, <2>2 DEF EmptySeen
  <2>4. SchedTypeOK'
    BY <1>1, <1>2, <2>1 DEF SchedTypeOK
  <2>5. InTurn' /\ Filling' /\ Scanning' /\ Emptied'
    BY <1>1, <1>2, <2>1, <2>3 DEF InTurn, Filling, Scanning, Emptied
  <2> QED
    BY <1>4, <1>5, <2>4, <2>5 DEF SchedInv
<1>7. CASE ~(null_ct + 1 >= co_amount)
  <2>1. ct' = NextIndex(ct) /\ pc' = "scan" /\ ct' \in Index /\ ct' \in Nat
    BY <1>1, <1>7, NextIsPlace, AmountIsPositive DEF SkipNull
  <2>2. SchedTypeOK'
    BY <1>1, <1>2, <2>1 DEF SchedTypeOK
  <2>3. InTurn' /\ Filling' /\ Emptied'
    BY <1>1, <1>2, <2>1 DEF InTurn, Filling, Emptied
  <2>4. EvenRounds'
    BY <1>1, <2>1, RoundsStayEven DEF Scanning
  <2>5. EmptySeen'
    <3>1. \A i \in Index : i # ct => Ago(i)' = Ago(i) + 1 /\ Ago(i) \in Nat
      <4>1. CASE ct' = ct + 1
        BY <1>3, <4>1 DEF Ago
      <4>2. CASE ct' = 0 /\ ct = co_amount - 1
        BY <1>3, <4>2 DEF Ago
      <4> QED
        BY <1>1, <2>1, <4>1, <4>2, NextIsPlace
    <3>2. \A i \in Index : i # ct /\ Ago(i)' <= null_ct' => Ago(i) <= null_ct
      BY <1>1, <1>3, <3>1
    <3> QED
      BY <1>1, <3>2 DEF EmptySeen
  <2>6. \A i \in Index : ~(coarray[i] # NULL /\ StatusOf(coarray[i])' = "end")
    <3>1. ASSUME NEW i \in Index, coarray[i] # NULL
          PROVE  StatusOf(coarray[i])' # "end"
      <4>1. PICK d \in Co : d = coarray[i]
        BY <1>1, <3>1 DEF SchedTypeOK
      <4>2. StatusOf(d) # "end"
        BY <1>1, <3>1, <4>1 DEF Scanning
      <4>3. StatusOf(d)' # "end" /\ coarray'[i] = d
        BY <1>1, <1>2, <4>1, <4>2 DEF Looks
      <4> QED
        BY <4>1, <4>3
    <3> QED
      BY <3>1
  <2>7. Scanning'
    BY <1>1, <2>1, <2>4, <2>5, <2>6 DEF Scanning
  <2> QED
    BY <1>4, <1>5, <2>2, <2>3, <2>7 DEF SchedInv
<1> QED
  BY <1>6, <1>7

\* At END every place is empty, and stays so.
LEMMA CleanUpKeeps ==
  ASSUME IInv, SchedInv, CleanUp
  PROVE  SchedInv'
<1>1. /\ SchedTypeOK /\ Emptied /\ pc \in {"END", "destroy_main"}
      /\ cpu.co = MainCo
      /\ UNCHANGED <<coarray, null_ct, arg, at, resumes>>
  BY DEF SchedInv, CleanUp, MainAt, coFpVars
<1>2. /\ \A d \in Co : Looks(d)
      /\ cpu' = cpu /\ abort' = abort
  <2>1. CASE UNCHANGED vars
    BY <2>1 DEF vars, coVars, stackVars, runVars, Looks, StatusOf, FramesOf
  <2>2. CASE DestroyMain \/ \E s \in stacks : aco_share_stack_destroy(s)
    BY <2>2, StacksShowNothing DEF IInv, TypeOK
  <2> QED
    BY <2>1, <2>2 DEF CleanUp
<1>3. pc' \in {"END", "destroy_main", "return"} /\ ct' \in Nat
  <2>1. ct < co_amount /\ pc = "END" => coarray[ct] = NULL
    BY <1>1, AmountIsPositive DEF Emptied, SchedTypeOK, Index
  <2> QED
    BY <1>1, <2>1, AmountIsPositive DEF CleanUp, Goto, SchedTypeOK, MainAt
<1>4. SchedTypeOK'
  BY <1>1, <1>2, <1>3 DEF SchedTypeOK
<1>5. \A d \in Co : Counts(d)'
  BY <1>1, <1>2, AllCount
<1>6. Distinct' /\ InTurn' /\ Filling' /\ Scanning' /\ Emptied'
  BY <1>1, <1>2, <1>3
     DEF SchedInv, Distinct, InTurn, Filling, Scanning, Emptied
<1> QED
  BY <1>4, <1>5, <1>6 DEF SchedInv

-----------------------------------------------------------------------------
(***************************************************************************)
(* co_fp0.                                                                 *)
(***************************************************************************)

\* The running coroutine is the one in turn, and its stack pointer tells how
\* many words it has on its stack.
LEMMA RunnerIsInTurn ==
  ASSUME IInv, SchedInv, NEW c \in Co, cpu.co = c
  PROVE  /\ c \in live /\ ~is_end[c] /\ c # MainCo
         /\ StatusOf(c) = "running" /\ Runs(c) /\ arg[c] \in Loops
         /\ pc = "resumed" /\ ct \in Index /\ coarray[ct] = c
         /\ CurStack = share_stack[c] /\ CurStack \in Stack
         /\ owner[CurStack] = c
         /\ cpu.sp \in -1..Room
         /\ FramesOf(c) = OnStack(c, cpu.sp)
<1>1. c # MainCo /\ c # NULL
  BY AcoAssumption
<1>2. /\ c \in live
      /\ CurStack = share_stack[c] /\ CurStack \in Stack
      /\ owner[CurStack] = c
      /\ cpu.sp \in -1..Room
  BY <1>1 DEF IInv, TypeOK, RunnerIsCurrent, LiveHaveStacks, CurStack
<1>3. ~is_end[c]
  BY <1>1, <1>2 DEF IInv, OwnerIsValid
<1>4. StatusOf(c) = "running"
  BY <1>2, <1>3 DEF StatusOf
<1>5. Runs(c) /\ arg[c] \in Loops
  BY <1>4 DEF SchedInv, Counts
<1>6. pc = "resumed" /\ ct \in Index /\ coarray[ct] = c
  BY <1>1 DEF SchedInv, InTurn
<1>7. FramesOf(c) = OnStack(c, cpu.sp)
  BY <1>2, <1>3, WhereFramesAre
<1> QED
  BY <1>1, <1>2, <1>3, <1>4, <1>5, <1>6, <1>7

\* What a step of co_fp0 leaves to be shown: that its coroutine counts right.
\* That it ends is no concern of main(), which is about to look at it.
LEMMA WorkKeeps ==
  ASSUME IInv, SchedInv, NEW c \in Co, cpu.co = c,
         NEW st, NEW fr, Shows(c, st, fr), Counts(c)',
         cpu'.co \in {c, MainCo}, abort' \in {"none", "alloc"},
         at' \in [Co -> {"entry", "while", "ct++"}],
         \A d \in Co \ {c} : at'[d] = at[d],
         UNCHANGED <<mainVars, arg, resumes>>
  PROVE  SchedInv'
<1>1. /\ c # MainCo /\ pc = "resumed" /\ ct \in Index /\ coarray[ct] = c
      /\ UNCHANGED <<pc, coarray, ct, null_ct, arg, resumes>>
  BY RunnerIsInTurn DEF mainVars
<1>2. SchedTypeOK /\ Scanning /\ Distinct
  BY DEF SchedInv
<1>3. SchedTypeOK'
  BY <1>1, <1>2 DEF SchedTypeOK
<1>4. \A d \in Co : Counts(d)'
  BY <1>1, OthersCount
<1>5. Distinct' /\ InTurn' /\ Filling' /\ Emptied'
  BY <1>1, <1>2 DEF Distinct, InTurn, Filling, Emptied
<1>6. Scanning'
  <2>1. ASSUME NEW i \in Index, coarray[i] # NULL, StatusOf(coarray[i])' = "end"
        PROVE  i = ct
    <3>1. SUFFICES ASSUME i # ct
                   PROVE  FALSE
      OBVIOUS
    <3>2. PICK d \in Co \ {c} : d = coarray[i]
      BY <1>1, <1>2, <2>1, <3>1 DEF SchedTypeOK, Distinct
    <3>3. coarray'[i] = d /\ StatusOf(d)' = "end"
      BY <1>1, <2>1, <3>2
    <3>4. StatusOf(d) = "end"
      BY <3>3 DEF Shows
    <3> QED
      BY <1>1, <1>2, <2>1, <3>1, <3>2, <3>4 DEF Scanning
  <2>2. EvenRounds'
    BY <1>1, <1>2 DEF Scanning, EvenRounds, Turn
  <2> QED
    BY <1>1, <1>2, <2>1, <2>2 DEF Scanning
<1> QED
  BY <1>3, <1>4, <1>5, <1>6 DEF SchedInv

\* The two locals are pushed, the argument first.
LEMMA EnterKeeps ==
  ASSUME IInv, SchedInv, Enter
  PROVE  SchedInv'
<1>1. PICK c \in Co : cpu.co = c /\ at[c] = "entry"
  BY DEF Enter, CoAt
<1>2. /\ Runs(c) /\ arg[c] \in Loops /\ arg[c] \in Nat
      /\ StatusOf(c) = "running"
      /\ FramesOf(c) = OnStack(c, cpu.sp)
      /\ cpu.sp \in -1..Room
  BY <1>1, RunnerIsInTurn, SchedulerAssumption
<1>3. /\ abort \in {"none", "alloc"} /\ at \in [Co -> {"entry", "while", "ct++"}]
      /\ UNCHANGED <<mainVars, arg, resumes>>
  BY DEF SchedInv, SchedTypeOK, Enter
<1>4. resumes[c] = 1 /\ (FramesOf(c) = <<>> \/ FramesOf(c) = <<arg[c]>>)
  BY <1>1, <1>2 DEF Runs
<1>5. CASE cpu.sp = 0 /\ Push(arg[c]) /\ at' = at
  <2>1. arg[c] \in Word
    BY <1>2, SchedulerAssumption
  <2>2. FramesOf(c) = <<>>
    BY <1>2, <1>5 DEF OnStack
  <2>3. /\ cpu'.co = c /\ abort' = abort
        /\ StatusOf(c)' = "running"
        /\ FramesOf(c)' = Append(FramesOf(c), arg[c])
        /\ \A d \in Co \ {c} : Looks(d)
    BY <1>1, <1>5, <2>1, PushAppends
  <2>4. FramesOf(c)' = <<arg[c]>>
    BY <2>2, <2>3
  <2>5. Shows(c, "running", <<arg[c]>>)
    BY <2>3, <2>4 DEF Shows, Looks
  <2>6. Counts(c)'
    BY <1>1, <1>2, <1>3, <1>4, <1>5, <2>3, <2>4 DEF Counts, Runs
  <2> QED
    BY <1>1, <1>3, <1>5, <2>3, <2>5, <2>6, WorkKeeps
<1>6. CASE cpu.sp = 1 /\ Push(0) /\ at' = [at EXCEPT ![c] = "while"]
  <2>1. 0 \in Word
    BY <1>2, SchedulerAssumption
  <2>2. FramesOf(c) = <<arg[c]>>
    <3>1. DOMAIN FramesOf(c) = 1..1
      BY <1>2, <1>6 DEF OnStack
    <3>2. DOMAIN <<>> = 1..0
      OBVIOUS
    <3>3. 1 \in 1..1 /\ ~(1 \in 1..0)
      OBVIOUS
    <3> QED
      BY <1>4, <3>1, <3>2, <3>3
  <2>3. /\ cpu'.co = c /\ abort' = abort
        /\ StatusOf(c)' = "running"
        /\ FramesOf(c)' = Append(FramesOf(c), 0)
        /\ \A d \in Co \ {c} : Looks(d)
    BY <1>1, <1>6, <2>1, PushAppends
  <2>4. FramesOf(c)' = <<arg[c], 0>>
    <3>1. ASSUME NEW a \in Nat
          PROVE  Append(<<a>>, 0) = <<a, 0>>
      <4>1. <<a>> \in Seq(Nat) /\ Len(<<a>>) = 1 /\ <<a>>[1] = a
        OBVIOUS
      <4>2. Append(<<a>>, 0) = [i \in 1..2 |-> IF i = 2 THEN 0 ELSE <<a>>[i]]
        BY <4>1
      <4>3. <<a, 0>> = [i \in 1..2 |-> IF i = 2 THEN 0 ELSE <<a>>[i]]
        OBVIOUS
      <4> QED
        BY <4>2, <4>3
    <3> QED
      BY <1>2, <2>2, <2>3, <3>1
  <2>5. Shows(c, "running", <<arg[c], 0>>)
    BY <2>3, <2>4 DEF Shows, Looks
  <2>6. Counts(c)'
    <3>1. at'[c] = "while" /\ arg' = arg /\ resumes' = resumes
      BY <1>3, <1>6
    <3>2. 0 \in 0..arg'[c] /\ Frame(c, 0)' /\ resumes'[c] = 0 + 1
      BY <1>2, <1>4, <2>4, <3>1 DEF Frame
    <3>3. Runs(c)'
      BY <3>1, <3>2 DEF Runs
    <3> QED
      BY <1>2, <2>3, <3>1, <3>3 DEF Counts
  <2> QED
    BY <1>1, <1>3, <1>6, <2>3, <2>5, <2>6, WorkKeeps
<1> QED
  BY <1>1, <1>5, <1>6 DEF Enter, CoGoto

\* The locals of the running coroutine are where its stack pointer says.
LEMMA LocalsAreFrame ==
  ASSUME IInv, SchedInv, NEW c \in Co, cpu.co = c,
         NEW k, FramesOf(c) = <<arg[c], k>>
  PROVE  cpu.sp = 2 /\ Local(1) = arg[c] /\ Local(2) = k
<1>1. /\ FramesOf(c) = [i \in 1..cpu.sp |-> mem[CurStack][i]]
      /\ cpu.sp \in -1..Room /\ Room \in Nat
  BY RunnerIsInTurn, AcoAssumption DEF OnStack
<1>2. 1..cpu.sp = 1..2
  BY <1>1
<1>3. 2 \in 1..cpu.sp /\ ~(3 \in 1..cpu.sp)
  BY <1>2
<1>4. cpu.sp = 2
  BY <1>1, <1>3
<1> QED
  BY <1>1, <1>4 DEF Local

\* The loop yields as long as it has not counted to loop_ct.
LEMMA WhileKeeps ==
  ASSUME IInv, SchedInv, While
  PROVE  SchedInv'
<1>1. PICK c \in Co : cpu.co = c /\ at[c] = "while"
  BY DEF While, CoAt
<1>2. Runs(c) /\ arg[c] \in Loops /\ arg[c] \in Nat
  BY <1>1, RunnerIsInTurn, SchedulerAssumption
<1>3. /\ abort \in {"none", "alloc"} /\ at \in [Co -> {"entry", "while", "ct++"}]
      /\ UNCHANGED <<mainVars, arg, resumes>>
  BY DEF SchedInv, SchedTypeOK, While
<1>4. PICK k \in 0..arg[c] : FramesOf(c) = <<arg[c], k>> /\ resumes[c] = k + 1
  BY <1>1, <1>2 DEF Runs, Frame
<1>5. Local(1) = arg[c] /\ Local(2) = k
  BY <1>1, <1>4, LocalsAreFrame
<1>6. CASE k < arg[c]
  <2>1. aco_yield /\ at' = [at EXCEPT ![c] = "ct++"]
    BY <1>1, <1>5, <1>6 DEF While, CoGoto
  <2>2. /\ Shows(c, "yielded", FramesOf(c))
        /\ cpu'.co = MainCo /\ abort' = abort
    BY <1>1, <2>1, YieldShows
  <2>3. Counts(c)'
    <3>1. at'[c] = "ct++" /\ arg' = arg /\ resumes' = resumes
      BY <1>3, <2>1
    <3>2. StatusOf(c)' = "yielded" /\ FramesOf(c)' = FramesOf(c)
      BY <2>2 DEF Shows
    <3>3. k \in 0..arg'[c] /\ Frame(c, k)' /\ k < arg'[c] /\ resumes'[c] = k + 1
      BY <1>4, <1>6, <3>1, <3>2 DEF Frame
    <3>4. Waits(c)'
      BY <3>1, <3>3 DEF Waits
    <3> QED
      BY <1>2, <3>1, <3>2, <3>4 DEF Counts
  <2> QED
    BY <1>1, <1>3, <2>1, <2>2, <2>3, WorkKeeps
<1>7. CASE ~(k < arg[c])
  <2>1. aco_exit /\ at' = at
    BY <1>5, <1>7 DEF While
  <2>2. /\ Shows(c, "end", <<>>)
        /\ cpu'.co = MainCo /\ abort' = abort
    BY <1>1, <2>1, ExitShows
  <2>3. Counts(c)'
    <3>1. k = arg[c]
      BY <1>2, <1>4, <1>7
    <3> QED
      BY <1>2, <1>3, <1>4, <2>2, <3>1 DEF Counts, Shows
  <2> QED
    BY <1>1, <1>3, <2>1, <2>2, <2>3, WorkKeeps
<1> QED
  BY <1>6, <1>7

\* ct++ changes the second word on the stack and nothing else.
LEMMA IncrementShows ==
  ASSUME IInv, SchedInv, Increment, NEW c \in Co, cpu.co = c,
         NEW k \in 0..arg[c], FramesOf(c) = <<arg[c], k>>, k < arg[c]
  PROVE  /\ Shows(c, "running", <<arg[c], k + 1>>)
         /\ cpu' = cpu /\ abort' = abort
         /\ IInv'
<1>1. /\ cpu.sp = 2 /\ mem[CurStack][1] = arg[c] /\ mem[CurStack][2] = k
      /\ CurStack = share_stack[c] /\ CurStack \in Stack
      /\ owner[CurStack] = c /\ c \in live /\ ~is_end[c] /\ c # MainCo
      /\ arg[c] \in Loops /\ arg[c] \in Nat
  BY LocalsAreFrame, RunnerIsInTurn, SchedulerAssumption DEF Local
<1>2. /\ mem' = [mem EXCEPT ![CurStack][2] = k + 1]
      /\ UNCHANGED <<coVars, stacks, owner, align_validsz, runVars, abort>>
  BY <1>1 DEF Increment
<1>3. /\ mem \in [Stack -> [0..Room -> Cell \cup {Protector}]]
      /\ 2 \in 0..Room
      /\ k + 1 \in Word
  <2>1. Limit \in Nat /\ Room \in Nat /\ 2 <= Room
    BY AcoAssumption, SchedulerAssumption
  <2>2. k + 1 \in 0..arg[c]
    BY <1>1
  <2>3. k + 1 \in Word
    BY <1>1, <2>2, SchedulerAssumption
  <2>4. mem \in [Stack -> [0..Room -> Cell \cup {Protector}]]
    BY DEF IInv, TypeOK
  <2> QED
    BY <2>1, <2>3, <2>4
<1>4. \A t \in Stack, i \in 0..Room :
        mem'[t][i] = IF t = CurStack /\ i = 2 THEN k + 1 ELSE mem[t][i]
  BY <1>1, <1>2, <1>3
<1>5. mem' \in [Stack -> [0..Room -> Cell \cup {Protector}]]
  BY <1>1, <1>2, <1>3 DEF Cell
<1>6. SlotsIntact'
  BY <1>3, <1>4, AcoAssumption DEF IInv, SlotsIntact, Cell
<1>7. IInv'
  BY <1>2, <1>5, <1>6 DEF IInv, TypeOK, OwnerIsValid, RunnerIsCurrent,
     EvictedFramesFit, OwnAssertionsHold, LiveHaveStacks, SavedIsThere,
     NoneIsWild, coVars, runVars
<1>8. \A d \in Co : StatusOf(d)' = StatusOf(d)
  BY <1>2 DEF StatusOf, coVars, runVars
<1>9. ASSUME NEW d \in Co \ {c}
      PROVE  FramesOf(d)' = FramesOf(d)
  <2>1. CASE d \notin live \/ is_end[d]
    BY <1>2, <2>1 DEF FramesOf, coVars
  <2>2. CASE d \in live /\ ~is_end[d]
    <3>1. share_stack[d] \in Stack
      BY <2>2 DEF IInv, TypeOK, LiveHaveStacks
    <3>2. owner[share_stack[d]] = d =>
            mem'[share_stack[d]] = mem[share_stack[d]]
      BY <1>1, <1>2, <1>3, <3>1
    <3>3. FramesOf(d) = IF owner[share_stack[d]] = d
                        THEN OnStack(d, reg[d].sp) ELSE Evicted(d)
      BY <1>1, <2>2, WhereFramesAre
    <3>4. /\ UNCHANGED <<live, share_stack, is_end, save_stack, owner, reg>>
          /\ cpu' = cpu /\ cpu.co # d
      BY <1>2 DEF coVars, runVars
    <3>5. FramesOf(d)' = IF owner[share_stack[d]] = d
                         THEN OnStack(d, reg[d].sp)' ELSE Evicted(d)'
      BY <2>2, <3>4 DEF FramesOf, OnStack, Evicted
    <3>6. Evicted(d)' = Evicted(d)
      BY <3>4 DEF Evicted
    <3>7. owner[share_stack[d]] = d =>
            OnStack(d, reg[d].sp)' = OnStack(d, reg[d].sp)
      BY <3>2, <3>4 DEF OnStack
    <3> QED
      BY <3>3, <3>5, <3>6, <3>7
  <2> QED
    BY <2>1, <2>2
<1>10. FramesOf(c)' = <<arg[c], k + 1>>
  <2>1. FramesOf(c)' = [i \in 1..2 |-> mem'[CurStack][i]]
    BY <1>1, <1>2 DEF FramesOf, coVars, runVars
  <2>2. mem'[CurStack][1] = arg[c] /\ mem'[CurStack][2] = k + 1
    <3>1. 1 \in 0..Room
      BY <1>3, AcoAssumption
    <3> QED
      BY <1>1, <1>3, <1>4, <3>1
  <2> QED
    BY <2>1, <2>2
<1>11. cpu' = cpu /\ abort' = abort /\ StatusOf(c) = "running"
  BY <1>2, RunnerIsInTurn DEF runVars
<1> QED
  BY <1>7, <1>8, <1>9, <1>10, <1>11 DEF Shows

\* A coroutine that comes back from aco_yield counts it.
LEMMA IncrementKeeps ==
  ASSUME IInv, SchedInv, Increment
  PROVE  IInv' /\ SchedInv'
<1>1. PICK c \in Co : cpu.co = c /\ at[c] = "ct++"
  BY DEF Increment, CoAt
<1>2. Runs(c) /\ arg[c] \in Loops /\ arg[c] \in Nat
  BY <1>1, RunnerIsInTurn, SchedulerAssumption
<1>3. /\ abort \in {"none", "alloc"} /\ at \in [Co -> {"entry", "while", "ct++"}]
      /\ at' = [at EXCEPT ![c] = "while"]
      /\ UNCHANGED <<mainVars, arg, resumes>>
  BY <1>1 DEF SchedInv, SchedTypeOK, Increment, CoGoto
<1>4. PICK k \in 0..arg[c] :
        FramesOf(c) = <<arg[c], k>> /\ k < arg[c] /\ resumes[c] = k + 2
  BY <1>1, <1>2 DEF Runs, Frame
<1>5. /\ Shows(c, "running", <<arg[c], k + 1>>)
      /\ cpu' = cpu /\ abort' = abort
      /\ IInv'
  BY <1>1, <1>4, IncrementShows
<1>6. Counts(c)'
  <2>1. at'[c] = "while" /\ arg' = arg /\ resumes' = resumes
    BY <1>3
  <2>2. StatusOf(c)' = "running" /\ FramesOf(c)' = <<arg[c], k + 1>>
    BY <1>5 DEF Shows
  <2>3. k + 1 \in 0..arg'[c] /\ Frame(c, k + 1)' /\ resumes'[c] = (k + 1) + 1
    BY <1>2, <1>4, <2>1, <2>2 DEF Frame
  <2>4. Runs(c)'
    BY <2>1, <2>3 DEF Runs
  <2> QED
    BY <1>2, <2>1, <2>2, <2>4 DEF Counts
<1> QED
  BY <1>1, <1>3, <1>5, <1>6, WorkKeeps

-----------------------------------------------------------------------------
(***************************************************************************)
(* The theorems.                                                           *)
(***************************************************************************)

\* Nothing has been created at the start.
LEMMA InitSched == SchedInit => IInv /\ SchedInv
<1> SUFFICES ASSUME SchedInit
             PROVE  IInv /\ SchedInv
  OBVIOUS
<1> USE DEF SchedInit
<1>1. IInv
  BY InitIInv
<1>2. \A c \in Co : StatusOf(c) = "absent"
  BY DEF Init, StatusOf
<1>3. SchedTypeOK
  BY DEF SchedTypeOK, Init
<1>4. \A c \in Co : Counts(c)
  BY <1>2 DEF Counts
<1>5. Distinct /\ InTurn /\ Scanning /\ Emptied
  BY DEF Distinct, InTurn, Scanning, Emptied, Init
<1>6. Filling
  BY AmountIsPositive DEF Filling
<1> QED
  BY <1>1, <1>3, <1>4, <1>5, <1>6 DEF SchedInv

\* Nothing happens, or memory runs out: the process stops where it is.
LEMMA StopKeeps ==
  ASSUME SchedInv, UNCHANGED <<coVars, stackVars, runVars>>,
         abort' \in {"none", "alloc"},
         UNCHANGED <<mainVars, coFpVars, resumes>>
  PROVE  SchedInv'
<1>1. /\ \A d \in Co : Looks(d)
      /\ cpu' = cpu
      /\ UNCHANGED <<pc, coarray, ct, null_ct, arg, at, resumes>>
  BY DEF coVars, stackVars, runVars, mainVars, coFpVars, Looks, StatusOf,
     FramesOf
<1>2. \A d \in Co : Counts(d)'
  BY <1>1, AllCount
<1>3. SchedTypeOK' /\ Distinct' /\ InTurn' /\ Emptied'
  BY <1>1 DEF SchedInv, SchedTypeOK, Distinct, InTurn, Emptied
<1>4. \A i \in Index : coarray[i] # NULL =>
        StatusOf(coarray[i])' = StatusOf(coarray[i])
  <2>1. ASSUME NEW i \in Index, coarray[i] # NULL
        PROVE  StatusOf(coarray[i])' = StatusOf(coarray[i])
    <3>1. PICK d \in Co : d = coarray[i]
      BY <2>1 DEF SchedInv, SchedTypeOK
    <3>2. coarray'[i] = d /\ StatusOf(d)' = StatusOf(d)
      BY <1>1, <3>1 DEF Looks
    <3> QED
      BY <3>1, <3>2
  <2> QED
    BY <2>1
<1>5. Filling'
  BY <1>1, <1>4 DEF SchedInv, Filling
<1>6. Scanning'
  <2>1. EvenRounds' <=> EvenRounds
    BY <1>1 DEF EvenRounds, Turn
  <2>2. EmptySeen' <=> EmptySeen
    BY <1>1 DEF EmptySeen, Ago
  <2> QED
    BY <1>1, <1>4, <2>1, <2>2 DEF SchedInv, Scanning
<1> QED
  BY <1>2, <1>3, <1>5, <1>6 DEF SchedInv

\* But for ct++, which no call of the library is, the program takes steps of
\* module Aco.
LEMMA StepsAreOfAco ==
  ASSUME IInv, SchedInv, [SchedNext]_allVars
  PROVE  Increment \/ [Next]_vars
<1>1. CASE SetUp
  BY <1>1 DEF SetUp, Next
<1>2. CASE CreateNext
  <2>1. stacks \subseteq Stack
    BY DEF IInv, TypeOK
  <2> QED
    BY <1>2, <2>1, SchedulerAssumption DEF CreateNext, Next
<1>3. CASE ResumeNext
  <2>1. coarray[ct] \in Co /\ aco_resume(coarray[ct])
    BY <1>3, ResumeSucceeds DEF ResumeNext
  <2> QED
    BY <2>1 DEF Next
<1>4. CASE AfterResume
  <2>1. coarray[ct] \in Co
    BY <1>4 DEF AfterResume, MainAt, SchedInv, Scanning, SchedTypeOK
  <2> QED
    BY <1>4, <2>1 DEF AfterResume, DestroyEnded, Next
<1>5. CASE SkipNull
  BY <1>5 DEF SkipNull
<1>6. CASE CleanUp
  <2>1. stacks \subseteq Stack
    BY DEF IInv, TypeOK
  <2> QED
    BY <1>6, <2>1 DEF CleanUp, Next
<1>7. CASE Enter
  <2>1. PICK c \in Co : cpu.co = c
    BY <1>7 DEF Enter, CoAt
  <2>2. arg[c] \in Word /\ 0 \in Word
    <3>1. arg[c] \in Loops /\ arg[c] \in Nat
      BY <2>1, RunnerIsInTurn, SchedulerAssumption
    <3>2. 0 \in 0..arg[c] /\ arg[c] \in 0..arg[c]
      BY <3>1
    <3> QED
      BY <3>1, <3>2, SchedulerAssumption
  <2>3. \E w \in Word : Push(w)
    BY <1>7, <2>1, <2>2 DEF Enter
  <2> QED
    BY <2>3 DEF Next
<1>8. CASE While
  BY <1>8 DEF While, Next
<1>9. CASE OutOfMemory
  BY <1>9 DEF OutOfMemory, Next
<1>10. CASE Ended \/ UNCHANGED allVars
  BY <1>10 DEF Ended, allVars
<1> QED
  BY <1>1, <1>2, <1>3, <1>4, <1>5, <1>6, <1>7, <1>8, <1>9, <1>10
     DEF SchedNext, Step

\* Every step of the program preserves the invariant.
THEOREM SchedulerStep ==
  IInv /\ SchedInv /\ [SchedNext]_allVars => IInv' /\ SchedInv'
<1> SUFFICES ASSUME IInv, SchedInv, [SchedNext]_allVars
             PROVE  IInv' /\ SchedInv'
  OBVIOUS
<1>1. IInv'
  BY StepsAreOfAco, NextKeepsIInv, IncrementKeeps
<1> SUFFICES SchedInv'
  BY <1>1
<1>2. CASE SetUp
  BY <1>2, SetUpKeeps
<1>3. CASE CreateNext
  <2>1. CASE ct < co_amount
    BY <1>3, <2>1, CreateKeeps DEF CreateNext
  <2>2. CASE ~(ct < co_amount)
    BY <1>3, <2>2, CreatedKeeps DEF CreateNext, Goto
  <2> QED
    BY <2>1, <2>2
<1>4. CASE ResumeNext
  BY <1>4, ResumeKeeps
<1>5. CASE AfterResume
  BY <1>5, AfterResumeKeeps
<1>6. CASE SkipNull
  BY <1>6, SkipNullKeeps
<1>7. CASE CleanUp
  BY <1>7, CleanUpKeeps
<1>8. CASE Enter
  BY <1>8, EnterKeeps
<1>9. CASE While
  BY <1>9, WhileKeeps
<1>10. CASE Increment
  BY <1>10, IncrementKeeps
<1>11. CASE OutOfMemory
  BY <1>11, StopKeeps DEF OutOfMemory, AllocFails, Die
<1>12. CASE Ended \/ UNCHANGED allVars
  <2>1. UNCHANGED <<vars, mainVars, coFpVars, resumes>>
    BY <1>12 DEF Ended, allVars
  <2> QED
    BY <2>1, StopKeeps DEF SchedInv, SchedTypeOK, vars
<1> QED
  BY <1>2, <1>3, <1>4, <1>5, <1>6, <1>7, <1>8, <1>9, <1>10, <1>11, <1>12
     DEF SchedNext, Step

\* The invariant of libaco holds in this program, and the one of its main().
THEOREM SchedulerInvariance == SchedSpec => [](IInv /\ SchedInv)
BY InitSched, SchedulerStep, PTL DEF SchedSpec

\* None of the assertions of aco.c, aco.h and the program ever fails,
\* whatever the number of coroutines and the loops each of them runs.
THEOREM SchedulerNeverFails == SchedSpec => []NoAssertionFails
<1>1. SchedInv => NoAssertionFails
  BY DEF SchedInv, SchedTypeOK, NoAssertionFails
<1> QED
  BY <1>1, SchedulerInvariance, PTL

\* A coroutine that has ended has counted every resume of it: its local
\* variables survived each eviction from the share stack.
THEOREM CountersSurvive == SchedSpec => []ResumedAsAsked
<1>1. SchedInv => ResumedAsAsked
  <2> SUFFICES ASSUME SchedInv, NEW c \in live \cap Co, is_end[c]
               PROVE  resumes[c] = arg[c] + 1
    BY DEF ResumedAsAsked
  <2>1. StatusOf(c) = "end" /\ Counts(c)
    BY DEF StatusOf, SchedInv
  <2> QED
    BY <2>1 DEF Counts
<1> QED
  BY <1>1, SchedulerInvariance, PTL

\* No coroutine that goes on is ever two turns ahead of another.
THEOREM TurnsAreTaken == SchedSpec => []TakeTurns
<1>1. SchedInv => TakeTurns
  <2> SUFFICES ASSUME SchedInv, NEW i \in Index, NEW j \in Index, i < j,
                      coarray[i] # NULL, coarray[j] # NULL, pc # "create"
               PROVE  resumes[coarray[i]] - resumes[coarray[j]] \in {0, 1}
    BY DEF TakeTurns
  <2>1. SchedTypeOK /\ Filling /\ Scanning /\ Emptied
    BY DEF SchedInv
  <2>2. ct \in Nat /\ i \in Nat /\ j \in Nat
    BY <2>1, AmountIsPositive DEF SchedTypeOK
  <2>3. pc \in {"scan", "resumed"}
    BY <2>1, <2>2 DEF SchedTypeOK, Filling, Emptied
  <2>4. resumes[coarray[i]] + Turn(j) = resumes[coarray[j]] + Turn(i)
    BY <2>1, <2>3 DEF Scanning, EvenRounds
  <2>5. resumes[coarray[i]] \in Nat /\ resumes[coarray[j]] \in Nat
    BY <2>1 DEF SchedTypeOK
  <2>6. Turn(i) - Turn(j) \in {0, 1} /\ Turn(i) \in {0, 1} /\ Turn(j) \in {0, 1}
    BY <2>2 DEF Turn
  <2> QED
    BY <2>4, <2>5, <2>6
<1> QED
  BY <1>1, SchedulerInvariance, PTL
=============================================================================
