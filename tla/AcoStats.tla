------------------------------ MODULE AcoStats ------------------------------
(***************************************************************************)
(* The copy statistics every coroutine carries in its save stack: how      *)
(* often its frames were saved and restored and the largest copy made.     *)
(* README.md tells a program to choose save_stack_sz from them, and        *)
(* test_aco_benchmark.c prints them. They are kept apart from module Aco,  *)
(* whose behaviour does not depend on them.                                *)
(***************************************************************************)
EXTENDS Aco

CONSTANT CtMod   \* 2^w, w the width of size_t: where the counters wrap

ASSUME AcoStatsAssumption == CtMod \in Nat \ {0, 1}

VARIABLES
  stats,     \* max_cpsz, ct_save and ct_restore of co->save_stack
  asked_sz,  \* history: save_stack.sz when the coroutine was created
  shared     \* history: another coroutine has used the same stack in its life

statVars == <<stats, asked_sz, shared>>

NoStats == [max_cpsz |-> 0, ct_save |-> 0, ct_restore |-> 0]

StatsInit ==
  /\ Init
  /\ stats = [c \in Co |-> NoStats]
  /\ asked_sz = [c \in Co |-> 0]
  /\ shared = [c \in Co |-> FALSE]

-----------------------------------------------------------------------------
Larger(m, n) == IF n > m THEN n ELSE m

Count(ct, n) == IF n > 0 THEN (ct + 1) % CtMod ELSE ct

\* Mutant: every save is counted, also one with nothing to copy.
CountEverySave(st, n) ==
  [st EXCEPT !.ct_save = (@ + 1) % CtMod, !.max_cpsz = Larger(@, n)]

\* Mutant: the last copy size is kept rather than the largest.
CountLastSave(st, n) ==
  [st EXCEPT !.ct_save = Count(@, n), !.max_cpsz = n]

\* The statistics after n words were saved, and after n were restored.
CountSave(st, n) ==
  [st EXCEPT !.ct_save = Count(@, n), !.max_cpsz = Larger(@, n)]

CountRestore(st, n) ==
  [st EXCEPT !.ct_restore = Count(@, n), !.max_cpsz = Larger(@, n)]

StatsCreate(c, s, n) ==
  /\ aco_create(c, s, n)
  /\ stats' = [stats EXCEPT ![c] = NoStats]
  /\ asked_sz' = [asked_sz EXCEPT ![c] = save_stack'[c].sz]
  /\ LET others == {d \in live \cap Co : share_stack[d] = s}
     IN shared' = [d \in Co |->
                     CASE d = c         -> others # {}
                       [] d \in others  -> TRUE
                       [] OTHER         -> shared[d]]

\* The fields of the freed aco_t are given initial values.
StatsDestroy(c) ==
  /\ aco_destroy(c)
  /\ stats' = [stats EXCEPT ![c] = NoStats]
  /\ asked_sz' = [asked_sz EXCEPT ![c] = 0]
  /\ shared' = [shared EXCEPT ![c] = FALSE]

StatsResumeFree(c) ==
  /\ ResumeFree(c)
  /\ stats' = [stats EXCEPT ![c] = CountRestore(@, save_stack[c].valid_sz)]
  /\ UNCHANGED <<asked_sz, shared>>

StatsResumeEvict(c) ==
  LET o == owner[share_stack[c]]
  IN /\ ResumeEvict(c)
     /\ stats' = [stats EXCEPT
                    ![o] = CountSave(@, reg[o].sp),
                    ![c] = CountRestore(@, save_stack[c].valid_sz)]
     /\ UNCHANGED <<asked_sz, shared>>

StatsNext ==
  \/ \E c \in Co :
       \/ \E s \in Stack, n \in SaveArgs : StatsCreate(c, s, n)
       \/ StatsDestroy(c)
       \/ StatsResumeFree(c)
       \/ StatsResumeEvict(c)
  \/ /\ \/ CreateMain \/ DestroyMain
        \/ \E s \in Stack : aco_share_stack_new(s) \/ aco_share_stack_destroy(s)
        \/ \E c \in Co : ResumeOwner(c) \/ ResumeAborts(c)
        \/ aco_yield \/ aco_exit
        \/ \E w \in Word : Push(w)
        \/ Pop \/ Return \/ TailYield
        \/ aco_funcp_protector \/ AllocFails \/ Aborted
     /\ UNCHANGED statVars

StatsSpec == StatsInit /\ [][StatsNext]_<<vars, statVars>>

-----------------------------------------------------------------------------
\* Every save is undone by one restore before the next save: the two counters
\* agree while a coroutine has its frames on the share stack or has ended, and
\* differ by one (also across a wrap of ct_save) exactly while frames of it
\* lie in its save stack only.
SavesArePaired ==
  \A c \in live \cap Co :
    (stats[c].ct_save - stats[c].ct_restore) % CtMod =
      IF \/ owner[share_stack[c]] = c
         \/ is_end[c]
         \/ save_stack[c].valid_sz = 0
      THEN 0 ELSE 1

\* README.md:349: creating a coroutine with the max_cpsz of an earlier run
\* spares it every reallocation of its save stack. The save stack has grown
\* exactly when a copy did not fit the size asked for, it always fits the
\* largest copy and is less than twice that when it has grown.
MaxCpszPredictsGrowth ==
  \A c \in live \cap Co :
    /\ stats[c].max_cpsz <= save_stack[c].sz
    /\ save_stack[c].sz = asked_sz[c] <=> stats[c].max_cpsz <= asked_sz[c]
    /\ save_stack[c].sz > asked_sz[c] =>
         save_stack[c].sz < 2 * stats[c].max_cpsz

\* README.md:183: the frames of a coroutine that has been the only user of its
\* share stack since it was created were never copied, however often it was
\* switched in and out and whoever used the stack before.
StandaloneIsNeverCopied ==
  \A c \in live \cap Co :
    ~shared[c] => stats[c] = NoStats /\ save_stack[c].sz = asked_sz[c]
=============================================================================
