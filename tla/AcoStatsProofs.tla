--------------------------- MODULE AcoStatsProofs ---------------------------
(***************************************************************************)
(* Proofs about the copy statistics, for any number of coroutines and any  *)
(* width of the counters. They rest on the inductive invariant of module   *)
(* Aco, which every step of the counting library keeps too.                *)
(***************************************************************************)
EXTENDS AcoStats, AcoProofs

StatsTypeOK ==
  /\ stats \in [Co -> [max_cpsz : Nat, ct_save : 0..(CtMod - 1),
                       ct_restore : 0..(CtMod - 1)]]
  /\ asked_sz \in [Co -> Nat]
  /\ shared \in [Co -> BOOLEAN]

\* Two coroutines that use the same stack know of each other's company, and
\* a coroutine that never had any has never been saved.
CompanyIsKnown ==
  \A c \in live \cap Co : ~shared[c] =>
    /\ \A d \in live \cap Co : d # c => share_stack[d] # share_stack[c]
    /\ save_stack[c].valid_sz = 0

\* The inductive invariant of the statistics.
StatsInv ==
  /\ StatsTypeOK
  /\ CompanyIsKnown
  /\ StandaloneIsNeverCopied
  /\ MaxCpszPredictsGrowth
  /\ SavesArePaired

-----------------------------------------------------------------------------
(***************************************************************************)
(* The counters.                                                           *)
(***************************************************************************)

\* The counter after m.
Succ(m) == IF m + 1 = CtMod THEN 0 ELSE m + 1

\* Counting wraps at CtMod, and so does the difference of two counters.
LEMMA CounterWraps ==
  ASSUME NEW a \in 0..(CtMod - 1), NEW b \in 0..(CtMod - 1)
  PROVE  /\ (a + 1) % CtMod = Succ(a)
         /\ Succ(a) \in 0..(CtMod - 1)
         /\ (a - b) % CtMod = IF a >= b THEN a - b ELSE a - b + CtMod
<1>1. CtMod \in Nat /\ CtMod > 1
  BY AcoStatsAssumption
<1>2. a \in Nat /\ b \in Nat /\ a < CtMod /\ b < CtMod
  BY <1>1
<1>3. (a + 1) % CtMod = Succ(a) /\ Succ(a) \in 0..(CtMod - 1)
  <2>1. CASE a + 1 = CtMod
    BY <1>1, <1>2, <2>1 DEF Succ
  <2>2. CASE a + 1 # CtMod
    BY <1>1, <1>2, <2>2 DEF Succ
  <2> QED
    BY <2>1, <2>2
<1>4. CASE a >= b
  <2>1. a - b \in Nat /\ a - b < CtMod
    BY <1>1, <1>2, <1>4
  <2>2. (a - b) % CtMod = a - b
    BY <1>1, <2>1
  <2> QED
    BY <1>3, <1>4, <2>2
<1>5. CASE ~(a >= b)
  <2>1. a - b + CtMod \in Nat /\ a - b + CtMod < CtMod
    BY <1>1, <1>2, <1>5
  <2>2. (a - b) % CtMod = (a - b + CtMod) % CtMod
    BY <1>1, <1>2
  <2>3. (a - b + CtMod) % CtMod = a - b + CtMod
    BY <1>1, <2>1
  <2> QED
    BY <1>3, <1>5, <2>2, <2>3
<1> QED
  BY <1>4, <1>5

\* Two counters agree, or one is a step ahead, as their difference says; a
\* step of either moves the difference by one.
LEMMA Difference ==
  ASSUME NEW a \in 0..(CtMod - 1), NEW b \in 0..(CtMod - 1)
  PROVE  /\ (a - b) % CtMod = 0 => (Succ(a) - b) % CtMod = 1
         /\ (a - b) % CtMod = 1 => (a - Succ(b)) % CtMod = 0
<1>1. CtMod \in Nat /\ CtMod > 1
  BY AcoStatsAssumption
<1>2. Succ(a) \in 0..(CtMod - 1) /\ Succ(b) \in 0..(CtMod - 1)
  BY CounterWraps
<1>3. (a - b) % CtMod = IF a >= b THEN a - b ELSE a - b + CtMod
  BY CounterWraps
<1>4. (Succ(a) - b) % CtMod = IF Succ(a) >= b THEN Succ(a) - b
                                              ELSE Succ(a) - b + CtMod
  BY <1>2, CounterWraps
<1>5. (a - Succ(b)) % CtMod = IF a >= Succ(b) THEN a - Succ(b)
                                              ELSE a - Succ(b) + CtMod
  BY <1>2, CounterWraps
<1> QED
  BY <1>1, <1>2, <1>3, <1>4, <1>5 DEF Succ

\* The statistics after a copy of n words, field by field.
LEMMA CountIs ==
  ASSUME NEW st \in [max_cpsz : Nat, ct_save : 0..(CtMod - 1),
                     ct_restore : 0..(CtMod - 1)],
         NEW n \in Nat
  PROVE  /\ CountSave(st, n) =
              [max_cpsz |-> Larger(st.max_cpsz, n),
               ct_save |-> IF n > 0 THEN Succ(st.ct_save) ELSE st.ct_save,
               ct_restore |-> st.ct_restore]
         /\ CountRestore(st, n) =
              [max_cpsz |-> Larger(st.max_cpsz, n),
               ct_save |-> st.ct_save,
               ct_restore |-> IF n > 0 THEN Succ(st.ct_restore)
                                       ELSE st.ct_restore]
         /\ Larger(st.max_cpsz, n) \in Nat
         /\ Succ(st.ct_save) \in 0..(CtMod - 1)
         /\ Succ(st.ct_restore) \in 0..(CtMod - 1)
<1> DEFINE m == st.max_cpsz
           a == st.ct_save
           b == st.ct_restore
<1>1. m \in Nat /\ a \in 0..(CtMod - 1) /\ b \in 0..(CtMod - 1)
  OBVIOUS
<1>2. /\ (a + 1) % CtMod = Succ(a) /\ Succ(a) \in 0..(CtMod - 1)
      /\ (b + 1) % CtMod = Succ(b) /\ Succ(b) \in 0..(CtMod - 1)
  BY <1>1, CounterWraps
<1>3. Larger(m, n) \in Nat
  BY <1>1 DEF Larger
<1>4. /\ Count(a, n) = IF n > 0 THEN Succ(a) ELSE a
      /\ Count(b, n) = IF n > 0 THEN Succ(b) ELSE b
  BY <1>2 DEF Count
<1>5. CountSave(st, n) = [max_cpsz |-> Larger(m, n), ct_save |-> Count(a, n),
                          ct_restore |-> b]
  <2> DEFINE f == [x \in {"max_cpsz", "ct_save", "ct_restore"} |->
                     IF x = "max_cpsz" THEN Larger(m, n)
                     ELSE IF x = "ct_save" THEN Count(a, n) ELSE st[x]]
  <2>1. CountSave(st, n) = f
    BY DEF CountSave
  <2>2. f = [max_cpsz |-> Larger(m, n), ct_save |-> Count(a, n), ct_restore |-> b]
    OBVIOUS
  <2> QED
    BY <2>1, <2>2
<1>6. CountRestore(st, n) = [max_cpsz |-> Larger(m, n), ct_save |-> a,
                             ct_restore |-> Count(b, n)]
  <2> DEFINE f == [x \in {"max_cpsz", "ct_save", "ct_restore"} |->
                     IF x = "max_cpsz" THEN Larger(m, n)
                     ELSE IF x = "ct_restore" THEN Count(b, n) ELSE st[x]]
  <2>1. CountRestore(st, n) = f
    BY DEF CountRestore
  <2>2. f = [max_cpsz |-> Larger(m, n), ct_save |-> a, ct_restore |-> Count(b, n)]
    OBVIOUS
  <2> QED
    BY <2>1, <2>2
<1> HIDE DEF m, a, b
<1>7. /\ CountSave(st, n) =
           [max_cpsz |-> Larger(m, n),
            ct_save |-> IF n > 0 THEN Succ(a) ELSE a, ct_restore |-> b]
      /\ CountRestore(st, n) =
           [max_cpsz |-> Larger(m, n), ct_save |-> a,
            ct_restore |-> IF n > 0 THEN Succ(b) ELSE b]
  BY <1>4, <1>5, <1>6
<1> QED
  BY <1>2, <1>3, <1>7 DEF m, a, b

-----------------------------------------------------------------------------
(***************************************************************************)
(* Steps that copy nothing.                                                *)
(***************************************************************************)

\* The coroutines whose frames are on a share stack, or gone.
NotAway(c) == owner[share_stack[c]] = c \/ is_end[c]

\* A step that leaves save stacks and statistics alone, and brings no frames
\* to a share stack or away from it.
LEMMA QuietKeepsStatsInv ==
  ASSUME StatsInv,
         UNCHANGED <<stats, asked_sz, shared, share_stack, save_stack>>,
         live' \cap Co = live \cap Co,
         \A c \in live \cap Co : NotAway(c)' <=> NotAway(c)
  PROVE  StatsInv'
<1>1. StatsTypeOK' /\ CompanyIsKnown'
  BY DEF StatsInv, StatsTypeOK, CompanyIsKnown
<1>2. StandaloneIsNeverCopied' /\ MaxCpszPredictsGrowth'
  BY DEF StatsInv, StandaloneIsNeverCopied, MaxCpszPredictsGrowth
<1>3. SavesArePaired'
  BY DEF StatsInv, SavesArePaired, NotAway
<1> QED
  BY <1>1, <1>2, <1>3 DEF StatsInv

\* The calls and steps that are not counted.
Uncounted ==
  \/ CreateMain \/ DestroyMain
  \/ \E s \in Stack : aco_share_stack_new(s) \/ aco_share_stack_destroy(s)
  \/ \E c \in Co : ResumeOwner(c) \/ ResumeAborts(c)
  \/ aco_yield \/ aco_exit
  \/ \E w \in Word : Push(w)
  \/ Pop \/ Return \/ TailYield
  \/ aco_funcp_protector \/ AllocFails \/ Aborted

\* A call of aco_exit moves the frames of its caller from a share stack to
\* nowhere; no other uncounted step moves any.
LEMMA UncountedIsQuiet ==
  ASSUME IInv, Uncounted
  PROVE  /\ UNCHANGED <<share_stack, save_stack>>
         /\ live' \cap Co = live \cap Co
         /\ \A c \in live \cap Co : NotAway(c)' <=> NotAway(c)
<1>1. CASE CreateMain \/ DestroyMain
  BY <1>1, AcoAssumption
     DEF CreateMain, DestroyMain, stackVars, NotAway, IInv, TypeOK
<1>2. ASSUME NEW s \in Stack,
             aco_share_stack_new(s) \/ aco_share_stack_destroy(s)
      PROVE  /\ UNCHANGED <<share_stack, save_stack, live>>
             /\ \A c \in live \cap Co : NotAway(c)' <=> NotAway(c)
  <2>1. UNCHANGED <<share_stack, save_stack, live, is_end>>
        /\ \A t \in stacks : owner'[t] = owner[t]
    BY <1>2 DEF aco_share_stack_new, aco_share_stack_destroy, coVars, IInv, TypeOK
  <2> QED
    BY <2>1 DEF NotAway, IInv, LiveHaveStacks
<1>3. CASE aco_exit
  <2>1. PICK c \in Co : cpu.co = c
    BY <1>3 DEF aco_exit
  <2>2. /\ aco_gtls_co = c /\ c \in live /\ c # MainCo
        /\ owner[share_stack[c]] = c /\ share_stack[c] \in Stack
    BY <2>1, AcoAssumption DEF IInv, TypeOK, RunnerIsCurrent, LiveHaveStacks
  <2>3. /\ is_end' = [is_end EXCEPT ![c] = TRUE]
        /\ owner' = [owner EXCEPT ![share_stack[c]] = NULL]
        /\ UNCHANGED <<live, share_stack, save_stack>>
    BY <1>3, <2>2 DEF aco_exit, Disown
  <2>4. ASSUME NEW d \in live \cap Co
        PROVE  NotAway(d)' <=> NotAway(d)
    <3>1. CASE d = c
      BY <2>2, <2>3, <3>1 DEF NotAway, IInv, TypeOK
    <3>2. CASE d # c
      <4>1. share_stack[d] \in Stack
        BY DEF IInv, TypeOK, LiveHaveStacks
      <4>2. owner'[share_stack[d]] = d <=> owner[share_stack[d]] = d
        BY <2>2, <2>3, <3>2, <4>1, AcoAssumption DEF IInv, TypeOK
      <4>3. is_end'[d] = is_end[d]
        BY <2>3, <3>2 DEF IInv, TypeOK
      <4> QED
        BY <2>3, <4>2, <4>3 DEF NotAway
    <3> QED
      BY <3>1, <3>2
  <2> QED
    BY <2>3, <2>4
<1>4. CASE \/ \E c \in Co : ResumeOwner(c) \/ ResumeAborts(c)
           \/ aco_yield \/ \E w \in Word : Push(w)
           \/ Pop \/ Return \/ TailYield
           \/ aco_funcp_protector \/ AllocFails \/ Aborted
  <2>1. UNCHANGED <<share_stack, save_stack, live, is_end, owner>>
    BY <1>4 DEF ResumeOwner, ResumeAborts, SwitchTo, Die, aco_yield, Push, Pop,
       Return, TailYield, aco_funcp_protector, AllocFails, Aborted, vars,
       coVars, stackVars
  <2> QED
    BY <2>1 DEF NotAway
<1> QED
  BY <1>1, <1>2, <1>3, <1>4 DEF Uncounted

-----------------------------------------------------------------------------
(***************************************************************************)
(* Creating and destroying coroutines.                                     *)
(***************************************************************************)

\* What the three properties say of one coroutine, when its statistics are
\* those of a new one.
LEMMA NewIsCounted ==
  (NoStats.ct_save - NoStats.ct_restore) % CtMod = 0
<1>1. CtMod \in Nat /\ CtMod > 1
  BY AcoStatsAssumption
<1>2. NoStats.ct_save = 0 /\ NoStats.ct_restore = 0
  BY DEF NoStats
<1> QED
  BY <1>1, <1>2

\* A new coroutine and those it joins on its stack know of each other.
LEMMA StatsCreateKeepsStatsInv ==
  ASSUME IInv, StatsInv, NEW c \in Co, NEW s \in Stack, NEW n \in SaveArgs,
         StatsCreate(c, s, n)
  PROVE  StatsInv'
<1> DEFINE sz == IF n = 0 THEN DefaultSave ELSE n
           others == {d \in live \cap Co : share_stack[d] = s}
<1>1. /\ c \notin live
      /\ live' = live \cup {c}
      /\ share_stack' = [share_stack EXCEPT ![c] = s]
      /\ is_end' = [is_end EXCEPT ![c] = FALSE]
      /\ save_stack' = [save_stack EXCEPT ![c] =
                          [sz |-> sz, valid_sz |-> 0, buf |-> <<>>]]
      /\ owner' = owner
  BY DEF StatsCreate, aco_create, stackVars
<1>2. /\ stats' = [stats EXCEPT ![c] = NoStats]
      /\ asked_sz' = [asked_sz EXCEPT ![c] = save_stack'[c].sz]
      /\ shared' = [d \in Co |-> CASE d = c -> others # {}
                                   [] d \in others -> TRUE
                                   [] OTHER -> shared[d]]
  BY DEF StatsCreate
<1>3. sz \in Nat
  BY AcoAssumption
<1> HIDE DEF sz
<1>4. /\ share_stack'[c] = s /\ is_end'[c] = FALSE
      /\ save_stack'[c].sz = sz /\ save_stack'[c].valid_sz = 0
      /\ stats'[c] = NoStats /\ asked_sz'[c] = sz
      /\ shared'[c] = (others # {})
  BY <1>1, <1>2 DEF IInv, TypeOK, StatsInv, StatsTypeOK
<1>5. \A d \in Co \ {c} :
        /\ share_stack'[d] = share_stack[d] /\ is_end'[d] = is_end[d]
        /\ save_stack'[d] = save_stack[d] /\ stats'[d] = stats[d]
        /\ asked_sz'[d] = asked_sz[d] /\ (d \in live' <=> d \in live)
        /\ shared'[d] = IF d \in others THEN TRUE ELSE shared[d]
  BY <1>1, <1>2 DEF IInv, TypeOK, StatsInv, StatsTypeOK
<1>6. c \in live' /\ live' \cap Co = (live \cap Co) \cup {c}
  BY <1>1
<1>7. StatsTypeOK'
  <2>1. NoStats \in [max_cpsz : Nat, ct_save : 0..(CtMod - 1),
                     ct_restore : 0..(CtMod - 1)]
    BY AcoStatsAssumption DEF NoStats
  <2>2. shared' \in [Co -> BOOLEAN]
    BY <1>2 DEF StatsInv, StatsTypeOK
  <2>3. stats' \in [Co -> [max_cpsz : Nat, ct_save : 0..(CtMod - 1),
                           ct_restore : 0..(CtMod - 1)]]
    BY <1>2, <2>1 DEF StatsInv, StatsTypeOK
  <2>4. asked_sz' \in [Co -> Nat]
    BY <1>2, <1>3, <1>4 DEF StatsInv, StatsTypeOK
  <2> QED
    BY <2>2, <2>3, <2>4 DEF StatsTypeOK
<1>8. CompanyIsKnown'
  <2>1. ASSUME NEW d \in live' \cap Co, ~shared'[d]
        PROVE  /\ \A e \in live' \cap Co :
                    e # d => share_stack'[e] # share_stack'[d]
               /\ save_stack'[d].valid_sz = 0
    <3>1. CASE d = c
      <4>1. \A e \in live \cap Co : share_stack[e] # s
        BY <1>4, <2>1, <3>1
      <4> QED
        BY <1>4, <1>5, <1>6, <3>1, <4>1
    <3>2. CASE d # c
      <4>1. d \in live \cap Co /\ ~shared[d] /\ share_stack[d] # s
        BY <1>5, <2>1, <3>2
      <4> QED
        BY <1>4, <1>5, <1>6, <3>2, <4>1 DEF StatsInv, CompanyIsKnown
    <3> QED
      BY <3>1, <3>2
  <2> QED
    BY <2>1 DEF CompanyIsKnown
<1>9. StandaloneIsNeverCopied'
  BY <1>4, <1>5, <1>6 DEF StatsInv, StandaloneIsNeverCopied
<1>10. MaxCpszPredictsGrowth'
  <2>1. stats'[c].max_cpsz = 0
    BY <1>4 DEF NoStats
  <2>2. \A d \in (live' \cap Co) \ {c} :
          /\ stats'[d].max_cpsz <= save_stack'[d].sz
          /\ save_stack'[d].sz = asked_sz'[d] <=> stats'[d].max_cpsz <= asked_sz'[d]
          /\ save_stack'[d].sz > asked_sz'[d] =>
               save_stack'[d].sz < 2 * stats'[d].max_cpsz
    BY <1>5, <1>6 DEF StatsInv, MaxCpszPredictsGrowth
  <2>3. /\ stats'[c].max_cpsz <= save_stack'[c].sz
        /\ save_stack'[c].sz = asked_sz'[c] /\ stats'[c].max_cpsz <= asked_sz'[c]
        /\ ~(save_stack'[c].sz > asked_sz'[c])
    BY <1>3, <1>4, <2>1
  <2> QED
    BY <2>2, <2>3 DEF MaxCpszPredictsGrowth
<1>11. SavesArePaired'
  <2>1. \A d \in (live' \cap Co) \ {c} :
          (stats'[d].ct_save - stats'[d].ct_restore) % CtMod =
            IF \/ owner'[share_stack'[d]] = d
               \/ is_end'[d]
               \/ save_stack'[d].valid_sz = 0
            THEN 0 ELSE 1
    <3>1. ASSUME NEW d \in (live' \cap Co) \ {c}
          PROVE  /\ d \in live \cap Co /\ stats'[d] = stats[d]
                 /\ owner'[share_stack'[d]] = owner[share_stack[d]]
                 /\ is_end'[d] = is_end[d] /\ save_stack'[d] = save_stack[d]
      BY <1>1, <1>5, <1>6
    <3> QED
      BY <3>1 DEF StatsInv, SavesArePaired
  <2>2. (stats'[c].ct_save - stats'[c].ct_restore) % CtMod = 0
        /\ save_stack'[c].valid_sz = 0
    BY <1>4, NewIsCounted
  <2> QED
    BY <2>1, <2>2 DEF SavesArePaired
<1> QED
  BY <1>7, <1>8, <1>9, <1>10, <1>11 DEF StatsInv

\* The statistics of a destroyed coroutine go with it.
LEMMA StatsDestroyKeepsStatsInv ==
  ASSUME IInv, StatsInv, NEW c \in Co, StatsDestroy(c)
  PROVE  StatsInv'
<1>1. /\ live' = live \ {c}
      /\ share_stack' = [share_stack EXCEPT ![c] = NULL]
      /\ is_end' = [is_end EXCEPT ![c] = FALSE]
      /\ save_stack' = [save_stack EXCEPT ![c] = NoSave]
      /\ stats' = [stats EXCEPT ![c] = NoStats]
      /\ asked_sz' = [asked_sz EXCEPT ![c] = 0]
      /\ shared' = [shared EXCEPT ![c] = FALSE]
  BY DEF StatsDestroy, aco_destroy
<1>2. \A t \in Stack, d \in Co \ {c} : owner'[t] = d <=> owner[t] = d
  <2> DEFINE s == share_stack[c]
  <2>1. CASE owner[s] = c
    <3>1. owner' = [owner EXCEPT ![s] = NULL]
      BY <2>1 DEF StatsDestroy, aco_destroy, DisownOnDestroy, Disown
    <3> QED
      BY <2>1, <3>1, AcoAssumption DEF IInv, TypeOK
  <2>2. CASE owner[s] # c
    BY <2>2 DEF StatsDestroy, aco_destroy, DisownOnDestroy
  <2> QED
    BY <2>1, <2>2
<1>3. \A d \in Co \ {c} :
        /\ share_stack'[d] = share_stack[d] /\ is_end'[d] = is_end[d]
        /\ save_stack'[d] = save_stack[d] /\ stats'[d] = stats[d]
        /\ asked_sz'[d] = asked_sz[d] /\ shared'[d] = shared[d]
  BY <1>1 DEF IInv, TypeOK, StatsInv, StatsTypeOK
<1>4. live' \cap Co = (live \cap Co) \ {c}
  BY <1>1
<1>5. \A d \in live' \cap Co :
        owner'[share_stack'[d]] = d <=> owner[share_stack[d]] = d
  <2>1. ASSUME NEW d \in live' \cap Co
        PROVE  owner'[share_stack'[d]] = d <=> owner[share_stack[d]] = d
    <3>1. d \in Co \ {c} /\ share_stack[d] \in Stack
      BY <1>4 DEF IInv, TypeOK, LiveHaveStacks
    <3> QED
      BY <1>2, <1>3, <3>1
  <2> QED
    BY <2>1
<1>6. StatsTypeOK'
  <2>1. NoStats \in [max_cpsz : Nat, ct_save : 0..(CtMod - 1),
                     ct_restore : 0..(CtMod - 1)]
    BY AcoStatsAssumption DEF NoStats
  <2> QED
    BY <1>1, <2>1 DEF StatsInv, StatsTypeOK
<1>7. CompanyIsKnown' /\ StandaloneIsNeverCopied' /\ MaxCpszPredictsGrowth'
  BY <1>3, <1>4
     DEF StatsInv, CompanyIsKnown, StandaloneIsNeverCopied, MaxCpszPredictsGrowth
<1>8. SavesArePaired'
  BY <1>3, <1>4, <1>5 DEF StatsInv, SavesArePaired
<1> QED
  BY <1>6, <1>7, <1>8 DEF StatsInv

-----------------------------------------------------------------------------
(***************************************************************************)
(* Copies.                                                                 *)
(***************************************************************************)
StatsType == [max_cpsz : Nat, ct_save : 0..(CtMod - 1),
              ct_restore : 0..(CtMod - 1)]

\* How max_cpsz, the size of a save stack and the size asked for relate.
Predicts(max, sz, asked) ==
  /\ max <= sz
  /\ sz = asked <=> max <= asked
  /\ sz > asked => sz < 2 * max

\* A restore is counted against the save it undoes, and needs no more than
\* the save stack has.
LEMMA RestoreIsCounted ==
  ASSUME IInv, StatsInv, NEW c \in Co, c \in live, ~is_end[c],
         owner[share_stack[c]] # c
  PROVE  LET st == CountRestore(stats[c], save_stack[c].valid_sz)
         IN /\ st \in StatsType
            /\ (st.ct_save - st.ct_restore) % CtMod = 0
            /\ Predicts(st.max_cpsz, save_stack[c].sz, asked_sz[c])
            /\ ~shared[c] => st = NoStats
<1> DEFINE v == save_stack[c].valid_sz
           sz == save_stack[c].sz
           m == stats[c].max_cpsz
           a == stats[c].ct_save
           b == stats[c].ct_restore
           k == asked_sz[c]
           st == CountRestore(stats[c], v)
<1>1. /\ v \in Nat /\ sz \in Nat /\ v <= sz
  BY DEF IInv, TypeOK, EvictedFramesFit
<1>2. stats[c] \in StatsType /\ k \in Nat
  BY DEF StatsInv, StatsTypeOK, StatsType
<1>3. m \in Nat /\ a \in 0..(CtMod - 1) /\ b \in 0..(CtMod - 1)
  BY <1>2 DEF StatsType
<1>4. /\ st = [max_cpsz |-> Larger(m, v), ct_save |-> a,
               ct_restore |-> IF v > 0 THEN Succ(b) ELSE b]
      /\ Larger(m, v) \in Nat /\ Succ(b) \in 0..(CtMod - 1)
  BY <1>1, <1>2, CountIs DEF StatsType
<1>5. (a - b) % CtMod = IF v = 0 THEN 0 ELSE 1
  BY DEF StatsInv, SavesArePaired
<1>6. Predicts(m, sz, k)
  BY DEF StatsInv, MaxCpszPredictsGrowth, Predicts
<1>7. ~shared[c] => v = 0 /\ stats[c] = NoStats
  BY DEF StatsInv, CompanyIsKnown, StandaloneIsNeverCopied
<1> HIDE DEF v, sz, m, a, b, k
<1>8. st \in StatsType
  BY <1>1, <1>3, <1>4 DEF StatsType
<1>9. (st.ct_save - st.ct_restore) % CtMod = 0
  <2>1. CASE v = 0
    BY <1>4, <1>5, <2>1
  <2>2. CASE v > 0
    BY <1>3, <1>4, <1>5, <2>2, Difference
  <2> QED
    BY <1>1, <2>1, <2>2
<1>10. Predicts(st.max_cpsz, sz, k)
  BY <1>1, <1>2, <1>3, <1>4, <1>6 DEF Predicts, Larger
<1>11. ASSUME ~shared[c]
       PROVE  st = NoStats
  <2>1. v = 0 /\ m = 0 /\ a = 0 /\ b = 0
    BY <1>7, <1>11 DEF NoStats, m, a, b
  <2> QED
    BY <1>4, <2>1 DEF NoStats, Larger
<1> QED
  BY <1>8, <1>9, <1>10, <1>11 DEF v, sz, k

\* A save puts the counters one apart unless it is empty, and the save stack
\* grows only if the words to be saved are more than were ever copied.
LEMMA SaveIsCounted ==
  ASSUME IInv, StatsInv, NEW o \in Co, o \in live, reg[o].sp \in Nat,
         owner[share_stack[o]] = o,
         NEW n \in SaveSizes(o, reg[o].sp)
  PROVE  LET st == CountSave(stats[o], reg[o].sp)
         IN /\ n \in Nat
            /\ st \in StatsType
            /\ (st.ct_save - st.ct_restore) % CtMod =
                 IF reg[o].sp = 0 THEN 0 ELSE 1
            /\ Predicts(st.max_cpsz, n, asked_sz[o])
<1> DEFINE v == reg[o].sp
           sz == save_stack[o].sz
           m == stats[o].max_cpsz
           a == stats[o].ct_save
           b == stats[o].ct_restore
           k == asked_sz[o]
           st == CountSave(stats[o], v)
<1>1. v \in Nat /\ sz \in Nat
  BY DEF IInv, TypeOK
<1>2. stats[o] \in StatsType /\ k \in Nat
  BY DEF StatsInv, StatsTypeOK, StatsType
<1>3. m \in Nat /\ a \in 0..(CtMod - 1) /\ b \in 0..(CtMod - 1)
  BY <1>2 DEF StatsType
<1>4. /\ st = [max_cpsz |-> Larger(m, v),
               ct_save |-> IF v > 0 THEN Succ(a) ELSE a, ct_restore |-> b]
      /\ Larger(m, v) \in Nat /\ Succ(a) \in 0..(CtMod - 1)
  BY <1>1, <1>2, CountIs DEF StatsType
<1>5. (a - b) % CtMod = 0
  BY DEF StatsInv, SavesArePaired
<1>6. Predicts(m, sz, k)
  BY DEF StatsInv, MaxCpszPredictsGrowth, Predicts
<1>7. /\ v <= sz => n = sz
      /\ v > sz => n \in v..(2 * v - 1)
  BY <1>1 DEF SaveSizes
<1> HIDE DEF v, sz, m, a, b, k
<1>8. n \in Nat
  BY <1>1, <1>7
<1>9. st \in StatsType
  BY <1>1, <1>3, <1>4 DEF StatsType
<1>10. (st.ct_save - st.ct_restore) % CtMod = IF v = 0 THEN 0 ELSE 1
  <2>1. CASE v = 0
    BY <1>4, <1>5, <2>1
  <2>2. CASE v > 0
    BY <1>3, <1>4, <1>5, <2>2, Difference
  <2> QED
    BY <1>1, <2>1, <2>2
<1>11. Predicts(st.max_cpsz, n, k)
  <2>1. CASE v <= sz
    BY <1>1, <1>2, <1>3, <1>4, <1>6, <1>7, <2>1 DEF Predicts, Larger
  <2>2. CASE v > sz
    BY <1>1, <1>2, <1>3, <1>4, <1>6, <1>7, <2>2 DEF Predicts, Larger
  <2> QED
    BY <1>1, <2>1, <2>2
<1> QED
  BY <1>8, <1>9, <1>10, <1>11 DEF v, k

\* What the three properties ask of one coroutine.
Counted(c) ==
  /\ (stats[c].ct_save - stats[c].ct_restore) % CtMod =
       IF NotAway(c) \/ save_stack[c].valid_sz = 0 THEN 0 ELSE 1
  /\ Predicts(stats[c].max_cpsz, save_stack[c].sz, asked_sz[c])
  /\ ~shared[c] => stats[c] = NoStats /\ save_stack[c].sz = asked_sz[c]

\* The three properties, coroutine by coroutine.
LEMMA AllCounted ==
  (StandaloneIsNeverCopied /\ MaxCpszPredictsGrowth /\ SavesArePaired)
    <=> \A c \in live \cap Co : Counted(c)
BY DEF StandaloneIsNeverCopied, MaxCpszPredictsGrowth, SavesArePaired, Counted,
   NotAway, Predicts

\* The same after a step.
LEMMA AllCountedNext ==
  ASSUME \A c \in live' \cap Co : Counted(c)'
  PROVE  /\ StandaloneIsNeverCopied'
         /\ MaxCpszPredictsGrowth'
         /\ SavesArePaired'
<1>1. StandaloneIsNeverCopied'
  BY DEF StandaloneIsNeverCopied, Counted
<1>2. MaxCpszPredictsGrowth'
  BY DEF MaxCpszPredictsGrowth, Counted, Predicts
<1>3. SavesArePaired'
  BY DEF SavesArePaired, Counted, NotAway
<1> QED
  BY <1>1, <1>2, <1>3

\* A coroutine nothing happens to.
LEMMA CountedStays ==
  ASSUME NEW d \in Co, Counted(d), NotAway(d)' <=> NotAway(d),
         stats'[d] = stats[d], save_stack'[d] = save_stack[d],
         asked_sz'[d] = asked_sz[d], shared'[d] = shared[d]
  PROVE  Counted(d)'
BY DEF Counted

\* Frames are copied back to a share stack nobody owns.
LEMMA StatsResumeFreeKeepsStatsInv ==
  ASSUME IInv, StatsInv, NEW c \in Co, StatsResumeFree(c)
  PROVE  StatsInv'
<1> DEFINE s == share_stack[c]
           st == CountRestore(stats[c], save_stack[c].valid_sz)
<1>1. /\ MayResume(c) /\ SwitchTo(c) /\ Occupy(c, s) /\ owner[s] = NULL
      /\ UNCHANGED <<save_stack, asked_sz, shared>>
      /\ stats' = [stats EXCEPT ![c] = st]
  BY DEF StatsResumeFree, ResumeFree
<1>2. /\ s \in Stack /\ c \in live /\ ~is_end[c]
      /\ UNCHANGED <<live, share_stack, is_end>>
  BY <1>1, ResumeFacts
<1>3. owner' = [owner EXCEPT ![s] = c]
  BY <1>1 DEF Occupy
<1>4. /\ st \in StatsType
      /\ (st.ct_save - st.ct_restore) % CtMod = 0
      /\ Predicts(st.max_cpsz, save_stack[c].sz, asked_sz[c])
      /\ ~shared[c] => st = NoStats
  <2>1. owner[s] # c
    BY <1>1, AcoAssumption
  <2> QED
    BY <1>2, <2>1, RestoreIsCounted
<1> HIDE DEF st
<1>5. stats'[c] = st /\ \A d \in Co \ {c} : stats'[d] = stats[d]
  BY <1>1 DEF StatsInv, StatsTypeOK
<1>6. StatsTypeOK'
  BY <1>1, <1>4 DEF StatsInv, StatsTypeOK, StatsType
<1>7. CompanyIsKnown'
  BY <1>1, <1>2 DEF StatsInv, CompanyIsKnown
<1>8. Counted(c)'
  <2>1. NotAway(c)'
    BY <1>2, <1>3 DEF NotAway, IInv, TypeOK
  <2>2. ~shared[c] => save_stack[c].sz = asked_sz[c]
    BY <1>2 DEF StatsInv, StandaloneIsNeverCopied
  <2> QED
    BY <1>1, <1>4, <1>5, <2>1, <2>2 DEF Counted
<1>9. ASSUME NEW d \in live \cap Co, d # c
      PROVE  Counted(d)'
  <2>1. NotAway(d)' <=> NotAway(d)
    BY <1>1, <1>2, <1>3, <1>9, AcoAssumption
       DEF NotAway, IInv, TypeOK, LiveHaveStacks
  <2>2. Counted(d)
    BY AllCounted DEF StatsInv
  <2> QED
    BY <1>1, <1>5, <1>9, <2>1, <2>2, CountedStays
<1>10. \A d \in live' \cap Co : Counted(d)'
  BY <1>2, <1>8, <1>9
<1>11. /\ StandaloneIsNeverCopied'
       /\ MaxCpszPredictsGrowth'
       /\ SavesArePaired'
  BY <1>10, AllCountedNext
<1> QED
  BY <1>6, <1>7, <1>11 DEF StatsInv

\* The owner's frames are saved and those of the resumed coroutine copied
\* back: both have company, and their counters move in step.
LEMMA StatsResumeEvictKeepsStatsInv ==
  ASSUME IInv, StatsInv, NEW c \in Co, StatsResumeEvict(c)
  PROVE  StatsInv'
<1> DEFINE s == share_stack[c]
           st == CountRestore(stats[c], save_stack[c].valid_sz)
<1>1. /\ MayResume(c) /\ SwitchTo(c) /\ Occupy(c, s)
      /\ owner[s] # c /\ owner[s] # NULL
      /\ UNCHANGED <<asked_sz, shared>>
  BY DEF StatsResumeEvict, ResumeEvict
<1>2. /\ s \in Stack /\ c \in live /\ ~is_end[c]
      /\ UNCHANGED <<live, share_stack, is_end>>
  BY <1>1, ResumeFacts
<1>3. owner' = [owner EXCEPT ![s] = c]
  BY <1>1 DEF Occupy
<1>4. PICK o \in Co : owner[s] = o
  BY <1>1, <1>2 DEF IInv, TypeOK
<1>5. /\ o # c /\ o \in live /\ share_stack[o] = s /\ ~is_end[o]
      /\ reg[o].sp \in Nat
  <2>1. o # c /\ o # NULL /\ o \in live /\ share_stack[o] = s /\ ~is_end[o]
    BY <1>1, <1>2, <1>4 DEF IInv, OwnerIsValid
  <2>2. SpInBounds(o)
    BY <1>1, <1>4, <2>1 DEF MayResume, FailedAssertion
  <2> QED
    BY <2>1, <2>2 DEF SpInBounds, IInv, TypeOK
<1>6. PICK n \in SaveSizes(o, reg[o].sp) :
        save_stack' = [save_stack EXCEPT ![o] = Saved(o, s, n)]
  BY <1>4 DEF StatsResumeEvict, ResumeEvict
<1> DEFINE so == CountSave(stats[o], reg[o].sp)
<1>7. stats' = [stats EXCEPT ![o] = so, ![c] = st]
  BY <1>4, <1>5 DEF StatsResumeEvict
<1>8. /\ st \in StatsType
      /\ (st.ct_save - st.ct_restore) % CtMod = 0
      /\ Predicts(st.max_cpsz, save_stack[c].sz, asked_sz[c])
  BY <1>1, <1>2, RestoreIsCounted
<1>9. /\ n \in Nat
      /\ so \in StatsType
      /\ (so.ct_save - so.ct_restore) % CtMod = IF reg[o].sp = 0 THEN 0 ELSE 1
      /\ Predicts(so.max_cpsz, n, asked_sz[o])
  BY <1>4, <1>5, SaveIsCounted
<1>10. shared[c] /\ shared[o]
  BY <1>2, <1>5 DEF StatsInv, CompanyIsKnown
<1> HIDE DEF st, so
<1>11. /\ stats'[c] = st /\ stats'[o] = so
       /\ \A d \in Co \ {c, o} : stats'[d] = stats[d]
  BY <1>5, <1>7 DEF StatsInv, StatsTypeOK
<1>12. /\ save_stack'[o].sz = n /\ save_stack'[o].valid_sz = reg[o].sp
       /\ \A d \in Co \ {o} : save_stack'[d] = save_stack[d]
  BY <1>6 DEF Saved, IInv, TypeOK
<1>13. StatsTypeOK'
  BY <1>1, <1>7, <1>8, <1>9 DEF StatsInv, StatsTypeOK, StatsType
<1>14. CompanyIsKnown'
  BY <1>1, <1>2, <1>10, <1>12 DEF StatsInv, CompanyIsKnown
<1>15. Counted(c)'
  <2>1. NotAway(c)'
    BY <1>2, <1>3 DEF NotAway, IInv, TypeOK
  <2> QED
    BY <1>1, <1>5, <1>8, <1>10, <1>11, <1>12, <2>1 DEF Counted
<1>16. Counted(o)'
  <2>1. ~NotAway(o)'
    BY <1>2, <1>3, <1>5 DEF NotAway, IInv, TypeOK
  <2> QED
    BY <1>1, <1>9, <1>10, <1>11, <1>12, <2>1 DEF Counted
<1>17. ASSUME NEW d \in live \cap Co, d # c, d # o
       PROVE  Counted(d)'
  <2>1. NotAway(d)' <=> NotAway(d)
    BY <1>2, <1>3, <1>4, <1>17 DEF NotAway, IInv, TypeOK, LiveHaveStacks
  <2>2. Counted(d)
    BY AllCounted DEF StatsInv
  <2> QED
    BY <1>1, <1>11, <1>12, <1>17, <2>1, <2>2, CountedStays
<1>18. \A d \in live' \cap Co : Counted(d)'
  BY <1>2, <1>15, <1>16, <1>17
<1>19. /\ StandaloneIsNeverCopied'
       /\ MaxCpszPredictsGrowth'
       /\ SavesArePaired'
  BY <1>18, AllCountedNext
<1> QED
  BY <1>13, <1>14, <1>19 DEF StatsInv

-----------------------------------------------------------------------------
(***************************************************************************)
(* The theorems.                                                           *)
(***************************************************************************)

\* The statistics change nothing of what the library does.
LEMMA StatsNextIsNext == StatsNext => Next
BY DEF StatsNext, Next, StatsCreate, StatsDestroy, StatsResumeFree,
   StatsResumeEvict, aco_resume

\* The statistics of a thread that has no coroutines.
LEMMA InitStatsInv == StatsInit => StatsInv
<1> SUFFICES ASSUME StatsInit PROVE StatsInv
  OBVIOUS
<1>1. StatsTypeOK
  BY AcoStatsAssumption DEF StatsInit, StatsTypeOK, NoStats
<1>2. live = {}
  BY DEF StatsInit, Init
<1> QED
  BY <1>1, <1>2 DEF StatsInv, CompanyIsKnown, StandaloneIsNeverCopied,
     MaxCpszPredictsGrowth, SavesArePaired

\* Every step of the counting library keeps both invariants.
THEOREM StatsNextKeepsInv ==
  IInv /\ StatsInv /\ [StatsNext]_<<vars, statVars>> => IInv' /\ StatsInv'
<1> SUFFICES ASSUME IInv, StatsInv, [StatsNext]_<<vars, statVars>>
             PROVE  IInv' /\ StatsInv'
  OBVIOUS
<1>1. IInv'
  BY StatsNextIsNext, NextKeepsIInv
<1>2. CASE UNCHANGED <<vars, statVars>>
  <2>1. \A c \in live \cap Co : NotAway(c)' <=> NotAway(c)
    BY <1>2 DEF NotAway, vars, coVars, stackVars
  <2> QED
    BY <1>1, <1>2, <2>1, QuietKeepsStatsInv DEF vars, coVars, statVars
<1>3. CASE Uncounted /\ UNCHANGED statVars
  BY <1>1, <1>3, UncountedIsQuiet, QuietKeepsStatsInv DEF statVars
<1>4. CASE \E c \in Co, s \in Stack, n \in SaveArgs : StatsCreate(c, s, n)
  BY <1>1, <1>4, StatsCreateKeepsStatsInv
<1>5. CASE \E c \in Co : StatsDestroy(c)
  BY <1>1, <1>5, StatsDestroyKeepsStatsInv
<1>6. CASE \E c \in Co : StatsResumeFree(c) \/ StatsResumeEvict(c)
  BY <1>1, <1>6, StatsResumeFreeKeepsStatsInv, StatsResumeEvictKeepsStatsInv
<1> QED
  BY <1>2, <1>3, <1>4, <1>5, <1>6 DEF StatsNext, Uncounted

\* Both invariants hold in every reachable state.
THEOREM StatsInvariance == StatsSpec => [](IInv /\ StatsInv)
<1>1. StatsInit => IInv /\ StatsInv
  BY InitIInv, InitStatsInv DEF StatsInit
<1> QED
  BY <1>1, StatsNextKeepsInv, PTL DEF StatsSpec

\* Every save is undone by one restore, whatever the width of the counters.
THEOREM SavesPair == StatsSpec => []SavesArePaired
<1>1. StatsInv => SavesArePaired
  BY DEF StatsInv
<1> QED
  BY <1>1, StatsInvariance, PTL

\* A save_stack_sz of max_cpsz spares a coroutine every reallocation.
THEOREM MaxCpszPredicts == StatsSpec => []MaxCpszPredictsGrowth
<1>1. StatsInv => MaxCpszPredictsGrowth
  BY DEF StatsInv
<1> QED
  BY <1>1, StatsInvariance, PTL

\* A coroutine alone on its share stack is never copied.
THEOREM StandaloneCopiesNothing == StatsSpec => []StandaloneIsNeverCopied
<1>1. StatsInv => StandaloneIsNeverCopied
  BY DEF StatsInv
<1> QED
  BY <1>1, StatsInvariance, PTL
=============================================================================
