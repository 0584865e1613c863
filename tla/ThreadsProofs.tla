--------------------------- MODULE ThreadsProofs ---------------------------
(***************************************************************************)
(* The assertions of test_aco_tutorial_3.c hold for any number of threads  *)
(* and of rounds. A thread may touch another's data through gl_ct and the  *)
(* mutex only; the argument is that everything else it reads and writes is *)
(* reached through aco_gtls_co, which names a coroutine of its own.        *)
(***************************************************************************)
EXTENDS Threads, FiniteSetTheorems, TLAPS

Labels == {"lock", "load", "store", "unlock", "yield", "arg++", "exit"}

TypeOK ==
  /\ pc \in [Thread -> {"resume", "in_co", "back", "read", "done", "failed"}]
  /\ ct \in [Thread -> 0..Rounds]
  /\ turn \in [Thread -> Number]
  /\ aco_gtls_co \in [Thread -> Thread \X (0..3)]
  /\ at \in [Co -> Labels]
  /\ co_ct \in [Co -> Nat]
  /\ arg \in [Co -> Nat]
  /\ is_end \in [Co -> BOOLEAN]

\* Coroutine c has had its turn in round n.
HadTurn(c, n) ==
  /\ co_ct[c] = n /\ arg[c] = n
  /\ IF n = Rounds THEN is_end[c] ELSE ~is_end[c] /\ at[c] = "arg++"

\* Coroutine c has yet to have it.
AwaitsTurn(c, n) ==
  IF n = 0
  THEN co_ct[c] = 0 /\ arg[c] = 0 /\ ~is_end[c] /\ at[c] = "lock"
  ELSE HadTurn(c, n - 1)

\* Coroutine c is having it.
HasTurn(c, n) ==
  /\ ~is_end[c]
  /\ IF at[c] = "arg++"
     THEN n > 0 /\ co_ct[c] = n - 1 /\ arg[c] = n - 1
     ELSE co_ct[c] = n /\ arg[c] = n
  /\ at[c] = "yield" => n < Rounds
  /\ at[c] = "exit" => n = Rounds

\* The current coroutine of a thread is the one that pmain has resumed.
CurrentIsOwn(t) ==
  aco_gtls_co[t] = IF pc[t] = "in_co" THEN <<t, turn[t]>> ELSE <<t, Main>>

\* The coroutines of thread t have their turns in the order of their numbers.
InOrder(t) ==
  pc[t] \in {"resume", "in_co", "back"} =>
    \A j \in Number :
      /\ j < turn[t] => HadTurn(<<t, j>>, ct[t])
      /\ j > turn[t] => AwaitsTurn(<<t, j>>, ct[t])
      /\ j = turn[t] =>
           /\ pc[t] = "resume" => AwaitsTurn(<<t, j>>, ct[t])
           /\ pc[t] = "in_co"  => HasTurn(<<t, j>>, ct[t])
           /\ pc[t] = "back"   => HadTurn(<<t, j>>, ct[t])

ThreadOK(t) == CurrentIsOwn(t) /\ InOrder(t) /\ pc[t] # "failed"

IInv == TypeOK /\ \A t \in Thread : ThreadOK(t)

\* The data of thread u is its own.
OwnData(u) ==
  /\ pc'[u] = pc[u] /\ ct'[u] = ct[u] /\ turn'[u] = turn[u]
  /\ aco_gtls_co'[u] = aco_gtls_co[u]
  /\ \A j \in Number :
       /\ at'[<<u, j>>] = at[<<u, j>>] /\ co_ct'[<<u, j>>] = co_ct[<<u, j>>]
       /\ arg'[<<u, j>>] = arg[<<u, j>>]
       /\ is_end'[<<u, j>>] = is_end[<<u, j>>]

\* A thread whose data nobody touches stays as it is.
LEMMA UndisturbedStaysOK ==
  ASSUME NEW u \in Thread, ThreadOK(u), OwnData(u)
  PROVE  ThreadOK(u)'
BY DEF ThreadOK, CurrentIsOwn, InOrder, OwnData, HadTurn, AwaitsTurn, HasTurn,
   Number, Main

\* No thread has started: every coroutine awaits its first turn.
LEMMA InitIInv == Init => IInv
BY ThreadsAssumption
   DEF Init, IInv, TypeOK, ThreadOK, CurrentIsOwn, InOrder, AwaitsTurn, Co,
       Number, Main, Labels

\* The coroutine that pmain resumes next has not ended.
LEMMA ResumeKeepsIInv ==
  ASSUME IInv, NEW t \in Thread, Resume(t)
  PROVE  IInv'
<1> DEFINE c == <<t, turn[t]>>
<1>1. turn[t] \in Number /\ ct[t] \in 0..Rounds /\ c \in Co
  BY DEF IInv, TypeOK, Co
<1>2. AwaitsTurn(c, ct[t])
  BY <1>1 DEF IInv, ThreadOK, InOrder, Resume
<1>3. ~is_end[c] /\ HasTurn(c, ct[t])
  BY <1>1, <1>2, ThreadsAssumption DEF AwaitsTurn, HadTurn, HasTurn
<1>4. /\ pc[t] = "resume" /\ pc' = [pc EXCEPT ![t] = "in_co"]
      /\ aco_gtls_co' = [aco_gtls_co EXCEPT ![t] = c]
      /\ UNCHANGED <<ct, turn, at, co_ct, arg, is_end>>
  BY <1>3 DEF Resume, SetGtls, coVars
<1>5. TypeOK'
  BY <1>1, <1>4 DEF IInv, TypeOK, Number
<1>6. ThreadOK(t)'
  <2>1. CurrentIsOwn(t)' /\ pc'[t] # "failed"
    BY <1>4 DEF IInv, TypeOK, CurrentIsOwn
  <2>2. InOrder(t)'
    BY <1>1, <1>3, <1>4
       DEF IInv, TypeOK, ThreadOK, InOrder, HadTurn, AwaitsTurn, HasTurn, Number
  <2> QED
    BY <2>1, <2>2 DEF ThreadOK
<1>7. ASSUME NEW u \in Thread, u # t PROVE ThreadOK(u)'
  BY <1>4, <1>7, UndisturbedStaysOK DEF IInv, TypeOK, OwnData
<1> QED
  BY <1>5, <1>6, <1>7 DEF IInv

\* The assertions after aco_resume hold, and the round goes on with the next
\* coroutine or is followed by another.
LEMMA BackKeepsIInv ==
  ASSUME IInv, NEW t \in Thread, Back(t)
  PROVE  IInv'
<1> DEFINE c    == <<t, turn[t]>>
           last == ct[t] = Rounds /\ turn[t] = 3
<1>1. turn[t] \in Number /\ ct[t] \in 0..Rounds /\ c \in Co /\ Rounds \in Nat
  BY ThreadsAssumption DEF IInv, TypeOK, Co
<1>2. pc[t] = "back" /\ UNCHANGED <<aco_gtls_co, at, co_ct, arg, is_end>>
  BY DEF Back, coVars
<1>3. HadTurn(c, ct[t])
  BY <1>1, <1>2 DEF IInv, ThreadOK, InOrder
<1>4. pc' = [pc EXCEPT ![t] = IF last THEN "read" ELSE "resume"]
  BY <1>3 DEF Back, HadTurn
<1>5. /\ turn' = [turn EXCEPT ![t] = IF turn[t] < 3 THEN turn[t] + 1 ELSE 1]
      /\ ct' = [ct EXCEPT ![t] = IF turn[t] = 3 /\ ~last THEN ct[t] + 1
                                 ELSE ct[t]]
  BY DEF Back
<1>6. TypeOK'
  <2>1. (IF turn[t] < 3 THEN turn[t] + 1 ELSE 1) \in Number
    BY <1>1 DEF Number
  <2>2. (IF turn[t] = 3 /\ ~last THEN ct[t] + 1 ELSE ct[t]) \in 0..Rounds
    BY <1>1
  <2>3. turn' \in [Thread -> Number] /\ ct' \in [Thread -> 0..Rounds]
    BY <1>5, <2>1, <2>2 DEF IInv, TypeOK
  <2>4. pc' \in [Thread -> {"resume", "in_co", "back", "read", "done", "failed"}]
    BY <1>4 DEF IInv, TypeOK
  <2> QED
    BY <1>2, <2>3, <2>4 DEF IInv, TypeOK
<1>7. ThreadOK(t)'
  <2>1. CurrentIsOwn(t)' /\ pc'[t] # "failed"
    BY <1>2, <1>4 DEF IInv, TypeOK, ThreadOK, CurrentIsOwn
  <2>2. \A j \in Number :
          /\ j <= turn[t] => HadTurn(<<t, j>>, ct[t])
          /\ j > turn[t] => AwaitsTurn(<<t, j>>, ct[t])
    <3>1. ASSUME NEW j \in Number
          PROVE  /\ j < turn[t] => HadTurn(<<t, j>>, ct[t])
                 /\ j > turn[t] => AwaitsTurn(<<t, j>>, ct[t])
      BY <1>2 DEF IInv, ThreadOK, InOrder
    <3>2. \A j \in Number : j <= turn[t] => j < turn[t] \/ j = turn[t]
      BY <1>1 DEF Number
    <3> QED
      BY <1>3, <3>1, <3>2
  <2>3. CASE turn[t] < 3
    <3>1. turn'[t] = turn[t] + 1 /\ ct'[t] = ct[t] /\ pc'[t] = "resume"
      BY <1>1, <1>4, <1>5, <2>3 DEF IInv, TypeOK, Number
    <3>2. \A j \in Number :
            /\ j < turn[t] + 1 => HadTurn(<<t, j>>, ct[t])
            /\ j >= turn[t] + 1 => AwaitsTurn(<<t, j>>, ct[t])
      BY <1>1, <2>2 DEF Number
    <3> QED
      BY <1>1, <1>2, <2>1, <3>1, <3>2
         DEF ThreadOK, InOrder, HadTurn, AwaitsTurn, Number
  <2>4. CASE turn[t] = 3 /\ ~last
    <3>1. turn'[t] = 1 /\ ct'[t] = ct[t] + 1 /\ pc'[t] = "resume"
      BY <1>1, <1>4, <1>5, <2>4 DEF IInv, TypeOK
    <3>2. \A j \in Number : AwaitsTurn(<<t, j>>, ct[t] + 1)
      BY <1>1, <2>2, <2>4 DEF AwaitsTurn, Number
    <3> QED
      BY <1>1, <1>2, <2>1, <3>1, <3>2
         DEF ThreadOK, InOrder, HadTurn, AwaitsTurn, Number
  <2>5. CASE last
    BY <1>1, <1>4, <2>1, <2>5 DEF IInv, TypeOK, ThreadOK, InOrder
  <2> QED
    BY <1>1, <2>3, <2>4, <2>5 DEF Number
<1>8. ASSUME NEW u \in Thread, u # t PROVE ThreadOK(u)'
  BY <1>2, <1>4, <1>5, <1>8, UndisturbedStaysOK DEF IInv, TypeOK, OwnData
<1> QED
  BY <1>6, <1>7, <1>8 DEF IInv

\* A coroutine that locks, loads, stores or unlocks goes from one place of foo
\* or co_fp0 to the next and counts nothing of its own.
LEMMA InCoroutineKeepsIInv ==
  ASSUME IInv, NEW t \in Thread, Lock(t) \/ Load(t) \/ Store(t) \/ Unlock(t)
  PROVE  IInv'
<1> DEFINE c == <<t, turn[t]>>
<1>1. /\ turn[t] \in Number /\ ct[t] \in 0..Rounds /\ c \in Co
      /\ Rounds \in Nat /\ co_ct[c] \in Nat
  BY ThreadsAssumption DEF IInv, TypeOK, Co
<1>2. /\ pc[t] = "in_co" /\ at[c] \in {"lock", "load", "store", "unlock"}
      /\ UNCHANGED <<pc, ct, turn, aco_gtls_co, co_ct, arg, is_end>>
  BY DEF Lock, Load, Store, Unlock, CoAt, mainVars
<1>3. HasTurn(c, ct[t])
  BY <1>1, <1>2 DEF IInv, ThreadOK, InOrder
<1>4. PICK l \in Labels :
        /\ at' = [at EXCEPT ![c] = l] /\ l # "arg++"
        /\ l = "yield" => co_ct[c] < Rounds
        /\ l = "exit" => ~(co_ct[c] < Rounds)
  BY DEF Lock, Load, Store, Unlock, Goto, Labels
<1>5. co_ct[c] = ct[t]
  BY <1>2, <1>3 DEF HasTurn
<1>6. TypeOK'
  BY <1>1, <1>2, <1>4 DEF IInv, TypeOK
<1>7. ThreadOK(t)'
  <2>1. CurrentIsOwn(t)' /\ pc'[t] # "failed"
    BY <1>2 DEF IInv, ThreadOK, CurrentIsOwn
  <2>2. at'[c] = l
    BY <1>1, <1>4 DEF IInv, TypeOK
  <2>3. \A j \in Number : j # turn[t] => at'[<<t, j>>] = at[<<t, j>>]
    BY <1>4 DEF IInv, TypeOK, Co
  <2>4. HasTurn(c, ct[t])'
    BY <1>1, <1>2, <1>3, <1>4, <1>5, <2>2 DEF HasTurn
  <2>5. InOrder(t)'
    BY <1>1, <1>2, <2>3, <2>4
       DEF IInv, ThreadOK, InOrder, HadTurn, AwaitsTurn, Number
  <2> QED
    BY <2>1, <2>5 DEF ThreadOK
<1>8. ASSUME NEW u \in Thread, u # t PROVE ThreadOK(u)'
  <2>1. \A j \in Number : at'[<<u, j>>] = at[<<u, j>>]
    BY <1>4, <1>8 DEF IInv, TypeOK, Co
  <2> QED
    BY <1>2, <2>1, UndisturbedStaysOK DEF IInv, OwnData
<1> QED
  BY <1>6, <1>7, <1>8 DEF IInv

\* A coroutine of thread t that yields is not its main coroutine, and the one
\* it yields to is the main coroutine of t.
LEMMA OwnMainGoesOn ==
  ASSUME NEW t \in Thread, NEW j \in Number, BackToMainOf(t, <<t, j>>)
  PROVE  /\ pc' = [pc EXCEPT ![t] = "back"]
         /\ aco_gtls_co' = [aco_gtls_co EXCEPT ![t] = <<t, Main>>]
BY DEF BackToMainOf, SetGtls, Number, Main

\* A thread yields for the coroutine that pmain has resumed.
LEMMA YieldIsOwn ==
  ASSUME IInv, NEW t \in Thread, Yield(t)
  PROVE  /\ pc[t] = "in_co" /\ at[<<t, turn[t]>>] = "yield"
         /\ aco_gtls_co' = [aco_gtls_co EXCEPT ![t] = <<t, Main>>]
         /\ pc' = [pc EXCEPT ![t] = "back"]
         /\ at' = [at EXCEPT ![<<t, turn[t]>>] = "arg++"]
         /\ UNCHANGED <<ct, turn, co_ct, arg, is_end>>
<1>1. pc[t] = "in_co" /\ at[<<t, turn[t]>>] = "yield" /\ turn[t] \in Number
  BY DEF Yield, CoAt, IInv, TypeOK
<1>2. aco_gtls_co[t] = <<t, turn[t]>>
  BY <1>1 DEF IInv, ThreadOK, CurrentIsOwn
<1> QED
  BY <1>1, <1>2, OwnMainGoesOn DEF Yield

\* A thread exits the coroutine that pmain has resumed.
LEMMA ExitIsOwn ==
  ASSUME IInv, NEW t \in Thread, Exit(t)
  PROVE  /\ pc[t] = "in_co" /\ at[<<t, turn[t]>>] = "exit"
         /\ is_end' = [is_end EXCEPT ![<<t, turn[t]>>] = TRUE]
         /\ aco_gtls_co' = [aco_gtls_co EXCEPT ![t] = <<t, Main>>]
         /\ pc' = [pc EXCEPT ![t] = "back"]
         /\ UNCHANGED <<ct, turn, at, co_ct, arg>>
<1>1. pc[t] = "in_co" /\ at[<<t, turn[t]>>] = "exit" /\ turn[t] \in Number
  BY DEF Exit, CoAt, IInv, TypeOK
<1>2. aco_gtls_co[t] = <<t, turn[t]>>
  BY <1>1 DEF IInv, ThreadOK, CurrentIsOwn
<1> QED
  BY <1>1, <1>2, OwnMainGoesOn DEF Exit

\* The coroutine that yields has had its turn, and pmain is current again.
LEMMA YieldKeepsIInv ==
  ASSUME IInv, NEW t \in Thread, Yield(t)
  PROVE  IInv'
<1> DEFINE c == <<t, turn[t]>>
<1>1. /\ turn[t] \in Number /\ ct[t] \in 0..Rounds /\ c \in Co
      /\ Rounds \in Nat
  BY ThreadsAssumption DEF IInv, TypeOK, Co
<1>2. /\ pc[t] = "in_co" /\ at[c] = "yield"
      /\ aco_gtls_co' = [aco_gtls_co EXCEPT ![t] = <<t, Main>>]
      /\ pc' = [pc EXCEPT ![t] = "back"]
      /\ at' = [at EXCEPT ![c] = "arg++"]
      /\ UNCHANGED <<ct, turn, co_ct, arg, is_end>>
  BY YieldIsOwn
<1>3. HasTurn(c, ct[t])
  BY <1>1, <1>2 DEF IInv, ThreadOK, InOrder
<1>4. TypeOK'
  BY <1>1, <1>2 DEF IInv, TypeOK, Labels, Main
<1>5. ThreadOK(t)'
  <2>1. CurrentIsOwn(t)' /\ pc'[t] = "back"
    BY <1>2 DEF IInv, TypeOK, CurrentIsOwn
  <2>2. HadTurn(c, ct[t])'
    BY <1>1, <1>2, <1>3 DEF IInv, TypeOK, HasTurn, HadTurn
  <2>3. \A j \in Number : j # turn[t] => at'[<<t, j>>] = at[<<t, j>>]
    BY <1>2 DEF IInv, TypeOK, Co
  <2>4. InOrder(t)'
    BY <1>1, <1>2, <2>1, <2>2, <2>3
       DEF IInv, ThreadOK, InOrder, HadTurn, AwaitsTurn, Number
  <2> QED
    BY <2>1, <2>4 DEF ThreadOK
<1>6. ASSUME NEW u \in Thread, u # t PROVE ThreadOK(u)'
  <2>1. \A j \in Number : at'[<<u, j>>] = at[<<u, j>>]
    BY <1>2, <1>6 DEF IInv, TypeOK, Co
  <2> QED
    BY <1>2, <1>6, <2>1, UndisturbedStaysOK DEF IInv, TypeOK, OwnData
<1> QED
  BY <1>4, <1>5, <1>6 DEF IInv

\* aco_get_arg() gives the coroutine its own number to count.
LEMMA CountArgKeepsIInv ==
  ASSUME IInv, NEW t \in Thread, CountArg(t)
  PROVE  IInv'
<1> DEFINE c == <<t, turn[t]>>
<1>1. /\ turn[t] \in Number /\ ct[t] \in 0..Rounds /\ c \in Co
      /\ Rounds \in Nat /\ co_ct[c] \in Nat /\ arg[c] \in Nat
  BY ThreadsAssumption DEF IInv, TypeOK, Co
<1>2. pc[t] = "in_co" /\ at[c] = "arg++"
  BY DEF CountArg, CoAt
<1>3. aco_gtls_co[t] = c
  BY <1>2 DEF IInv, ThreadOK, CurrentIsOwn
<1>4. /\ arg' = [arg EXCEPT ![c] = arg[c] + 1]
      /\ co_ct' = [co_ct EXCEPT ![c] = co_ct[c] + 1]
      /\ at' = [at EXCEPT ![c] = "lock"]
      /\ UNCHANGED <<pc, ct, turn, aco_gtls_co, is_end>>
  BY <1>3 DEF CountArg, Goto, mainVars
<1>5. HasTurn(c, ct[t])
  BY <1>1, <1>2 DEF IInv, ThreadOK, InOrder
<1>6. TypeOK'
  BY <1>1, <1>4 DEF IInv, TypeOK, Labels
<1>7. ThreadOK(t)'
  <2>1. CurrentIsOwn(t)' /\ pc'[t] # "failed"
    BY <1>2, <1>4 DEF IInv, ThreadOK, CurrentIsOwn
  <2>2. at'[c] = "lock" /\ arg'[c] = arg[c] + 1 /\ co_ct'[c] = co_ct[c] + 1
    BY <1>1, <1>4 DEF IInv, TypeOK
  <2>3. HasTurn(c, ct[t])'
    BY <1>1, <1>2, <1>4, <1>5, <2>2 DEF HasTurn
  <2>4. \A j \in Number : j # turn[t] =>
          /\ at'[<<t, j>>] = at[<<t, j>>] /\ arg'[<<t, j>>] = arg[<<t, j>>]
          /\ co_ct'[<<t, j>>] = co_ct[<<t, j>>]
    BY <1>4 DEF IInv, TypeOK, Co
  <2>5. InOrder(t)'
    BY <1>1, <1>2, <1>4, <2>3, <2>4
       DEF IInv, ThreadOK, InOrder, HadTurn, AwaitsTurn, Number
  <2> QED
    BY <2>1, <2>5 DEF ThreadOK
<1>8. ASSUME NEW u \in Thread, u # t PROVE ThreadOK(u)'
  <2>1. \A j \in Number :
          /\ at'[<<u, j>>] = at[<<u, j>>] /\ arg'[<<u, j>>] = arg[<<u, j>>]
          /\ co_ct'[<<u, j>>] = co_ct[<<u, j>>]
    BY <1>4, <1>8 DEF IInv, TypeOK, Co
  <2> QED
    BY <1>4, <2>1, UndisturbedStaysOK DEF IInv, OwnData
<1> QED
  BY <1>6, <1>7, <1>8 DEF IInv

\* aco_exit marks the coroutine that calls it, in the last round only.
LEMMA ExitKeepsIInv ==
  ASSUME IInv, NEW t \in Thread, Exit(t)
  PROVE  IInv'
<1> DEFINE c == <<t, turn[t]>>
<1>1. /\ turn[t] \in Number /\ ct[t] \in 0..Rounds /\ c \in Co
      /\ Rounds \in Nat
  BY ThreadsAssumption DEF IInv, TypeOK, Co
<1>2. pc[t] = "in_co" /\ at[c] = "exit"
  BY ExitIsOwn
<1>3. HasTurn(c, ct[t])
  BY <1>1, <1>2 DEF IInv, ThreadOK, InOrder
<1>4. /\ is_end' = [is_end EXCEPT ![c] = TRUE]
      /\ aco_gtls_co' = [aco_gtls_co EXCEPT ![t] = <<t, Main>>]
      /\ pc' = [pc EXCEPT ![t] = "back"]
      /\ UNCHANGED <<ct, turn, at, co_ct, arg>>
  BY ExitIsOwn
<1>5. TypeOK'
  BY <1>1, <1>4 DEF IInv, TypeOK, Main
<1>6. ThreadOK(t)'
  <2>1. CurrentIsOwn(t)' /\ pc'[t] = "back"
    BY <1>4 DEF IInv, TypeOK, CurrentIsOwn
  <2>2. is_end'[c]
    BY <1>1, <1>4 DEF IInv, TypeOK
  <2>3. HadTurn(c, ct[t])'
    BY <1>2, <1>3, <1>4, <2>2 DEF HasTurn, HadTurn
  <2>4. \A j \in Number : j # turn[t] => is_end'[<<t, j>>] = is_end[<<t, j>>]
    BY <1>4 DEF IInv, TypeOK, Co
  <2>5. InOrder(t)'
    BY <1>1, <1>2, <1>4, <2>1, <2>3, <2>4
       DEF IInv, ThreadOK, InOrder, HadTurn, AwaitsTurn, Number
  <2> QED
    BY <2>1, <2>5 DEF ThreadOK
<1>7. ASSUME NEW u \in Thread, u # t PROVE ThreadOK(u)'
  <2>1. \A j \in Number : is_end'[<<u, j>>] = is_end[<<u, j>>]
    BY <1>4, <1>7 DEF IInv, TypeOK, Co
  <2> QED
    BY <1>4, <1>7, <2>1, UndisturbedStaysOK DEF IInv, TypeOK, OwnData
<1> QED
  BY <1>5, <1>6, <1>7 DEF IInv

\* After the last round pmain reads the counter and is done.
LEMMA ReadKeepsIInv ==
  ASSUME IInv, NEW t \in Thread, Read(t)
  PROVE  IInv'
<1>1. /\ pc[t] = "read" /\ pc' = [pc EXCEPT ![t] = "done"]
      /\ UNCHANGED <<ct, turn, aco_gtls_co, at, co_ct, arg, is_end>>
  BY DEF Read, coVars
<1>2. TypeOK'
  BY <1>1 DEF IInv, TypeOK
<1>3. ThreadOK(t)'
  BY <1>1 DEF IInv, TypeOK, ThreadOK, CurrentIsOwn, InOrder
<1>4. ASSUME NEW u \in Thread, u # t PROVE ThreadOK(u)'
  BY <1>1, <1>4, UndisturbedStaysOK DEF IInv, TypeOK, OwnData
<1> QED
  BY <1>2, <1>3, <1>4 DEF IInv

\* The invariant of the two loops, pmain's and co_fp0's, holds in every
\* reachable state, whichever way the threads are interleaved.
THEOREM ThreadsInvariance == Spec => []IInv
<1>1. IInv /\ [Next]_vars => IInv'
  <2> SUFFICES ASSUME IInv, [Next]_vars PROVE IInv'
    OBVIOUS
  <2>1. ASSUME NEW t \in Thread, ThreadStep(t) PROVE IInv'
    BY <2>1, ResumeKeepsIInv, BackKeepsIInv, ReadKeepsIInv,
       InCoroutineKeepsIInv, YieldKeepsIInv, CountArgKeepsIInv, ExitKeepsIInv
       DEF ThreadStep
  <2>2. CASE UNCHANGED vars
    <3>1. \A u \in Thread : OwnData(u)
      BY <2>2 DEF vars, mainVars, coVars, OwnData
    <3>2. TypeOK'
      BY <2>2 DEF vars, mainVars, coVars, IInv, TypeOK
    <3> QED
      BY <3>1, <3>2, UndisturbedStaysOK DEF IInv
  <2> QED
    BY <2>1, <2>2 DEF Next, Joined
<1> QED
  BY InitIInv, <1>1, PTL DEF Spec

\* The assertions of pmain (test_aco_tutorial_3.c:96-122) never fail: each
\* coroutine has counted as many yields as there were rounds before, ends in
\* the last one, and no ended coroutine is resumed.
THEOREM PmainAssertionsHold == Spec => []NoAssertionFails
<1>1. IInv => NoAssertionFails
  BY DEF IInv, ThreadOK, NoAssertionFails
<1> QED
  BY ThreadsInvariance, <1>1, PTL

-----------------------------------------------------------------------------
(***************************************************************************)
(* The counter. Only the thread that holds the mutex is between Lock and   *)
(* Unlock, so what it has loaded is still the counter when it stores.      *)
(***************************************************************************)
Guarded == {"load", "store", "unlock"}

\* Where the coroutine is that thread t executes; "main" if it is pmain.
Place(t) == IF pc[t] = "in_co" THEN at[<<t, turn[t]>>] ELSE "main"

MutexIsHeld ==
  \A t \in Thread :
    /\ Place(t) \in Guarded => mutex = t
    /\ Place(t) = "store" => tmp[t] = gl_ct

CountInv ==
  /\ tmp \in [Thread -> Int] /\ MutexIsHeld
  /\ IsFiniteSet(Stores) /\ gl_ct = Cardinality(Stores)

\* The place of a thread follows from data of its own.
LEMMA PlaceIsOwn ==
  ASSUME TypeOK, NEW u \in Thread, OwnData(u)
  PROVE  Place(u)' = Place(u)
BY DEF Place, OwnData, TypeOK

\* A step of one thread leaves the data of the others alone.
LEMMA StepIsOwn ==
  ASSUME IInv, NEW t \in Thread, ThreadStep(t), NEW u \in Thread, u # t
  PROVE  OwnData(u)
<1> DEFINE c == <<t, turn[t]>>
<1>1. c \in Co
  BY DEF IInv, TypeOK, Co
<1>2. pc[t] = "in_co" => aco_gtls_co[t] = c
  BY DEF IInv, ThreadOK, CurrentIsOwn
<1>3. \A j \in Number : <<u, j>> # c /\ <<u, j>> \in Co
  BY DEF Co
<1>4. CASE Resume(t)
  BY <1>3, <1>4 DEF Resume, SetGtls, coVars, IInv, TypeOK, OwnData
<1>5. CASE Back(t)
  BY <1>3, <1>5 DEF Back, coVars, IInv, TypeOK, OwnData
<1>6. CASE Read(t)
  BY <1>3, <1>6 DEF Read, coVars, IInv, TypeOK, OwnData
<1>7. CASE Lock(t) \/ Load(t) \/ Store(t) \/ Unlock(t)
  BY <1>3, <1>7 DEF Lock, Load, Store, Unlock, Goto, mainVars, IInv, TypeOK, OwnData
<1>8. CASE Yield(t)
  <2>1. /\ aco_gtls_co' = [aco_gtls_co EXCEPT ![t] = <<t, Main>>]
        /\ pc' = [pc EXCEPT ![t] = "back"]
        /\ at' = [at EXCEPT ![c] = "arg++"]
        /\ UNCHANGED <<ct, turn, co_ct, arg, is_end>>
    BY <1>8, YieldIsOwn
  <2> QED
    BY <1>3, <2>1 DEF IInv, TypeOK, OwnData
<1>9. CASE CountArg(t)
  BY <1>2, <1>3, <1>9 DEF CountArg, CoAt, Goto, mainVars, IInv, TypeOK, OwnData
<1>10. CASE Exit(t)
  <2>1. /\ is_end' = [is_end EXCEPT ![c] = TRUE]
        /\ aco_gtls_co' = [aco_gtls_co EXCEPT ![t] = <<t, Main>>]
        /\ pc' = [pc EXCEPT ![t] = "back"]
        /\ UNCHANGED <<ct, turn, at, co_ct, arg>>
    BY <1>10, ExitIsOwn
  <2> QED
    BY <1>3, <2>1 DEF IInv, TypeOK, OwnData
<1> QED
  BY <1>4, <1>5, <1>6, <1>7, <1>8, <1>9, <1>10 DEF ThreadStep

\* A thread at the mutex is alone there.
LEMMA OthersAreOutside ==
  ASSUME IInv, CountInv, NEW t \in Thread, NEW u \in Thread, u # t,
         mutex \in {t, NONE}
  PROVE  Place(u) \notin Guarded
BY ThreadsAssumption DEF CountInv, MutexIsHeld

\* If no coroutine counts, the stores are the same.
LEMMA NoStore ==
  ASSUME \A c \in Co : Counted(c)' = Counted(c)
  PROVE  Stores' = Stores
<1>1. ASSUME NEW s \in Co \X (1..(Rounds + 1))
      PROVE  s[2] <= Counted(s[1])' <=> s[2] <= Counted(s[1])
  BY DEF Co
<1> QED
  BY <1>1 DEF Stores

\* Steps of thread t outside foo and co_fp0's own count.
LEMMA OutsideKeepsCountInv ==
  ASSUME IInv, IInv', CountInv, NEW t \in Thread,
         Resume(t) \/ Back(t) \/ Read(t) \/ Yield(t) \/ CountArg(t) \/ Exit(t)
  PROVE  CountInv'
<1> DEFINE c == <<t, turn[t]>>
<1>1. c \in Co /\ turn[t] \in Number /\ ct[t] \in 0..Rounds /\ Rounds \in Nat
  BY ThreadsAssumption DEF IInv, TypeOK, Co
<1>2. ASSUME NEW u \in Thread, u # t PROVE Place(u)' = Place(u)
  BY <1>2, StepIsOwn, PlaceIsOwn DEF IInv, ThreadStep
<1>3. Place(t)' \notin Guarded
  <2>1. CASE Resume(t)
    <3>1. AwaitsTurn(c, ct[t])
      BY <1>1, <2>1 DEF IInv, ThreadOK, InOrder, Resume
    <3>2. at[c] \in {"lock", "arg++"}
      BY <1>1, <3>1 DEF AwaitsTurn, HadTurn
    <3> QED
      BY <2>1, <3>2 DEF Resume, coVars, Place, Guarded, IInv, TypeOK
  <2>2. CASE Back(t) \/ Read(t) \/ Yield(t) \/ Exit(t)
    <3>1. pc'[t] # "in_co"
      BY <2>2, YieldIsOwn, ExitIsOwn DEF Back, Read, IInv, TypeOK
    <3> QED
      BY <3>1 DEF Place, Guarded
  <2>3. CASE CountArg(t)
    BY <1>1, <2>3 DEF CountArg, Goto, mainVars, Place, Guarded, IInv, TypeOK
  <2> QED
    BY <2>1, <2>2, <2>3
<1>4. gl_ct' = gl_ct /\ mutex' = mutex
  BY DEF Resume, Back, Read, Yield, CountArg, Exit, sharedVars
<1>5. /\ tmp' \in [Thread -> Int]
      /\ \A u \in Thread : u # t => tmp'[u] = tmp[u]
  <2>1. gl_ct \in Int
    BY FS_CardinalityType DEF CountInv
  <2>2. CASE Read(t)
    BY <2>1, <2>2 DEF Read, CountInv
  <2>3. CASE ~Read(t)
    BY <2>3 DEF Resume, Back, Yield, CountArg, Exit, sharedVars, CountInv
  <2> QED
    BY <2>2, <2>3
<1>6. MutexIsHeld'
  BY <1>2, <1>3, <1>4, <1>5 DEF MutexIsHeld, CountInv, Guarded
<1>7. ASSUME NEW d \in Co PROVE Counted(d)' = Counted(d)
  <2>1. CASE Resume(t) \/ Back(t) \/ Read(t) \/ Exit(t)
    BY <2>1 DEF Resume, Back, Read, Exit, coVars, Counted
  <2>2. CASE Yield(t)
    BY <1>1, <2>2, YieldIsOwn DEF Counted, IInv, TypeOK
  <2>3. CASE CountArg(t)
    <3>1. /\ at[c] = "arg++" /\ at' = [at EXCEPT ![c] = "lock"]
          /\ co_ct' = [co_ct EXCEPT ![c] = co_ct[c] + 1]
          /\ at \in [Co -> Labels] /\ co_ct \in [Co -> Nat]
      BY <2>3 DEF CountArg, CoAt, Goto, IInv, TypeOK
    <3>2. CASE d = c
      <4>1. at'[c] = "lock" /\ co_ct'[c] = co_ct[c] + 1 /\ co_ct[c] \in Nat
        BY <1>1, <3>1
      <4> QED
        BY <3>1, <3>2, <4>1 DEF Counted
    <3>3. CASE d # c
      <4>1. at'[d] = at[d] /\ co_ct'[d] = co_ct[d]
        BY <3>1, <3>3
      <4> QED
        BY <4>1 DEF Counted
    <3> QED
      BY <3>2, <3>3
  <2> QED
    BY <2>1, <2>2, <2>3
<1>8. Stores' = Stores
  BY <1>7, NoStore
<1> QED
  BY <1>4, <1>5, <1>6, <1>8 DEF CountInv

\* The steps from Lock to Unlock but the store.
LEMMA GuardedKeepsCountInv ==
  ASSUME IInv, IInv', CountInv, NEW t \in Thread,
         Lock(t) \/ Load(t) \/ Unlock(t)
  PROVE  CountInv'
<1> DEFINE c == <<t, turn[t]>>
<1>1. c \in Co
  BY DEF IInv, TypeOK, Co
<1>2. /\ pc[t] = "in_co" /\ gl_ct' = gl_ct
      /\ UNCHANGED <<pc, turn, co_ct>>
  BY DEF Lock, Load, Unlock, CoAt, mainVars
<1>3. mutex \in {t, NONE}
  BY <1>2 DEF Lock, Load, Unlock, CoAt, MutexFree, CountInv, MutexIsHeld, Place,
     Guarded
<1>4. ASSUME NEW u \in Thread, u # t PROVE Place(u)' \notin Guarded
  <2>1. Place(u)' = Place(u)
    BY <1>4, StepIsOwn, PlaceIsOwn DEF IInv, ThreadStep
  <2> QED
    BY <1>3, <1>4, <2>1, OthersAreOutside
<1>5. /\ Place(t)' \in Guarded => mutex' = t
      /\ Place(t)' = "store" => tmp'[t] = gl_ct'
  <2>1. CASE Lock(t)
    BY <1>1, <1>2, <2>1 DEF Lock, Goto, Place, IInv, TypeOK
  <2>2. CASE Load(t)
    <3>1. mutex = t
      BY <1>2, <2>2 DEF Load, CoAt, CountInv, MutexIsHeld, Place, Guarded
    <3> QED
      BY <2>2, <3>1 DEF Load, CountInv
  <2>3. CASE Unlock(t)
    BY <1>1, <1>2, <2>3 DEF Unlock, Goto, Place, Guarded, IInv, TypeOK
  <2> QED
    BY <2>1, <2>2, <2>3
<1>6. MutexIsHeld'
  BY <1>4, <1>5 DEF MutexIsHeld, Guarded
<1>7. tmp' \in [Thread -> Int]
  <2>1. gl_ct \in Int
    BY FS_CardinalityType DEF CountInv
  <2> QED
    BY <2>1 DEF Lock, Load, Unlock, CountInv
<1>8. ASSUME NEW d \in Co PROVE Counted(d)' = Counted(d)
  <2>1. at[c] \in {"lock", "load", "unlock"} /\ d # c => at'[d] = at[d]
    BY <1>1 DEF Lock, Load, Unlock, Goto, IInv, TypeOK
  <2>2. \/ /\ at[c] \in {"lock", "load"}
           /\ at'[c] \in {"load", "store"}
        \/ /\ at[c] = "unlock"
           /\ at'[c] \in {"yield", "exit"}
    BY <1>1 DEF Lock, Load, Unlock, CoAt, Goto, IInv, TypeOK
  <2> QED
    BY <1>2, <2>1, <2>2 DEF Counted
<1>9. Stores' = Stores
  BY <1>8, NoStore
<1> QED
  BY <1>2, <1>6, <1>7, <1>9 DEF CountInv

\* The store adds one to what the counter still is.
LEMMA StoreKeepsCountInv ==
  ASSUME IInv, IInv', CountInv, NEW t \in Thread, Store(t)
  PROVE  CountInv'
<1> DEFINE c == <<t, turn[t]>>
           n == Counted(c) + 1
<1>1. c \in Co /\ turn[t] \in Number /\ ct[t] \in 0..Rounds /\ Rounds \in Nat
      /\ co_ct[c] \in Nat
  BY ThreadsAssumption DEF IInv, TypeOK, Co
<1>2. /\ pc[t] = "in_co" /\ at[c] = "store" /\ gl_ct' = tmp[t] + 1
      /\ at' = [at EXCEPT ![c] = "unlock"]
      /\ UNCHANGED <<pc, turn, co_ct, mutex, tmp>>
  BY DEF Store, CoAt, Goto, mainVars
<1>3. mutex = t /\ tmp[t] = gl_ct
  BY <1>2 DEF CountInv, MutexIsHeld, Place, Guarded
<1>4. ASSUME NEW u \in Thread, u # t PROVE Place(u)' \notin Guarded
  <2>1. Place(u)' = Place(u)
    BY <1>4, StepIsOwn, PlaceIsOwn DEF IInv, ThreadStep
  <2> QED
    BY <1>3, <1>4, <2>1, OthersAreOutside
<1>5. Place(t)' = "unlock"
  BY <1>1, <1>2 DEF Place, IInv, TypeOK
<1>6. MutexIsHeld'
  BY <1>2, <1>3, <1>4, <1>5 DEF MutexIsHeld, Guarded
<1>7. co_ct[c] <= Rounds
  <2>1. HasTurn(c, ct[t])
    BY <1>1, <1>2 DEF IInv, ThreadOK, InOrder
  <2> QED
    BY <1>1, <1>2, <2>1 DEF HasTurn
<1>8. Counted(c) = co_ct[c] /\ \A d \in Co : d = c => Counted(d)' = n
  <2>1. Counted(c) = co_ct[c]
    BY <1>1, <1>2 DEF Counted, IInv, TypeOK
  <2>2. ASSUME NEW d \in Co, d = c PROVE Counted(d)' = co_ct[c] + 1
    BY <1>1, <1>2, <2>2 DEF Counted, IInv, TypeOK
  <2> QED
    BY <2>1, <2>2
<1>9. ASSUME NEW d \in Co, d # c PROVE Counted(d)' = Counted(d)
  BY <1>2, <1>9 DEF Counted, IInv, TypeOK
<1>10. n \in 1..(Rounds + 1) /\ n = co_ct[c] + 1
  BY <1>1, <1>7, <1>8
<1> HIDE DEF c, n
<1>11. Stores' = Stores \cup {<<c, n>>} /\ <<c, n>> \notin Stores
  <2>1. ASSUME NEW d \in Co, NEW m \in 1..(Rounds + 1)
        PROVE  m <= Counted(d)' <=> (m <= Counted(d) \/ <<d, m>> = <<c, n>>)
    <3>1. CASE d = c
      BY <1>1, <1>8, <1>10, <3>1
    <3>2. CASE d # c
      BY <1>9, <3>2
    <3> QED
      BY <3>1, <3>2
  <2>2. <<c, n>> \in Co \X (1..(Rounds + 1))
    BY <1>1, <1>10
  <2>3. ~(n <= Counted(c))
    BY <1>1, <1>8, <1>10
  <2>4. ASSUME NEW s \in Co \X (1..(Rounds + 1))
        PROVE  s \in Stores' <=> (s \in Stores \/ s = <<c, n>>)
    <3>1. PICK d \in Co, m \in 1..(Rounds + 1) : s = <<d, m>>
      OBVIOUS
    <3> QED
      BY <2>1, <3>1 DEF Stores
  <2> QED
    BY <2>2, <2>3, <2>4 DEF Stores
<1>12. IsFiniteSet(Stores)' /\ Cardinality(Stores)' = Cardinality(Stores) + 1
  BY <1>11, FS_AddElement DEF CountInv
<1> QED
  BY <1>2, <1>3, <1>6, <1>12 DEF CountInv

\* The invariant of the counter holds in every reachable state.
THEOREM CountInvariance == Spec => [](IInv /\ CountInv)
<1>1. Init => CountInv
  <2> SUFFICES ASSUME Init PROVE CountInv
    OBVIOUS
  <2>1. Stores = {}
    <3>1. \A c \in Co : Counted(c) = 0
      BY DEF Init, Counted
    <3> QED
      BY <3>1 DEF Stores
  <2>2. MutexIsHeld
    BY DEF Init, MutexIsHeld, Place, Guarded
  <2> QED
    BY <2>1, <2>2, FS_EmptySet DEF Init, CountInv
<1>2. IInv /\ CountInv /\ IInv' /\ [Next]_vars => CountInv'
  <2> SUFFICES ASSUME IInv, CountInv, IInv', [Next]_vars PROVE CountInv'
    OBVIOUS
  <2>1. ASSUME NEW t \in Thread, ThreadStep(t) PROVE CountInv'
    BY <2>1, OutsideKeepsCountInv, GuardedKeepsCountInv, StoreKeepsCountInv
       DEF ThreadStep
  <2>2. CASE UNCHANGED vars
    <3>1. UNCHANGED <<pc, turn, at, co_ct, gl_ct, mutex, tmp>>
      BY <2>2 DEF vars, mainVars, coVars, sharedVars
    <3>2. \A c \in Co : Counted(c)' = Counted(c)
      BY <3>1 DEF Counted
    <3>3. Stores' = Stores
      BY <3>2, NoStore
    <3> QED
      BY <3>1, <3>3 DEF CountInv, MutexIsHeld, Place
  <2> QED
    BY <2>1, <2>2 DEF Next, Joined
<1> QED
  BY <1>1, <1>2, ThreadsInvariance, PTL DEF Spec

\* No increment of gl_race_aco_yield_ct (test_aco_tutorial_3.c:26-37) is lost,
\* for any number of threads.
THEOREM NoYieldIsLost == Spec => []CountIsExact
<1>1. CountInv => CountIsExact
  BY DEF CountInv, CountIsExact
<1> QED
  BY CountInvariance, <1>1, PTL
=============================================================================
