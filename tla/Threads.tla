------------------------------ MODULE Threads ------------------------------
(***************************************************************************)
(* test_aco_tutorial_3.c: threads that each run a main coroutine and three *)
(* others with libaco and count all yields in one counter behind a mutex.  *)
(* Nothing of libaco is shared: aco_gtls_co is a thread-local variable. A  *)
(* mutex belongs to the thread, not to the coroutine, that has locked it.  *)
(* The switch itself is the subject of the other modules: here a coroutine *)
(* goes on where it was. A coroutine is named by its thread and number.    *)
(***************************************************************************)
EXTENDS Integers, FiniteSets

CONSTANTS
  Thread,
  Rounds,   \* how often co_fp0 calls foo
  NONE      \* no thread

ASSUME ThreadsAssumption ==
  NONE \notin Thread /\ Rounds \in Nat

VARIABLES
  pc,           \* where pmain is
  ct,           \* its local variable
  turn,         \* the coroutine it resumes
  aco_gtls_co,
  at,           \* where co_fp0 or foo is, for each coroutine
  co_ct,        \* the local variable ct of co_fp0
  arg,          \* the number co->arg points to
  is_end,
  gl_ct,        \* gl_race_aco_yield_ct
  mutex,        \* gl_race_aco_yield_ct_mutex: the thread that holds it
  tmp           \* the value of gl_ct a thread has loaded

mainVars   == <<pc, ct, turn>>
coVars     == <<at, co_ct, arg, is_end>>
sharedVars == <<gl_ct, mutex, tmp>>
vars       == <<mainVars, aco_gtls_co, coVars, sharedVars>>

Number == 1..3
Co     == Thread \X Number
Main   == 0   \* the number of a thread's main coroutine

Init ==
  /\ pc = [t \in Thread |-> "resume"]
  /\ ct = [t \in Thread |-> 0]
  /\ turn = [t \in Thread |-> 1]
  /\ aco_gtls_co = [t \in Thread |-> <<t, Main>>]
  /\ at = [c \in Co |-> "lock"]
  /\ co_ct = [c \in Co |-> 0]
  /\ arg = [c \in Co |-> 0]
  /\ is_end = [c \in Co |-> FALSE]
  /\ gl_ct = 0
  /\ mutex = NONE
  /\ tmp = [t \in Thread |-> 0]

-----------------------------------------------------------------------------
\* Mutant: aco_gtls_co is a global variable.
SetForAll(t, c) == [u \in Thread |-> c]

\* An assignment to the thread-local aco_gtls_co.
SetGtls(t, c) == [aco_gtls_co EXCEPT ![t] = c]

\* The next call of aco_resume; it aborts if the coroutine has ended.
Resume(t) ==
  LET c == <<t, turn[t]>> IN
  /\ pc[t] = "resume"
  /\ IF is_end[c]
     THEN pc' = [pc EXCEPT ![t] = "failed"] /\ UNCHANGED aco_gtls_co
     ELSE pc' = [pc EXCEPT ![t] = "in_co"] /\ aco_gtls_co' = SetGtls(t, c)
  /\ UNCHANGED <<ct, turn, coVars, sharedVars>>

\* Back from aco_resume: the assertions, and on to the next coroutine.
Back(t) ==
  LET c    == <<t, turn[t]>>
      last == ct[t] = Rounds /\ turn[t] = 3
  IN /\ pc[t] = "back"
     /\ pc' = [pc EXCEPT ![t] =
          IF arg[c] # ct[t] \/ (ct[t] = Rounds /\ ~is_end[c]) THEN "failed"
          ELSE IF last THEN "read" ELSE "resume"]
     /\ turn' = [turn EXCEPT ![t] = IF @ < 3 THEN @ + 1 ELSE 1]
     /\ ct' = [ct EXCEPT ![t] = IF turn[t] = 3 /\ ~last THEN @ + 1 ELSE @]
     /\ UNCHANGED <<aco_gtls_co, coVars, sharedVars>>

\* The read of the counter that pmain prints.
Read(t) ==
  /\ pc[t] = "read" /\ mutex = NONE
  /\ tmp' = [tmp EXCEPT ![t] = gl_ct]
  /\ pc' = [pc EXCEPT ![t] = "done"]
  /\ UNCHANGED <<ct, turn, aco_gtls_co, coVars, gl_ct, mutex>>

-----------------------------------------------------------------------------
\* The code of a coroutine, executed by thread t.
CoAt(t, label) == pc[t] = "in_co" /\ at[<<t, turn[t]>>] = label
Goto(t, label) == at' = [at EXCEPT ![<<t, turn[t]>>] = label]

\* Mutant: the counter is not protected.
NoMutex == TRUE

MutexFree == mutex = NONE

Lock(t) ==
  /\ CoAt(t, "lock") /\ MutexFree
  /\ mutex' = t
  /\ Goto(t, "load")
  /\ UNCHANGED <<mainVars, aco_gtls_co, co_ct, arg, is_end, gl_ct, tmp>>

Load(t) ==
  /\ CoAt(t, "load")
  /\ tmp' = [tmp EXCEPT ![t] = gl_ct]
  /\ Goto(t, "store")
  /\ UNCHANGED <<mainVars, aco_gtls_co, co_ct, arg, is_end, gl_ct, mutex>>

Store(t) ==
  /\ CoAt(t, "store")
  /\ gl_ct' = tmp[t] + 1
  /\ Goto(t, "unlock")
  /\ UNCHANGED <<mainVars, aco_gtls_co, co_ct, arg, is_end, mutex, tmp>>

\* Mutant: the mutex is kept while the coroutine is suspended.
KeepMutex(t) == t

Released(t) == NONE

\* After its calls of foo, co_fp0 has counted once more and exits.
Unlock(t) ==
  /\ CoAt(t, "unlock")
  /\ mutex' = Released(t)
  /\ Goto(t, IF co_ct[<<t, turn[t]>>] < Rounds THEN "yield" ELSE "exit")
  /\ UNCHANGED <<mainVars, aco_gtls_co, co_ct, arg, is_end, gl_ct, tmp>>

\* aco_yield1(c), executed by thread t: it aborts for a coroutine that has no
\* main coroutine, else that one goes on with the last statement of aco_resume.
BackToMainOf(t, c) ==
  IF c[2] = Main
  THEN pc' = [pc EXCEPT ![t] = "failed"] /\ UNCHANGED aco_gtls_co
  ELSE pc' = [pc EXCEPT ![t] = "back"] /\ aco_gtls_co' = SetGtls(t, <<c[1], Main>>)

\* aco_yield saves where foo goes on in the coroutine that aco_gtls_co names.
Yield(t) ==
  /\ CoAt(t, "yield")
  /\ at' = [at EXCEPT ![aco_gtls_co[t]] = "arg++"]
  /\ BackToMainOf(t, aco_gtls_co[t])
  /\ UNCHANGED <<ct, turn, co_ct, arg, is_end, sharedVars>>

\* aco_get_arg() reads aco_gtls_co.
CountArg(t) ==
  /\ CoAt(t, "arg++")
  /\ arg' = [arg EXCEPT ![aco_gtls_co[t]] = @ + 1]
  /\ co_ct' = [co_ct EXCEPT ![<<t, turn[t]>>] = @ + 1]
  /\ Goto(t, "lock")
  /\ UNCHANGED <<mainVars, aco_gtls_co, is_end, sharedVars>>

\* aco_exit marks the coroutine aco_gtls_co names, and yields for it.
Exit(t) ==
  /\ CoAt(t, "exit")
  /\ is_end' = [is_end EXCEPT ![aco_gtls_co[t]] = TRUE]
  /\ BackToMainOf(t, aco_gtls_co[t])
  /\ UNCHANGED <<ct, turn, at, co_ct, arg, sharedVars>>

ThreadStep(t) ==
  \/ Resume(t) \/ Back(t) \/ Read(t)
  \/ Lock(t) \/ Load(t) \/ Store(t) \/ Unlock(t)
  \/ Yield(t) \/ CountArg(t) \/ Exit(t)

\* pthread_join: the process ends when all threads have.
Joined == (\A t \in Thread : pc[t] \in {"done", "failed"}) /\ UNCHANGED vars

Next == (\E t \in Thread : ThreadStep(t)) \/ Joined

\* The operating system schedules each thread that can go on.
Spec == Init /\ [][Next]_vars /\ \A t \in Thread : WF_vars(ThreadStep(t))

-----------------------------------------------------------------------------
\* The assertions of pmain and of aco_yield1 hold: each coroutine counts its
\* own yields through aco_get_arg() whatever the other threads do, has ended
\* after its last turn, and it is never a main coroutine that yields.
NoAssertionFails == \A t \in Thread : pc[t] # "failed"

\* The stores of coroutine c so far: one in each call of foo and one before
\* it exits.
Counted(c) ==
  co_ct[c] + IF at[c] \in {"unlock", "yield", "arg++", "exit"} THEN 1 ELSE 0

Stores == {s \in Co \X (1..(Rounds + 1)) : s[2] <= Counted(s[1])}

\* No yield is lost: the counter is at all times the number of stores of all
\* coroutines, whatever threads load it and store it in the meantime.
CountIsExact == gl_ct = Cardinality(Stores)

\* Every thread ends: a mutex that is held while a coroutine is suspended
\* would lock out the other coroutines of its own thread too.
AllThreadsEnd == <>(\A t \in Thread : pc[t] = "done")
=============================================================================
