----------------------------- MODULE Coroutines -----------------------------
(***************************************************************************)
(* What libaco promises to the program that uses it, with no share stack   *)
(* in sight: every non-main coroutine has an execution stack of its own,   *)
(* only the code of the running coroutine changes it, and control passes   *)
(* between the main coroutine and one non-main coroutine at a time.        *)
(* Module Aco, which copies stacks in and out of shared areas, is shown to *)
(* implement this specification.                                           *)
(***************************************************************************)
EXTENDS Naturals, Sequences

CONSTANTS
  Co,       \* the non-main coroutines
  MainCo,   \* the main coroutine, not an element of Co
  Cell      \* what one word of a stack may hold

VARIABLES
  current,  \* the coroutine whose code is executing
  status,   \* the state of every non-main coroutine, named as in README.md
  frames,   \* frames[c] is the private stack of c, outermost word first
  aborted   \* the process has been aborted

vars == <<current, status, frames, aborted>>

Status == {"absent", "init", "yielded", "running", "end"}

TypeOK ==
  /\ current \in Co \cup {MainCo}
  /\ status \in [Co -> Status]
  /\ frames \in [Co -> Seq(Cell)]
  /\ aborted \in BOOLEAN

Init ==
  /\ current = MainCo
  /\ status = [c \in Co |-> "absent"]
  /\ frames = [c \in Co |-> <<>>]
  /\ aborted = FALSE

-----------------------------------------------------------------------------
\* A new coroutine starts in state "init" with nothing on its stack.
Create(c) ==
  /\ status[c] = "absent"
  /\ status' = [status EXCEPT ![c] = "init"]
  /\ UNCHANGED <<current, frames, aborted>>

\* The main coroutine starts or continues c, which finds its stack as it
\* left it. A coroutine that has ended is never resumed.
Resume(c) ==
  /\ current = MainCo
  /\ status[c] \in {"init", "yielded"}
  /\ current' = c
  /\ status' = [status EXCEPT ![c] = "running"]
  /\ UNCHANGED <<frames, aborted>>

Yield(c) ==
  /\ current = c
  /\ current' = MainCo
  /\ status' = [status EXCEPT ![c] = "yielded"]
  /\ UNCHANGED <<frames, aborted>>

\* The last yield of c: its stack is given up.
Exit(c) ==
  /\ current = c
  /\ current' = MainCo
  /\ status' = [status EXCEPT ![c] = "end"]
  /\ frames' = [frames EXCEPT ![c] = <<>>]
  /\ UNCHANGED aborted

\* The code of c pushes a word on its stack or pops one.
Work(c) ==
  /\ current = c
  /\ \/ \E w \in Cell : frames' = [frames EXCEPT ![c] = Append(@, w)]
     \/ /\ frames[c] # <<>>
        /\ frames' = [frames EXCEPT ![c] = SubSeq(@, 1, Len(@) - 1)]
  /\ UNCHANGED <<current, status, aborted>>

\* Anyone but c destroys c, whatever state it is in.
Destroy(c) ==
  /\ status[c] \in {"init", "yielded", "end"}
  /\ status' = [status EXCEPT ![c] = "absent"]
  /\ frames' = [frames EXCEPT ![c] = <<>>]
  /\ UNCHANGED <<current, aborted>>

\* A failed assertion ends the process with every stack as it was.
Abort ==
  /\ aborted' = TRUE
  /\ UNCHANGED <<current, status, frames>>

Next ==
  /\ ~aborted
  /\ \/ Abort
     \/ \E c \in Co :
          \/ Create(c) \/ Resume(c) \/ Yield(c) \/ Exit(c)
          \/ Work(c) \/ Destroy(c)

Spec == Init /\ [][Next]_vars
=============================================================================
