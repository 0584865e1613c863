------------------------------ MODULE Contexts ------------------------------
(***************************************************************************)
(* What a context switch promises: each coroutine has a context of its own *)
(* (registers, stack pointer, frames, control words), of which only the    *)
(* running coroutine's changes, and switching changes none of them.        *)
(***************************************************************************)
CONSTANTS Co, MainCo

VARIABLES
  running,   \* the coroutine that executes
  live,      \* the coroutines that exist
  context    \* the context of each of them

vars == <<running, live, context>>

Init == running = MainCo /\ live = {MainCo}

\* The contexts of the coroutines in cs stay what they are.
Kept(cs) == \A c \in cs : context'[c] = context[c]

Compute == Kept(live \ {running}) /\ UNCHANGED <<running, live>>

Create(c) ==
  /\ c \notin live
  /\ live' = live \cup {c}
  /\ Kept(live)
  /\ UNCHANGED running

Switch ==
  /\ running' \in live \ {running}
  /\ Kept(live)
  /\ UNCHANGED live

Next == Compute \/ Switch \/ \E c \in Co : Create(c)

Spec == Init /\ [][Next]_vars
=============================================================================
