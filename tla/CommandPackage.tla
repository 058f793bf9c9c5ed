--------------------------- MODULE CommandPackage ---------------------------
(***************************************************************************)
(* What a pattern may rely on when it uses the executor: a package is      *)
(* built, run as a whole, and read; nothing is added to a package that has *)
(* been handed over; a running package ends; and the answer read for the   *)
(* command i, if there is one, is the answer to the command i.             *)
(***************************************************************************)
EXTENDS Integers

VARIABLES
  size,     \* number of commands in the package
  phase,    \* "open", "running" or "ended"
  answers   \* what is read for each command: the number of the command answered

vars == <<size, phase, answers>>

OwnAnswers(S) == [i \in S |-> i]

Init == size = 0 /\ phase = "open" /\ answers = OwnAnswers({})

Add ==
  /\ phase = "open"
  /\ size' = size + 1
  /\ UNCHANGED <<phase, answers>>

Start ==
  /\ phase = "open"
  /\ phase' = "running"
  /\ UNCHANGED <<size, answers>>

(* A package that ends in an error may have answers to any of its commands.*)
Fail(S) ==
  /\ phase = "running"
  /\ phase' = "ended"
  /\ answers' = OwnAnswers(S)
  /\ UNCHANGED size

Reset ==
  /\ size' = 0
  /\ phase' = "open"
  /\ answers' = OwnAnswers({})

End == (\E S \in SUBSET (1 .. size) : Fail(S)) \/ (phase = "running" /\ Reset)

Next == Add \/ Start \/ End \/ Reset

Steps == Init /\ [][Next]_vars

Spec == Steps /\ WF_vars(End)
=============================================================================
