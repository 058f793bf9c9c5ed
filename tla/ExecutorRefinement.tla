------------------------- MODULE ExecutorRefinement -------------------------
(***************************************************************************)
(* The executor implements CommandPackage.  An aborted command has no      *)
(* answer of its own, and if its task tag is used again the answers behind *)
(* it move up (see OwnResponse): a pattern that pushes aborts may rely on  *)
(* everything but the answers of that tag, which are left out of the map.  *)
(***************************************************************************)
EXTENDS Executor

Phase ==
  IF pc # "idle" THEN "running" ELSE IF is_cmd_sent THEN "ended" ELSE "open"

Found == {i \in 1 .. Len(cmd_list) : pc = "idle" /\ HasResponse(i) /\ ~AbortedUpTo(i)}

Size == Len(cmd_list)
FoundAnswers == [i \in Found |-> ReadResponse(i).id]

Package == INSTANCE CommandPackage WITH
  size    <- Size,
  phase   <- Phase,
  answers <- FoundAnswers

(* Calls that raise change nothing a reader of the package can see, a      *)
(* package that was sent is frozen until it is cleared, and read_response  *)
(* never returns the response of another command.                          *)
PackageSteps == Package!Steps

(* Every behaviour of the executor and the tester is one of CommandPackage:*)
(* its steps are those of a package, and every send() ends.                *)
PackageSpec == Package!Spec
=============================================================================
