--------------------------- MODULE MCTesterUpdate ---------------------------
(* Two testers of one generation, which compete for the directories and    *)
(* can come back under each other's number.                                *)
EXTENDS TesterUpdate, TLC

CONSTANTS t1, t2

TesterPort == (t1 :> 1) @@ (t2 :> 2)
TesterGeneration == (t1 :> "V6") @@ (t2 :> "V6")
=============================================================================
