------------------------------- MODULE MCRpmb -------------------------------
EXTENDS Rpmb

Run(random, write, chunk, size, first, last, overlap, aligned) ==
  [random |-> random, write |-> write, chunk |-> chunk, size |-> size, first |-> first,
   last |-> last, overlap |-> overlap, aligned |-> aligned]

(* Sequential and random, with and without overlap, one that fills its     *)
(* range exactly, one that runs out of blocks, one beyond the region, one  *)
(* of more entries than the SDK takes.                                     *)
MCPerfRequests ==
  {Run(FALSE, TRUE, 1, 2, 0, 1, TRUE, TRUE),
   Run(FALSE, FALSE, 2, 4, 0, 4, FALSE, FALSE),
   Run(TRUE, TRUE, 2, 5, 0, 4, FALSE, TRUE),
   Run(TRUE, TRUE, 1, 3, 2, 3, FALSE, TRUE),
   Run(TRUE, TRUE, 2, 3, 0, 4, TRUE, FALSE),
   Run(TRUE, FALSE, 1, 3, 1, 4, FALSE, TRUE),
   Run(FALSE, TRUE, 1, 4, 2, 5, TRUE, TRUE),
   Run(TRUE, TRUE, 1, 5, 0, 4, TRUE, TRUE)}
=============================================================================
