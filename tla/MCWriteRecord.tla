--------------------------- MODULE MCWriteRecord ---------------------------
(* Five blocks: room for an extent that a write cuts on either side, with  *)
(* a neighbour on either side.  An UNMAP has one descriptor, as in         *)
(* random_erase, or two: apart, adjacent, overlapping, and in either order.*)
EXTENDS WriteRecordRefinement

Extent(start, length) == [lba |-> start, length |-> length]

UnmapCommands ==
  {<<Extent(start, 2)>> : start \in 0 .. 3}
    \cup {<<Extent(0, 1), Extent(3, 1)>>, <<Extent(3, 1), Extent(0, 1)>>,
          <<Extent(3, 2), Extent(1, 2)>>, <<Extent(1, 2), Extent(2, 2)>>}
=============================================================================
