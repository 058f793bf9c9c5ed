------------------------- MODULE WriteRecordRefinement -------------------------
(* The list of extents, searched and repaired in loops, implements the map *)
(* of LbaMap.  While a save runs, the extents it has still to put lie over *)
(* what the list says: no step of the loop may disturb any other block.    *)
EXTENDS WriteRecord

Pending == IF pc \in {"search", "save"} /\ op = "save" THEN <<new>> \o todo ELSE todo

PendingAt(l) == {i \in DOMAIN Pending : l \in Pending[i].start .. Pending[i].end}

(* The extents of one command all carry the same data.                     *)
AbstractMap ==
  [l \in Lbas |->
     IF PendingAt(l) = {} THEN Recorded(l) ELSE Pending[CHOOSE i \in PendingAt(l) : TRUE].data]

Asked ==
  IF op = "find" THEN (IF met = <<>> THEN new.start ELSE met[1].start) .. new.end ELSE {}

Map == INSTANCE LbaMap WITH
  Values <- Data \cup {Erased}, map <- AbstractMap, asked <- Asked,
  reply <- (IF answer = NONE THEN NONE ELSE answer = Crc), busy <- pc # "idle"

(* Its steps are steps of the map.                                         *)
MapSteps == Map!Steps

(* save_write_info and find_record_to_gen_data_crc implement the map: each *)
(* call returns, a save changes what the list says of its own blocks only, *)
(* at once, and a lookup ends in a CRC just when all its blocks are known. *)
MapSpec == Map!Spec
=============================================================================
