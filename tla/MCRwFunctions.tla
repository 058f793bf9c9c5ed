---------------------------- MODULE MCRwFunctions ----------------------------
(* Two enabled units of different capacities and a disabled one between    *)
(* them.  Requests: ranges that end below, at and beyond the capacity of a *)
(* unit, sizes beyond it, a wrong range, and every helper.                 *)
EXTENDS RwFunctions

UnitCapacity == (0 :> 3) @@ (1 :> 1) @@ (2 :> 1)

Random(fn, luns, lbas, sizes, count, compare, method) ==
  [fn |-> fn, min_lun |-> luns[1], max_lun |-> luns[2], min_lba |-> lbas[1], max_lba |-> lbas[2],
   min_size |-> sizes[1], max_size |-> sizes[2], count |-> count, need_compare |-> compare,
   method |-> method]

HelperRequests ==
  {Random("write", <<0, 2>>, <<0, 3>>, <<1, 1>>, 2, FALSE, "SW"),
   Random("write", <<0, 0>>, <<1, 2>>, <<1, 2>>, 1, TRUE, "HW"),
   Random("write", <<0, 0>>, <<2, 1>>, <<1, 1>>, 1, FALSE, "SW"),
   Random("read", <<0, 2>>, <<0, 5>>, <<2, 2>>, 2, TRUE, "SW"),
   Random("erase", <<0, 2>>, <<1, 4>>, <<3, 3>>, 1, FALSE, "SW"),
   Random("spor", <<0, 0>>, <<0, 4>>, <<1, 1>>, 1, FALSE, "SW"),
   Random("sequential", <<0, 0>>, <<1, 1>>, <<1, 1>>, 2, TRUE, "SW"),
   Random("sequential", <<2, 0>>, <<0, 0>>, <<1, 1>>, 0, FALSE, "SW"),
   Random("all", <<0, 0>>, <<0, 0>>, <<1, 1>>, 0, FALSE, "SW"),
   Random("compare", <<0, 0>>, <<0, 0>>, <<1, 1>>, 0, FALSE, "HW")}
=============================================================================
