----------------------------- MODULE MCExecutor -----------------------------
(* Small command sets for the model-checking runs of the executor.         *)
EXTENDS ExecutorRefinement

PowerCycle == 1
Dummy == 254

Cmd(class, length, ehs) ==
  [class |-> class, tag |-> AUTO, manual |-> class \in {"hpb"}, pattern |-> "HW_INCREASE",
   length |-> length, payload |-> length, ehs |-> ehs, ehsField |-> ehs,
   func |-> PowerCycle, target |-> 0]

(* Capacity: payloads of 0, 1 and 3 blocks, EHS of one and two units, and  *)
(* a payload longer than the length its command declares.                  *)
Tagged(c) == [c EXCEPT !.tag = 0]

CapacityCommands ==
  {Tagged(Cmd("scsi", 0, 0)), Tagged(Cmd("scsi", 5, 0)), Tagged(Cmd("query", 1, 2)),
   Tagged(Cmd("query", 0, 4)), Cmd("tester", 0, 0),
   [Tagged(Cmd("scsi", 2, 0)) EXCEPT !.payload = 3]}

(* Attribution: tags drawn and tags given, an abort, a tester command and  *)
(* a tag out of range.  Also the refinement run's commands.                *)
AttributionCommands ==
  {Cmd("scsi", 0, 0), [Cmd("scsi", 0, 0) EXCEPT !.tag = 1],
   [Cmd("tm", 0, 0) EXCEPT !.target = 1], Cmd("tester", 0, 0),
   [Cmd("plain", 0, 0) EXCEPT !.tag = 7]}

(* Modes: automatic and manual transfers, two pattern modes, a misaligned  *)
(* manual transfer, a wrong EHS length, and the commands that exclude      *)
(* hardware compare.                                                       *)
Rw(manual, pattern, length) ==
  [Cmd("rw", length, 0) EXCEPT !.manual = manual, !.pattern = pattern, !.payload = 0]

ModeCommands ==
  {Rw(FALSE, "HW_INCREASE", 4), Rw(FALSE, "HW_FIX", 4), Rw(TRUE, "HW_INCREASE", 4),
   Rw(TRUE, "HW_FIX", 3), [Rw(TRUE, "HW_FIX", 4) EXCEPT !.ehsField = 2],
   Cmd("hpb", 4, 0), Cmd("readbuffer", 0, 0), [Cmd("tm", 0, 0) EXCEPT !.target = 1]}
=============================================================================
