--------------------------- MODULE MCTaskManagement ---------------------------
(* Packages of SCSI commands with drawn tags and requests about them: as   *)
(* many tags as commands, so that a tag names one command of the package.  *)
EXTENDS TaskManagement

Request(class) ==
  [class |-> class, tag |-> AUTO, manual |-> FALSE, pattern |-> "HW_INCREASE", length |-> 0,
   payload |-> 0, ehs |-> 0, ehsField |-> 0, func |-> 1, target |-> 0]

TmRequest == Request("tm")
ScsiCommands == {Request("scsi")}
=============================================================================
