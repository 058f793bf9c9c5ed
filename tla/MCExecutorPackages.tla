------------------------- MODULE MCExecutorPackages -------------------------
(* Two kinds of packages, each behaviour of one kind: those that fill a    *)
(* package up to its limits, and those that mix data modes.                *)
EXTENDS MCExecutor

CONSTANT MaxModeCommands    \* bound on the length of a package that mixes modes

VARIABLE kind               \* of the packages of this behaviour

PackageCommands == CapacityCommands \cup ModeCommands

EnqueueOfKind ==
  \/ kind = "capacity" /\ \E c \in CapacityCommands : Enqueue(c)
  \/ kind = "modes" /\ Len(cmd_list) < MaxModeCommands /\ \E c \in ModeCommands : Enqueue(c)

PackagesNext ==
  \/ EnqueueOfKind
  \/ \E qd \in QueueDepths \cup {NONE}, hw, clr \in BOOLEAN : Send(qd, hw, clr)
  \/ Clear
  \/ \E qd \in QueueDepths : SetQdLimit(qd)
  \/ SendNext
  \/ TesterNext

PackagesSpec ==
  Init /\ kind \in {"capacity", "modes"} /\ [][PackagesNext /\ UNCHANGED kind]_<<vars, kind>>
=============================================================================
