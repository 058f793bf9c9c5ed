---------------------------- MODULE BufferLayout ----------------------------
(***************************************************************************)
(* The address arithmetic of api/cmd_seq/_buffer_manager.py.               *)
(*                                                                         *)
(* One buffer carries a whole command package to the tester.  Fixed-size   *)
(* entries are packed into groups ("8K" in the code), an entry never       *)
(* crosses a group boundary, and the payloads start on the first group     *)
(* boundary after the entries and one spare entry, but never before the    *)
(* group MinGroups ("32K").  EHS bytes go into a buffer of their own.      *)
(* Sizes are in bytes; the values of the code are given with each          *)
(* constant.                                                               *)
(***************************************************************************)
EXTENDS Integers

CONSTANTS
  EntrySize,   \* ENTRY_SIZE      = 72
  BlockSize,   \* ALIGN_SIZE_512  = 512
  GroupSize,   \* ALIGN_SIZE_8K   = 8192
  BufSize,     \* BUF_SIZE        = 62 MB
  MinGroups,   \* 4 groups, the 32K of the tester limit
  EhsUnit,     \* ALIGN_EHS_UNIT  = 96
  EhsBufSize   \* EHS_BUF_SIZE    = 512 KB

ASSUME LayoutAssumption ==
  /\ EntrySize \in Nat \ {0}
  /\ BlockSize \in Nat \ {0}
  /\ GroupSize \in Nat \ {0}
  /\ EntrySize <= GroupSize
  /\ GroupSize % BlockSize = 0
  /\ BufSize \in Nat
  /\ BufSize % BlockSize = 0     \* reset_module refuses anything else
  /\ MinGroups \in Nat \ {0}
  /\ MinGroups * GroupSize <= BufSize
  /\ EhsUnit \in Nat \ {0}
  /\ EhsBufSize \in Nat

EntriesPerGroup == GroupSize \div EntrySize
EntryPadding    == GroupSize % EntrySize

CeilDiv(n, d) == (n + d - 1) \div d
AlignUp(n, a) == CeilDiv(n, a) * a

AtLeast(n, low) == IF n < low THEN low ELSE n

(***************************************************************************)
(* Where the entry number i (from 0) lies, as the reader of the buffer     *)
(* computes it.                                                            *)
(***************************************************************************)
EntryOffset(i) ==
  (i \div EntriesPerGroup) * GroupSize + (i % EntriesPerGroup) * EntrySize

(* A variant that forgets the padding of a group.                          *)
NextEntryPtrUnpadded(ptr) == ptr + EntrySize

(* Where the next entry goes once one has been written at ptr.             *)
NextEntryPtr(ptr) ==
  IF (ptr + 2 * EntrySize) % GroupSize < EntrySize
  THEN ptr + EntrySize + EntryPadding
  ELSE ptr + EntrySize

(* A variant that rounds the entries' groups down.                         *)
DataBeginRoundedDown(entryCnt) ==
  AtLeast((entryCnt \div EntriesPerGroup) * GroupSize, MinGroups * GroupSize)

DataBegin(entryCnt) ==
  AtLeast(CeilDiv(entryCnt, EntriesPerGroup) * GroupSize, MinGroups * GroupSize)

(* A variant that forgets that payloads start at MinGroups at the earliest.*)
EarlyFullNoMinimum(entryCnt, dataBlocks, ehsUnits) ==
  \/ BufSize \div BlockSize
       - CeilDiv(entryCnt, EntriesPerGroup) * (GroupSize \div BlockSize) - dataBlocks < 0
  \/ ehsUnits > EhsBufSize \div EhsUnit

(* early_check_if_full: the check made while the package is being built.   *)
EarlyFull(entryCnt, dataBlocks, ehsUnits) ==
  LET groups == AtLeast(CeilDiv(entryCnt, EntriesPerGroup), MinGroups)
  IN  \/ BufSize \div BlockSize - groups * (GroupSize \div BlockSize) - dataBlocks < 0
      \/ ehsUnits > EhsBufSize \div EhsUnit

(* _has_room_for_cmd: the check made while the package is written.         *)
HasRoom(entryPtr, dataPtr, ehsPtr, dataBegin, dataLen, ehsLen) ==
  /\ AlignUp(entryPtr + 2 * EntrySize, GroupSize) <= dataBegin
  /\ dataPtr + AlignUp(dataLen, BlockSize) <= BufSize
  /\ ehsPtr + AlignUp(ehsLen, EhsUnit) <= EhsBufSize
=============================================================================
