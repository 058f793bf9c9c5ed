--------------------------- MODULE ResponseProofs ---------------------------
(***************************************************************************)
(* From the buffer to the responses and back: the tester parses the list,  *)
(* however it reorders the answers each command finds its own, the steps   *)
(* of the executor are steps of the command package, and task management   *)
(* requests reach and describe the commands they name.                     *)
(***************************************************************************)
EXTENDS ExecutorProofs, ExecutorRefinement, TaskManagement

USE ExecutorAssumption, LayoutAssumption

-----------------------------------------------------------------------------
(* The entries the tester parses: BufferInv is inductive. *)

(* Two entries never share an offset.                                      *)
LEMMA OffsetsIncrease ==
  ASSUME NEW i \in Nat, NEW j \in Nat, i < j
  PROVE  EntryOffset(i) < EntryOffset(j) /\ EntryOffset(i) \in Nat /\ EntryOffset(j) \in Nat
<1> DEFINE E == EntriesPerGroup
           S == EntrySize
           G == GroupSize
<1>1. E \in Nat \ {0} /\ S \in Nat \ {0} /\ G \in Nat \ {0}
  BY GroupShape
<1>2. E * S <= G
  <2>1. EntryPadding \in Nat /\ G = E * S + EntryPadding /\ E * S \in Nat
    BY GroupShape, <1>1
  <2> QED BY <2>1, <1>1
<1>3. PICK q \in Nat, r \in 0 .. E - 1 : i = q * E + r
  BY GroupAndPlace
<1>4. PICK s \in Nat, t \in 0 .. E - 1 : j = s * E + t
  BY GroupAndPlace
<1>5. /\ EntryOffset(i) = q * G + r * S /\ EntryOffset(i) \in Nat
      /\ EntryOffset(j) = s * G + t * S /\ EntryOffset(j) \in Nat
  BY <1>3, <1>4, OffsetInGroup
<1> HIDE DEF E, S, G
<1>6. CASE q = s
  <2>1. r + 1 <= t /\ r \in Nat /\ t \in Nat
    <3> DEFINE m == s * E
    <3>1. m \in Nat /\ i = m + r /\ j = m + t
      BY <1>1, <1>3, <1>4, <1>6
    <3> HIDE DEF m
    <3> QED BY <3>1, <1>1
  <2>2. (r + 1) * S <= t * S
    BY <2>1, <1>1, TimesMonotone
  <2>3. (r + 1) * S = r * S + S
    BY <2>1, <1>1
  <2> DEFINE x == r * S
             y == t * S
             z == s * G
  <2>4. x \in Nat /\ y \in Nat /\ z \in Nat /\ x + S <= y
    BY <2>1, <2>2, <2>3, <1>1
  <2>5. EntryOffset(i) = z + x /\ EntryOffset(j) = z + y
    BY <1>5, <1>6
  <2> HIDE DEF x, y, z
  <2> QED BY <2>4, <2>5, <1>1, <1>5
<1>7. CASE q + 1 <= s
  <2>1. (q + 1) * G <= s * G /\ (q + 1) * G = q * G + G
    BY <1>7, <1>1, TimesMonotone
  <2>2. r + 1 \in Nat /\ r \in Nat /\ t \in Nat /\ r + 1 <= E
    BY <1>1
  <2>3. (r + 1) * S <= E * S /\ (r + 1) * S = r * S + S
    BY <2>2, <1>1, TimesMonotone
  <2> DEFINE x == r * S
             y == t * S
             z == q * G
             w == s * G
             e == E * S
  <2>4. x \in Nat /\ y \in Nat /\ z \in Nat /\ w \in Nat /\ e \in Nat /\ x + S <= e /\ e <= G /\ z + G <= w
    BY <2>1, <2>2, <2>3, <1>1, <1>2
  <2>5. EntryOffset(i) = z + x /\ EntryOffset(j) = w + y
    BY <1>5
  <2> HIDE DEF x, y, z, w, e
  <2> QED BY <2>4, <2>5, <1>1, <1>5
<1>8. ~(s + 1 <= q)
  <2> SUFFICES ASSUME s + 1 <= q PROVE FALSE
    OBVIOUS
  <2>1. (s + 1) * E <= q * E /\ (s + 1) * E = s * E + E
    BY <1>1, TimesMonotone
  <2> DEFINE x == s * E
             y == q * E
  <2>2. x \in Nat /\ y \in Nat /\ x + E <= y /\ i = y + r /\ j = x + t
    BY <2>1, <1>1, <1>3, <1>4
  <2> HIDE DEF x, y
  <2> QED BY <2>2, <1>1
<1>9. q = s \/ q + 1 <= s \/ s + 1 <= q
  OBVIOUS
<1> QED BY <1>5, <1>6, <1>7, <1>8, <1>9

(* The tester stops at the first offset that holds no entry.               *)
LEMMA ParsedAreAll ==
  ASSUME NEW n \in Nat, NEW buf,
         DOMAIN buf = {EntryOffset(i) : i \in 0 .. n - 1}, Cardinality(DOMAIN buf) = n
  PROVE  Contiguous(buf) = n
<1> DEFINE Stops(m) == /\ EntryOffset(m) \notin DOMAIN buf
                       /\ \A i \in 0 .. m - 1 : EntryOffset(i) \in DOMAIN buf
<1>1. EntryOffset(n) \notin DOMAIN buf
  <2> SUFFICES ASSUME NEW i \in 0 .. n - 1, EntryOffset(n) = EntryOffset(i) PROVE FALSE
    OBVIOUS
  <2>1. i \in Nat /\ i < n
    OBVIOUS
  <2>2. EntryOffset(i) < EntryOffset(n) /\ EntryOffset(i) \in Nat /\ EntryOffset(n) \in Nat
    BY <2>1, OffsetsIncrease
  <2> QED BY <2>2
<1>2. n \in 0 .. Cardinality(DOMAIN buf) /\ Stops(n)
  BY <1>1
<1>3. ASSUME NEW m \in 0 .. Cardinality(DOMAIN buf), Stops(m) PROVE m = n
  <2>1. m \in 0 .. n
    OBVIOUS
  <2>2. m \notin 0 .. n - 1
    BY <1>3
  <2> QED BY <2>1, <2>2
<1> HIDE DEF Stops
<1>4. (CHOOSE m \in 0 .. Cardinality(DOMAIN buf) : Stops(m)) = n
  BY <1>2, <1>3
<1> QED BY <1>4 DEF Contiguous, Stops

(* The entry of the i-th command.                                          *)
EntryOf(i) == [key |-> cmd_list[i].key, id |-> i]

(* An open package has an empty buffer, push fills it from the front, and  *)
(* what the tester parsed is the list.                                     *)
BufferInv ==
  /\ ~is_cmd_sent => buffer = NoFunction
  /\ pc = "push" =>
       /\ opts.pushed <= Len(cmd_list)
       /\ DOMAIN buffer = {EntryOffset(i) : i \in 0 .. opts.pushed - 1}
       /\ IsFiniteSet(DOMAIN buffer) /\ Cardinality(DOMAIN buffer) = opts.pushed
       /\ \A i \in 1 .. opts.pushed : buffer[EntryOffset(i - 1)] = EntryOf(i)
  /\ pc = "monitor" => wire = [i \in 1 .. Len(cmd_list) |-> EntryOf(i)]

LEMMA PushBuffer ==
  ASSUME TypeOK, FitInv, BufferInv, PushCmd
  PROVE  BufferInv'
<1> PICK p \in Nat, n \in Nat : p = opts.pushed /\ n = Len(cmd_list)
  BY DEF TypeOK, OptsType
<1>1. pc = "push" /\ is_cmd_sent /\ is_cmd_sent' = is_cmd_sent /\ entry_ptr = EntryOffset(p)
  BY DEF PushCmd, FitInv, OpenInv, PushInv
<1>2. CASE PushResult(NextCommand) # "ok"
  BY <1>1, <1>2 DEF PushCmd, BufferInv
<1>3. CASE PushResult(NextCommand) = "ok"
  <2>1. p + 1 \in 1 .. n /\ opts'.pushed = p + 1
    BY <1>3, PushedPlaces
  <2>2. Len(cmd_list') = n /\ (\A i \in 1 .. n : cmd_list'[i].key = cmd_list[i].key)
    BY <1>3, PushedList
  <2>3. /\ pc' = "push"
        /\ buffer' = [o \in DOMAIN buffer \cup {EntryOffset(p)} |->
                        IF o = EntryOffset(p) THEN EntryOf(p + 1) ELSE buffer[o]]
    BY <1>1, <1>3 DEF PushCmd, NextCommand, EntryOf
  <2>4. /\ DOMAIN buffer = {EntryOffset(i) : i \in 0 .. p - 1}
        /\ IsFiniteSet(DOMAIN buffer) /\ Cardinality(DOMAIN buffer) = p
        /\ \A i \in 1 .. p : buffer[EntryOffset(i - 1)] = EntryOf(i)
    BY <1>1 DEF BufferInv
  <2>5. \A i \in 0 .. p - 1 : EntryOffset(i) # EntryOffset(p)
    <3> SUFFICES ASSUME NEW i \in 0 .. p - 1 PROVE EntryOffset(i) # EntryOffset(p)
      OBVIOUS
    <3>1. i \in Nat /\ i < p
      OBVIOUS
    <3>2. EntryOffset(i) < EntryOffset(p) /\ EntryOffset(i) \in Nat /\ EntryOffset(p) \in Nat
      BY <3>1, OffsetsIncrease
    <3> QED BY <3>2
  <2>6. EntryOffset(p) \notin DOMAIN buffer
    BY <2>4, <2>5
  <2>7. DOMAIN buffer' = DOMAIN buffer \cup {EntryOffset(p)}
    BY <2>3
  <2>8. IsFiniteSet(DOMAIN buffer') /\ Cardinality(DOMAIN buffer') = p + 1
    <3> DEFINE D == DOMAIN buffer
               o == EntryOffset(p)
    <3>1. IsFiniteSet(D) /\ Cardinality(D) = p /\ o \notin D /\ DOMAIN buffer' = D \cup {o}
      BY <2>4, <2>6, <2>7
    <3> HIDE DEF D, o
    <3>2. IsFiniteSet(D \cup {o}) /\ Cardinality(D \cup {o}) = p + 1
      BY <3>1, FS_AddElement
    <3> QED BY <3>1, <3>2
  <2>9. DOMAIN buffer' = {EntryOffset(i) : i \in 0 .. p + 1 - 1}
    <3>1. \A i : i \in 0 .. p + 1 - 1 <=> i \in 0 .. p - 1 \/ i = p
      OBVIOUS
    <3> QED BY <3>1, <2>4, <2>7
  <2>10. ASSUME NEW i \in 1 .. p + 1 PROVE buffer'[EntryOffset(i - 1)] = EntryOf(i)'
    <3>a. cmd_list'[i].key = cmd_list[i].key /\ i \in 1 .. n
      BY <2>1, <2>2
    <3>1. i \in 1 .. n /\ EntryOf(i)' = EntryOf(i)
      BY <3>a, Zenon DEF EntryOf
    <3>2. CASE i = p + 1
      <4>1. i - 1 = p
        BY <3>2
      <4> QED BY <4>1, <3>1, <3>2, <2>3
    <3>3. CASE i \in 1 .. p
      <4>1. i - 1 \in 0 .. p - 1
        BY <3>3
      <4>2. EntryOffset(i - 1) \in DOMAIN buffer /\ EntryOffset(i - 1) # EntryOffset(p)
        BY <4>1, <2>4, <2>5
      <4>3. buffer'[EntryOffset(i - 1)] = buffer[EntryOffset(i - 1)]
        BY <4>2, <2>3
      <4> QED BY <4>3, <3>1, <3>3, <2>4
    <3> QED BY <3>2, <3>3
  <2>11. p + 1 <= n
    BY <2>1
  <2>12. /\ opts'.pushed <= Len(cmd_list')
         /\ DOMAIN buffer' = {EntryOffset(i) : i \in 0 .. opts'.pushed - 1}
         /\ IsFiniteSet(DOMAIN buffer') /\ Cardinality(DOMAIN buffer') = opts'.pushed
         /\ \A i \in 1 .. opts'.pushed : buffer'[EntryOffset(i - 1)] = EntryOf(i)'
    <3>1. opts'.pushed = p + 1 /\ Len(cmd_list') = n
      BY <2>1, <2>2
    <3>2. opts'.pushed <= Len(cmd_list')
      BY <3>1, <2>11
    <3>3. DOMAIN buffer' = {EntryOffset(i) : i \in 0 .. opts'.pushed - 1}
      BY <3>1, <2>9
    <3>4. IsFiniteSet(DOMAIN buffer') /\ Cardinality(DOMAIN buffer') = opts'.pushed
      BY <3>1, <2>8
    <3>5. \A i \in 1 .. opts'.pushed : buffer'[EntryOffset(i - 1)] = EntryOf(i)'
      BY <3>1, <2>10
    <3> QED BY <3>2, <3>3, <3>4, <3>5
  <2>13. is_cmd_sent' /\ pc' = "push"
    BY <1>1, <2>3
  <2> QED BY <2>12, <2>13 DEF BufferInv
<1> QED BY <1>2, <1>3

LEMMA TransmitBuffer ==
  ASSUME TypeOK, FitInv, BufferInv, Transmit
  PROVE  BufferInv'
<1>a. Len(cmd_list) \in Nat
  BY DEF TypeOK
<1>b. Len(cmd_list) = opts.pushed
  BY DEF Transmit
<1> PICK n \in Nat : n = Len(cmd_list) /\ n = opts.pushed
  BY ONLY <1>a, <1>b
<1>1. pc = "push" /\ is_cmd_sent /\ UNCHANGED <<is_cmd_sent, cmd_list>>
  BY DEF Transmit, FitInv, OpenInv, enqueueVars
<1>2. CASE pc' = "idle"
  BY <1>1, <1>2 DEF BufferInv
<1>3. CASE pc' = "monitor" /\ wire' = ParsedEntries(buffer)
  <2>1. /\ DOMAIN buffer = {EntryOffset(i) : i \in 0 .. n - 1} /\ Cardinality(DOMAIN buffer) = n
        /\ \A i \in 1 .. n : buffer[EntryOffset(i - 1)] = EntryOf(i)
    BY <1>1 DEF BufferInv
  <2>2. Contiguous(buffer) = n
    BY <2>1, ParsedAreAll
  <2>3. wire' = [i \in 1 .. n |-> EntryOf(i)]
    BY <1>3, <2>1, <2>2 DEF ParsedEntries
  <2>4. wire' = [i \in 1 .. Len(cmd_list') |-> EntryOf(i)']
    BY <2>3, <1>1 DEF EntryOf
  <2> QED BY <1>1, <1>3, <2>4 DEF BufferInv
<1> QED BY <1>2, <1>3 DEF Transmit

LEMMA BufferNext == TypeOK /\ FitInv /\ BufferInv /\ [AnyNext]_vars => BufferInv'
<1> SUFFICES ASSUME TypeOK, FitInv, BufferInv, [AnyNext]_vars PROVE BufferInv'
  OBVIOUS
<1>1. ASSUME NEW c \in AnyCommand, Enqueue(c) PROVE BufferInv'
  <2>1. pc' = "idle" /\ UNCHANGED <<is_cmd_sent, buffer>>
    BY <1>1 DEF Enqueue, bufferVars
  <2> QED BY <2>1 DEF BufferInv
<1>2. ASSUME NEW qd, NEW hw, NEW clr, Send(qd, hw, clr) PROVE BufferInv'
  <2>1. UNCHANGED <<cmd_list, buffer>> /\ pc = "idle" /\ Len(cmd_list) \in Nat
    BY <1>2 DEF Send, enqueueVars, TypeOK
  <2>2. CASE SendRefusal(hw) = "ok"
    <3>1. buffer = NoFunction /\ is_cmd_sent' = TRUE /\ pc' = "push" /\ opts'.pushed = 0
      BY <1>2, <2>2 DEF Send, SendRefusal, NotClear, BufferInv
    <3>2. DOMAIN buffer = {} /\ IsFiniteSet({}) /\ Cardinality({}) = 0
      BY <3>1, FS_EmptySet DEF NoFunction
    <3>3. {EntryOffset(i) : i \in 0 .. 0 - 1} = {}
      OBVIOUS
    <3> QED BY <2>1, <3>1, <3>2, <3>3 DEF BufferInv
  <2>3. CASE SendRefusal(hw) # "ok"
    BY <1>2, <2>1, <2>3 DEF Send, BufferInv
  <2> QED BY <2>2, <2>3
<1>3. CASE PushCmd
  BY <1>3, PushBuffer
<1>4. CASE Transmit
  BY <1>4, TransmitBuffer
<1>5. CASE TesterNext
  <2>1. pc = "monitor" /\ UNCHANGED <<pc, is_cmd_sent, cmd_list, wire>> /\ is_cmd_sent
    BY <1>5 DEF TesterNext, TesterIssue, TesterFunction, TesterComplete, TesterAbort, hostUnchanged,
                enqueueVars, FitInv, OpenInv
  <2> QED BY <2>1 DEF BufferInv, EntryOf
<1>6. CASE MonitorErrorWithInfo \/ MonitorError
  BY <1>6 DEF MonitorErrorWithInfo, MonitorError, FitInv, OpenInv, BufferInv
<1>7. CASE \E qd \in QueueDepths : SetQdLimit(qd)
  BY <1>7 DEF SetQdLimit, BufferInv, bufferVars
<1>8. CASE MonitorSuccess
  <2>1. CASE opts.clear
    BY <1>8, <2>1 DEF MonitorSuccess, ClearState, ResetBuffer, BufferInv
  <2>2. CASE ~opts.clear
    BY <1>8, <2>2 DEF MonitorSuccess, FitInv, OpenInv, BufferInv
  <2> QED BY <2>1, <2>2
<1>9. CASE Clear
  BY <1>9 DEF Clear, ClearState, ResetBuffer, BufferInv
<1>10. CASE UNCHANGED vars
  BY <1>10 DEF vars, enqueueVars, bufferVars, testerVars, BufferInv, EntryOf
<1> QED BY <1>1, <1>2, <1>3, <1>4, <1>5, <1>6, <1>7, <1>8, <1>9, <1>10, NextCases DEF QuietNext

(* The tester, parsing the buffer by the layout, gets exactly the commands *)
(* of the list in their order, across group boundaries and however long    *)
(* the package is.                                                         *)
THEOREM TesterGetsTheList == Spec => []TesterSeesTheList
<1>1. Init => TypeOK /\ FitInv /\ BufferInv
  BY TypeInit, FitInit DEF Init, BufferInv
<1>2. TypeOK /\ FitInv /\ BufferInv /\ [Next]_vars => (TypeOK /\ FitInv /\ BufferInv)'
  BY NextIsAny, TypeNext, FitNext, BufferNext
<1>3. BufferInv => TesterSeesTheList
  BY DEF BufferInv, TesterSeesTheList, EntryOf
<1> QED BY <1>1, <1>2, <1>3, PTL DEF Spec

-----------------------------------------------------------------------------
(* Cycle indicators: CycleInv is inductive. *)

Aborting == <<"sdk", TmDummy>>
ListKeys == ({"upiu"} \X Int) \cup ({"sdk"} \X Funcs)

(* The commands with a key in front of the i-th.                           *)
Before(list, i, key) == {j \in 1 .. i - 1 : list[j].key = key}

(* The tracker counts the commands of each key, from -1, and a command's   *)
(* indicator is the number of those in front of it.                        *)
CycleInv ==
  /\ \A k \in Keys : tracker[k] = Cardinality(Before(cmd_list, Len(cmd_list) + 1, k)) - 1
  /\ \A i \in 1 .. Len(cmd_list) :
       cmd_list[i].ci \in {NoIndicator,
                           <<Cardinality(Before(cmd_list, i, cmd_list[i].key)), cmd_list[i].key>>}

LEMMA BeforeFinite ==
  ASSUME NEW list, NEW i \in Nat, NEW k
  PROVE  IsFiniteSet(Before(list, i, k)) /\ Cardinality(Before(list, i, k)) \in Nat
<1>1. IsFiniteSet(1 .. i - 1)
  BY FS_Interval
<1>2. Before(list, i, k) \in SUBSET (1 .. i - 1)
  BY DEF Before
<1>3. IsFiniteSet(Before(list, i, k))
  BY <1>1, <1>2, FS_Subset
<1> QED BY <1>3, FS_CardinalityType

LEMMA ListKey ==
  ASSUME TypeOK, NEW i \in 1 .. Len(cmd_list)
  PROVE  cmd_list[i].key \in ListKeys /\ cmd_list[i].key # Aborting
<1>1. cmd_list[i] \in ListElementType
  BY DEF TypeOK
<1>2. cmd_list[i].key \in ListKeys
  BY <1>1 DEF ListElementType, ListKeys
<1> QED BY <1>2 DEF ListKeys, Aborting

LEMMA QuietCycle ==
  ASSUME TypeOK, CycleInv, tracker' = tracker, Len(cmd_list') = Len(cmd_list),
         \A i \in 1 .. Len(cmd_list) :
           cmd_list'[i].key = cmd_list[i].key /\ cmd_list'[i].ci = cmd_list[i].ci
  PROVE  CycleInv'
<1> PICK n \in Nat : n = Len(cmd_list)
  BY DEF TypeOK
<1>1. ASSUME NEW i \in 1 .. n + 1, NEW k PROVE Before(cmd_list', i, k) = Before(cmd_list, i, k)
  BY DEF Before
<1>2. ASSUME NEW k \in Keys
      PROVE  tracker'[k] = Cardinality(Before(cmd_list', Len(cmd_list') + 1, k)) - 1
  <2>1. Before(cmd_list', n + 1, k) = Before(cmd_list, n + 1, k)
    BY <1>1
  <2> QED BY <2>1 DEF CycleInv
<1>3. ASSUME NEW i \in 1 .. n
      PROVE  cmd_list'[i].ci \in {NoIndicator,
                 <<Cardinality(Before(cmd_list', i, cmd_list'[i].key)), cmd_list'[i].key>>}
  <2>1. \A k : Before(cmd_list', i, k) = Before(cmd_list, i, k)
    BY <1>1
  <2> QED BY <2>1 DEF CycleInv
<1> QED BY <1>2, <1>3 DEF CycleInv

LEMMA AppendedKey ==
  ASSUME TypeOK, NEW c \in AnyCommand, AppendCommand(c)
  PROVE  /\ Len(cmd_list') = Len(cmd_list) + 1
         /\ \A i \in 1 .. Len(cmd_list) : cmd_list'[i] = cmd_list[i]
         /\ cmd_list'[Len(cmd_list) + 1].key = KeyOf(c)
         /\ cmd_list'[Len(cmd_list) + 1].ci =
              IF TagValid(c) THEN <<tracker[KeyOf(c)] + 1, KeyOf(c)>> ELSE NoIndicator
<1> DEFINE ci == IF TagValid(c) THEN <<tracker[KeyOf(c)] + 1, KeyOf(c)>> ELSE NoIndicator
           el == ListElement(c, ci)
<1>1. cmd_list' = Append(cmd_list, el)
  BY DEF AppendCommand
<1>2. el.key = KeyOf(c) /\ el.ci = ci
  BY DEF ListElement
<1> HIDE DEF el
<1> QED BY <1>1, <1>2 DEF TypeOK

LEMMA AppendCycle ==
  ASSUME TypeOK, CycleInv, NEW c \in AnyCommand, AppendCommand(c)
  PROVE  CycleInv'
<1> PICK n \in Nat : n = Len(cmd_list)
  BY DEF TypeOK
<1> DEFINE key == KeyOf(c)
<1>1. /\ Len(cmd_list') = n + 1 /\ \A i \in 1 .. n : cmd_list'[i] = cmd_list[i]
      /\ cmd_list'[n + 1].key = key
      /\ cmd_list'[n + 1].ci = IF TagValid(c) THEN <<tracker[key] + 1, key>> ELSE NoIndicator
  BY AppendedKey
<1>2. /\ tracker \in [Keys -> Int] /\ (TagValid(c) => key \in Keys)
      /\ (~TagValid(c) => key \notin Keys)
  <2>1. tracker \in [Keys -> Int] /\ (TagValid(c) => key \in Keys)
    BY TunedType DEF TypeOK
  <2> QED BY <2>1 DEF TagValid, KeyOf, Keys
<1>3. tracker' = IF TagValid(c) THEN [tracker EXCEPT ![key] = @ + 1] ELSE tracker
  BY DEF AppendCommand, IncrementCycle
<1> HIDE DEF key
<1>4. ASSUME NEW i \in 1 .. n + 1, NEW k PROVE Before(cmd_list', i, k) = Before(cmd_list, i, k)
  BY <1>1 DEF Before
<1>5. ASSUME NEW k
      PROVE  Before(cmd_list', n + 2, k) = IF k = key THEN Before(cmd_list, n + 1, k) \cup {n + 1} ELSE Before(cmd_list, n + 1, k)
  <2>1. \A j : j \in 1 .. n + 2 - 1 <=> j \in 1 .. n + 1 - 1 \/ j = n + 1
    OBVIOUS
  <2> QED BY <1>1, <2>1 DEF Before
<1>6. ASSUME NEW k \in Keys PROVE tracker'[k] = Cardinality(Before(cmd_list', n + 2, k)) - 1
  <2>1. tracker[k] = Cardinality(Before(cmd_list, n + 1, k)) - 1 /\ Cardinality(Before(cmd_list, n + 1, k)) \in Nat
    BY BeforeFinite DEF CycleInv
  <2>2. CASE k = key
    <3>1. TagValid(c) /\ tracker'[k] = tracker[k] + 1
      BY <1>2, <1>3, <2>2
    <3>2. n + 1 \notin Before(cmd_list, n + 1, k)
      BY DEF Before
    <3>3. IsFiniteSet(Before(cmd_list, n + 1, k))
      BY BeforeFinite
    <3> DEFINE B == Before(cmd_list, n + 1, k)
    <3> HIDE DEF B
    <3>4. Cardinality(B \cup {n + 1}) = Cardinality(B) + 1
      BY <3>2, <3>3, FS_AddElement DEF B
    <3>5. Before(cmd_list', n + 2, k) = B \cup {n + 1}
      BY <1>5, <2>2 DEF B
    <3>6. tracker[k] = Cardinality(B) - 1 /\ Cardinality(B) \in Nat
      BY <2>1 DEF B
    <3>7. Cardinality(Before(cmd_list', n + 2, k)) = Cardinality(B) + 1
      BY <3>4, <3>5, Zenon
    <3> QED BY <3>1, <3>6, <3>7
  <2>3. CASE k # key
    <3>1. Before(cmd_list', n + 2, k) = Before(cmd_list, n + 1, k)
      BY <1>5, <2>3
    <3>2. tracker'[k] = tracker[k]
      BY <1>2, <1>3, <2>3
    <3> QED BY <2>1, <3>1, <3>2
  <2> QED BY <2>2, <2>3
<1>7. ASSUME NEW i \in 1 .. n + 1
      PROVE  cmd_list'[i].ci \in {NoIndicator,
                 <<Cardinality(Before(cmd_list', i, cmd_list'[i].key)), cmd_list'[i].key>>}
  <2>1. CASE i \in 1 .. n
    <3>1. \A k : Before(cmd_list', i, k) = Before(cmd_list, i, k)
      BY <1>4
    <3> QED BY <1>1, <2>1, <3>1 DEF CycleInv
  <2>2. CASE i = n + 1
    <3>1. \A k : Before(cmd_list', i, k) = Before(cmd_list, i, k)
      BY <1>4
    <3>2. CASE TagValid(c)
      <4>1. tracker[key] + 1 = Cardinality(Before(cmd_list, n + 1, key))
        <5>1. tracker[key] = Cardinality(Before(cmd_list, n + 1, key)) - 1
          BY <1>2, <3>2 DEF CycleInv
        <5>2. Cardinality(Before(cmd_list, n + 1, key)) \in Nat
          BY BeforeFinite
        <5> QED BY <5>1, <5>2
      <4> QED BY <1>1, <2>2, <3>1, <3>2, <4>1
    <3>3. CASE ~TagValid(c)
      BY <1>1, <2>2, <3>3
    <3> QED BY <3>2, <3>3
  <2> QED BY <2>1, <2>2
<1>8. Len(cmd_list') + 1 = n + 2
  BY <1>1
<1> QED BY <1>1, <1>6, <1>7, <1>8 DEF CycleInv

LEMMA EmptyCycle ==
  ASSUME cmd_list = <<>>, tracker = [k \in Keys |-> -1]
  PROVE  CycleInv
<1>1. Len(cmd_list) = 0
  OBVIOUS
<1>2. ASSUME NEW k \in Keys PROVE tracker[k] = Cardinality(Before(cmd_list, Len(cmd_list) + 1, k)) - 1
  <2>1. Before(cmd_list, Len(cmd_list) + 1, k) = {}
    BY <1>1 DEF Before
  <2>2. tracker[k] = -1 /\ Cardinality({}) - 1 = -1
    BY FS_EmptySet
  <2> QED BY <2>1, <2>2, Zenon
<1> QED BY <1>1, <1>2 DEF CycleInv

LEMMA CycleNext == TypeOK /\ CycleInv /\ [AnyNext]_vars => CycleInv'
<1> SUFFICES ASSUME TypeOK, CycleInv, [AnyNext]_vars PROVE CycleInv'
  OBVIOUS
<1>1. CASE UNCHANGED <<cmd_list, tracker>>
  BY <1>1, QuietCycle
<1>2. ASSUME NEW c \in AnyCommand, Enqueue(c) PROVE CycleInv'
  <2>1. CASE AppendCommand(c)
    BY <2>1, AppendCycle
  <2>2. CASE UNCHANGED enqueueVars
    BY <1>1, <2>2 DEF enqueueVars
  <2> QED BY <1>2, <2>1, <2>2 DEF Enqueue
<1>3. ASSUME NEW qd, NEW hw, NEW clr, Send(qd, hw, clr) PROVE CycleInv'
  BY <1>1, <1>3 DEF Send, enqueueVars
<1>4. CASE PushCmd
  <2>1. CASE PushResult(NextCommand) = "ok"
    <3>1. tracker' = tracker
      BY <1>4 DEF PushCmd
    <3> QED BY <1>4, <2>1, <3>1, PushedList, QuietCycle
  <2>2. CASE PushResult(NextCommand) # "ok"
    BY <1>1, <1>4, <2>2 DEF PushCmd
  <2> QED BY <2>1, <2>2
<1>5. CASE QuietNext
  BY <1>1, <1>5, QuietSteps
<1>6. (cmd_list = <<>> /\ tracker = [k \in Keys |-> -1])' => CycleInv'
  BY EmptyCycle, PTL
<1>7. CASE MonitorSuccess
  <2>1. CASE opts.clear
    BY <1>6, <1>7, <2>1 DEF MonitorSuccess, ClearState, ResetPackage, ResetTracker
  <2>2. CASE ~opts.clear
    BY <1>1, <1>7, <2>2 DEF MonitorSuccess, enqueueVars
  <2> QED BY <2>1, <2>2
<1>8. CASE Clear
  BY <1>6, <1>8 DEF Clear, ClearState, ResetPackage, ResetTracker
<1>9. CASE UNCHANGED vars
  BY <1>1, <1>9 DEF vars, enqueueVars
<1> QED BY <1>2, <1>3, <1>4, <1>5, <1>7, <1>8, <1>9, NextCases

-----------------------------------------------------------------------------
(* The answers: AnswersInv and TesterInv are inductive. *)

ReplyType == [key : ListKeys \cup {Aborting}, id : Nat]

(* No command is answered twice, and when one is answered those in front   *)
(* of it with its key were answered or aborted before.                     *)
InOrder(list, q) ==
  /\ q \in Seq(ReplyType)
  /\ \A n \in 1 .. Len(q) :
       q[n].id \in 1 .. Len(list) /\ q[n].key \in {Aborting, list[q[n].id].key}
  /\ \A m, n \in 1 .. Len(q) : q[m].id = q[n].id => m = n
  /\ \A n \in 1 .. Len(q) : q[n].key # Aborting =>
       \A j \in Before(list, q[n].id, q[n].key) : \E m \in 1 .. n - 1 : q[m].id = j

AnswersInv == InOrder(cmd_list, done_queue)

(* A started command is outstanding or answered, and an outstanding one is *)
(* the last one of its key that was started.                               *)
TesterInv ==
  pc = "monitor" =>
    /\ issued \in 0 .. Len(cmd_list) /\ outstanding \subseteq 1 .. issued
    /\ \A n \in 1 .. Len(done_queue) : done_queue[n].id \in (1 .. issued) \ outstanding
    /\ \A j \in (1 .. issued) \ outstanding : \E n \in 1 .. Len(done_queue) : done_queue[n].id = j
    /\ \A i \in outstanding :
         /\ cmd_list[i].key[1] = "upiu"
         /\ \A j \in 1 .. issued : cmd_list[j].key = cmd_list[i].key => j <= i

LEMMA AnswerAppended ==
  ASSUME NEW list, NEW q, InOrder(list, q), NEW r \in ReplyType,
         r.id \in 1 .. Len(list), r.key \in {Aborting, list[r.id].key},
         \A n \in 1 .. Len(q) : q[n].id # r.id,
         r.key # Aborting =>
           \A j \in Before(list, r.id, r.key) : \E m \in 1 .. Len(q) : q[m].id = j
  PROVE  InOrder(list, Append(q, r))
<1> DEFINE p == Append(q, r)
<1> PICK k \in Nat : k = Len(q)
  BY DEF InOrder
<1>1. /\ p \in Seq(ReplyType) /\ Len(p) = k + 1
      /\ \A i \in 1 .. k : p[i] = q[i]
      /\ p[k + 1] = r
  BY DEF InOrder
<1> HIDE DEF p
<1>2. \A n \in 1 .. k + 1 : n \in 1 .. k \/ n = k + 1
  OBVIOUS
<1>3. ASSUME NEW n \in 1 .. k + 1
      PROVE  p[n].id \in 1 .. Len(list) /\ p[n].key \in {Aborting, list[p[n].id].key}
  BY <1>1, <1>2 DEF InOrder
<1>4. ASSUME NEW m \in 1 .. k + 1, NEW n \in 1 .. k + 1, p[m].id = p[n].id PROVE m = n
  BY <1>1, <1>2, <1>4 DEF InOrder
<1>5. ASSUME NEW n \in 1 .. k + 1, p[n].key # Aborting, NEW j \in Before(list, p[n].id, p[n].key)
      PROVE  \E m \in 1 .. n - 1 : p[m].id = j
  <2>1. CASE n \in 1 .. k
    <3>1. \E m \in 1 .. n - 1 : q[m].id = j
      <4>1. q[n].key # Aborting /\ j \in Before(list, q[n].id, q[n].key) /\ n \in 1 .. Len(q)
        BY <1>1, <1>5, <2>1
      <4>2. InOrder(list, q)
        OBVIOUS
      <4> QED BY ONLY <4>1, <4>2 DEF InOrder
    <3> QED BY <1>1, <2>1, <3>1
  <2>2. CASE n = k + 1
    <3>1. \E m \in 1 .. k : q[m].id = j
      BY <1>1, <1>5, <2>2
    <3> QED BY <1>1, <2>2, <3>1
  <2> QED BY <1>2, <2>1, <2>2
<1> QED BY <1>1, <1>3, <1>4, <1>5 DEF InOrder, p

LEMMA LongerList ==
  ASSUME NEW list, NEW longer, NEW q, InOrder(list, q), Len(list) \in Nat, Len(longer) \in Nat,
         Len(list) <= Len(longer), \A i \in 1 .. Len(list) : longer[i].key = list[i].key
  PROVE  InOrder(longer, q)
<1>1. ASSUME NEW n \in 1 .. Len(q)
      PROVE  /\ q[n].id \in 1 .. Len(list) /\ q[n].id \in 1 .. Len(longer)
             /\ longer[q[n].id].key = list[q[n].id].key
  BY DEF InOrder
<1>2. ASSUME NEW i \in 1 .. Len(list), NEW k PROVE Before(longer, i, k) = Before(list, i, k)
  BY DEF Before
<1>3. ASSUME NEW n \in 1 .. Len(q), q[n].key # Aborting, NEW j \in Before(longer, q[n].id, q[n].key)
      PROVE  \E m \in 1 .. n - 1 : q[m].id = j
  <2>1. j \in Before(list, q[n].id, q[n].key)
    BY <1>1, <1>2, <1>3
  <2> QED BY <1>3, <2>1 DEF InOrder
<1>4. /\ q \in Seq(ReplyType)
      /\ \A m, n \in 1 .. Len(q) : q[m].id = q[n].id => m = n
      /\ \A n \in 1 .. Len(q) : q[n].key \in {Aborting, list[q[n].id].key}
  BY DEF InOrder
<1> QED BY <1>1, <1>3, <1>4 DEF InOrder

(* A reply to the i-th command, and the facts the tester's steps share.    *)
Reply(i) == [key |-> cmd_list[i].key, id |-> i]

LEMMA TesterFacts ==
  ASSUME TypeOK, BufferInv, TesterInv, pc = "monitor"
  PROVE  /\ Len(cmd_list) \in Nat /\ Len(wire) = Len(cmd_list)
         /\ issued \in 0 .. Len(cmd_list) /\ outstanding \subseteq 1 .. issued
         /\ \A i \in 1 .. Len(cmd_list) :
              wire[i].key = cmd_list[i].key /\ Answer(i) = Reply(i) /\ Reply(i) \in ReplyType
         /\ \A i \in outstanding : i \in 1 .. Len(cmd_list)
<1>1. Len(cmd_list) \in Nat
  BY DEF TypeOK
<1>2. wire = [i \in 1 .. Len(cmd_list) |-> EntryOf(i)]
  BY DEF BufferInv
<1>3. Len(wire) = Len(cmd_list)
  BY <1>1, <1>2
<1>4. issued \in 0 .. Len(cmd_list) /\ outstanding \subseteq 1 .. issued
  BY DEF TesterInv
<1>5. ASSUME NEW i \in 1 .. Len(cmd_list)
      PROVE  wire[i].key = cmd_list[i].key /\ Answer(i) = Reply(i) /\ Reply(i) \in ReplyType
  <2>1. wire[i] = [key |-> cmd_list[i].key, id |-> i]
    BY <1>2 DEF EntryOf
  <2>2. cmd_list[i].key \in ListKeys
    BY ListKey
  <2> QED BY <1>1, <2>1, <2>2 DEF Answer, Reply, ReplyType
<1> QED BY <1>1, <1>3, <1>4, <1>5

(* Those in front of an outstanding command with its key have answers.     *)
LEMMA EarlierAnswered ==
  ASSUME TypeOK, TesterInv, pc = "monitor", NEW i \in outstanding,
         NEW j \in Before(cmd_list, i, cmd_list[i].key)
  PROVE  \E n \in 1 .. Len(done_queue) : done_queue[n].id = j
<1>1. issued \in Nat /\ i \in 1 .. issued /\ j \in 1 .. i - 1 /\ cmd_list[j].key = cmd_list[i].key
  BY DEF TesterInv, TypeOK, Before
<1>2. j \in 1 .. issued /\ j < i
  BY <1>1
<1>3. j \notin outstanding
  <2> SUFFICES ASSUME j \in outstanding PROVE FALSE
    OBVIOUS
  <2>1. i <= j
    BY <1>1 DEF TesterInv
  <2> QED BY <1>1, <1>2, <2>1
<1> QED BY <1>2, <1>3 DEF TesterInv

LEMMA IssueAnswers ==
  ASSUME TypeOK, BufferInv, AnswersInv, TesterInv, TesterIssue
  PROVE  AnswersInv' /\ TesterInv'
<1>1. pc = "monitor" /\ UNCHANGED <<cmd_list, done_queue, pc>>
  BY DEF TesterIssue, hostUnchanged, enqueueVars
<1>2. /\ issued < Len(cmd_list) /\ issued \in Nat /\ Len(cmd_list) \in Nat
      /\ issued' = issued + 1 /\ outstanding' = outstanding \cup {issued + 1}
      /\ cmd_list[issued + 1].key[1] = "upiu"
      /\ \A i \in outstanding : cmd_list[i].key # cmd_list[issued + 1].key
  <2>1. /\ issued < Len(wire) /\ wire[issued + 1].key[1] = "upiu"
        /\ \A i \in outstanding : wire[i].key # wire[issued + 1].key
        /\ issued' = issued + 1 /\ outstanding' = outstanding \cup {issued + 1}
    BY DEF TesterIssue
  <2>2. issued + 1 \in 1 .. Len(cmd_list)
    BY <1>1, <2>1, TesterFacts
  <2> QED BY <1>1, <2>1, <2>2, TesterFacts
<1>3. AnswersInv'
  BY <1>1 DEF AnswersInv
<1>4. TesterInv'
  <2> DEFINE x == issued + 1
  <2>1. /\ outstanding \subseteq 1 .. issued
        /\ \A j \in 1 .. x : j \in 1 .. issued \/ j = x
        /\ x \notin 1 .. issued
    BY <1>1, <1>2 DEF TesterInv
  <2>2. x \in 0 .. Len(cmd_list) /\ outstanding \cup {x} \subseteq 1 .. x
    <3>1. x \in 0 .. Len(cmd_list) /\ x \in 1 .. x /\ 1 .. issued \subseteq 1 .. x
      BY <1>2
    <3> QED BY <2>1, <3>1
  <2>3. \A n \in 1 .. Len(done_queue) : done_queue[n].id \in (1 .. x) \ (outstanding \cup {x})
    BY <1>1, <1>2, <2>1 DEF TesterInv
  <2>4. \A j \in (1 .. x) \ (outstanding \cup {x}) :
          \E n \in 1 .. Len(done_queue) : done_queue[n].id = j
    BY <1>1, <2>1 DEF TesterInv
  <2>5. ASSUME NEW i \in outstanding \cup {x}
        PROVE  /\ cmd_list[i].key[1] = "upiu"
               /\ \A j \in 1 .. x : cmd_list[j].key = cmd_list[i].key => j <= i
    BY <1>1, <1>2, <2>1 DEF TesterInv
  <2> QED BY <1>1, <1>2, <2>2, <2>3, <2>4, <2>5 DEF TesterInv
<1> QED BY <1>3, <1>4

LEMMA FunctionAnswers ==
  ASSUME TypeOK, BufferInv, AnswersInv, TesterInv, TesterFunction
  PROVE  AnswersInv' /\ TesterInv'
<1> DEFINE x == issued + 1
<1>1. pc = "monitor" /\ UNCHANGED <<cmd_list, pc, outstanding>>
  BY DEF TesterFunction, hostUnchanged, enqueueVars
<1>2. /\ issued \in Nat /\ Len(cmd_list) \in Nat /\ x \in 1 .. Len(cmd_list)
      /\ issued' = x /\ cmd_list[x].key[1] = "sdk"
      /\ done_queue' = Append(done_queue, Reply(x)) /\ Reply(x) \in ReplyType
  <2>1. /\ issued < Len(wire) /\ wire[x].key[1] = "sdk"
        /\ issued' = x /\ done_queue' = Append(done_queue, Answer(x))
    BY DEF TesterFunction
  <2>2. x \in 1 .. Len(cmd_list) /\ issued \in Nat /\ Len(cmd_list) \in Nat
    BY <1>1, <2>1, TesterFacts
  <2> QED BY <1>1, <2>1, <2>2, TesterFacts
<1> HIDE DEF x
<1>3. /\ outstanding \subseteq 1 .. issued
      /\ \A j \in 1 .. x : j \in 1 .. issued \/ j = x
      /\ x \notin 1 .. issued
      /\ \A j \in 1 .. x - 1 : j \in 1 .. issued
  BY <1>1, <1>2 DEF TesterInv, x
<1>4. \A n \in 1 .. Len(done_queue) : done_queue[n].id # x
  BY <1>1, <1>3 DEF TesterInv
<1>5. ASSUME NEW j \in Before(cmd_list, x, cmd_list[x].key)
      PROVE  \E n \in 1 .. Len(done_queue) : done_queue[n].id = j
  <2>1. j \in 1 .. issued /\ cmd_list[j].key[1] = "sdk"
    BY <1>2, <1>3 DEF Before
  <2>2. j \notin outstanding
    BY <1>1, <2>1 DEF TesterInv
  <2> QED BY <1>1, <2>1, <2>2 DEF TesterInv
<1>6. Reply(x).id = x /\ Reply(x).key = cmd_list[x].key
  BY DEF Reply
<1>7. AnswersInv'
  <2>1. InOrder(cmd_list, Append(done_queue, Reply(x)))
    BY <1>2, <1>4, <1>5, <1>6, AnswerAppended DEF AnswersInv
  <2> QED BY <1>1, <1>2, <2>1 DEF AnswersInv
<1>8. TesterInv'
  <2> PICK k \in Nat : k = Len(done_queue)
    BY DEF AnswersInv, InOrder
  <2>1. /\ Len(done_queue') = k + 1 /\ done_queue'[k + 1].id = x
        /\ \A n \in 1 .. k : done_queue'[n] = done_queue[n]
    BY <1>2, <1>6 DEF AnswersInv, InOrder
  <2>2. \A n \in 1 .. k + 1 : n \in 1 .. k \/ n = k + 1
    OBVIOUS
  <2>3. \A n \in 1 .. k + 1 : done_queue'[n].id \in (1 .. x) \ outstanding
    BY <1>1, <1>2, <1>3, <2>1, <2>2 DEF TesterInv, x
  <2>4. ASSUME NEW j \in (1 .. x) \ outstanding
        PROVE  \E n \in 1 .. k + 1 : done_queue'[n].id = j
    <3>1. CASE j = x
      BY <2>1, <3>1
    <3>2. CASE j \in 1 .. issued
      <4>1. \E n \in 1 .. k : done_queue[n].id = j
        BY <1>1, <3>2 DEF TesterInv
      <4> QED BY <2>1, <4>1
    <3> QED BY <1>3, <3>1, <3>2
  <2>5. ASSUME NEW i \in outstanding
        PROVE  /\ cmd_list[i].key[1] = "upiu"
               /\ \A j \in 1 .. x : cmd_list[j].key = cmd_list[i].key => j <= i
    BY <1>1, <1>2, <1>3 DEF TesterInv
  <2>6. x \in 0 .. Len(cmd_list) /\ outstanding \subseteq 1 .. x
    BY <1>2, <1>3 DEF x
  <2>7. issued' = x /\ outstanding' = outstanding /\ cmd_list' = cmd_list
    BY <1>1, <1>2
  <2>8. \A n \in 1 .. Len(done_queue') : done_queue'[n].id \in (1 .. issued') \ outstanding'
    BY ONLY <2>1, <2>3, <2>7
  <2>9. \A j \in (1 .. issued') \ outstanding' :
          \E n \in 1 .. Len(done_queue') : done_queue'[n].id = j
    BY ONLY <2>1, <2>4, <2>7
  <2>10. \A i \in outstanding' :
           /\ cmd_list'[i].key[1] = "upiu"
           /\ \A j \in 1 .. issued' : cmd_list'[j].key = cmd_list'[i].key => j <= i
    BY ONLY <2>5, <2>7
  <2>11. issued' \in 0 .. Len(cmd_list') /\ outstanding' \subseteq 1 .. issued'
    BY ONLY <2>6, <2>7
  <2> QED BY ONLY <2>8, <2>9, <2>10, <2>11 DEF TesterInv
<1> QED BY <1>7, <1>8

(* Commands that leave the outstanding ones, each with its reply.          *)
Replied(gone) ==
  /\ pc = "monitor" /\ UNCHANGED <<cmd_list, pc, issued>>
  /\ gone \subseteq outstanding /\ outstanding' = outstanding \ gone
  /\ Len(done_queue) \in Nat /\ Len(done_queue') \in Nat /\ Len(done_queue) <= Len(done_queue')
  /\ \A n \in 1 .. Len(done_queue) : done_queue'[n] = done_queue[n]
  /\ \A n \in Len(done_queue) + 1 .. Len(done_queue') : done_queue'[n].id \in gone
  /\ \A i \in gone : \E n \in Len(done_queue) + 1 .. Len(done_queue') : done_queue'[n].id = i

LEMMA Completed ==
  ASSUME TypeOK, TesterInv, NEW gone, Replied(gone)
  PROVE  TesterInv'
<1> PICK k \in Nat : k = Len(done_queue)
  BY DEF Replied
<1>0. /\ pc = "monitor" /\ UNCHANGED <<cmd_list, pc, issued>>
      /\ gone \subseteq outstanding /\ outstanding' = outstanding \ gone
      /\ k <= Len(done_queue') /\ Len(done_queue') \in Nat
      /\ \A n \in 1 .. k : done_queue'[n] = done_queue[n]
      /\ \A n \in k + 1 .. Len(done_queue') : done_queue'[n].id \in gone
      /\ \A i \in gone : \E n \in k + 1 .. Len(done_queue') : done_queue'[n].id = i
  BY DEF Replied
<1> PICK l \in Nat : l = Len(done_queue')
  BY <1>0
<1>1. \A n \in 1 .. l : n \in 1 .. k \/ n \in k + 1 .. l
  OBVIOUS
<1>2. \A n \in k + 1 .. l : n \in 1 .. l
  OBVIOUS
<1>3. outstanding \subseteq 1 .. issued
  BY <1>0 DEF TesterInv
<1>4. \A n \in 1 .. l : done_queue'[n].id \in (1 .. issued) \ outstanding'
  BY <1>0, <1>1, <1>3 DEF TesterInv
<1>5. ASSUME NEW j \in (1 .. issued) \ outstanding'
      PROVE  \E n \in 1 .. l : done_queue'[n].id = j
  <2>1. CASE j \in gone
    BY <1>0, <1>2, <2>1
  <2>2. CASE j \notin outstanding
    <3>1. \E n \in 1 .. k : done_queue[n].id = j
      BY <1>0, <2>2 DEF TesterInv
    <3>2. \A n \in 1 .. k : n \in 1 .. l
      BY <1>0
    <3> QED BY <1>0, <3>1, <3>2
  <2> QED BY <1>0, <2>1, <2>2
<1>6. issued \in 0 .. Len(cmd_list) /\ outstanding' \subseteq 1 .. issued
  BY <1>0, <1>3 DEF TesterInv
<1>7. ASSUME NEW i \in outstanding'
      PROVE  /\ cmd_list[i].key[1] = "upiu"
             /\ \A j \in 1 .. issued : cmd_list[j].key = cmd_list[i].key => j <= i
  BY <1>0 DEF TesterInv
<1> QED BY <1>0, <1>4, <1>5, <1>6, <1>7 DEF TesterInv

LEMMA CompleteAnswers ==
  ASSUME TypeOK, BufferInv, AnswersInv, TesterInv, NEW i \in outstanding, TesterComplete(i)
  PROVE  AnswersInv' /\ TesterInv'
<1> PICK k \in Nat : k = Len(done_queue)
  BY DEF AnswersInv, InOrder
<1>1. /\ pc = "monitor" /\ UNCHANGED <<cmd_list, pc, issued>>
      /\ outstanding' = outstanding \ {i}
      /\ done_queue' = Append(done_queue, Answer(i))
  BY DEF TesterComplete, hostUnchanged, enqueueVars
<1>2. /\ i \in 1 .. Len(cmd_list) /\ Answer(i) = Reply(i) /\ Reply(i) \in ReplyType
      /\ Reply(i).id = i /\ Reply(i).key = cmd_list[i].key
  BY <1>1, TesterFacts DEF Reply
<1>3. \A n \in 1 .. k : done_queue[n].id # i
  BY <1>1 DEF TesterInv
<1>4. \A j \in Before(cmd_list, i, cmd_list[i].key) : \E n \in 1 .. k : done_queue[n].id = j
  BY <1>1, EarlierAnswered
<1>5. InOrder(cmd_list, Append(done_queue, Reply(i)))
  BY <1>2, <1>3, <1>4, AnswerAppended DEF AnswersInv
<1>6. AnswersInv'
  BY <1>1, <1>2, <1>5 DEF AnswersInv
<1>7. /\ Len(done_queue') = k + 1 /\ done_queue'[k + 1].id = i
      /\ \A n \in 1 .. k : done_queue'[n] = done_queue[n]
  BY <1>1, <1>2 DEF AnswersInv, InOrder
<1>8. \A n \in k + 1 .. k + 1 : n = k + 1
  OBVIOUS
<1>9. TesterInv'
  <2>1. /\ {i} \in SUBSET outstanding /\ k + 1 \in Nat /\ k <= k + 1
        /\ \A n \in k + 1 .. Len(done_queue') : done_queue'[n].id \in {i}
        /\ \A j \in {i} : \E n \in k + 1 .. Len(done_queue') : done_queue'[n].id = j
    BY <1>7, <1>8
  <2>2. Replied({i})
    BY <1>1, <1>7, <2>1 DEF Replied
  <2> QED BY <2>2, Completed
<1> QED BY <1>6, <1>9

LEMMA AbortAnswers ==
  ASSUME TypeOK, BufferInv, AnswersInv, TesterInv,
         NEW tm \in outstanding, NEW i \in outstanding, TesterAbort(tm, i)
  PROVE  AnswersInv' /\ TesterInv'
<1> PICK k \in Nat : k = Len(done_queue)
  BY DEF AnswersInv, InOrder
<1> DEFINE a == [key |-> Aborting, id |-> i]
           q == Append(done_queue, a)
           p == Append(q, Reply(tm))
<1>1. /\ pc = "monitor" /\ tm # i /\ UNCHANGED <<cmd_list, pc, issued>>
      /\ outstanding' = outstanding \ {tm, i}
      /\ done_queue' = done_queue \o <<a, Answer(tm)>>
  BY DEF TesterAbort, hostUnchanged, enqueueVars, Aborting
<1>2. /\ tm \in 1 .. Len(cmd_list) /\ i \in 1 .. Len(cmd_list) /\ Len(cmd_list) \in Nat
      /\ Answer(tm) = Reply(tm) /\ Reply(tm) \in ReplyType
      /\ Reply(tm).id = tm /\ Reply(tm).key = cmd_list[tm].key
  BY <1>1, TesterFacts DEF Reply
<1>3. a \in ReplyType /\ a.id = i /\ a.key = Aborting
  BY <1>2 DEF ReplyType
<1> HIDE DEF a
<1>4. \A n \in 1 .. k : done_queue[n].id # i /\ done_queue[n].id # tm
  BY <1>1 DEF TesterInv
<1>5. InOrder(cmd_list, q)
  BY <1>2, <1>3, <1>4, AnswerAppended DEF AnswersInv
<1>6. /\ Len(q) = k + 1 /\ q[k + 1] = a
      /\ \A n \in 1 .. k : q[n] = done_queue[n]
  BY <1>3 DEF AnswersInv, InOrder
<1>7. \A n \in 1 .. k + 1 : n \in 1 .. k \/ n = k + 1
  OBVIOUS
<1>8. \A n \in 1 .. k + 1 : q[n].id # tm
  BY <1>1, <1>3, <1>4, <1>6, <1>7
<1>9. \A j \in Before(cmd_list, tm, cmd_list[tm].key) : \E n \in 1 .. k + 1 : q[n].id = j
  <2> SUFFICES ASSUME NEW j \in Before(cmd_list, tm, cmd_list[tm].key)
               PROVE  \E n \in 1 .. k + 1 : q[n].id = j
    OBVIOUS
  <2>1. \E n \in 1 .. k : done_queue[n].id = j
    BY <1>1, EarlierAnswered
  <2> QED BY <1>6, <2>1
<1> HIDE DEF q
<1>10. InOrder(cmd_list, p)
  BY <1>2, <1>5, <1>6, <1>8, <1>9, AnswerAppended
<1>11. done_queue' = p
  BY <1>1, <1>2, <1>3 DEF AnswersInv, InOrder, p, q
<1>12. AnswersInv'
  BY <1>1, <1>10, <1>11 DEF AnswersInv
<1>13. /\ Len(p) = k + 2 /\ p[k + 1].id = i /\ p[k + 2].id = tm
       /\ \A n \in 1 .. k : p[n] = done_queue[n]
  <2>1. /\ Len(p) = k + 2 /\ p[k + 2] = Reply(tm) /\ \A n \in 1 .. k + 1 : p[n] = q[n]
    BY <1>2, <1>5, <1>6 DEF InOrder
  <2> QED BY <1>2, <1>3, <1>6, <2>1
<1> HIDE DEF p
<1>14. TesterInv'
  <2>1. \A n \in k + 1 .. k + 2 : n = k + 1 \/ n = k + 2
    OBVIOUS
  <2>2. /\ {tm, i} \in SUBSET outstanding /\ k + 2 \in Nat /\ k <= k + 2
        /\ \A n \in k + 1 .. k + 2 : p[n].id \in {tm, i}
        /\ \A j \in {tm, i} : \E n \in k + 1 .. k + 2 : p[n].id = j
    BY <1>13, <2>1
  <2>3. /\ pc = "monitor" /\ UNCHANGED <<cmd_list, pc, issued>>
        /\ {tm, i} \subseteq outstanding /\ outstanding' = outstanding \ {tm, i}
    BY <1>1
  <2>4. Len(done_queue') = k + 2 /\ \A n \in 1 .. k : done_queue'[n] = done_queue[n]
    BY <1>11, <1>13
  <2>5. /\ \A n \in k + 1 .. Len(done_queue') : done_queue'[n].id \in {tm, i}
        /\ \A j \in {tm, i} : \E n \in k + 1 .. Len(done_queue') : done_queue'[n].id = j
    BY <1>11, <2>2, <2>4
  <2>6. Len(done_queue) <= Len(done_queue')
    BY <2>2, <2>4
  <2>7. Replied({tm, i})
    <3> DEFINE gone == {tm, i}
    <3>1. /\ gone \subseteq outstanding /\ outstanding' = outstanding \ gone
          /\ \A n \in k + 1 .. Len(done_queue') : done_queue'[n].id \in gone
          /\ \A j \in gone : \E n \in k + 1 .. Len(done_queue') : done_queue'[n].id = j
      BY <2>3, <2>5
    <3> HIDE DEF gone
    <3>2. Replied(gone)
      BY <2>2, <2>3, <2>4, <2>6, <3>1 DEF Replied
    <3> QED BY <3>2 DEF gone
  <2> QED BY <2>7, Completed
<1> QED BY <1>12, <1>14

LEMMA NoAnswers == ASSUME NEW list PROVE InOrder(list, <<>>)
  BY DEF InOrder

LEMMA AnswersNext ==
  TypeOK /\ BufferInv /\ QueueInv /\ AnswersInv /\ TesterInv /\ [AnyNext]_vars =>
    AnswersInv' /\ TesterInv'
<1> SUFFICES ASSUME TypeOK, BufferInv, QueueInv, AnswersInv, TesterInv, [AnyNext]_vars
             PROVE  AnswersInv' /\ TesterInv'
  OBVIOUS
<1> PICK n \in Nat : n = Len(cmd_list)
  BY DEF TypeOK
<1>1. CASE pc' # "monitor" /\ UNCHANGED <<cmd_list, done_queue>>
  BY <1>1 DEF AnswersInv, TesterInv
<1>2. CASE pc' # "monitor" /\ done_queue' = <<>>
  <2>1. AnswersInv'
    BY <1>2, NoAnswers DEF AnswersInv
  <2> QED BY <1>2, <2>1 DEF TesterInv
<1>3. ASSUME NEW c \in AnyCommand, Enqueue(c) PROVE AnswersInv' /\ TesterInv'
  <2>1. pc' = "idle" /\ done_queue' = done_queue
    BY <1>3 DEF Enqueue, testerVars
  <2>2. CASE AppendCommand(c)
    <3>1. /\ Len(cmd_list') = n + 1 /\ n <= n + 1
          /\ \A i \in 1 .. n : cmd_list'[i].key = cmd_list[i].key
      <4>1. Len(cmd_list') = n + 1 /\ \A i \in 1 .. n : cmd_list'[i] = cmd_list[i]
        BY <2>2, AppendedKey
      <4> QED BY <4>1
    <3>2. AnswersInv'
      BY <2>1, <3>1, LongerList DEF AnswersInv
    <3> QED BY <2>1, <3>2 DEF TesterInv
  <2>3. CASE UNCHANGED enqueueVars
    BY <1>1, <2>1, <2>3 DEF enqueueVars
  <2> QED BY <1>3, <2>2, <2>3 DEF Enqueue
<1>4. ASSUME NEW qd, NEW hw, NEW clr, Send(qd, hw, clr) PROVE AnswersInv' /\ TesterInv'
  <2>1. pc' # "monitor" /\ UNCHANGED <<cmd_list, done_queue>>
    BY <1>4 DEF Send, enqueueVars, testerVars
  <2> QED BY <1>1, <2>1
<1>5. CASE PushCmd
  <2>1. pc' # "monitor" /\ done_queue' = done_queue
    BY <1>5 DEF PushCmd, testerVars
  <2>2. CASE PushResult(NextCommand) = "ok"
    <3>1. Len(cmd_list') = n /\ n <= n /\ \A i \in 1 .. n : cmd_list'[i].key = cmd_list[i].key
      BY <1>5, <2>2, PushedList
    <3>2. AnswersInv'
      BY <2>1, <3>1, LongerList DEF AnswersInv
    <3> QED BY <2>1, <3>2 DEF TesterInv
  <2>3. CASE PushResult(NextCommand) # "ok"
    BY <1>1, <1>5, <2>1, <2>3 DEF PushCmd
  <2> QED BY <2>2, <2>3
<1>6. CASE Transmit
  <2>1. pc = "push" /\ UNCHANGED <<cmd_list, done_queue>>
    BY <1>6 DEF Transmit, enqueueVars, testerVars
  <2>2. CASE pc' = "idle"
    BY <1>1, <2>1, <2>2
  <2>3. CASE issued' = 0 /\ outstanding' = {}
    <3>1. done_queue' = <<>> /\ AnswersInv'
      BY <2>1 DEF QueueInv, AnswersInv
    <3>2. Len(cmd_list') = n /\ Len(<<>>) = 0 /\ (1 .. 0) = {} /\ 0 \in 0 .. n
      BY <2>1
    <3>3. TesterInv'
      BY <2>3, <3>1, <3>2 DEF TesterInv
    <3> QED BY <3>1, <3>3
  <2> QED BY <1>6, <2>2, <2>3 DEF Transmit
<1>7. CASE MonitorErrorWithInfo \/ MonitorError
  BY <1>1, <1>7 DEF MonitorErrorWithInfo, MonitorError, enqueueVars
<1>8. CASE TesterNext
  BY <1>8, IssueAnswers, FunctionAnswers, CompleteAnswers, AbortAnswers DEF TesterNext
<1>9. CASE \E qd \in QueueDepths : SetQdLimit(qd)
  BY <1>1, <1>9 DEF SetQdLimit, enqueueVars, testerVars
<1>10. CASE MonitorSuccess
  <2>1. CASE opts.clear
    BY <1>2, <1>10, <2>1 DEF MonitorSuccess, ClearState
  <2>2. CASE ~opts.clear
    BY <1>1, <1>10, <2>2 DEF MonitorSuccess, enqueueVars
  <2> QED BY <2>1, <2>2
<1>11. CASE Clear
  BY <1>2, <1>11 DEF Clear, ClearState
<1>12. CASE UNCHANGED vars
  BY <1>12 DEF vars, enqueueVars, testerVars, AnswersInv, TesterInv
<1> QED BY <1>3, <1>4, <1>5, <1>6, <1>7, <1>8, <1>9, <1>10, <1>11, <1>12, NextCases DEF QuietNext

-----------------------------------------------------------------------------
(* What read_response looks in is what the monitor returned last.          *)
FoundInv ==
  \/ rsp_offset = NoFunction
  \/ /\ pc = "idle" /\ is_cmd_sent
     /\ buffer = InfoBuf /\ rsp_offset = RspOffsets(InfoBuf, Len(cmd_list))

LEMMA FoundNext == TypeOK /\ QueueInv /\ FoundInv /\ [AnyNext]_vars => FoundInv'
<1> SUFFICES ASSUME TypeOK, QueueInv, FoundInv, [AnyNext]_vars PROVE FoundInv'
  OBVIOUS
<1>1. CASE UNCHANGED <<pc, is_cmd_sent, buffer, rsp_offset, cmd_list, done_queue>>
  BY <1>1 DEF FoundInv, InfoBuf
<1>2. CASE rsp_offset' = rsp_offset /\ (rsp_offset = NoFunction \/ pc # "idle" \/ ~is_cmd_sent)
  BY <1>2 DEF FoundInv
<1>3. CASE rsp_offset' = NoFunction
  BY <1>3 DEF FoundInv
<1>4. ASSUME NEW c \in AnyCommand, Enqueue(c) PROVE FoundInv'
  <2>1. CASE is_cmd_sent
    <3>1. EnqueueResult(c) = "CMD_LIST_NOT_CLEAR"
      BY <2>1 DEF EnqueueResult, NotClear
    <3> QED BY <1>1, <1>4, <3>1 DEF Enqueue, enqueueVars, bufferVars, testerVars
  <2>2. CASE ~is_cmd_sent
    BY <1>2, <1>4, <2>2 DEF Enqueue
  <2> QED BY <2>1, <2>2
<1>5. ASSUME NEW qd, NEW hw, NEW clr, Send(qd, hw, clr) PROVE FoundInv'
  <2>1. CASE is_cmd_sent
    <3>1. SendRefusal(hw) = "CMD_LIST_NOT_CLEAR"
      BY <2>1 DEF SendRefusal, NotClear
    <3> QED BY <1>1, <1>5, <3>1, <2>1 DEF Send, enqueueVars, testerVars
  <2>2. CASE ~is_cmd_sent
    BY <1>2, <1>5, <2>2 DEF Send
  <2> QED BY <2>1, <2>2
<1>6. CASE PushCmd
  BY <1>2, <1>6 DEF PushCmd
<1>7. CASE Transmit
  BY <1>2, <1>7 DEF Transmit
<1>8. CASE TesterNext
  BY <1>2, <1>8 DEF TesterNext, TesterIssue, TesterFunction, TesterComplete, TesterAbort, hostUnchanged
<1>9. CASE MonitorError
  BY <1>2, <1>9 DEF MonitorError
<1>10. ASSUME pc = "monitor", pc' = "idle", ReturnBuffers,
              UNCHANGED <<enqueueVars, is_cmd_sent, done_queue>>
       PROVE  FoundInv'
  BY <1>10 DEF ReturnBuffers, enqueueVars, FoundInv, InfoBuf, QueueInv
<1>11. CASE MonitorErrorWithInfo
  BY <1>10, <1>11 DEF MonitorErrorWithInfo
<1>12. CASE MonitorSuccess
  <2>1. CASE opts.clear
    BY <1>3, <1>12, <2>1 DEF MonitorSuccess, ClearState, ResetBuffer
  <2>2. CASE ~opts.clear
    BY <1>10, <1>12, <2>2 DEF MonitorSuccess
  <2> QED BY <2>1, <2>2
<1>13. CASE \E qd \in QueueDepths : SetQdLimit(qd)
  BY <1>1, <1>13 DEF SetQdLimit, enqueueVars, bufferVars, testerVars
<1>14. CASE Clear
  BY <1>3, <1>14 DEF Clear, ClearState, ResetBuffer
<1>15. CASE UNCHANGED vars
  BY <1>1, <1>15 DEF vars, enqueueVars, bufferVars, testerVars
<1> QED BY <1>4, <1>5, <1>6, <1>7, <1>8, <1>9, <1>11, <1>12, <1>13, <1>14, <1>15, NextCases DEF QuietNext

-----------------------------------------------------------------------------
(* The slots of the info buffer hold the answers in their order.           *)

BufOf(q) ==
  [o \in {EntryOffset(i - 1) : i \in DOMAIN q} |->
     q[CHOOSE i \in DOMAIN q : EntryOffset(i - 1) = o]]

LEMMA OffsetsDiffer ==
  ASSUME NEW i \in Nat, NEW j \in Nat, EntryOffset(i) = EntryOffset(j)
  PROVE  i = j
<1>1. CASE i < j
  BY <1>1, OffsetsIncrease
<1>2. CASE j < i
  BY <1>2, OffsetsIncrease
<1> QED BY <1>1, <1>2

LEMMA OffsetsCounted ==
  ASSUME NEW n \in Nat
  PROVE  Cardinality({EntryOffset(i) : i \in 0 .. n - 1}) = n
<1> DEFINE S == 0 .. n - 1
           T == {EntryOffset(i) : i \in 0 .. n - 1}
           f == [i \in S |-> EntryOffset(i)]
<1>1. \A i, j \in S : EntryOffset(i) = EntryOffset(j) => i = j
  BY OffsetsDiffer
<1>2. f \in [S -> T] /\ (\A i \in S : f[i] = EntryOffset(i)) /\ (\A t \in T : \E i \in S : f[i] = t)
  OBVIOUS
<1>3. IsFiniteSet(S) /\ Cardinality(S) = n
  <2>1. 0 \in Int /\ n - 1 \in Int /\ (0 > n - 1 => n = 0) /\ n - 1 - 0 + 1 = n
    OBVIOUS
  <2> QED BY <2>1, FS_Interval
<1> HIDE DEF S, T, f
<1>4. f \in Bijection(S, T)
  BY <1>1, <1>2 DEF Bijection, Injection, Surjection, IsInjective
<1>5. Cardinality(T) = Cardinality(S)
  BY <1>3, <1>4, FS_Bijection DEF ExistsBijection
<1> QED BY <1>3, <1>5 DEF T

LEMMA BufOfAnswers ==
  ASSUME NEW q \in Seq(ReplyType), NEW n \in Nat, n = Len(q)
  PROVE  /\ \A c \in 0 .. n - 1 : BufOf(q)[EntryOffset(c)] = q[c + 1]
         /\ Contiguous(BufOf(q)) = n
<1> DEFINE b == BufOf(q)
<1>1. DOMAIN q = 1 .. n
  OBVIOUS
<1>2. {EntryOffset(i - 1) : i \in 1 .. n} = {EntryOffset(i) : i \in 0 .. n - 1}
  <2>1. ASSUME NEW i \in 1 .. n PROVE EntryOffset(i - 1) \in {EntryOffset(j) : j \in 0 .. n - 1}
    BY i - 1 \in 0 .. n - 1
  <2>2. ASSUME NEW i \in 0 .. n - 1 PROVE EntryOffset(i) \in {EntryOffset(j - 1) : j \in 1 .. n}
    <3> DEFINE k == i + 1
    <3>1. k \in 1 .. n /\ k - 1 = i
      OBVIOUS
    <3> HIDE DEF k
    <3> QED BY ONLY <3>1, Zenon
  <2> QED BY <2>1, <2>2
<1>3. DOMAIN b = {EntryOffset(i) : i \in 0 .. n - 1}
  BY <1>1, <1>2 DEF BufOf
<1>4. ASSUME NEW c \in 0 .. n - 1 PROVE b[EntryOffset(c)] = q[c + 1]
  <2>1. c + 1 \in 1 .. n /\ c + 1 - 1 = c
    OBVIOUS
  <2>2. ASSUME NEW i \in 1 .. n, EntryOffset(i - 1) = EntryOffset(c) PROVE i = c + 1
    <3>1. i - 1 \in Nat /\ c \in Nat
      OBVIOUS
    <3>2. i - 1 = c
      BY <2>2, <3>1, OffsetsDiffer
    <3> QED BY <3>2
  <2>3. (CHOOSE i \in 1 .. n : EntryOffset(i - 1) = EntryOffset(c)) = c + 1
    BY <2>1, <2>2
  <2>4. EntryOffset(c) \in {EntryOffset(i - 1) : i \in DOMAIN q}
    BY <1>1, <1>2
  <2> QED BY <1>1, <2>3, <2>4 DEF BufOf
<1> HIDE DEF b
<1>5. Contiguous(b) = n
  BY <1>3, OffsetsCounted, ParsedAreAll
<1> QED BY <1>4, <1>5 DEF b

-----------------------------------------------------------------------------
(* The cycle of an answer is the cycle of the command it answers.          *)

(* The slots in front of slot c with the key, which SlotIndicator counts.  *)
Slots(q, c, key) == {d \in 0 .. c - 1 : q[d + 1].key = key}

LEMMA SlotsFinite ==
  ASSUME NEW q, NEW c \in Nat, NEW key
  PROVE  IsFiniteSet(Slots(q, c, key)) /\ Cardinality(Slots(q, c, key)) \in Nat
<1>1. IsFiniteSet(0 .. c - 1)
  BY FS_Interval
<1>2. Slots(q, c, key) \in SUBSET (0 .. c - 1)
  BY DEF Slots
<1>3. IsFiniteSet(Slots(q, c, key))
  BY <1>1, <1>2, FS_Subset
<1> QED BY <1>3, FS_CardinalityType

LEMMA SlotOfAnswer ==
  ASSUME NEW q \in Seq(ReplyType), NEW c \in 0 .. Len(q) - 1
  PROVE  SlotIndicator(BufOf(q), c) = <<Cardinality(Slots(q, c, q[c + 1].key)), q[c + 1].key>>
<1> PICK n \in Nat : n = Len(q)
  OBVIOUS
<1> DEFINE b == BufOf(q)
           key == q[c + 1].key
<1>1. \A d \in 0 .. n - 1 : b[EntryOffset(d)] = q[d + 1]
  BY BufOfAnswers
<1> HIDE DEF b
<1>2. b[EntryOffset(c)].key = key
  BY <1>1
<1> HIDE DEF key
<1>3. \A d \in 0 .. c - 1 : d \in 0 .. n - 1
  OBVIOUS
<1>4. {d \in 0 .. c - 1 : b[EntryOffset(d)].key = key} = Slots(q, c, key)
  BY <1>1, <1>3 DEF Slots
<1> QED BY <1>2, <1>4 DEF SlotIndicator, b, key

(* In front of an answer there are no more answers with its key than there *)
(* are commands with the key in front of the command answered.             *)
LEMMA AtMostThoseBefore ==
  ASSUME NEW list, NEW q, InOrder(list, q), NEW c \in 0 .. Len(q) - 1,
         NEW x, x = q[c + 1].id, NEW key, key = q[c + 1].key, key # Aborting
  PROVE  Cardinality(Slots(q, c, key)) <= Cardinality(Before(list, x, key))
<1> DEFINE S == Slots(q, c, key)
           T == Before(list, x, key)
           f == [d \in S |-> q[d + 1].id]
<1>1. Len(q) \in Nat /\ c + 1 \in 1 .. Len(q)
  BY DEF InOrder
<1>2. q[c + 1] \in ReplyType
  BY <1>1 DEF InOrder
<1>3. x \in Nat /\ x \in 1 .. Len(list) /\ list[x].key = key
  <2>1. q[c + 1].id \in 1 .. Len(list) /\ q[c + 1].key \in {Aborting, list[q[c + 1].id].key}
    BY <1>1 DEF InOrder
  <2> QED BY <1>2, <2>1 DEF ReplyType
<1>4. ASSUME NEW d \in S PROVE q[d + 1].id \in T
  <2> DEFINE y == q[d + 1].id
  <2>1. /\ d + 1 \in 1 .. Len(q) /\ d + 1 # c + 1 /\ d + 1 < c + 1 /\ d \in Nat
        /\ q[d + 1].key = key
    BY <1>1 DEF Slots
  <2>2. q[d + 1] \in ReplyType /\ y \in 1 .. Len(list) /\ q[d + 1].key \in {Aborting, list[y].key}
    BY <2>1 DEF InOrder
  <2>3. y \in Nat /\ list[y].key = key
    BY <2>1, <2>2 DEF ReplyType
  <2>4. y # x
    BY <1>1, <2>1 DEF InOrder
  <2>5. ~(x < y)
    <3> SUFFICES ASSUME x < y PROVE FALSE
      OBVIOUS
    <3>1. x \in Before(list, y, key)
      <4>1. x \in Nat /\ y \in Nat /\ x < y /\ x \in 1 .. Len(list) /\ list[x].key = key
        BY <1>3, <2>3
      <4>2. x \in 1 .. y - 1
        BY ONLY <4>1
      <4> QED BY <4>1, <4>2, Zenon DEF Before
    <3>2. PICK m \in 1 .. d : q[m].id = x
      <4> DEFINE e == d + 1
      <4>1. e \in 1 .. Len(q) /\ q[e].key # Aborting /\ x \in Before(list, q[e].id, q[e].key)
        BY <2>1, <3>1
      <4> HIDE DEF e
      <4>a. InOrder(list, q)
        OBVIOUS
      <4>2. \E m \in 1 .. e - 1 : q[m].id = x
        BY ONLY <4>1, <4>a DEF InOrder
      <4>3. e - 1 = d
        BY <2>1 DEF e
      <4> QED BY <4>2, <4>3, Zenon
    <3>3. m \in 1 .. Len(q) /\ m # c + 1
      BY <1>1, <2>1
    <3>4. \A i, j \in 1 .. Len(q) : q[i].id = q[j].id => i = j
      BY Zenon DEF InOrder
    <3>5. q[m].id = q[c + 1].id
      BY <3>2, Zenon
    <3> QED BY <1>1, <3>3, <3>4, <3>5, Zenon
  <2>6. y \in 1 .. x - 1
    <3>1. y \in Nat /\ x \in Nat /\ y \in 1 .. Len(list)
      BY <1>3, <2>2, <2>3
    <3>2. y >= 1
      BY ONLY <3>1
    <3> HIDE DEF y
    <3> QED BY ONLY <3>1, <3>2, <2>4, <2>5
  <2> QED BY <2>3, <2>6, Zenon DEF Before
<1>5. ASSUME NEW d \in S, NEW e \in S, q[d + 1].id = q[e + 1].id PROVE d = e
  <2>1. d + 1 \in 1 .. Len(q) /\ e + 1 \in 1 .. Len(q) /\ d \in Nat /\ e \in Nat
    BY <1>1 DEF Slots
  <2>2. d + 1 = e + 1
    BY <1>5, <2>1 DEF InOrder
  <2> QED BY <2>1, <2>2
<1>6. IsFiniteSet(T)
  BY <1>3, BeforeFinite
<1> HIDE DEF S, T
<1>7. f \in Injection(S, T)
  BY <1>4, <1>5 DEF Injection, IsInjective
<1> HIDE DEF f
<1>8. Cardinality(S) <= Cardinality(T)
  BY <1>6, <1>7, FS_Injection
<1> QED BY <1>8 DEF S, T

(* And no fewer than the ones of them known to have such an answer.        *)
LEMMA AtLeastThoseAnswered ==
  ASSUME NEW q, NEW c \in Nat, NEW key, NEW S,
         \A j \in S : \E d \in Slots(q, c, key) : q[d + 1].id = j
  PROVE  IsFiniteSet(S) /\ Cardinality(S) <= Cardinality(Slots(q, c, key))
<1> DEFINE T == Slots(q, c, key)
           f == [j \in S |-> CHOOSE d \in T : q[d + 1].id = j]
<1>1. \A j \in S : f[j] \in T /\ q[f[j] + 1].id = j
  OBVIOUS
<1>2. IsFiniteSet(T)
  BY SlotsFinite
<1>3. f \in [S -> T]
  BY <1>1
<1> HIDE DEF T, f
<1>4. f \in Injection(S, T)
  BY <1>1, <1>3 DEF Injection, IsInjective
<1>5. IsFiniteSet(S) /\ Cardinality(S) <= Cardinality(T)
  BY <1>2, <1>4, FS_Injection
<1> QED BY <1>5 DEF T

(* The commands with i's key up to i, when none of them was aborted.       *)
NoneAborted(list, q, i) ==
  \A j \in 1 .. i : list[j].key = list[i].key =>
    \A n \in 1 .. Len(q) : q[n] # [key |-> Aborting, id |-> j]

LEMMA AnsweredSlot ==
  ASSUME NEW list, NEW q, InOrder(list, q), NEW i \in 1 .. Len(list), NoneAborted(list, q, i),
         NEW j \in 1 .. i, list[j].key = list[i].key, NEW m \in 1 .. Len(q), q[m].id = j
  PROVE  q[m].key = list[i].key
<1>1. q[m] \in ReplyType /\ q[m].key \in {Aborting, list[q[m].id].key}
  BY DEF InOrder
<1>2. q[m].key # Aborting
  <2> SUFFICES ASSUME q[m].key = Aborting PROVE FALSE
    OBVIOUS
  <2>1. q[m] = [key |-> Aborting, id |-> j]
    BY <1>1 DEF ReplyType
  <2> QED BY <2>1 DEF NoneAborted
<1> QED BY <1>1, <1>2

LEMMA SlotIsOwn ==
  ASSUME NEW list, NEW q, InOrder(list, q), NEW i \in 1 .. Len(list), NoneAborted(list, q, i),
         NEW key, key = list[i].key, key # Aborting, NEW c \in 0 .. Len(q) - 1, q[c + 1].key = key,
         Cardinality(Slots(q, c, key)) = Cardinality(Before(list, i, key))
  PROVE  q[c + 1].id = i
<1> DEFINE x == q[c + 1].id
<1>1. Len(q) \in Nat /\ c + 1 \in 1 .. Len(q) /\ c \in Nat /\ i \in Nat
  BY DEF InOrder
<1>2. x \in Nat /\ x \in 1 .. Len(list) /\ list[x].key = key
  <2>1. q[c + 1] \in ReplyType /\ x \in 1 .. Len(list) /\ q[c + 1].key \in {Aborting, list[x].key}
    BY <1>1 DEF InOrder
  <2> QED BY <2>1 DEF ReplyType
<1>3. \A k \in Nat : /\ IsFiniteSet(Before(list, k, key))
                     /\ Cardinality(Before(list, k, key)) \in Nat
  BY BeforeFinite
<1>4. ~(x < i)
  <2> SUFFICES ASSUME x < i PROVE FALSE
    OBVIOUS
  <2> DEFINE B == Before(list, x, key)
             C == Before(list, i, key)
  <2>1. Cardinality(Slots(q, c, key)) <= Cardinality(B)
    BY AtMostThoseBefore
  <2>2. x \notin B /\ B \cup {x} \in SUBSET C
    BY <1>1, <1>2 DEF Before
  <2>3. IsFiniteSet(B) /\ IsFiniteSet(C) /\ Cardinality(B) \in Nat /\ Cardinality(C) \in Nat
    BY <1>1, <1>2, <1>3
  <2>4. Cardinality(Slots(q, c, key)) = Cardinality(C)
    OBVIOUS
  <2> HIDE DEF B, C
  <2>5. Cardinality(B \cup {x}) = Cardinality(B) + 1 /\ Cardinality(B \cup {x}) <= Cardinality(C)
    BY <2>2, <2>3, FS_AddElement, FS_Subset
  <2>6. Cardinality(C) <= Cardinality(B)
    BY <2>1, <2>4
  <2> QED BY <2>3, <2>5, <2>6
<1>5. ~(i < x)
  <2> SUFFICES ASSUME i < x PROVE FALSE
    OBVIOUS
  <2> DEFINE C == Before(list, i, key)
             S == C \cup {i}
  <2>1. ASSUME NEW j \in S PROVE \E d \in Slots(q, c, key) : q[d + 1].id = j
    <3>1. j \in 1 .. i /\ list[j].key = key /\ j \in Before(list, x, key)
      BY <1>1, <1>2 DEF Before
    <3>2. PICK m \in 1 .. c : q[m].id = j
      <4> DEFINE e == c + 1
      <4>1. e \in 1 .. Len(q) /\ q[e].key # Aborting /\ j \in Before(list, q[e].id, q[e].key)
        BY <1>1, <3>1
      <4> HIDE DEF e
      <4>2. \E m \in 1 .. e - 1 : q[m].id = j
        BY <4>1 DEF InOrder
      <4>3. e - 1 = c
        BY <1>1 DEF e
      <4> QED BY <4>2, <4>3, Zenon
    <3>3. m \in 1 .. Len(q)
      BY <1>1
    <3>4. q[m].key = key
      BY <3>1, <3>2, <3>3, AnsweredSlot
    <3>5. m - 1 \in 0 .. c - 1 /\ m - 1 + 1 = m
      <4>1. c \in Nat /\ m \in 1 .. c
        BY <1>1
      <4> QED BY ONLY <4>1
    <3> QED BY <3>2, <3>4, <3>5 DEF Slots
  <2>2. Cardinality(S) <= Cardinality(Slots(q, c, key))
    <3> HIDE DEF S
    <3> QED BY <1>1, <2>1, AtLeastThoseAnswered
  <2>3. i \notin C
    BY DEF Before
  <2>4. IsFiniteSet(C) /\ Cardinality(C) \in Nat
    BY <1>1, <1>3
  <2>5. Cardinality(Slots(q, c, key)) = Cardinality(C)
    OBVIOUS
  <2> HIDE DEF C
  <2>6. Cardinality(S) = Cardinality(C) + 1
    BY <2>3, <2>4, FS_AddElement
  <2> HIDE DEF S
  <2> QED BY <2>2, <2>4, <2>5, <2>6
<1> QED BY <1>1, <1>2, <1>4, <1>5

(* When every command is answered, the one that answers i sits in the slot *)
(* of i's cycle.                                                           *)
LEMMA OwnSlot ==
  ASSUME NEW list, NEW q, InOrder(list, q), NEW i \in 1 .. Len(list), NoneAborted(list, q, i),
         NEW key, key = list[i].key, key # Aborting, NEW c \in 0 .. Len(q) - 1, q[c + 1].id = i,
         q[c + 1].key = key
  PROVE  Cardinality(Slots(q, c, key)) = Cardinality(Before(list, i, key))
<1> DEFINE C == Before(list, i, key)
           S == Slots(q, c, key)
<1>1. Len(q) \in Nat /\ c + 1 \in 1 .. Len(q) /\ c \in Nat /\ i \in Nat
  <2>1. c + 1 \in 1 .. Len(q) /\ Len(q) \in Nat /\ c \in Nat
    BY DEF InOrder
  <2>2. q[c + 1] \in ReplyType
    BY <2>1 DEF InOrder
  <2> QED BY <2>1, <2>2 DEF ReplyType
<1>2. Cardinality(S) <= Cardinality(C)
  BY AtMostThoseBefore
<1>3. ASSUME NEW j \in C PROVE \E d \in S : q[d + 1].id = j
  <2>1. j \in 1 .. i /\ list[j].key = key
    BY <1>1 DEF Before
  <2>2. PICK m \in 1 .. c : q[m].id = j
    <3> DEFINE e == c + 1
    <3>1. e \in 1 .. Len(q) /\ q[e].key # Aborting /\ j \in Before(list, q[e].id, q[e].key)
      BY <1>1
    <3> HIDE DEF e
    <3>2. \E m \in 1 .. e - 1 : q[m].id = j
      BY <3>1 DEF InOrder
    <3>3. e - 1 = c
      BY <1>1 DEF e
    <3> QED BY <3>2, <3>3, Zenon
  <2>3. m \in 1 .. Len(q)
    BY <1>1
  <2>4. q[m].key = key
    BY <2>1, <2>2, <2>3, AnsweredSlot
  <2>5. m - 1 \in 0 .. c - 1 /\ m - 1 + 1 = m
    BY <1>1
  <2> QED BY <2>2, <2>4, <2>5 DEF Slots
<1>4. Cardinality(C) \in Nat /\ Cardinality(S) \in Nat
  BY <1>1, BeforeFinite, SlotsFinite
<1>5. Cardinality(C) <= Cardinality(S)
  <2> HIDE DEF C
  <2> QED BY <1>1, <1>3, AtLeastThoseAnswered
<1> HIDE DEF C, S
<1>6. Cardinality(S) = Cardinality(C)
  BY <1>2, <1>4, <1>5
<1> QED BY <1>6 DEF C, S

(* What RspOffsets files under the cycle indicator of the i-th command.    *)
LEMMA FoundSlot ==
  ASSUME NEW q \in Seq(ReplyType), NEW L \in Nat, NEW ci, ci \in DOMAIN RspOffsets(BufOf(q), L)
  PROVE  \E c \in 0 .. Len(q) - 1 :
           /\ RspOffsets(BufOf(q), L)[ci] = EntryOffset(c)
           /\ ci = <<Cardinality(Slots(q, c, q[c + 1].key)), q[c + 1].key>>
<1> PICK n \in Nat : n = Len(q)
  OBVIOUS
<1> DEFINE slots == {c \in 0 .. n - 1 : c < L}
           Ind(c) == SlotIndicator(BufOf(q), c)
<1>1. Contiguous(BufOf(q)) = n
  BY BufOfAnswers
<1>2. RspOffsets(BufOf(q), L) = [x \in {Ind(c) : c \in slots} |-> EntryOffset(CHOOSE c \in slots : Ind(c) = x)]
  BY <1>1 DEF RspOffsets
<1>3. \A c \in slots : c \in 0 .. n - 1
  OBVIOUS
<1> HIDE DEF slots, Ind
<1> DEFINE c0 == CHOOSE c \in slots : Ind(c) = ci
<1>4. ci \in {Ind(c) : c \in slots}
  BY <1>2
<1>5. c0 \in slots /\ Ind(c0) = ci
  BY <1>4
<1>6. RspOffsets(BufOf(q), L)[ci] = EntryOffset(c0)
  BY <1>2, <1>4
<1> HIDE DEF c0
<1>7. c0 \in 0 .. n - 1
  BY <1>3, <1>5
<1>8. Ind(c0) = <<Cardinality(Slots(q, c0, q[c0 + 1].key)), q[c0 + 1].key>>
  BY <1>7, SlotOfAnswer DEF Ind
<1> QED BY <1>5, <1>6, <1>7, <1>8

LEMMA SlotFound ==
  ASSUME NEW q \in Seq(ReplyType), NEW L \in Nat, NEW c \in 0 .. Len(q) - 1, c < L
  PROVE  <<Cardinality(Slots(q, c, q[c + 1].key)), q[c + 1].key>> \in DOMAIN RspOffsets(BufOf(q), L)
<1> PICK n \in Nat : n = Len(q)
  OBVIOUS
<1>1. Contiguous(BufOf(q)) = n
  BY BufOfAnswers
<1>2. SlotIndicator(BufOf(q), c) \in DOMAIN RspOffsets(BufOf(q), L)
  BY <1>1 DEF RspOffsets
<1> QED BY <1>2, SlotOfAnswer

-----------------------------------------------------------------------------
ResponseInv == AnswersInv /\ CycleInv /\ FoundInv

(* The key and the cycle of a command that has an indicator.               *)
LEMMA OwnIndicator ==
  ASSUME TypeOK, CycleInv, NEW i \in 1 .. Len(cmd_list), NEW k \in Nat, NEW key,
         cmd_list[i].ci = <<k, key>>
  PROVE  key = cmd_list[i].key /\ k = Cardinality(Before(cmd_list, i, key))
<1>1. cmd_list[i].ci \in {NoIndicator,
                 <<Cardinality(Before(cmd_list, i, cmd_list[i].key)), cmd_list[i].key>>}
  BY DEF CycleInv
<1>2. <<k, key>> # NoIndicator
  BY DEF NoIndicator
<1>3. <<k, key>> = <<Cardinality(Before(cmd_list, i, cmd_list[i].key)), cmd_list[i].key>>
  BY <1>1, <1>2
<1> QED BY <1>3

LEMMA NotAborted ==
  ASSUME AnswersInv, NEW i \in 1 .. Len(cmd_list), ~AbortedUpTo(i)
  PROVE  NoneAborted(cmd_list, done_queue, i)
<1>1. DOMAIN done_queue = 1 .. Len(done_queue)
  BY DEF AnswersInv, InOrder
<1> QED BY <1>1 DEF NoneAborted, AbortedUpTo, Aborting

LEMMA ReadsItsOwn ==
  ASSUME TypeOK, ResponseInv, NEW i \in 1 .. Len(cmd_list), HasResponse(i)
  PROVE  /\ pc = "idle" /\ is_cmd_sent
         /\ \E n \in 1 .. Len(done_queue) :
              ReadResponse(i) = done_queue[n] /\ done_queue[n].key = cmd_list[i].key
         /\ ReadResponse(i).id = i \/ AbortedUpTo(i)
<1>1. AnswersInv /\ CycleInv /\ FoundInv
  BY DEF ResponseInv
<1> DEFINE ci == cmd_list[i].ci
           L == Len(cmd_list)
           q == done_queue
<1>2. /\ pc = "idle" /\ is_cmd_sent /\ buffer = BufOf(q) /\ rsp_offset = RspOffsets(BufOf(q), L)
      /\ ci \in DOMAIN RspOffsets(BufOf(q), L)
  <2>1. rsp_offset # NoFunction
    BY DEF HasResponse, NoFunction
  <2> QED BY <1>1, <2>1 DEF FoundInv, HasResponse, InfoBuf, BufOf
<1>3. q \in Seq(ReplyType) /\ L \in Nat
  BY <1>1 DEF AnswersInv, InOrder, TypeOK
<1>4. PICK c \in 0 .. Len(q) - 1 :
        /\ RspOffsets(BufOf(q), L)[ci] = EntryOffset(c)
        /\ ci = <<Cardinality(Slots(q, c, q[c + 1].key)), q[c + 1].key>>
  <2> HIDE DEF ci, L, q
  <2> QED BY <1>2, <1>3, FoundSlot
<1> DEFINE key == q[c + 1].key
<1>5. c \in Nat /\ c + 1 \in 1 .. Len(q)
  BY <1>3
<1>6. key = cmd_list[i].key /\ Cardinality(Slots(q, c, key)) = Cardinality(Before(cmd_list, i, key))
  <2>1. Cardinality(Slots(q, c, key)) \in Nat
    BY <1>5, SlotsFinite
  <2> QED BY <1>1, <1>4, <2>1, OwnIndicator
<1>7. ReadResponse(i) = q[c + 1]
  <2>1. BufOf(q)[EntryOffset(c)] = q[c + 1]
    BY <1>3, BufOfAnswers
  <2> QED BY <1>2, <1>4, <2>1 DEF ReadResponse
<1>8. key # Aborting
  BY <1>6, ListKey
<1>9. CASE ~AbortedUpTo(i)
  <2>1. NoneAborted(cmd_list, q, i)
    BY <1>1, <1>9, NotAborted
  <2>2. InOrder(cmd_list, q)
    BY <1>1 DEF AnswersInv
  <2>3. q[c + 1].id = i
    <3> HIDE DEF q
    <3> QED BY <1>6, <1>8, <2>1, <2>2, SlotIsOwn
  <2> QED BY <1>2, <1>5, <1>6, <1>7, <2>3
<1> QED BY <1>2, <1>5, <1>6, <1>7, <1>9

(* Everything inductive that is known of packages and their answers.       *)
PackageInv ==
  /\ TypeOK /\ FitInv /\ BufferInv /\ QueueInv /\ EncodedInv
  /\ CycleInv /\ AnswersInv /\ TesterInv /\ FoundInv

LEMMA PackageInit == Init => PackageInv
<1> SUFFICES ASSUME Init PROVE PackageInv
  OBVIOUS
<1>1. TypeOK /\ FitInv
  BY TypeInit, FitInit
<1>2. BufferInv /\ QueueInv /\ EncodedInv /\ TesterInv /\ FoundInv
  BY DEF Init, BufferInv, QueueInv, EncodedInv, TesterInv, FoundInv
<1>3. CycleInv
  BY EmptyCycle DEF Init
<1>4. AnswersInv
  BY NoAnswers DEF Init, AnswersInv
<1> QED BY <1>1, <1>2, <1>3, <1>4 DEF PackageInv

LEMMA PackageNext == PackageInv /\ [AnyNext]_vars => PackageInv'
  BY TypeNext, FitNext, BufferNext, QueueNext, EncodedNext, CycleNext, AnswersNext, FoundNext
     DEF PackageInv

LEMMA PackageAlways == Spec => []PackageInv
  BY PackageInit, PackageNext, NextIsAny, PTL DEF Spec

(* read_response finds the response of the command it is asked for,        *)
(* however the tester reordered the answers, on whatever answer a failing  *)
(* package stopped, and however often a tag was used in it.                *)
THEOREM ResponsesAreOwn == Spec => []OwnResponse
<1>1. PackageInv => OwnResponse
  BY ReadsItsOwn DEF PackageInv, ResponseInv, OwnResponse
<1> QED BY <1>1, PackageAlways, PTL

(* The answer of a command that was not aborted is filed under its cycle   *)
(* indicator.                                                              *)
LEMMA AnswerIsFiled ==
  ASSUME PackageInv, NEW i \in 1 .. Len(cmd_list), ~AbortedUpTo(i), TagEncodable(cmd_list[i]),
         NEW m \in 1 .. Len(done_queue), done_queue[m].id = i
  PROVE  cmd_list[i].ci \in DOMAIN RspOffsets(InfoBuf, Len(cmd_list))
<1> DEFINE q == done_queue
           L == Len(cmd_list)
           key == cmd_list[i].key
<1>1. /\ TypeOK /\ EncodedInv /\ CycleInv
      /\ InOrder(cmd_list, q) /\ q \in Seq(ReplyType) /\ L \in Nat
  <2>1. TypeOK /\ EncodedInv /\ CycleInv /\ InOrder(cmd_list, q)
    BY DEF PackageInv, AnswersInv
  <2>2. cmd_list \in Seq(ListElementType)
    BY <2>1 DEF TypeOK
  <2>3. q \in Seq(ReplyType)
    BY <2>1 DEF InOrder
  <2> QED BY <2>1, <2>2, <2>3
<1>2. NoneAborted(cmd_list, q, i)
  BY NotAborted DEF PackageInv
<1>3. key # Aborting
  BY <1>1, ListKey
<1>4. q[m].key = key
  <2> HIDE DEF q
  <2> QED BY <1>1, <1>2, AnsweredSlot DEF q
<1>5. m <= L
  <2> DEFINE D == 1 .. Len(q)
             T == 1 .. L
             f == [n \in D |-> q[n].id]
  <2>1. f \in [D -> T] /\ \A m1, n1 \in D : f[m1] = f[n1] => m1 = n1
    BY <1>1 DEF InOrder
  <2>2. IsFiniteSet(D) /\ IsFiniteSet(T) /\ Cardinality(T) = L /\ Cardinality(D) = Len(q)
    <3>1. Len(q) \in Nat
      BY <1>1
    <3>2. \A k \in Nat : /\ IsFiniteSet(1 .. k)
                         /\ Cardinality(1 .. k) = IF 1 > k THEN 0 ELSE k - 1 + 1
      <4>1. \A k \in Nat : 1 \in Int /\ k \in Int
        OBVIOUS
      <4> QED BY <4>1, FS_Interval
    <3>3. /\ IsFiniteSet(D) /\ Cardinality(D) = IF 1 > Len(q) THEN 0 ELSE Len(q) - 1 + 1
          /\ IsFiniteSet(T) /\ Cardinality(T) = IF 1 > L THEN 0 ELSE L - 1 + 1
      BY <1>1, <3>1, <3>2
    <3> HIDE DEF D, T, q, L
    <3> QED BY <1>1, <3>1, <3>3
  <2> HIDE DEF D, T, f
  <2>3. f \in Injection(D, T)
    BY <2>1 DEF Injection, IsInjective
  <2>4. Len(q) <= L
    BY <2>2, <2>3, FS_Injection
  <2> QED BY <1>1, <2>4
<1> DEFINE c == m - 1
<1>6. c \in 0 .. Len(q) - 1 /\ c < L /\ c + 1 = m
  BY <1>1, <1>5
<1>7. Cardinality(Slots(q, c, key)) = Cardinality(Before(cmd_list, i, key))
  <2> HIDE DEF q, c, key
  <2>1. q[c + 1].id = i /\ q[c + 1].key = key
    BY <1>4, <1>6 DEF q
  <2> QED BY <1>1, <1>2, <1>3, <1>6, <2>1, OwnSlot DEF key
<1>8. <<Cardinality(Slots(q, c, key)), key>> \in DOMAIN RspOffsets(BufOf(q), L)
  <2> HIDE DEF q, c, L
  <2>1. <<Cardinality(Slots(q, c, q[c + 1].key)), q[c + 1].key>> \in DOMAIN RspOffsets(BufOf(q), L)
    BY <1>1, <1>6, SlotFound
  <2> QED BY <1>4, <1>6, <2>1
<1>9. cmd_list[i].ci = <<Cardinality(Before(cmd_list, i, key)), key>>
  BY <1>1 DEF CycleInv, EncodedInv
<1> HIDE DEF q, c, L
<1>10. cmd_list[i].ci \in DOMAIN RspOffsets(BufOf(q), L)
  BY <1>7, <1>8, <1>9
<1> QED BY <1>10 DEF q, L, BufOf, InfoBuf

(* At the end of a successful send() every command has been answered.      *)
LEMMA SuccessFinds ==
  ASSUME PackageInv, MonitorSuccess, ~opts.clear, NEW i \in 1 .. Len(cmd_list), ~AbortedUpTo(i)
  PROVE  HasResponse(i)'
<1>1. /\ TypeOK /\ BufferInv /\ EncodedInv /\ TesterInv /\ Len(cmd_list) \in Nat /\ pc = "monitor"
  BY DEF PackageInv, TypeOK, MonitorSuccess
<1>2. issued = Len(cmd_list) /\ outstanding = {}
  BY <1>1, TesterFacts DEF MonitorSuccess, AllAnswered
<1>3. PICK m \in 1 .. Len(done_queue) : done_queue[m].id = i
  BY <1>1, <1>2 DEF TesterInv
<1>4. cmd_list[i].ci \in DOMAIN RspOffsets(InfoBuf, Len(cmd_list))
  BY <1>1, <1>3, AnswerIsFiled DEF EncodedInv
<1>5. rsp_offset' = RspOffsets(InfoBuf, Len(cmd_list)) /\ cmd_list' = cmd_list
  BY DEF MonitorSuccess, ReturnBuffers, enqueueVars
<1> QED BY <1>4, <1>5 DEF HasResponse

(* A send() that succeeds and keeps its package leaves a response for      *)
(* every command that was not aborted.                                     *)
THEOREM SuccessIsComplete == Spec => SuccessAnswersAll
<1>1. PackageInv /\ MonitorSuccess /\ ~opts.clear =>
        \A i \in 1 .. Len(cmd_list) : HasResponse(i)' \/ AbortedUpTo(i)
  BY SuccessFinds
<1>2. PackageInv /\ [Next]_vars =>
        [MonitorSuccess /\ ~opts.clear =>
           \A i \in 1 .. Len(cmd_list) : HasResponse(i)' \/ AbortedUpTo(i)]_vars
  BY <1>1
<1> QED BY <1>2, PackageAlways, PTL DEF Spec, SuccessAnswersAll

-----------------------------------------------------------------------------
(* The refinement of CommandPackage. *)

(* What is found is one's own, and only of a package that ended.           *)
FoundIsOwn ==
  /\ Size \in Nat /\ Found \in SUBSET (1 .. Size)
  /\ FoundAnswers = Package!OwnAnswers(Found)
  /\ Phase # "ended" => FoundAnswers = Package!OwnAnswers({})

LEMMA OwnFound == PackageInv => FoundIsOwn
<1> SUFFICES ASSUME PackageInv PROVE FoundIsOwn
  OBVIOUS
<1>1. TypeOK /\ ResponseInv
  BY DEF PackageInv, ResponseInv
<1>2. Size \in Nat /\ Found \in SUBSET (1 .. Size)
  BY <1>1 DEF TypeOK, Size, Found
<1>3. \A i \in Found : ReadResponse(i).id = i /\ is_cmd_sent /\ pc = "idle"
  BY <1>1, ReadsItsOwn DEF Found
<1>4. FoundAnswers = Package!OwnAnswers(Found)
  BY <1>3 DEF FoundAnswers, Package!OwnAnswers
<1>5. Phase # "ended" => Found = {}
  BY <1>3 DEF Phase
<1> QED BY <1>2, <1>4, <1>5 DEF FoundIsOwn

LEMMA OwnFoundNext ==
  ASSUME PackageInv'
  PROVE  /\ Size' \in Nat /\ Found' \in SUBSET (1 .. Size')
         /\ FoundAnswers' = Package!OwnAnswers(Found')
         /\ Phase' # "ended" => FoundAnswers' = Package!OwnAnswers({})
<1>1. FoundIsOwn'
  BY OwnFound, PTL
<1> QED BY <1>1 DEF FoundIsOwn, Package!OwnAnswers

(* Each step of the executor is one of the package, or none.               *)
LEMMA StepOfPackage ==
  ASSUME PackageInv, PackageInv', [Next]_vars
  PROVE  [Package!Next]_(Package!vars)
<1>1. CASE UNCHANGED <<pc, is_cmd_sent, buffer, rsp_offset, cmd_list, done_queue>>
  BY <1>1 DEF Package!vars, Size, Phase, FoundAnswers, Found, HasResponse, ReadResponse, AbortedUpTo
<1>2. CASE Size' = Size /\ Phase' = Phase /\ Phase # "ended"
  <2>1. FoundAnswers' = FoundAnswers
    BY <1>2, OwnFound, OwnFoundNext DEF FoundIsOwn
  <2> QED BY <1>2, <2>1 DEF Package!vars
<1>3. CASE Size' = Size /\ Phase = "running" /\ Phase' = "ended"
  <2>1. Package!Fail(Found')
    BY <1>3, OwnFoundNext DEF Package!Fail
  <2>2. Found' \in SUBSET (1 .. Size)
    BY <1>3, OwnFoundNext
  <2> QED BY <2>1, <2>2 DEF Package!Next, Package!End
<1>4. CASE Size' = 0 /\ Phase' = "open"
  <2>1. Package!Reset
    BY <1>4, OwnFoundNext DEF Package!Reset
  <2> QED BY <2>1 DEF Package!Next
<1>5. Size = Len(cmd_list) /\ Len(cmd_list) \in Nat /\ (pc # "idle" => is_cmd_sent)
  BY DEF Size, PackageInv, TypeOK, QueueInv
<1>6. ASSUME NEW c \in AnyCommand, Enqueue(c) PROVE [Package!Next]_(Package!vars)
  <2>1. CASE is_cmd_sent
    <3>1. EnqueueResult(c) = "CMD_LIST_NOT_CLEAR"
      BY <2>1 DEF EnqueueResult, NotClear
    <3> QED BY <1>1, <1>6, <3>1 DEF Enqueue, enqueueVars, bufferVars, testerVars
  <2>2. CASE ~is_cmd_sent /\ AppendCommand(c)
    <3>1. Phase = "open" /\ Phase' = "open"
      BY <1>6, <2>2 DEF Enqueue, Phase
    <3>2. Size' = Size + 1
      BY <2>2, AppendedKey DEF Size, PackageInv
    <3>3. FoundAnswers' = FoundAnswers
      BY <3>1, OwnFound, OwnFoundNext DEF FoundIsOwn
    <3> QED BY <3>1, <3>2, <3>3 DEF Package!Next, Package!Add
  <2>3. CASE UNCHANGED enqueueVars
    BY <1>1, <1>6, <2>3 DEF Enqueue, enqueueVars, bufferVars, testerVars
  <2> QED BY <1>6, <2>1, <2>2, <2>3 DEF Enqueue
<1>7. ASSUME NEW qd, NEW hw, NEW clr, Send(qd, hw, clr) PROVE [Package!Next]_(Package!vars)
  <2>1. CASE SendRefusal(hw) # "ok"
    BY <1>1, <1>7, <2>1 DEF Send, enqueueVars, testerVars
  <2>2. CASE SendRefusal(hw) = "ok"
    <3>1. Phase = "open" /\ Phase' = "running" /\ Size' = Size
      BY <1>7, <2>2 DEF Send, SendRefusal, NotClear, Phase, Size, enqueueVars
    <3>2. FoundAnswers' = FoundAnswers
      BY <3>1, OwnFound, OwnFoundNext DEF FoundIsOwn
    <3> QED BY <3>1, <3>2 DEF Package!Next, Package!Start
  <2> QED BY <2>1, <2>2
<1>8. CASE PushCmd
  <2>1. Size' = Size /\ pc # "idle" /\ is_cmd_sent' = is_cmd_sent
    <3>1. PushResult(NextCommand) = "ok" => Len(cmd_list') = Len(cmd_list)
      BY <1>8, PushedList DEF PackageInv
    <3> QED BY <1>8, <3>1 DEF PushCmd, Size
  <2> QED BY <1>2, <1>3, <1>5, <2>1 DEF Phase
<1>9. CASE Transmit \/ TesterNext \/ MonitorErrorWithInfo \/ MonitorError
  <2>1. Size' = Size /\ pc # "idle" /\ is_cmd_sent' = is_cmd_sent
    BY <1>9 DEF Transmit, TesterNext, TesterIssue, TesterFunction, TesterComplete, TesterAbort,
                hostUnchanged, MonitorErrorWithInfo, MonitorError, Size, enqueueVars
  <2> QED BY <1>2, <1>3, <1>5, <2>1 DEF Phase
<1>10. CASE ClearState /\ pc' = "idle"
  <2>1. Size' = 0 /\ Phase' = "open"
    BY <1>10 DEF ClearState, ResetPackage, Size, Phase
  <2> QED BY <1>4, <2>1
<1>11. CASE MonitorSuccess
  <2>1. CASE ~opts.clear
    <3>1. Size' = Size /\ pc # "idle" /\ is_cmd_sent' = is_cmd_sent
      BY <1>11, <2>1 DEF MonitorSuccess, Size, enqueueVars
    <3> QED BY <1>2, <1>3, <1>5, <3>1 DEF Phase
  <2> QED BY <1>10, <1>11, <2>1 DEF MonitorSuccess
<1>12. CASE Clear
  BY <1>10, <1>12 DEF Clear
<1>13. CASE \E qd \in QueueDepths : SetQdLimit(qd)
  BY <1>1, <1>13 DEF SetQdLimit, enqueueVars, bufferVars, testerVars
<1>14. CASE UNCHANGED vars
  BY <1>1, <1>14 DEF vars, enqueueVars, bufferVars, testerVars
<1> QED BY <1>6, <1>7, <1>8, <1>9, <1>11, <1>12, <1>13, <1>14, NextIsAny, NextCases DEF QuietNext

(* The safety part of the refinement.                                      *)
THEOREM ExecutorStepsArePackageSteps == Spec => PackageSteps
<1>1. Init => Package!Init
  <2> SUFFICES ASSUME Init PROVE Package!Init
    OBVIOUS
  <2>1. Size = 0 /\ Phase = "open"
    BY DEF Init, Size, Phase
  <2> QED BY <2>1, PackageInit, OwnFound DEF FoundIsOwn, Package!Init
<1>2. PackageInv /\ PackageInv' /\ [Next]_vars => [Package!Next]_(Package!vars)
  BY StepOfPackage
<1>3. Spec => Init /\ [][Next]_vars
  BY PTL DEF Spec
<1> QED BY <1>1, <1>2, <1>3, PackageAlways, PTL DEF PackageSteps, Package!Steps

-----------------------------------------------------------------------------
(* Task management: ABORT TASK and QUERY TASK. *)

USE TmAssumption

(* No two commands of the package share a task tag.  A request names its   *)
(* target by tag: without this the device may abort another command.       *)
TagsDistinct ==
  \A i, j \in 1 .. Len(cmd_list) : cmd_list[i].key = cmd_list[j].key => i = j

ClassInv ==
  \A i \in 1 .. Len(cmd_list) : cmd_list[i].cmd.class # "tester" => cmd_list[i].key[1] = "upiu"

(* A request stands behind its target and holds the target's tag.          *)
RequestInv ==
  \A tm \in DOMAIN requests :
    /\ tm \in 1 .. Len(cmd_list) /\ cmd_list[tm].cmd.class = "tm"
    /\ requests[tm].target \in 1 .. tm - 1
    /\ cmd_list[requests[tm].target].key = <<"upiu", cmd_list[tm].cmd.target>>
    /\ requests[tm].function = "ABORT_TASK" => IsScsi(requests[tm].target)

SentInv ==
  done_queue # <<>> => \A i \in 1 .. Len(cmd_list) : TagEncodable(cmd_list[i])

(* Whatever was aborted was the target of a request to abort.              *)
AbortedInv ==
  \A n \in 1 .. Len(done_queue) : done_queue[n].key = Aborting =>
    /\ cmd_list[done_queue[n].id].cmd.class # "tm"
    /\ \E tm \in DOMAIN requests :
         requests[tm].function = "ABORT_TASK" /\ requests[tm].target = done_queue[n].id

(* An answered request has a service response, and when that is SUCCEEDED  *)
(* the target had not been answered before it.                             *)
ServiceInv ==
  \A n \in 1 .. Len(done_queue) : done_queue[n].id \in DOMAIN requests =>
    /\ done_queue[n].id \in DOMAIN service
    /\ service[done_queue[n].id] = "FUNC_SUCCEEDED" =>
         \A m \in 1 .. n : done_queue[m].id # requests[done_queue[n].id].target

RequestsInv == ClassInv /\ RequestInv /\ SentInv /\ AbortedInv /\ ServiceInv

(* A request is a command like any other: the executor's invariants hold.  *)
LEMMA RequestIsCommand ==
  ASSUME TypeOK, ClassInv, NEW i \in 1 .. Len(cmd_list), cmd_list[i].cmd.class # "tester"
  PROVE  [TmCommand EXCEPT !.target = TagOfTarget(i)] \in AnyCommand
<1>1. cmd_list[i].key \in ListKeys /\ cmd_list[i].key[1] = "upiu"
  BY ListKey DEF ClassInv
<1>2. TagOfTarget(i) \in Int
  BY <1>1 DEF ListKeys, TagOfTarget
<1> QED BY <1>2 DEF AnyCommand, CommandType

LEMMA PushIsEnqueue ==
  ASSUME TypeOK, ClassInv, Push
  PROVE  \E i \in 1 .. Len(cmd_list), function \in {"ABORT_TASK", "QUERY_TASK"} :
           /\ PushRequest(function, i)
           /\ [TmCommand EXCEPT !.target = TagOfTarget(i)] \in AnyCommand
           /\ function = "ABORT_TASK" => IsScsi(i)
<1>1. \A i : IsScsi(i) => cmd_list[i].cmd.class # "tester"
  BY DEF IsScsi, ScsiClasses
<1> QED BY <1>1, RequestIsCommand DEF Push, PushAbortTask, PushQueryTask

LEMMA TmNextIsAny ==
  ASSUME TypeOK, ClassInv, [TmNext]_<<vars, tmVars>>
  PROVE  [AnyNext]_vars
<1>1. CASE Push
  BY <1>1, PushIsEnqueue DEF PushRequest, AnyNext
<1>2. CASE Device
  BY <1>2 DEF Device, DeviceAnswers, DeviceAborts, AnyNext, Next, TesterNext
<1>3. CASE Rest
  BY <1>3 DEF Rest, AnyNext, Next, TesterNext
<1>4. CASE UNCHANGED <<vars, tmVars>>
  BY <1>4
<1> QED BY <1>1, <1>2, <1>3, <1>4 DEF TmNext

(* What a step does to the list: empty it, extend it while it is open, or  *)
(* leave its commands as they are.                                         *)
SameList ==
  /\ Len(cmd_list') = Len(cmd_list)
  /\ \A i \in 1 .. Len(cmd_list) :
       cmd_list'[i].cmd = cmd_list[i].cmd /\ cmd_list'[i].key = cmd_list[i].key

Extended(c) ==
  /\ done_queue = <<>> /\ done_queue' = <<>> /\ Len(cmd_list') = Len(cmd_list) + 1
  /\ \A i \in 1 .. Len(cmd_list) : cmd_list'[i] = cmd_list[i]
  /\ cmd_list'[Len(cmd_list) + 1].cmd = c /\ cmd_list'[Len(cmd_list) + 1].key = KeyOf(c)

LEMMA EnqueueEffect ==
  ASSUME TypeOK, QueueInv, NEW c \in AnyCommand, Enqueue(c)
  PROVE  /\ EnqueueResult(c) = "ok" => Extended(c)
         /\ Extended(c) \/ (cmd_list' = cmd_list /\ done_queue' = done_queue)
<1>1. done_queue' = done_queue
  BY DEF Enqueue, testerVars
<1>2. CASE is_cmd_sent
  <2>1. EnqueueResult(c) = "CMD_LIST_NOT_CLEAR"
    BY <1>2 DEF EnqueueResult, NotClear
  <2> QED BY <1>1, <2>1 DEF Enqueue, enqueueVars
<1>3. ASSUME ~is_cmd_sent, AppendCommand(c) PROVE Extended(c)
  <2>1. cmd_list' = Append(cmd_list, ListElement(c, IF TagValid(c) THEN <<tracker[KeyOf(c)] + 1, KeyOf(c)>> ELSE NoIndicator))
    BY <1>3 DEF AppendCommand
  <2> DEFINE el == ListElement(c, IF TagValid(c) THEN <<tracker[KeyOf(c)] + 1, KeyOf(c)>> ELSE NoIndicator)
  <2>2. el.cmd = c /\ el.key = KeyOf(c)
    BY DEF ListElement
  <2> HIDE DEF el
  <2>3. cmd_list'[Len(cmd_list) + 1] = el
    BY <2>1 DEF TypeOK, el
  <2>4. done_queue = <<>>
    BY <1>3 DEF QueueInv
  <2>5. Len(cmd_list') = Len(cmd_list) + 1 /\ \A i \in 1 .. Len(cmd_list) : cmd_list'[i] = cmd_list[i]
    BY <1>3, AppendedKey
  <2> QED BY <1>1, <2>2, <2>3, <2>4, <2>5 DEF Extended
<1> QED BY <1>1, <1>2, <1>3 DEF Enqueue, enqueueVars

LEMMA ListEffects ==
  ASSUME TypeOK, QueueInv, [AnyNext]_vars
  PROVE  \/ cmd_list' = <<>> /\ done_queue' = <<>>
         \/ SameList /\ done_queue' = done_queue
         \/ SameList /\ pc = "monitor" /\ TesterNext
         \/ \E c \in AnyCommand : Enqueue(c) /\ Extended(c)
<1>1. cmd_list' = cmd_list => SameList
  BY DEF SameList
<1>2. CASE \E c \in AnyCommand : Enqueue(c)
  BY <1>1, <1>2, EnqueueEffect
<1>3. ASSUME NEW qd, NEW hw, NEW clr, Send(qd, hw, clr) PROVE cmd_list' = cmd_list /\ done_queue' = done_queue
  BY <1>3 DEF Send, enqueueVars, testerVars
<1>4. CASE PushCmd
  <2>1. done_queue' = done_queue
    BY <1>4 DEF PushCmd, testerVars
  <2>2. SameList
    <3>1. CASE PushResult(NextCommand) = "ok"
      BY <1>4, <3>1, PushedList DEF SameList
    <3>2. CASE PushResult(NextCommand) # "ok"
      BY <1>1, <1>4, <3>2 DEF PushCmd
    <3> QED BY <3>1, <3>2
  <2> QED BY <2>1, <2>2
<1>5. CASE Transmit \/ MonitorError \/ MonitorErrorWithInfo \/ (\E qd \in QueueDepths : SetQdLimit(qd))
  <2>1. cmd_list' = cmd_list /\ done_queue' = done_queue
    BY <1>5 DEF Transmit, MonitorError, MonitorErrorWithInfo, SetQdLimit, enqueueVars, testerVars
  <2> QED BY <1>1, <2>1
<1>6. CASE TesterNext
  BY <1>1, <1>6 DEF TesterNext, TesterIssue, TesterFunction, TesterComplete, TesterAbort, hostUnchanged,
                    enqueueVars
<1>7. CASE MonitorSuccess
  BY <1>1, <1>7 DEF MonitorSuccess, ClearState, ResetPackage, enqueueVars
<1>8. CASE Clear
  BY <1>8 DEF Clear, ClearState, ResetPackage
<1>9. CASE UNCHANGED vars
  BY <1>1, <1>9 DEF vars, enqueueVars, testerVars
<1> QED BY <1>1, <1>2, <1>3, <1>4, <1>5, <1>6, <1>7, <1>8, <1>9, NextCases DEF QuietNext

LEMMA ClassNext == TypeOK /\ QueueInv /\ ClassInv /\ [AnyNext]_vars => ClassInv'
<1> SUFFICES ASSUME TypeOK, QueueInv, ClassInv, [AnyNext]_vars PROVE ClassInv'
  OBVIOUS
<1>1. CASE cmd_list' = <<>>
  <2>1. Len(cmd_list') = 0
    BY <1>1
  <2> QED BY <2>1 DEF ClassInv
<1>2. CASE SameList
  BY <1>2 DEF SameList, ClassInv
<1>3. ASSUME NEW c \in AnyCommand, Extended(c) PROVE ClassInv'
  <2> PICK n \in Nat : n = Len(cmd_list)
    BY DEF TypeOK
  <2>1. \A i \in 1 .. n + 1 : i \in 1 .. n \/ i = n + 1
    OBVIOUS
  <2>2. c.class # "tester" => KeyOf(c)[1] = "upiu"
    BY DEF KeyOf, IsTester
  <2> QED BY <1>3, <2>1, <2>2 DEF Extended, ClassInv
<1> QED BY <1>1, <1>2, <1>3, ListEffects

LEMMA SentNext ==
  TypeOK /\ QueueInv /\ EncodedInv /\ SentInv /\ [AnyNext]_vars => SentInv'
<1> SUFFICES ASSUME TypeOK, QueueInv, EncodedInv, SentInv, [AnyNext]_vars PROVE SentInv'
  OBVIOUS
<1>1. CASE SameList /\ (pc = "monitor" \/ done_queue' = done_queue)
  BY <1>1 DEF SameList, SentInv, EncodedInv, TagEncodable
<1>2. CASE done_queue' = <<>>
  BY <1>2 DEF SentInv
<1> QED BY <1>1, <1>2, ListEffects DEF Extended

-----------------------------------------------------------------------------
(* The answers the device adds. *)

LEMMA CompleteEffect ==
  ASSUME PackageInv, NEW i \in outstanding, TesterComplete(i)
  PROVE  /\ Len(done_queue') = Len(done_queue) + 1 /\ done_queue'[Len(done_queue) + 1] = Reply(i)
         /\ \A n \in 1 .. Len(done_queue) : done_queue'[n] = done_queue[n]
<1>1. pc = "monitor" /\ done_queue' = Append(done_queue, Answer(i))
  BY DEF TesterComplete
<1>2. Answer(i) = Reply(i) /\ Reply(i) \in ReplyType /\ done_queue \in Seq(ReplyType)
  BY <1>1, TesterFacts DEF PackageInv, AnswersInv, InOrder
<1> QED BY <1>1, <1>2

LEMMA AbortEffect ==
  ASSUME PackageInv, NEW tm \in outstanding, NEW i \in outstanding, TesterAbort(tm, i)
  PROVE  /\ Len(done_queue') = Len(done_queue) + 2
         /\ done_queue'[Len(done_queue) + 1] = [key |-> Aborting, id |-> i]
         /\ done_queue'[Len(done_queue) + 2] = Reply(tm)
         /\ \A n \in 1 .. Len(done_queue) : done_queue'[n] = done_queue[n]
<1> DEFINE a == [key |-> Aborting, id |-> i]
<1>1. pc = "monitor" /\ done_queue' = done_queue \o <<a, Answer(tm)>>
  BY DEF TesterAbort, Aborting
<1>2. Answer(tm) = Reply(tm) /\ Reply(tm) \in ReplyType /\ done_queue \in Seq(ReplyType)
  BY <1>1, TesterFacts DEF PackageInv, AnswersInv, InOrder
<1>3. a \in ReplyType
  <2>1. i \in Nat
    BY <1>1 DEF PackageInv, TesterInv
  <2> QED BY <2>1 DEF ReplyType
<1> HIDE DEF a
<1>4. done_queue' = Append(Append(done_queue, a), Reply(tm))
  BY <1>1, <1>2, <1>3
<1>5. /\ Len(done_queue') = Len(done_queue) + 2 /\ done_queue'[Len(done_queue) + 1] = a
      /\ done_queue'[Len(done_queue) + 2] = Reply(tm)
      /\ \A n \in 1 .. Len(done_queue) : done_queue'[n] = done_queue[n]
  BY <1>2, <1>3, <1>4
<1> QED BY <1>5 DEF a

(* Who is outstanding has not been answered.                               *)
LEMMA OutstandingFacts ==
  ASSUME PackageInv, pc = "monitor", NEW i \in outstanding
  PROVE  /\ i \in 1 .. Len(cmd_list) /\ i \in Nat
         /\ \A n \in 1 .. Len(done_queue) : done_queue[n].id # i
         /\ Reply(i).id = i /\ Reply(i).key = cmd_list[i].key /\ Reply(i).key # Aborting
<1>1. i \in 1 .. Len(cmd_list) /\ i \in Nat
  <2>1. i \in 1 .. Len(cmd_list) /\ Len(cmd_list) \in Nat
    BY TesterFacts DEF PackageInv
  <2> QED BY <2>1
<1>2. \A n \in 1 .. Len(done_queue) : done_queue[n].id # i
  BY DEF PackageInv, TesterInv
<1>3. cmd_list[i].key # Aborting
  BY <1>1, ListKey DEF PackageInv
<1> QED BY <1>1, <1>2, <1>3 DEF Reply

LEMMA KeyOfTag ==
  ASSUME TypeOK, ClassInv, NEW i \in 1 .. Len(cmd_list), cmd_list[i].cmd.class # "tester"
  PROVE  cmd_list[i].key = <<"upiu", TagOfTarget(i)>>
<1>1. cmd_list[i].key \in ListKeys /\ cmd_list[i].key[1] = "upiu"
  BY ListKey DEF ClassInv
<1> QED BY <1>1 DEF ListKeys, TagOfTarget

LEMMA PushEffect ==
  ASSUME TypeOK, QueueInv, ClassInv, Push
  PROVE  \/ requests' = requests /\ service' = service
         \/ \E i \in 1 .. Len(cmd_list), function \in {"ABORT_TASK", "QUERY_TASK"} :
              /\ Extended([TmCommand EXCEPT !.target = TagOfTarget(i)])
              /\ cmd_list[i].cmd.class # "tester" /\ (function = "ABORT_TASK" => IsScsi(i))
              /\ requests' = [n \in DOMAIN requests \cup {Len(cmd_list) + 1} |->
                                IF n \in DOMAIN requests THEN requests[n]
                                ELSE [function |-> function, target |-> i]]
              /\ service' = service
<1> PICK i \in 1 .. Len(cmd_list), function \in {"ABORT_TASK", "QUERY_TASK"} :
           /\ PushRequest(function, i)
           /\ [TmCommand EXCEPT !.target = TagOfTarget(i)] \in AnyCommand
           /\ cmd_list[i].cmd.class # "tester" /\ (function = "ABORT_TASK" => IsScsi(i))
  <2>1. \A i : IsScsi(i) => cmd_list[i].cmd.class # "tester"
    BY DEF IsScsi, ScsiClasses
  <2> QED BY <2>1, RequestIsCommand DEF Push, PushAbortTask, PushQueryTask
<1> DEFINE tm == [TmCommand EXCEPT !.target = TagOfTarget(i)]
<1>1. Enqueue(tm) /\ service' = service
  BY DEF PushRequest
<1>2. CASE EnqueueResult(tm) = "ok"
  <2>1. Extended(tm)
    BY <1>1, <1>2, EnqueueEffect
  <2>2. requests' = [n \in DOMAIN requests \cup {Len(cmd_list) + 1} |->
                       IF n \in DOMAIN requests THEN requests[n]
                       ELSE [function |-> function, target |-> i]]
    BY <1>2 DEF PushRequest
  <2> QED BY <1>1, <2>1, <2>2
<1>3. CASE EnqueueResult(tm) # "ok"
  BY <1>1, <1>3 DEF PushRequest
<1> QED BY <1>2, <1>3

LEMMA KeptRequests ==
  ASSUME TypeOK, RequestInv, requests' = requests,
         Len(cmd_list') \in Nat, Len(cmd_list) <= Len(cmd_list'),
         \A i \in 1 .. Len(cmd_list) :
           cmd_list'[i].cmd = cmd_list[i].cmd /\ cmd_list'[i].key = cmd_list[i].key
  PROVE  RequestInv'
<1> PICK n \in Nat : n = Len(cmd_list)
  BY DEF TypeOK
<1>1. ASSUME NEW tm \in DOMAIN requests
      PROVE  /\ tm \in 1 .. n /\ tm \in 1 .. Len(cmd_list') /\ tm \in Nat
             /\ requests[tm].target \in 1 .. n /\ requests[tm].target \in 1 .. tm - 1
  BY DEF RequestInv
<1> QED BY <1>1 DEF RequestInv, IsScsi

LEMMA RequestNext ==
  ASSUME TypeOK, QueueInv, ClassInv, RequestInv, [AnyNext]_vars, [TmNext]_<<vars, tmVars>>
  PROVE  RequestInv'
<1> PICK n \in Nat : n = Len(cmd_list)
  BY DEF TypeOK
<1>1. CASE requests' = NoFunction
  BY <1>1 DEF NoFunction, RequestInv
<1>2. CASE requests' = requests
  <2>1. CASE SameList
    BY <1>2, <2>1, KeptRequests DEF SameList
  <2>2. ASSUME NEW c, Extended(c) PROVE RequestInv'
    BY <1>2, <2>2, KeptRequests DEF Extended
  <2>3. CASE cmd_list' = <<>>
    <3>1. requests' = NoFunction \/ DOMAIN requests = {} \/ SameList
      <4>1. CASE Rest
        BY <2>3, <4>1 DEF Rest
      <4>2. CASE Push
        <5>1. \E c : Enqueue(c) /\ c \in AnyCommand
          BY <4>2, PushIsEnqueue DEF PushRequest
        <5>2. cmd_list' = cmd_list \/ Len(cmd_list') = n + 1
          BY <5>1, EnqueueEffect DEF Extended
        <5>3. Len(cmd_list') = 0
          BY <2>3
        <5> QED BY <5>2, <5>3 DEF SameList
      <4>3. CASE Device \/ UNCHANGED <<vars, tmVars>>
        <5>1. cmd_list' = cmd_list
          BY <4>3 DEF Device, DeviceAnswers, DeviceAborts, TesterComplete, TesterAbort, hostUnchanged,
                      enqueueVars, vars
        <5> QED BY <5>1 DEF SameList
      <4> QED BY <4>1, <4>2, <4>3 DEF TmNext
    <3>2. CASE DOMAIN requests = {}
      BY <1>2, <3>2 DEF RequestInv
    <3> QED BY <1>1, <2>1, <3>1, <3>2
  <2> QED BY <2>1, <2>2, <2>3, ListEffects
<1>3. ASSUME NEW i \in 1 .. n, NEW function \in {"ABORT_TASK", "QUERY_TASK"},
             Extended([TmCommand EXCEPT !.target = TagOfTarget(i)]),
             cmd_list[i].cmd.class # "tester", function = "ABORT_TASK" => IsScsi(i),
             requests' = [x \in DOMAIN requests \cup {n + 1} |->
                            IF x \in DOMAIN requests THEN requests[x]
                            ELSE [function |-> function, target |-> i]]
      PROVE  RequestInv'
  <2> DEFINE tmc == [TmCommand EXCEPT !.target = TagOfTarget(i)]
  <2>1. /\ Len(cmd_list') = n + 1 /\ \A j \in 1 .. n : cmd_list'[j] = cmd_list[j]
        /\ cmd_list'[n + 1].cmd = tmc
    BY <1>3 DEF Extended
  <2>2. tmc.class = "tm" /\ tmc.target = TagOfTarget(i)
    BY DEF CommandType
  <2>3. cmd_list[i].key = <<"upiu", TagOfTarget(i)>>
    BY <1>3, KeyOfTag
  <2> HIDE DEF tmc
  <2>4. ASSUME NEW tm \in DOMAIN requests'
        PROVE  /\ tm \in 1 .. Len(cmd_list') /\ cmd_list'[tm].cmd.class = "tm"
               /\ requests'[tm].target \in 1 .. tm - 1
               /\ cmd_list'[requests'[tm].target].key = <<"upiu", cmd_list'[tm].cmd.target>>
               /\ requests'[tm].function = "ABORT_TASK" =>
                    cmd_list'[requests'[tm].target].cmd.class \in ScsiClasses
    <3>1. CASE tm \in DOMAIN requests
      <4>1. /\ tm \in 1 .. n /\ cmd_list[tm].cmd.class = "tm"
            /\ requests[tm].target \in 1 .. tm - 1 /\ requests[tm].target \in 1 .. n
            /\ cmd_list[requests[tm].target].key = <<"upiu", cmd_list[tm].cmd.target>>
            /\ requests[tm].function = "ABORT_TASK" =>
                 cmd_list[requests[tm].target].cmd.class \in ScsiClasses
        BY <3>1 DEF RequestInv, IsScsi
      <4>2. requests'[tm] = requests[tm]
        BY <1>3, <3>1
      <4> QED BY <2>1, <4>1, <4>2
    <3>2. CASE tm \notin DOMAIN requests
      <4>1. tm = n + 1 /\ requests'[tm] = [function |-> function, target |-> i]
        BY <1>3, <3>2
      <4>2. requests'[tm].target = i /\ requests'[tm].function = function /\ i \in 1 .. tm - 1
        BY <4>1
      <4>3. tm \in 1 .. Len(cmd_list') /\ cmd_list'[tm].cmd = tmc
        BY ONLY <2>1, <4>1, n \in Nat
      <4>4. cmd_list'[requests'[tm].target] = cmd_list[i]
        BY ONLY <1>3, <2>1, <4>2
      <4>5. cmd_list'[tm].cmd.class = "tm" /\ cmd_list'[tm].cmd.target = TagOfTarget(i)
        BY ONLY <2>2, <4>3
      <4>6. cmd_list'[requests'[tm].target].key = <<"upiu", cmd_list'[tm].cmd.target>>
        BY ONLY <2>3, <4>4, <4>5, Zenon
      <4>7. requests'[tm].function = "ABORT_TASK" =>
              cmd_list'[requests'[tm].target].cmd.class \in ScsiClasses
        BY ONLY <1>3, <4>2, <4>4 DEF IsScsi
      <4> QED BY ONLY <4>2, <4>3, <4>5, <4>6, <4>7
    <3> QED BY <3>1, <3>2
  <2> QED BY <2>4 DEF RequestInv, IsScsi
<1>4. CASE Push
  BY <1>2, <1>3, <1>4, PushEffect
<1>5. CASE Device
  BY <1>2, <1>5 DEF Device, DeviceAnswers, DeviceAborts, Serve
<1>6. CASE Rest
  BY <1>1, <1>2, <1>6 DEF Rest, tmVars
<1>7. CASE UNCHANGED <<vars, tmVars>>
  BY <1>2, <1>7 DEF tmVars
<1> QED BY <1>4, <1>5, <1>6, <1>7 DEF TmNext

(* The host never adds an answer.                                          *)
LEMMA HostQueue ==
  ASSUME PatternNext \/ SendNext \/ TesterIssue
  PROVE  done_queue' \in {done_queue, <<>>}
<1>1. PatternNext => done_queue' \in {done_queue, <<>>}
  BY DEF PatternNext, Enqueue, Send, Clear, SetQdLimit, ClearState, testerVars
<1>2. SendNext => done_queue' \in {done_queue, <<>>}
  BY DEF SendNext, PushCmd, Transmit, MonitorSuccess, MonitorErrorWithInfo, MonitorError, ClearState,
         testerVars
<1>3. TesterIssue => done_queue' \in {done_queue, <<>>}
  BY DEF TesterIssue
<1> QED BY <1>1, <1>2, <1>3

LEMMA QuietRequests ==
  ASSUME PackageInv, AbortedInv, ServiceInv, SameList, done_queue' = done_queue,
         requests' = requests, service' = service
  PROVE  AbortedInv' /\ ServiceInv'
<1>1. \A n \in 1 .. Len(done_queue) : done_queue[n].id \in 1 .. Len(cmd_list)
  BY DEF PackageInv, AnswersInv, InOrder
<1>2. AbortedInv'
  BY <1>1 DEF SameList, AbortedInv
<1>3. ServiceInv'
  BY DEF ServiceInv
<1> QED BY <1>2, <1>3

LEMMA EmptyRequests ==
  ASSUME done_queue' = <<>>
  PROVE  AbortedInv' /\ ServiceInv'
<1>1. Len(done_queue') = 0
  OBVIOUS
<1> QED BY <1>1 DEF AbortedInv, ServiceInv

(* Another command of the package is answered.                             *)
LEMMA OtherAnswers ==
  ASSUME PackageInv, RequestInv, AbortedInv, ServiceInv, NEW i \in outstanding, TesterComplete(i),
         IsScsi(i), requests' = requests, service' = service
  PROVE  AbortedInv' /\ ServiceInv'
<1> PICK k \in Nat : k = Len(done_queue)
  BY DEF PackageInv, AnswersInv, InOrder
<1>1. pc = "monitor" /\ cmd_list' = cmd_list
  BY DEF TesterComplete, hostUnchanged, enqueueVars
<1>2. /\ Len(done_queue') = k + 1 /\ done_queue'[k + 1].id = i /\ done_queue'[k + 1].key # Aborting
      /\ \A n \in 1 .. k : done_queue'[n] = done_queue[n]
  BY <1>1, CompleteEffect, OutstandingFacts
<1>3. \A n \in 1 .. k + 1 : n \in 1 .. k \/ n = k + 1
  OBVIOUS
<1>4. i \notin DOMAIN requests
  BY DEF RequestInv, IsScsi, ScsiClasses
<1>5. AbortedInv'
  BY <1>1, <1>2, <1>3 DEF AbortedInv
<1>6. \A n \in 1 .. k : \A m \in 1 .. n : m \in 1 .. k
  OBVIOUS
<1>7. ServiceInv'
  BY <1>2, <1>3, <1>4, <1>6 DEF ServiceInv
<1> QED BY <1>5, <1>7

LEMMA RequestAnswers ==
  ASSUME PackageInv, ClassInv, RequestInv, AbortedInv, ServiceInv, TagsDistinct,
         NEW tm \in outstanding, DeviceAnswers(tm)
  PROVE  AbortedInv' /\ ServiceInv'
<1> PICK k \in Nat : k = Len(done_queue)
  BY DEF PackageInv, AnswersInv, InOrder
<1>1. /\ pc = "monitor" /\ cmd_list' = cmd_list /\ TesterComplete(tm) /\ tm \in DOMAIN requests
      /\ requests' = requests
  BY DEF DeviceAnswers, Serve, TesterComplete, hostUnchanged, enqueueVars
<1>2. PICK response \in Responses(tm) :
        service' = [n \in DOMAIN service \cup {tm} |-> IF n = tm THEN response ELSE service[n]]
  BY DEF DeviceAnswers, Serve
<1>3. /\ Len(done_queue') = k + 1 /\ done_queue'[k + 1].id = tm /\ done_queue'[k + 1].key # Aborting
      /\ \A n \in 1 .. k : done_queue'[n] = done_queue[n] /\ done_queue[n].id # tm
  BY <1>1, CompleteEffect, OutstandingFacts
<1>4. \A n \in 1 .. k + 1 : n \in 1 .. k \/ n = k + 1
  OBVIOUS
<1>5. AbortedInv'
  BY <1>1, <1>3, <1>4 DEF AbortedInv
<1> DEFINE target == requests[tm].target
<1>6. /\ target \in 1 .. tm - 1 /\ target \in 1 .. Len(cmd_list) /\ target # tm
      /\ cmd_list[target].key = <<"upiu", cmd_list[tm].cmd.target>>
  <2>1. tm \in 1 .. Len(cmd_list) /\ Len(cmd_list) \in Nat
    BY <1>1 DEF RequestInv, PackageInv, TypeOK
  <2> QED BY <1>1, <2>1 DEF RequestInv
<1>7. response = "FUNC_SUCCEEDED" => \A m \in 1 .. k : done_queue[m].id # target
  <2> SUFFICES ASSUME response = "FUNC_SUCCEEDED" PROVE \A m \in 1 .. k : done_queue[m].id # target
    OBVIOUS
  <2>1. PICK i \in outstanding : IsScsi(i) /\ TagOfTarget(i) = cmd_list[tm].cmd.target
    BY DEF Responses, Refusals, InTaskSet
  <2>2. i \in 1 .. Len(cmd_list) /\ \A m \in 1 .. k : done_queue[m].id # i
    BY <1>1, OutstandingFacts
  <2>3. cmd_list[i].key = <<"upiu", TagOfTarget(i)>>
    BY <2>1, <2>2, KeyOfTag DEF PackageInv, IsScsi, ScsiClasses
  <2>4. i = target
    BY <1>6, <2>1, <2>2, <2>3 DEF TagsDistinct
  <2> QED BY <2>2, <2>4
<1> HIDE DEF target
<1>8. ServiceInv'
  <2>1. ASSUME NEW n \in 1 .. k, done_queue'[n].id \in DOMAIN requests
        PROVE  /\ done_queue'[n].id \in DOMAIN service'
               /\ service'[done_queue'[n].id] = "FUNC_SUCCEEDED" =>
                    \A m \in 1 .. n : done_queue'[m].id # requests[done_queue'[n].id].target
    <3>1. done_queue'[n] = done_queue[n] /\ done_queue[n].id # tm /\ \A m \in 1 .. n : m \in 1 .. k
      BY <1>3
    <3>2. /\ done_queue[n].id \in DOMAIN service
          /\ service[done_queue[n].id] = "FUNC_SUCCEEDED" =>
               \A m \in 1 .. n : done_queue[m].id # requests[done_queue[n].id].target
      BY <2>1, <3>1 DEF ServiceInv
    <3>3. service'[done_queue[n].id] = service[done_queue[n].id] /\ done_queue[n].id \in DOMAIN service'
      BY <1>2, <3>1, <3>2
    <3> QED BY <1>3, <3>1, <3>2, <3>3
  <2>2. tm \in DOMAIN service' /\ service'[tm] = response
    BY <1>2
  <2>3. response = "FUNC_SUCCEEDED" => \A m \in 1 .. k + 1 : done_queue'[m].id # target
    BY <1>3, <1>4, <1>6, <1>7
  <2> QED BY <1>1, <1>3, <1>4, <2>1, <2>2, <2>3 DEF ServiceInv, target
<1> QED BY <1>5, <1>8

LEMMA RequestAborts ==
  ASSUME PackageInv, ClassInv, RequestInv, AbortedInv, ServiceInv, TagsDistinct,
         NEW tm \in outstanding, NEW i \in outstanding, DeviceAborts(tm, i)
  PROVE  AbortedInv' /\ ServiceInv'
<1> PICK k \in Nat : k = Len(done_queue)
  BY DEF PackageInv, AnswersInv, InOrder
<1>1. /\ pc = "monitor" /\ cmd_list' = cmd_list /\ TesterAbort(tm, i) /\ tm \in DOMAIN requests
      /\ requests' = requests /\ requests[tm].function = "ABORT_TASK"
      /\ cmd_list[i].cmd.class # "tm" /\ cmd_list[i].key = <<"upiu", cmd_list[tm].cmd.target>>
      /\ service' = [n \in DOMAIN service \cup {tm} |-> IF n = tm THEN "FUNC_COMPLETE" ELSE service[n]]
  BY DEF DeviceAborts, Serve, TesterAbort, hostUnchanged, enqueueVars
<1>2. /\ Len(done_queue') = k + 2
      /\ done_queue'[k + 1].id = i /\ done_queue'[k + 2].id = tm /\ done_queue'[k + 2].key # Aborting
      /\ \A n \in 1 .. k : done_queue'[n] = done_queue[n] /\ done_queue[n].id # tm
  <2>1. /\ Len(done_queue') = k + 2 /\ done_queue'[k + 1] = [key |-> Aborting, id |-> i]
        /\ done_queue'[k + 2] = Reply(tm) /\ \A n \in 1 .. k : done_queue'[n] = done_queue[n]
    BY <1>1, AbortEffect
  <2>2. /\ Reply(tm).id = tm /\ Reply(tm).key # Aborting
        /\ \A n \in 1 .. k : done_queue[n].id # tm
    BY <1>1, OutstandingFacts
  <2> QED BY <2>1, <2>2
<1>3. \A n \in 1 .. k + 2 : n \in 1 .. k \/ n = k + 1 \/ n = k + 2
  OBVIOUS
<1>4. i \in 1 .. Len(cmd_list) /\ i \notin DOMAIN requests
  BY <1>1, OutstandingFacts DEF RequestInv
<1>5. requests[tm].target = i
  <2>1. /\ requests[tm].target \in 1 .. Len(cmd_list)
        /\ cmd_list[requests[tm].target].key = <<"upiu", cmd_list[tm].cmd.target>>
    <3>1. tm \in 1 .. Len(cmd_list) /\ Len(cmd_list) \in Nat
      BY <1>1 DEF RequestInv, PackageInv, TypeOK
    <3> QED BY <1>1, <3>1 DEF RequestInv
  <2> QED BY <1>1, <1>4, <2>1 DEF TagsDistinct
<1>6. AbortedInv'
  <2>1. ASSUME NEW n \in 1 .. k + 2, done_queue'[n].key = Aborting
        PROVE  /\ cmd_list[done_queue'[n].id].cmd.class # "tm"
               /\ \E t \in DOMAIN requests :
                    requests[t].function = "ABORT_TASK" /\ requests[t].target = done_queue'[n].id
    BY <1>1, <1>2, <1>3, <1>5, <2>1 DEF AbortedInv
  <2> QED BY <1>1, <1>2, <2>1 DEF AbortedInv
<1>7. ServiceInv'
  <2>1. ASSUME NEW n \in 1 .. k, done_queue'[n].id \in DOMAIN requests
        PROVE  /\ done_queue'[n].id \in DOMAIN service'
               /\ service'[done_queue'[n].id] = "FUNC_SUCCEEDED" =>
                    \A m \in 1 .. n : done_queue'[m].id # requests[done_queue'[n].id].target
    <3>1. done_queue'[n] = done_queue[n] /\ done_queue[n].id # tm /\ \A m \in 1 .. n : m \in 1 .. k
      BY <1>2
    <3>2. /\ done_queue[n].id \in DOMAIN service
          /\ service[done_queue[n].id] = "FUNC_SUCCEEDED" =>
               \A m \in 1 .. n : done_queue[m].id # requests[done_queue[n].id].target
      BY <2>1, <3>1 DEF ServiceInv
    <3>3. service'[done_queue[n].id] = service[done_queue[n].id] /\ done_queue[n].id \in DOMAIN service'
      BY <1>1, <3>1, <3>2
    <3> QED BY <1>2, <3>1, <3>2, <3>3
  <2>2. tm \in DOMAIN service' /\ service'[tm] # "FUNC_SUCCEEDED"
    BY <1>1
  <2>3. ASSUME NEW n \in 1 .. k + 2, done_queue'[n].id \in DOMAIN requests
        PROVE  /\ done_queue'[n].id \in DOMAIN service'
               /\ service'[done_queue'[n].id] = "FUNC_SUCCEEDED" =>
                    \A m \in 1 .. n : done_queue'[m].id # requests[done_queue'[n].id].target
    <3>1. CASE n \in 1 .. k
      BY <2>1, <2>3, <3>1
    <3>2. CASE n = k + 1
      BY <1>2, <1>4, <2>3, <3>2
    <3>3. CASE n = k + 2
      BY <1>2, <2>2, <3>3
    <3> QED BY <1>3, <3>1, <3>2, <3>3
  <2> QED BY <1>1, <1>2, <2>3 DEF ServiceInv
<1> QED BY <1>6, <1>7

LEMMA RequestAnswersNext ==
  ASSUME PackageInv, PackageInv', ClassInv, RequestInv, AbortedInv, ServiceInv, TagsDistinct,
         [AnyNext]_vars, [TmNext]_<<vars, tmVars>>
  PROVE  AbortedInv' /\ ServiceInv'
<1>1. CASE done_queue' = <<>>
  BY <1>1, EmptyRequests
<1>2. CASE done_queue' = done_queue /\ requests' = requests /\ service' = service
  <2>1. SameList \/ done_queue' = <<>>
    BY ListEffects DEF PackageInv, Extended
  <2> QED BY <1>1, <1>2, <2>1, QuietRequests
<1>3. CASE Push
  <2>1. done_queue' = done_queue
    BY <1>3 DEF Push, PushAbortTask, PushQueryTask, PushRequest, Enqueue, testerVars
  <2> QED BY <1>1, <1>2, <1>3, <2>1, PushEffect DEF PackageInv, Extended
<1>4. CASE Device
  BY <1>4, RequestAnswers, RequestAborts DEF Device
<1>5. CASE Rest
  <2>1. CASE cmd_list' = <<>>
    <3>1. InOrder(<<>>, done_queue')
      BY <2>1 DEF PackageInv, AnswersInv
    <3>2. done_queue' = <<>>
      <4> DEFINE q == done_queue'
      <4>1. q \in Seq(ReplyType) /\ \A n \in 1 .. Len(q) : q[n].id \in 1 .. 0
        BY <3>1 DEF InOrder
      <4> HIDE DEF q
      <4>2. Len(q) \in Nat /\ 1 .. 0 = {}
        BY <4>1
      <4>3. Len(q) = 0
        BY <4>1, <4>2
      <4>4. q = <<>>
        BY <4>1, <4>3
      <4> QED BY <4>4 DEF q
    <3> QED BY <1>1, <3>2
  <2>2. CASE requests' = requests /\ service' = service
    <3>1. CASE PatternNext \/ SendNext \/ TesterIssue
      BY <1>1, <1>2, <2>2, <3>1, HostQueue
    <3>2. ASSUME NEW i \in outstanding, IsScsi(i), TesterComplete(i) PROVE AbortedInv' /\ ServiceInv'
      BY <2>2, <3>2, OtherAnswers
    <3> QED BY <1>5, <3>1, <3>2 DEF Rest
  <2> QED BY <1>5, <2>1, <2>2 DEF Rest, tmVars
<1>6. CASE UNCHANGED <<vars, tmVars>>
  BY <1>2, <1>6 DEF vars, testerVars, tmVars
<1> QED BY <1>3, <1>4, <1>5, <1>6 DEF TmNext

TmInv == PackageInv /\ RequestsInv

LEMMA TmInvInit == TmInit => TmInv
<1> SUFFICES ASSUME TmInit PROVE TmInv
  OBVIOUS
<1>1. PackageInv
  BY PackageInit DEF TmInit
<1>2. cmd_list = <<>> /\ done_queue = <<>> /\ requests = NoFunction
  BY DEF TmInit, Init
<1>3. Len(cmd_list) = 0 /\ Len(done_queue) = 0 /\ DOMAIN requests = {}
  BY <1>2 DEF NoFunction
<1>4. ClassInv /\ RequestInv /\ SentInv /\ AbortedInv /\ ServiceInv
  BY <1>2, <1>3 DEF ClassInv, RequestInv, SentInv, AbortedInv, ServiceInv
<1> QED BY <1>1, <1>4 DEF TmInv, RequestsInv

LEMMA TmInvNext == TmInv /\ TagsDistinct /\ [TmNext]_<<vars, tmVars>> => TmInv'
<1> SUFFICES ASSUME TmInv, TagsDistinct, [TmNext]_<<vars, tmVars>> PROVE TmInv'
  OBVIOUS
<1>1. /\ PackageInv /\ TypeOK /\ QueueInv /\ EncodedInv
      /\ ClassInv /\ RequestInv /\ SentInv /\ AbortedInv /\ ServiceInv
  BY DEF TmInv, RequestsInv, PackageInv
<1>2. [AnyNext]_vars
  BY <1>1, TmNextIsAny
<1>3. PackageInv'
  BY <1>1, <1>2, PackageNext
<1>4. ClassInv' /\ SentInv' /\ RequestInv'
  BY <1>1, <1>2, ClassNext, SentNext, RequestNext
<1>5. AbortedInv' /\ ServiceInv'
  BY <1>1, <1>2, <1>3, RequestAnswersNext
<1> QED BY <1>3, <1>4, <1>5 DEF TmInv, RequestsInv

LEMMA TmAlways == TmSpec /\ []TagsDistinct => []TmInv
  BY TmInvInit, TmInvNext, PTL DEF TmSpec

(* While tags are not repeated within a package, what the device aborts is *)
(* the command at the index the pattern gave to push_abort_task.           *)
THEOREM AbortsHitTheirTargets == TmSpec /\ []TagsDistinct => []AbortHitsItsTarget
<1>1. TmInv => AbortHitsItsTarget
  <2> SUFFICES ASSUME TmInv, NEW i \in 1 .. Len(cmd_list), Aborted(i)
               PROVE  \E tm \in DOMAIN requests :
                        requests[tm].function = "ABORT_TASK" /\ requests[tm].target = i
    BY DEF AbortHitsItsTarget
  <2>1. DOMAIN done_queue = 1 .. Len(done_queue)
    BY DEF TmInv, PackageInv, AnswersInv, InOrder
  <2>2. PICK n \in 1 .. Len(done_queue) : done_queue[n] = [key |-> Aborting, id |-> i]
    BY <2>1 DEF Aborted, Aborting
  <2>3. done_queue[n].key = Aborting /\ done_queue[n].id = i
    BY <2>2
  <2> QED BY <2>3 DEF TmInv, RequestsInv, AbortedInv
<1> QED BY <1>1, TmAlways, PTL

(* Of a package without repeated tags a response is found just for the     *)
(* commands that were answered, a request among them.                      *)
LEMMA FoundIsAnswered ==
  ASSUME TmInv, TagsDistinct, NEW i \in 1 .. Len(cmd_list), HasResponse(i)
  PROVE  /\ ReadResponse(i).id = i
         /\ \E n \in 1 .. Len(done_queue) : done_queue[n].id = i /\ done_queue[n].key = cmd_list[i].key
<1>1. TypeOK /\ ResponseInv /\ InOrder(cmd_list, done_queue)
  BY DEF TmInv, PackageInv, ResponseInv, AnswersInv
<1>2. PICK n \in 1 .. Len(done_queue) :
        ReadResponse(i) = done_queue[n] /\ done_queue[n].key = cmd_list[i].key
  BY <1>1, ReadsItsOwn
<1>3. done_queue[n].id = i
  <2>1. cmd_list[i].key # Aborting
    BY <1>1, ListKey
  <2>2. done_queue[n].id \in 1 .. Len(cmd_list) /\ done_queue[n].key \in {Aborting, cmd_list[done_queue[n].id].key}
    BY <1>1 DEF InOrder
  <2>3. cmd_list[done_queue[n].id].key = cmd_list[i].key
    BY <1>2, <2>1, <2>2
  <2> QED BY <2>2, <2>3 DEF TagsDistinct
<1> QED BY <1>2, <1>3

LEMMA AnsweredIsFound ==
  ASSUME TmInv, TagsDistinct, rsp_offset # NoFunction, NEW i \in 1 .. Len(cmd_list),
         Answered(i)
  PROVE  HasResponse(i) /\ ~Aborted(i)
<1>1. TypeOK /\ InOrder(cmd_list, done_queue) /\ PackageInv /\ SentInv /\ FoundInv
  BY DEF TmInv, PackageInv, RequestsInv, AnswersInv
<1>2. DOMAIN done_queue = 1 .. Len(done_queue) /\ cmd_list[i].key # Aborting
  BY <1>1, ListKey DEF InOrder
<1>3. PICK m \in 1 .. Len(done_queue) : done_queue[m].id = i /\ done_queue[m].key = cmd_list[i].key
  BY <1>2 DEF Answered
<1>4. ASSUME NEW n \in 1 .. Len(done_queue), done_queue[n].id = i PROVE done_queue[n].key # Aborting
  BY <1>1, <1>2, <1>3, <1>4 DEF InOrder
<1>5. ~Aborted(i)
  BY <1>2, <1>4 DEF Aborted, Aborting
<1>6. ~AbortedUpTo(i)
  <2> SUFFICES ASSUME NEW j \in 1 .. i, cmd_list[j].key = cmd_list[i].key,
                      NEW n \in DOMAIN done_queue, done_queue[n] = [key |-> Aborting, id |-> j]
               PROVE  FALSE
    BY DEF AbortedUpTo, Aborting
  <2>1. j \in 1 .. Len(cmd_list)
    BY <1>1 DEF TypeOK
  <2>2. j = i
    BY <2>1 DEF TagsDistinct
  <2> QED BY <1>2, <1>4, <2>2
<1>7. TagEncodable(cmd_list[i])
  <2>1. done_queue # <<>>
    BY <1>3
  <2> QED BY <1>1, <2>1 DEF SentInv
<1>8. cmd_list[i].ci \in DOMAIN RspOffsets(InfoBuf, Len(cmd_list))
  BY <1>1, <1>3, <1>6, <1>7, AnswerIsFiled
<1> QED BY <1>1, <1>5, <1>8 DEF FoundInv, HasResponse

(* The verdict on an abort is TRUE just when the device completed the      *)
(* request and the target answered all the same.                           *)
THEOREM VerdictsMatchAnswers == TmSpec /\ []TagsDistinct => []VerdictMatchesAnswers
<1>1. TmInv /\ TagsDistinct => VerdictMatchesAnswers
  <2> SUFFICES ASSUME TmInv, TagsDistinct, NEW tm \in DOMAIN requests, Checkable(tm, "ABORT_TASK")
               PROVE  CheckIfTargetIsAborted(requests[tm].target, tm)
                        <=> /\ service[tm] = "FUNC_COMPLETE"
                            /\ Answered(requests[tm].target) /\ ~Aborted(requests[tm].target)
    BY DEF VerdictMatchesAnswers
  <2> DEFINE target == requests[tm].target
  <2>1. tm \in 1 .. Len(cmd_list) /\ target \in 1 .. Len(cmd_list)
    <3>1. tm \in 1 .. Len(cmd_list) /\ target \in 1 .. tm - 1 /\ Len(cmd_list) \in Nat
      BY DEF TmInv, RequestsInv, RequestInv, PackageInv, TypeOK
    <3> QED BY <3>1
  <2>2. HasResponse(tm) /\ rsp_offset # NoFunction
    BY DEF Checkable, HasResponse, NoFunction
  <2>3. ReadResponse(tm).id = tm
    BY <2>1, <2>2, FoundIsAnswered
  <2>4. DOMAIN done_queue = 1 .. Len(done_queue) /\ done_queue \in Seq(ReplyType)
    BY DEF TmInv, PackageInv, AnswersInv, InOrder
  <2> HIDE DEF target
  <2>5. HasResponse(target) => Answered(target)
    <3> SUFFICES ASSUME HasResponse(target) PROVE Answered(target)
      OBVIOUS
    <3>1. PICK n \in 1 .. Len(done_queue) :
            done_queue[n].id = target /\ done_queue[n].key = cmd_list[target].key
      BY <2>1, FoundIsAnswered
    <3>2. done_queue[n] \in ReplyType
      BY <2>4
    <3>3. done_queue[n] = [key |-> done_queue[n].key, id |-> done_queue[n].id]
      BY <3>2 DEF ReplyType
    <3>4. done_queue[n] = [key |-> cmd_list[target].key, id |-> target]
      BY <3>1, <3>3, Zenon
    <3> QED BY <2>4, <3>4 DEF Answered
  <2>6. Answered(target) => HasResponse(target) /\ ~Aborted(target)
    BY <2>1, <2>2, AnsweredIsFound
  <2> QED BY <2>3, <2>5, <2>6 DEF CheckIfTargetIsAborted, ServiceResponse, target
<1> QED BY <1>1, TmAlways, PTL

(* A query that succeeded saw its target in flight.                        *)
THEOREM QueriesSeeTheTarget == TmSpec /\ []TagsDistinct => []QueriedInFlight
<1>1. TmInv /\ TagsDistinct => QueriedInFlight
  <2> SUFFICES ASSUME TmInv, TagsDistinct, NEW tm \in DOMAIN requests, Checkable(tm, "QUERY_TASK"),
                      CheckIfQuerySucceeded(tm),
                      NEW m \in DOMAIN done_queue, NEW n \in DOMAIN done_queue,
                      done_queue[m].id = requests[tm].target, done_queue[n].id = tm
               PROVE  n < m
    BY DEF QueriedInFlight
  <2>1. tm \in 1 .. Len(cmd_list)
    BY DEF TmInv, RequestsInv, RequestInv
  <2>2. service[tm] = "FUNC_SUCCEEDED"
    BY <2>1, FoundIsAnswered DEF Checkable, CheckIfQuerySucceeded, ServiceResponse
  <2>3. /\ DOMAIN done_queue = 1 .. Len(done_queue) /\ Len(done_queue) \in Nat
        /\ n \in 1 .. Len(done_queue) /\ m \in 1 .. Len(done_queue)
    BY DEF TmInv, PackageInv, AnswersInv, InOrder
  <2>4. m \notin 1 .. n
    BY <2>2, <2>3 DEF TmInv, RequestsInv, ServiceInv
  <2> QED BY <2>3, <2>4
<1> QED BY <1>1, TmAlways, PTL
=============================================================================
