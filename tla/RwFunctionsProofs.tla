-------------------------- MODULE RwFunctionsProofs --------------------------
(***************************************************************************)
(* Theorems about the read and write helpers, for any units, capacities    *)
(* and requests.                                                           *)
(***************************************************************************)
EXTENDS RwFunctions, SequenceTheorems, TLAPS

USE HelpersAssumption DEF Luns

-----------------------------------------------------------------------------
(* The extents of a unit. *)

NodeIn(lun, n) ==
  /\ n = Node(n.start, n.end, n.data)
  /\ n.start \in Nat /\ n.end \in Nat
  /\ n.start <= n.end /\ n.end < Capacity[lun]

Disjoint(nodes) ==
  \A m, n \in nodes : \A l \in Nat :
    l \in m.start .. m.end /\ l \in n.start .. n.end => m = n

UnitRecord(lun, nodes) == (\A n \in nodes : NodeIn(lun, n)) /\ Disjoint(nodes)

(* A block has the data of the extent that holds it, whichever is picked.  *)
LEMMA RecordedByHolder ==
  ASSUME NEW nodes, Disjoint(nodes), NEW n \in nodes, NEW l \in Nat, l \in n.start .. n.end
  PROVE  RecordedIn(nodes, l) = n.data
<1> DEFINE holders == {m \in nodes : l \in m.start .. m.end}
<1>1. n \in holders
  OBVIOUS
<1>2. \A m \in holders : m = n
  BY DEF Disjoint
<1>3. (CHOOSE m \in holders : TRUE) = n
  BY <1>1, <1>2
<1> QED BY <1>1, <1>3 DEF RecordedIn

LEMMA RecordedByNobody ==
  ASSUME NEW nodes, NEW l \in Nat, \A n \in nodes : l \notin n.start .. n.end
  PROVE  RecordedIn(nodes, l) = NONE
  BY DEF RecordedIn

(* Cutting keeps exactly the blocks outside the new extent.                *)
LEMMA CutFacts ==
  ASSUME NEW lun \in Luns, NEW old, NodeIn(lun, old), NEW new, NodeIn(lun, new)
  PROVE  /\ \A m \in Cut(old, new) :
              /\ NodeIn(lun, m) /\ m.data = old.data
              /\ \A l \in Nat : l \in m.start .. m.end =>
                   l \in old.start .. old.end /\ l \notin new.start .. new.end
         /\ \A l \in Nat : l \in old.start .. old.end /\ l \notin new.start .. new.end =>
              \E m \in Cut(old, new) : l \in m.start .. m.end
         /\ Disjoint(Cut(old, new))
<1>0. /\ old.start \in Nat /\ old.end \in Nat /\ new.start \in Nat /\ new.end \in Nat
      /\ old.start <= old.end /\ new.start <= new.end /\ old.end < Capacity[lun]
      /\ old = Node(old.start, old.end, old.data)
      /\ Capacity[lun] \in Nat
  BY DEF NodeIn
<1>1. CASE old.end < new.start \/ old.start > new.end
  <2>1. Cut(old, new) = {old}
    BY <1>1 DEF Cut
  <2> QED BY <1>0, <1>1, <2>1 DEF NodeIn, Disjoint
<1>2. CASE ~(old.end < new.start \/ old.start > new.end)
  <2> DEFINE head == Node(old.start, new.start - 1, old.data)
             tail == Node(new.end + 1, old.end, old.data)
  <2>1. Cut(old, new) = {n \in {head, tail} : n.start <= n.end}
    BY <1>2 DEF Cut
  <2>2. /\ head.start = old.start /\ head.end = new.start - 1 /\ head.data = old.data
        /\ tail.start = new.end + 1 /\ tail.end = old.end /\ tail.data = old.data
    BY DEF Node
  <2>3. /\ head = Node(head.start, head.end, head.data)
        /\ tail = Node(tail.start, tail.end, tail.data)
    BY <2>2
  <2> HIDE DEF head, tail
  <2>4. ASSUME NEW m \in Cut(old, new)
        PROVE  /\ NodeIn(lun, m) /\ m.data = old.data
               /\ \A l \in Nat : l \in m.start .. m.end =>
                    l \in old.start .. old.end /\ l \notin new.start .. new.end
    <3>1. CASE m = head /\ head.start <= head.end
      <4>1. m = Node(m.start, m.end, m.data)
        BY ONLY <2>3, <3>1
      <4>2. m.start = head.start /\ m.end = head.end /\ m.data = head.data
        BY ONLY <3>1
      <4>a. m.start = old.start /\ m.end = new.start - 1 /\ old.start <= new.start - 1
        BY ONLY <2>2, <3>1, <4>2
      <4>b. new.start <= old.end
        BY ONLY <1>0, <1>2
      <4>3. m.start \in Nat /\ m.end \in Nat /\ m.start <= m.end /\ m.end < Capacity[lun]
        BY ONLY <1>0, <4>a, <4>b
      <4>4. \A l \in Nat : l \in m.start .. m.end =>
              l \in old.start .. old.end /\ l \notin new.start .. new.end
        BY <1>0, <1>2, <2>2, <4>2, <4>3
      <4> QED BY <2>2, <4>1, <4>2, <4>3, <4>4 DEF NodeIn
    <3>2. CASE m = tail /\ tail.start <= tail.end
      <4>1. m = Node(m.start, m.end, m.data)
        BY ONLY <2>3, <3>2
      <4>2. m.start = tail.start /\ m.end = tail.end /\ m.data = tail.data
        BY ONLY <3>2
      <4>3. m.start \in Nat /\ m.end \in Nat /\ m.start <= m.end /\ m.end < Capacity[lun]
        BY <1>0, <1>2, <2>2, <3>2, <4>2
      <4>4. \A l \in Nat : l \in m.start .. m.end =>
              l \in old.start .. old.end /\ l \notin new.start .. new.end
        BY <1>0, <1>2, <2>2, <4>2, <4>3
      <4> QED BY <2>2, <4>1, <4>2, <4>3, <4>4 DEF NodeIn
    <3> QED BY <2>1, <3>1, <3>2
  <2>5. ASSUME NEW l \in Nat, l \in old.start .. old.end, l \notin new.start .. new.end
        PROVE  \E m \in Cut(old, new) : l \in m.start .. m.end
    <3>1. CASE l < new.start
      BY <1>0, <2>1, <2>2, <2>5, <3>1
    <3>2. CASE l > new.end
      BY <1>0, <2>1, <2>2, <2>5, <3>2
    <3> QED BY <1>0, <2>5, <3>1, <3>2
  <2>6. Disjoint(Cut(old, new))
    <3>1. \A l \in Nat : ~(l \in head.start .. head.end /\ l \in tail.start .. tail.end)
      BY ONLY <1>0, <2>2
    <3>2. \A m \in Cut(old, new) : m = head \/ m = tail
      BY ONLY <2>1
    <3> QED BY <3>1, <3>2, Zenon DEF Disjoint
  <2> QED BY <2>4, <2>5, <2>6
<1> QED BY <1>1, <1>2

(* What a save does to a unit: its extents stay in the unit and disjoint,  *)
(* its own blocks get its data and the others keep theirs.                 *)
LEMMA SaveFacts ==
  ASSUME NEW lun \in Luns, NEW nodes, UnitRecord(lun, nodes), NEW new, NodeIn(lun, new)
  PROVE  /\ UnitRecord(lun, Save(nodes, new))
         /\ \A l \in Nat : RecordedIn(Save(nodes, new), l) =
              IF l \in new.start .. new.end THEN new.data ELSE RecordedIn(nodes, l)
<1> DEFINE saved_ == Save(nodes, new)
<1> DEFINE pieces == {Cut(old, new) : old \in nodes}
<1>a. saved_ = {new} \cup UNION pieces
  BY DEF Save
<1>b. \A p \in pieces : \E old \in nodes : p = Cut(old, new)
  OBVIOUS
<1>c. \A old \in nodes : Cut(old, new) \in pieces
  OBVIOUS
<1> HIDE DEF saved_, pieces
<1>1. \A m \in saved_ : m = new \/ \E old \in nodes : m \in Cut(old, new)
  <2>1. \A m \in saved_ : m = new \/ \E p \in pieces : m \in p
    BY ONLY <1>a
  <2> QED BY ONLY <1>b, <2>1
<1>2. new \in saved_ /\ \A old \in nodes : Cut(old, new) \subseteq saved_
  BY ONLY <1>a, <1>c
<1>3. \A old \in nodes : NodeIn(lun, old)
  BY DEF UnitRecord
<1>4. ASSUME NEW m \in saved_
      PROVE  NodeIn(lun, m)
  BY <1>1, <1>3, CutFacts
<1>5. ASSUME NEW m \in saved_, NEW n \in saved_, NEW l \in Nat,
             l \in m.start .. m.end, l \in n.start .. n.end
      PROVE  m = n
  <2>1. CASE m = new /\ n = new
    BY <2>1
  <2>2. CASE m # new /\ n = new
    <3>1. PICK old \in nodes : m \in Cut(old, new)
      BY <1>1, <2>2
    <3> QED BY <1>3, <1>5, <2>2, <3>1, CutFacts
  <2>3. CASE m = new /\ n # new
    <3>1. PICK old \in nodes : n \in Cut(old, new)
      BY <1>1, <2>3
    <3> QED BY <1>3, <1>5, <2>3, <3>1, CutFacts
  <2>4. CASE m # new /\ n # new
    <3>1. PICK o \in nodes : m \in Cut(o, new)
      BY <1>1, <2>4
    <3>2. PICK p \in nodes : n \in Cut(p, new)
      BY <1>1, <2>4
    <3>3. l \in o.start .. o.end /\ l \in p.start .. p.end
      BY <1>3, <1>5, <3>1, <3>2, CutFacts
    <3>4. o = p
      BY <3>3 DEF UnitRecord, Disjoint
    <3>5. Disjoint(Cut(o, new))
      BY <1>3, CutFacts
    <3> QED BY <1>5, <3>1, <3>2, <3>4, <3>5 DEF Disjoint
  <2> QED BY <2>1, <2>2, <2>3, <2>4
<1>6. UnitRecord(lun, saved_)
  BY <1>4, <1>5 DEF UnitRecord, Disjoint
<1>7. ASSUME NEW l \in Nat
      PROVE  RecordedIn(saved_, l) =
               IF l \in new.start .. new.end THEN new.data ELSE RecordedIn(nodes, l)
  <2>0. Disjoint(saved_) /\ Disjoint(nodes)
    BY <1>6 DEF UnitRecord
  <2>1. CASE l \in new.start .. new.end
    BY <1>2, <2>0, <2>1, RecordedByHolder
  <2>2. CASE l \notin new.start .. new.end /\ \E old \in nodes : l \in old.start .. old.end
    <3>1. PICK old \in nodes : l \in old.start .. old.end
      BY <2>2
    <3>2. PICK m \in Cut(old, new) : l \in m.start .. m.end
      BY <1>3, <2>2, <3>1, CutFacts
    <3>3. m.data = old.data
      BY <1>3, <3>2, CutFacts
    <3>4. RecordedIn(saved_, l) = m.data
      BY <1>2, <2>0, <3>2, RecordedByHolder
    <3>5. RecordedIn(nodes, l) = old.data
      BY <2>0, <3>1, RecordedByHolder
    <3> QED BY <2>2, <3>3, <3>4, <3>5
  <2>3. CASE l \notin new.start .. new.end /\ \A old \in nodes : l \notin old.start .. old.end
    <3>1. \A m \in saved_ : l \notin m.start .. m.end
      BY <1>1, <1>3, <2>3, CutFacts
    <3> QED BY <2>3, <3>1, RecordedByNobody
  <2> QED BY <2>1, <2>2, <2>3
<1> QED BY <1>6, <1>7 DEF saved_

-----------------------------------------------------------------------------
(* The inductive invariant. *)

IsList(s) == \E S : s \in Seq(S)

LEMMA AppendFacts ==
  ASSUME NEW s, IsList(s), NEW c
  PROVE  /\ IsList(Append(s, c))
         /\ DOMAIN Append(s, c) = DOMAIN s \cup {Len(s) + 1}
         /\ Len(s) \in Nat /\ DOMAIN s = 1 .. Len(s)
         /\ Len(Append(s, c)) = Len(s) + 1
         /\ \A i \in DOMAIN s : Append(s, c)[i] = s[i]
         /\ Append(s, c)[Len(s) + 1] = c
<1>1. PICK S : s \in Seq(S)
  BY DEF IsList
<1> DEFINE T == S \cup {c}
<1>2. s \in Seq(T) /\ c \in T
  BY <1>1, SeqMonotonic
<1> HIDE DEF T
<1> QED BY <1>2 DEF IsList

(* A command keeps inside its unit and expects only blocks of units; only  *)
(* reads are compared, and on all their blocks.                            *)
CommandIn(c) ==
  /\ CommandOk(c)
  /\ c.length # 0
  /\ c.start + c.length <= Capacity[c.lun]
  /\ DOMAIN c.expect \subseteq AllBlocks
  /\ c.compare # "none" => c.kind = "read" /\ DOMAIN c.expect = BlocksOf(c)

PackageOk == IsList(cmd_list) /\ \A i \in DOMAIN cmd_list : CommandIn(cmd_list[i])

(* Until the helper records, the record is what it was when the            *)
(* expectations were taken from it.                                        *)
Expectations ==
  pc # "save" =>
    \A i \in DOMAIN cmd_list : \A b \in DOMAIN cmd_list[i].expect :
      cmd_list[i].expect[b] = Recorded(b)

World ==
  /\ DOMAIN write_record = Luns
  /\ \A l \in Luns : UnitRecord(l, write_record[l])
  /\ DOMAIN device = Luns
  /\ \A l \in Luns : DOMAIN device[l] = 0 .. Capacity[l] - 1
  /\ doubt \subseteq AllBlocks

(* What a command of the package has come to: executed, its blocks are in  *)
(* doubt and hold its data if nothing else wrote them; recorded, so is the *)
(* record.                                                                 *)
ServedSoFar ==
  \A i \in served : Changes(cmd_list[i]) =>
    \A b \in BlocksOf(cmd_list[i]) :
      b \in doubt /\ (Writers(b) = {i} => Held(b) = cmd_list[i].data)

SavedSoFar ==
  \A i \in 1 .. saved : Changes(cmd_list[i]) =>
    \A b \in BlocksOf(cmd_list[i]) : Writers(b) = {i} => Recorded(b) = cmd_list[i].data

Progress ==
  /\ served \subseteq DOMAIN cmd_list
  /\ pc \notin {"running", "save"} => served = {}
  /\ ServedSoFar
  /\ pc = "save" => served = DOMAIN cmd_list /\ saved \in 0 .. Len(cmd_list) /\ SavedSoFar

(* The locals of the helper that runs.                                     *)
NodeStages == {"plain", "erased", "sw"}

Locals ==
  /\ req \in RequestType
  /\ pc = "draw" => req.fn \in RandomHelpers /\ _max_lba <= req.max_lba
  /\ pc = "chunk" => at \in Luns /\ lba + left <= Capacity[at]
  /\ pc \in {"idle", "draw", "unit", "chunk", "save"} => stage = "none"
  /\ pc = "compare" => stage # "none"
  /\ IF stage \in NodeStages THEN at \in Luns /\ todo \subseteq write_record[at] ELSE todo = {}

Types ==
  /\ is_cmd_sent \in BOOLEAN /\ read_hw_compare \in BOOLEAN /\ read10 \in BOOLEAN
  /\ mark_tag \in Nat
  /\ pc \in {"idle", "draw", "unit", "chunk", "compare", "running", "save"}
  /\ left \in Nat /\ lba \in Nat /\ _max_lba \in Nat
  /\ at \in Int
  /\ stage \in {"none", "unit", "plain", "erased", "sw"}

Blame == blame \subseteq doubt /\ (pc # "idle" => blame = {})

IInv ==
  /\ Types /\ Locals
  /\ PackageOk /\ Expectations
  /\ World /\ RecordMatchesDevice
  /\ Progress /\ Blame

LEMMA Initially == Init => IInv
<1> SUFFICES ASSUME Init PROVE IInv
  OBVIOUS
<1>a. NoRequest \in RequestType
  BY DEF NoRequest, RequestType
<1>0. /\ is_cmd_sent = FALSE /\ read_hw_compare = FALSE /\ read10 = FALSE
      /\ mark_tag = 0 /\ pc = "idle" /\ left = 0 /\ at = 0 /\ lba = 0 /\ _max_lba = 0
      /\ stage = "none"
  BY DEF Init
<1>1. is_cmd_sent \in BOOLEAN /\ read_hw_compare \in BOOLEAN /\ read10 \in BOOLEAN
  BY ONLY <1>0, Zenon
<1>b. Types
  BY ONLY <1>0, <1>1 DEF Types
<1>c. Locals
  BY <1>a DEF Init, Locals, NodeStages
<1>d. Progress /\ Blame
  BY DEF Init, Progress, Blame, ServedSoFar
<1>2. PackageOk /\ Expectations
  BY DEF Init, PackageOk, Expectations, IsList
<1>3. World
  BY DEF Init, World, UnitRecord, Disjoint
<1>4. ASSUME NEW lun \in Luns, NEW l \in 0 .. Capacity[lun] - 1
      PROVE  Recorded(<<lun, l>>) = Held(<<lun, l>>)
  <2>1. Recorded(<<lun, l>>) = NONE
    BY RecordedByNobody DEF Init, Recorded
  <2> QED BY <2>1 DEF Init, Held
<1>5. RecordMatchesDevice
  BY <1>4 DEF RecordMatchesDevice, AllBlocks
<1> QED BY <1>b, <1>c, <1>d, <1>2, <1>3, <1>5 DEF IInv

-----------------------------------------------------------------------------
(* Steps that change neither the record nor the medium. *)

LEMMA SameWorld ==
  ASSUME World, RecordMatchesDevice, UNCHANGED worldVars
  PROVE  /\ World' /\ RecordMatchesDevice'
         /\ \A b : Recorded(b)' = Recorded(b)
  BY DEF World, RecordMatchesDevice, worldVars, Recorded, Held

(* The package stays or is cleared, and none runs afterwards, or one       *)
(* starts to.                                                              *)
LEMMA QuietStep ==
  ASSUME IInv, pc # "save", pc' # "save",
         UNCHANGED worldVars,
         cmd_list' = cmd_list \/ cmd_list' = <<>>,
         served' = {},
         blame' \subseteq doubt, pc' # "idle" => blame' = {},
         Types', Locals'
  PROVE  IInv'
<1>1. World' /\ RecordMatchesDevice' /\ \A b : Recorded(b)' = Recorded(b)
  BY SameWorld DEF IInv
<1>2. PackageOk' /\ Expectations'
  <2>1. CASE cmd_list' = cmd_list
    BY <1>1, <2>1 DEF IInv, PackageOk, Expectations
  <2>2. CASE cmd_list' = <<>>
    BY <2>2 DEF PackageOk, Expectations, IsList
  <2> QED BY <2>1, <2>2
<1>3. Progress'
  BY DEF Progress, ServedSoFar
<1>4. Blame'
  BY DEF Blame, worldVars
<1> QED BY <1>1, <1>2, <1>3, <1>4 DEF IInv

LEMMA EnqueueStep ==
  ASSUME IInv, pc \notin {"running", "save"}, pc' = pc,
         NEW c, CommandIn(c), \A b \in DOMAIN c.expect : c.expect[b] = Recorded(b),
         cmd_list' = Append(cmd_list, c),
         UNCHANGED <<worldVars, served, blame>>,
         Types', Locals'
  PROVE  IInv'
<1>1. World' /\ RecordMatchesDevice' /\ \A b : Recorded(b)' = Recorded(b)
  BY SameWorld DEF IInv
<1>2. /\ IsList(cmd_list') /\ DOMAIN cmd_list' = DOMAIN cmd_list \cup {Len(cmd_list) + 1}
      /\ \A i \in DOMAIN cmd_list : cmd_list'[i] = cmd_list[i]
      /\ cmd_list'[Len(cmd_list) + 1] = c
  BY AppendFacts DEF IInv, PackageOk
<1>3. PackageOk'
  BY <1>2 DEF IInv, PackageOk
<1>4. Expectations'
  BY <1>1, <1>2 DEF IInv, Expectations
<1>5. Progress'
  BY DEF IInv, Progress, ServedSoFar
<1>6. Blame'
  BY DEF IInv, Blame, worldVars
<1> QED BY <1>1, <1>3, <1>4, <1>5, <1>6 DEF IInv

LEMMA LeaveStep ==
  ASSUME IInv, pc # "save", NEW result, Leave(result),
         UNCHANGED worldVars,
         \/ UNCHANGED <<packageVars, mark_tag>>
         \/ ClearPackage /\ UNCHANGED mark_tag,
         blame' \subseteq doubt
  PROVE  IInv'
<1>1. /\ pc' = "idle" /\ req' = NoRequest /\ left' = 0 /\ at' = 0 /\ lba' = 0 /\ _max_lba' = 0
      /\ stage' = "none" /\ todo' = {} /\ served' = {}
      /\ read10' \in BOOLEAN /\ read_hw_compare' \in BOOLEAN
  BY Zenon DEF Leave
<1>2. is_cmd_sent' \in BOOLEAN /\ mark_tag' \in Nat
  BY DEF IInv, Types, ClearPackage, packageVars
<1>3. Types'
  BY <1>1, <1>2 DEF Types
<1>4. NoRequest \in RequestType
  BY DEF NoRequest, RequestType
<1>5. Locals'
  BY <1>1, <1>4 DEF Locals, NodeStages
<1>6. cmd_list' = cmd_list \/ cmd_list' = <<>>
  BY DEF ClearPackage, packageVars
<1> QED BY <1>1, <1>3, <1>5, <1>6, QuietStep

LEMMA RaiseStep ==
  ASSUME IInv, pc # "save", Raise, blame' \subseteq doubt
  PROVE  IInv'
  BY LeaveStep DEF Raise

LEMMA SendStep ==
  ASSUME IInv, pc \notin {"running", "save"}, pc # "idle",
         NEW hw \in BOOLEAN, Send(hw)
  PROVE  IInv'
<1>0. blame = {} /\ blame' = blame
  BY DEF IInv, Blame, Send
<1>1. CASE is_cmd_sent
  <2>1. Raise
    BY <1>1 DEF Send
  <2> QED BY <1>0, <2>1, RaiseStep
<1>2. CASE ~is_cmd_sent
  <2>1. /\ is_cmd_sent' \in BOOLEAN /\ read_hw_compare' \in BOOLEAN
        /\ pc' = "running" /\ served' = {}
        /\ UNCHANGED <<cmd_list, mark_tag, loopVars, compareVars, worldVars>>
    BY <1>2, Zenon DEF Send
  <2>2. Types'
    BY <2>1 DEF IInv, Types, loopVars, compareVars
  <2>3. Locals'
    BY <2>1 DEF IInv, Locals, loopVars, compareVars, worldVars
  <2> QED BY <1>0, <2>1, <2>2, <2>3, QuietStep
<1> QED BY <1>1, <1>2

-----------------------------------------------------------------------------
(* One lemma per action. *)

LEMMA CallStep ==
  ASSUME IInv, NEW r \in Requests, Call(r)
  PROVE  IInv'
<1>1. /\ pc = "idle" /\ blame' = {}
      /\ UNCHANGED <<packageVars, read_hw_compare, mark_tag, worldVars, served>>
  BY DEF Call
<1>2. served' = {}
  BY <1>1 DEF IInv, Progress
<1>3. stage = "none" /\ todo = {}
  BY <1>1 DEF IInv, Locals, NodeStages
<1>4. CASE WrongArguments(r)
  <2>1. UNCHANGED <<pc, loopVars, compareVars>>
    BY <1>4 DEF Call
  <2>2. Types'
    BY <1>1, <2>1 DEF IInv, Types, loopVars, compareVars, packageVars
  <2>3. Locals'
    BY <1>1, <2>1 DEF IInv, Locals, loopVars, compareVars, worldVars
  <2> QED BY <1>1, <1>2, <2>1, <2>2, <2>3, QuietStep DEF packageVars
<1>5. CASE ~WrongArguments(r)
  <2>0. /\ r \in RequestType
        /\ r.fn = "sequential" => r.min_lun \in Luns /\ r.min_lba + r.count <= Capacity[r.min_lun]
    OBVIOUS
  <2>1. /\ r.count \in Nat /\ r.min_lba \in Nat /\ r.max_lba \in Nat /\ r.min_lun \in Nat
        /\ r.fn \in RandomHelpers \cup {"sequential", "all", "compare"}
    BY <2>0 DEF RequestType
  <2>2. /\ req' = r /\ left' = r.count /\ lba' = r.min_lba
        /\ _max_lba' = IF r.fn = "write" THEN r.max_lba ELSE 0
    BY <1>5 DEF Call
  <2>3. CASE r.fn = "compare"
    <3>1. pc' = "compare" /\ at' = -1 /\ stage' = "unit" /\ todo' = {} /\ read10' = FALSE
      BY <1>5, <2>3 DEF Call, EnterCompare
    <3>2. read10' \in BOOLEAN
      BY <3>1, Zenon
    <3>3. Types'
      BY <1>1, <2>1, <2>2, <2>3, <3>1, <3>2 DEF IInv, Types, packageVars
    <3>4. Locals'
      BY <2>0, <2>2, <3>1 DEF Locals, NodeStages
    <3> QED BY <1>1, <1>2, <3>1, <3>3, <3>4, QuietStep DEF packageVars
  <2>4. CASE r.fn # "compare"
    <3>1. /\ UNCHANGED compareVars
          /\ at' = IF r.fn = "all" THEN -1 ELSE r.min_lun
          /\ pc' = CASE r.fn \in RandomHelpers -> "draw"
                     [] r.fn = "sequential" -> "chunk"
                     [] r.fn = "all" -> "unit"
      BY <1>5, <2>4 DEF Call
    <3>2. /\ pc' \in {"draw", "chunk", "unit"}
          /\ pc' = "chunk" => r.fn = "sequential"
          /\ pc' = "draw" => r.fn \in RandomHelpers
      BY <2>1, <2>4, <3>1 DEF RandomHelpers
    <3>a. at' \in Int /\ left' \in Nat /\ lba' \in Nat /\ _max_lba' \in Nat
      BY <2>1, <2>2, <3>1
    <3>3. Types'
      BY <1>1, <3>1, <3>2, <3>a DEF IInv, Types, packageVars, compareVars
    <3>4. _max_lba' <= r.max_lba
      BY <2>1, <2>2
    <3>5. pc' = "chunk" => at' \in Luns /\ lba' + left' <= Capacity[at']
      BY <2>0, <2>2, <3>1, <3>2
    <3>6. Locals'
      BY <1>3, <2>0, <2>2, <3>1, <3>2, <3>4, <3>5 DEF Locals, NodeStages, compareVars
    <3> QED BY <1>1, <1>2, <3>2, <3>3, <3>6, QuietStep DEF packageVars
  <2> QED BY <2>3, <2>4
<1> QED BY <1>4, <1>5

LEMMA PatternClearsStep ==
  ASSUME IInv, PatternClears
  PROVE  IInv'
<1>1. /\ pc = "idle" /\ ClearPackage
      /\ UNCHANGED <<read_hw_compare, mark_tag, pc, loopVars, compareVars, worldVars, served, blame>>
  BY DEF PatternClears
<1>2. is_cmd_sent' \in BOOLEAN /\ cmd_list' = <<>>
  BY <1>1, Zenon DEF ClearPackage
<1>3. Types'
  BY <1>1, <1>2 DEF IInv, Types, loopVars, compareVars
<1>4. Locals'
  BY <1>1 DEF IInv, Locals, loopVars, compareVars, worldVars
<1>5. served' = {} /\ blame' \subseteq doubt
  BY <1>1 DEF IInv, Progress, Blame
<1> QED BY <1>1, <1>2, <1>3, <1>4, <1>5, QuietStep

LEMMA DrawStuckStep ==
  ASSUME IInv, DrawStuck
  PROVE  IInv'
<1>1. pc = "draw" /\ Raise /\ blame' = blame
  BY DEF DrawStuck
<1> QED BY <1>1, RaiseStep DEF IInv, Blame

LEMMA SendDrawnStep ==
  ASSUME IInv, SendDrawn
  PROVE  IInv'
  BY SendStep DEF SendDrawn

LEMMA SendChunksStep ==
  ASSUME IInv, SendChunks
  PROVE  IInv'
<1>1. pc = "chunk" /\ ((Raise /\ UNCHANGED blame) \/ Send(FALSE))
  BY DEF SendChunks
<1> QED BY <1>1, SendStep, RaiseStep DEF IInv, Blame

LEMMA NextUnitStep ==
  ASSUME IInv, NextUnit
  PROVE  IInv'
<1>1. pc = "unit" /\ UNCHANGED <<packageVars, mark_tag, worldVars, blame>>
  BY DEF NextUnit
<1>2. CASE at + 1 \notin Luns
  <2>1. Leave("ok")
    BY <1>2 DEF NextUnit
  <2> QED BY <1>1, <2>1, LeaveStep DEF IInv, Blame
<1>3. CASE at + 1 \in Luns
  <2>1. /\ at' = at + 1
        /\ UNCHANGED <<req, _max_lba, compareVars, read_hw_compare, served>>
        /\ IF at + 1 \in Enabled
           THEN pc' = "chunk" /\ left' = Capacity[at + 1] /\ lba' = 0
           ELSE UNCHANGED <<pc, left, lba>>
    BY <1>3 DEF NextUnit
  <2>2. stage = "none" /\ todo = {} /\ served = {} /\ blame = {} /\ req \in RequestType
    BY <1>1 DEF IInv, Locals, Progress, Blame, NodeStages
  <2>3. pc' \in {"chunk", "unit"}
    BY <1>1, <2>1
  <2>4. Types'
    BY <1>1, <1>3, <2>1, <2>3 DEF IInv, Types, packageVars, compareVars
  <2>5. pc' = "chunk" => at' \in Luns /\ lba' + left' <= Capacity[at']
    BY <1>1, <1>3, <2>1
  <2>6. Locals'
    BY <2>1, <2>2, <2>3, <2>5 DEF Locals, NodeStages, compareVars
  <2> QED BY <1>1, <2>1, <2>2, <2>3, <2>4, <2>6, QuietStep DEF packageVars
<1> QED BY <1>2, <1>3

(* The bounds of the draw.  The bound on the range of a random helper is   *)
(* never above the unit nor above what the caller gave.                    *)
LEMMA DrawFacts ==
  ASSUME IInv, pc = "draw",
         NEW lun \in Luns, NEW drawn \in req.min_size .. req.max_size,
         NEW start \in Starts(lun, DataLen(lun, drawn))
  PROVE  LET length == DataLen(lun, drawn)
             first  == IntoUnit(lun, start, length)
             end    == IF req.max_lba < Capacity[lun] THEN req.max_lba ELSE Capacity[lun]
         IN  /\ length \in Nat \ {0} /\ first \in Nat
             /\ first + length <= Capacity[lun]
             /\ Bound(lun) \in Nat /\ Bound(lun) <= req.max_lba
             /\ req.min_lba + length <= end => first >= req.min_lba /\ first + length <= end
<1> DEFINE length == DataLen(lun, drawn)
           first  == IntoUnit(lun, start, length)
           end    == IF req.max_lba < Capacity[lun] THEN req.max_lba ELSE Capacity[lun]
<1>1. /\ req.min_lba \in Nat /\ req.max_lba \in Nat
      /\ req.min_size \in Nat \ {0} /\ req.max_size \in Nat \ {0}
      /\ _max_lba \in Nat /\ _max_lba <= req.max_lba
      /\ Capacity[lun] \in Nat \ {0}
  BY DEF IInv, Locals, Types, RequestType
<1>2. length \in Nat \ {0} /\ length <= Capacity[lun]
  BY <1>1 DEF DataLen
<1>3. Bound(lun) \in Nat /\ Bound(lun) <= req.max_lba
  BY <1>1 DEF Bound
<1>4. start \in Nat /\ start >= req.min_lba
      /\ (start = req.min_lba \/ start + length <= Bound(lun))
  <2> HIDE DEF length
  <2>1. CASE Bound(lun) - length < req.min_lba
    BY <1>1, <2>1 DEF Starts, length
  <2>2. CASE ~(Bound(lun) - length < req.min_lba)
    <3>1. start \in req.min_lba .. Bound(lun) - length
      BY <2>2 DEF Starts, length
    <3> QED BY <1>1, <1>2, <1>3, <3>1
  <2> QED BY <2>1, <2>2
<1>5. first = IF start + length > Capacity[lun] THEN Capacity[lun] - length ELSE start
  BY DEF IntoUnit
<1>6. req.min_lba + length <= end => start + length <= end
  <2>1. CASE start = req.min_lba
    BY <2>1
  <2>2. CASE start + length <= Bound(lun) /\ req.max_lba >= Capacity[lun]
    BY <1>1, <2>2 DEF Bound
  <2>3. CASE start + length <= Bound(lun) /\ req.max_lba < Capacity[lun]
    BY <1>1, <1>2, <1>3, <1>4, <2>3
  <2> QED BY <1>1, <1>4, <2>1, <2>2, <2>3
<1> HIDE DEF length, first
<1>b. length \in Nat /\ Capacity[lun] \in Nat /\ length <= Capacity[lun] /\ start \in Nat
  BY <1>1, <1>2, <1>4
<1>7. first \in Nat /\ first + length <= Capacity[lun]
  <2>1. CASE start + length > Capacity[lun]
    <3>1. first = Capacity[lun] - length
      BY <1>5, <2>1
    <3> QED BY ONLY <1>b, <3>1
  <2>2. CASE ~(start + length > Capacity[lun])
    <3>1. first = start
      BY <1>5, <2>2
    <3> QED BY ONLY <1>b, <2>2, <3>1
  <2> QED BY <2>1, <2>2
<1>a. end <= Capacity[lun] /\ end \in Nat
  BY <1>1
<1> HIDE DEF end
<1>8. ASSUME req.min_lba + length <= end
      PROVE  first >= req.min_lba /\ first + length <= end
  <2>1. start + length <= end
    BY <1>6, <1>8
  <2>2. first = start
    BY <1>1, <1>2, <1>4, <1>5, <1>a, <2>1
  <2> QED BY <1>4, <2>1, <2>2
<1> QED BY <1>2, <1>3, <1>7, <1>8 DEF length, first, end

(* A command made for blocks of a unit keeps to them, and what it expects  *)
(* is what the record says now.                                            *)
FreshCommand(c) == CommandIn(c) /\ \A b \in DOMAIN c.expect : c.expect[b] = Recorded(b)

LEMMA CommandFacts ==
  ASSUME NEW lun \in Luns, NEW start \in Nat, NEW length \in Nat \ {0},
         start + length <= Capacity[lun], NEW mode, NEW compare
  PROVE  /\ FreshCommand(Write(lun, start, length, mode))
         /\ FreshCommand(Read(lun, start, length, mode, compare))
         /\ FreshCommand(Unmap(lun, start, length))
<1> DEFINE w == Write(lun, start, length, mode)
           r == Read(lun, start, length, mode, compare)
           u == Unmap(lun, start, length)
           blocks == {<<lun, l>> : l \in start .. start + length - 1}
<1>0. DOMAIN <<>> = {}
  OBVIOUS
<1>1. /\ w.kind = "write" /\ w.lun = lun /\ w.start = start /\ w.length = length /\ w.expect = <<>>
      /\ w.compare = "none"
  BY DEF Write, Command
<1>2. /\ u.kind = "erase" /\ u.lun = lun /\ u.start = start /\ u.length = length /\ u.expect = <<>>
      /\ u.compare = "none"
  BY DEF Unmap, Command
<1>3. /\ r.kind = "read" /\ r.lun = lun /\ r.start = start /\ r.length = length
      /\ r.expect = IF compare = "none" THEN <<>> ELSE Expectation(blocks)
      /\ r.compare = compare
  BY DEF Read, Command
<1>a. BlocksOf(r) = blocks
  BY <1>3 DEF BlocksOf
<1>4. \A b \in blocks : b \in AllBlocks
  <2>1. \A l \in start .. start + length - 1 : l \in 0 .. Capacity[lun] - 1
    OBVIOUS
  <2> QED BY <2>1 DEF AllBlocks
<1> HIDE DEF w, r, u, blocks
<1>5. /\ DOMAIN r.expect \subseteq AllBlocks /\ \A b \in DOMAIN r.expect : r.expect[b] = Recorded(b)
      /\ compare # "none" => DOMAIN r.expect = BlocksOf(r)
  <2>1. CASE compare = "none"
    BY <1>0, <1>3, <2>1
  <2>2. CASE compare # "none"
    <3>1. r.expect = [b \in blocks |-> Recorded(b)]
      BY <1>3, <2>2 DEF Expectation
    <3> QED BY <1>4, <1>a, <3>1
  <2> QED BY <2>1, <2>2
<1>6. FreshCommand(w)
  BY <1>0, <1>1 DEF FreshCommand, CommandIn, CommandOk
<1>7. FreshCommand(u)
  BY <1>0, <1>2 DEF FreshCommand, CommandIn, CommandOk
<1>8. FreshCommand(r)
  BY <1>3, <1>5 DEF FreshCommand, CommandIn, CommandOk
<1> QED BY <1>6, <1>7, <1>8 DEF w, r, u

LEMMA DrawStep ==
  ASSUME IInv, NEW lun \in Luns, NEW drawn \in req.min_size .. req.max_size,
         NEW start \in Starts(lun, DataLen(lun, drawn)), Draw(lun, drawn, start)
  PROVE  IInv'
<1> DEFINE length == DataLen(lun, drawn)
           first  == IntoUnit(lun, start, length)
           c      == DrawnCommand(lun, first, length)
<1>1. pc = "draw" /\ left > 0 /\ blame' = blame
  BY DEF Draw
<1>2. CASE Refused(c) \/ LookupRaises(lun)
  <2>1. Raise
    BY <1>2 DEF Draw
  <2> QED BY <1>1, <2>1, RaiseStep DEF IInv, Blame
<1>3. CASE ~(Refused(c) \/ LookupRaises(lun))
  <2>1. /\ Enqueue(c)
        /\ left' = left - 1
        /\ _max_lba' = Bound(lun)
        /\ UNCHANGED <<pc, req, at, lba, read_hw_compare, compareVars, worldVars, served, saved>>
    BY <1>3 DEF Draw
  <2>2. length \in Nat \ {0} /\ first \in Nat /\ first + length <= Capacity[lun]
    BY <1>1, DrawFacts
  <2>3. Bound(lun) \in Nat /\ Bound(lun) <= req.max_lba
    BY <1>1, DrawFacts
  <2> HIDE DEF length, first
  <2>4. req.fn \in RandomHelpers
    BY <1>1 DEF IInv, Locals
  <2>5. FreshCommand(c)
    <3>1. DrawnCommand(lun, first, length) \in
            {Write(lun, first, length, "HW_INCREASE"), Unmap(lun, first, length),
             Read(lun, first, length, "HW_INCREASE", ReadCompares(lun, first, length))}
      BY <2>4 DEF DrawnCommand, RandomHelpers
    <3>2. /\ FreshCommand(Write(lun, first, length, "HW_INCREASE"))
          /\ FreshCommand(Unmap(lun, first, length))
          /\ FreshCommand(Read(lun, first, length, "HW_INCREASE",
                               ReadCompares(lun, first, length)))
      BY <2>2, CommandFacts
    <3> QED BY <3>1, <3>2, Zenon
  <2> HIDE DEF c
  <2>6. cmd_list' = Append(cmd_list, c) /\ mark_tag' \in Nat /\ is_cmd_sent' = is_cmd_sent
    BY <2>1 DEF Enqueue, IInv, Types
  <2>7. Types'
    BY <1>1, <2>1, <2>3, <2>6 DEF IInv, Types, compareVars
  <2>8. Locals'
    BY <1>1, <2>1, <2>3 DEF IInv, Locals, compareVars, worldVars
  <2> QED BY <1>1, <2>1, <2>5, <2>6, <2>7, <2>8, EnqueueStep DEF FreshCommand
<1> QED BY <1>2, <1>3

LEMMA ChunkStep ==
  ASSUME IInv, Chunk
  PROVE  IInv'
<1> DEFINE c == Write(at, lba, ChunkSize, "HW_FIX")
<1>1. pc = "chunk" /\ left > 0 /\ blame' = blame
  BY DEF Chunk
<1>2. CASE Refused(c)
  <2>1. Raise
    BY <1>2 DEF Chunk
  <2> QED BY <1>1, <2>1, RaiseStep DEF IInv, Blame
<1>3. CASE ~Refused(c)
  <2>1. /\ Enqueue(c)
        /\ left' = left - ChunkSize /\ lba' = lba + ChunkSize
        /\ UNCHANGED <<pc, req, at, _max_lba, read_hw_compare, compareVars, worldVars, served,
                       saved>>
    BY <1>3 DEF Chunk
  <2>2. /\ at \in Luns /\ lba \in Nat /\ left \in Nat /\ lba + left <= Capacity[at]
        /\ Capacity[at] \in Nat
    BY <1>1 DEF IInv, Locals, Types
  <2>3. ChunkSize \in 1 .. left
    <3>1. req.min_size \in Nat \ {0} /\ MaxChunk \in Nat \ {0}
      BY DEF IInv, Locals, RequestType
    <3> QED BY <1>1, <2>2, <3>1 DEF ChunkSize
  <2>4. /\ left' \in Nat /\ lba' \in Nat /\ lba' + left' = lba + left
        /\ ChunkSize \in Nat \ {0} /\ lba + ChunkSize <= Capacity[at]
    BY <2>1, <2>2, <2>3
  <2>5. FreshCommand(c)
    BY <2>2, <2>4, CommandFacts
  <2> HIDE DEF c
  <2>6. cmd_list' = Append(cmd_list, c) /\ mark_tag' \in Nat /\ is_cmd_sent' = is_cmd_sent
    BY <2>1 DEF Enqueue, IInv, Types
  <2>7. Types'
    BY <2>1, <2>4, <2>6 DEF IInv, Types, compareVars
  <2>8. Locals'
    BY <1>1, <2>1, <2>2, <2>4 DEF IInv, Locals, compareVars, worldVars
  <2> QED BY <1>1, <2>1, <2>5, <2>6, <2>7, <2>8, EnqueueStep DEF FreshCommand
<1> QED BY <1>2, <1>3

(* The stages of a comparison take their nodes from the record.            *)
StageFrom(phase, nodes) ==
  /\ phase \in {"unit", "plain", "erased", "sw"}
  /\ IF phase \in NodeStages THEN at \in Luns /\ nodes \subseteq write_record[at] ELSE nodes = {}

LEMMA NextStageFacts ==
  ASSUME IInv, stage \in NodeStages \cup {"unit"}, NextStage
  PROVE  /\ pc' = "compare" /\ read10' = read10
         /\ StageFrom(stage', todo')
<1>1. stage = "plain" => at \in Luns
  BY DEF IInv, Locals, NodeStages
<1>2. NodesOf(at, "erased") \subseteq write_record[at]
  BY DEF NodesOf
<1> QED BY <1>1, <1>2 DEF NextStage, EnterStage, StageFrom, NodeStages

LEMMA CompareUnitStep ==
  ASSUME IInv, CompareUnit
  PROVE  IInv'
<1>1. /\ pc = "compare" /\ stage = "unit"
      /\ UNCHANGED <<packageVars, mark_tag, worldVars, blame>>
  BY DEF CompareUnit
<1>2. CASE at + 1 \notin Luns
  <2>1. Leave("ok")
    BY <1>2 DEF CompareUnit
  <2> QED BY <1>1, <2>1, LeaveStep DEF IInv, Blame
<1>3. CASE at + 1 \in Luns
  <2>1. /\ at' = at + 1
        /\ UNCHANGED <<pc, req, left, lba, _max_lba, read10, read_hw_compare, served>>
        /\ IF write_record[at + 1] = {} THEN UNCHANGED <<stage, todo>>
           ELSE EnterStage(IF req.method = "HW" THEN "plain" ELSE "sw", at + 1)
    BY <1>3 DEF CompareUnit
  <2>2. todo = {} /\ served = {} /\ blame = {} /\ req \in RequestType
    BY <1>1 DEF IInv, Locals, Progress, Blame, NodeStages
  <2>3. /\ stage' \in {"unit", "plain", "erased", "sw"}
        /\ IF stage' \in NodeStages THEN todo' \subseteq write_record[at + 1] ELSE todo' = {}
    BY <1>1, <2>1, <2>2 DEF EnterStage, NodesOf, NodeStages
  <2>4. Types'
    BY <1>1, <1>3, <2>1, <2>3 DEF IInv, Types, packageVars
  <2>5. Locals'
    BY <1>1, <1>3, <2>1, <2>2, <2>3 DEF Locals, worldVars
  <2> QED BY <1>1, <2>1, <2>2, <2>4, <2>5, QuietStep DEF packageVars
<1> QED BY <1>2, <1>3

LEMMA CompareNodeStep ==
  ASSUME IInv, NEW node \in todo, CompareNode(node)
  PROVE  IInv'
<1> DEFINE c == ReadOf(node)
<1>1. pc = "compare" /\ blame' = blame
  BY DEF CompareNode
<1>2. CASE Refused(c)
  <2>1. Raise
    BY <1>2 DEF CompareNode
  <2> QED BY <1>1, <2>1, RaiseStep DEF IInv, Blame
<1>3. CASE ~Refused(c)
  <2>1. /\ Enqueue(c)
        /\ todo' = todo \ {node} /\ read10' = TRUE
        /\ UNCHANGED <<pc, loopVars, stage, read_hw_compare, worldVars, served, saved>>
    BY <1>3 DEF CompareNode
  <2>2. stage \in NodeStages /\ at \in Luns /\ todo \subseteq write_record[at]
    BY DEF IInv, Locals
  <2>3. NodeIn(at, node)
    BY <2>2 DEF IInv, World, UnitRecord
  <2>4. /\ node.start \in Nat /\ node.end - node.start + 1 \in Nat \ {0}
        /\ node.start + (node.end - node.start + 1) <= Capacity[at]
    <3>1. /\ node.start \in Nat /\ node.end \in Nat /\ node.start <= node.end
          /\ node.end < Capacity[at] /\ Capacity[at] \in Nat
      BY <2>2, <2>3 DEF NodeIn
    <3> QED BY ONLY <3>1
  <2>5. FreshCommand(c)
    BY <2>2, <2>4, CommandFacts DEF ReadOf
  <2> HIDE DEF c
  <2>6. cmd_list' = Append(cmd_list, c) /\ mark_tag' \in Nat /\ is_cmd_sent' = is_cmd_sent
    BY <2>1 DEF Enqueue, IInv, Types
  <2>7. read10' \in BOOLEAN
    BY <2>1, Zenon
  <2>8. Types'
    BY <2>1, <2>6, <2>7 DEF IInv, Types, loopVars
  <2>9. Locals'
    BY <1>1, <2>1, <2>2 DEF IInv, Locals, loopVars, worldVars
  <2> QED BY <1>1, <2>1, <2>5, <2>6, <2>8, <2>9, EnqueueStep DEF FreshCommand
<1> QED BY <1>2, <1>3

LEMMA CompareSendStep ==
  ASSUME IInv, CompareSend
  PROVE  IInv'
<1>1. pc = "compare" /\ stage # "unit"
  BY DEF CompareSend
<1>2. CASE /\ NextStage
           /\ UNCHANGED <<packageVars, read_hw_compare, mark_tag, loopVars, worldVars, served, blame>>
  <2>1. stage \in NodeStages \cup {"unit"}
    BY <1>1 DEF IInv, Types, Locals, NodeStages
  <2>2. pc' = "compare" /\ read10' = read10 /\ StageFrom(stage', todo')
    BY <1>2, <2>1, NextStageFacts
  <2>3. Types'
    BY <1>2, <2>2 DEF IInv, Types, StageFrom, packageVars, loopVars
  <2>4. Locals'
    BY <1>2, <2>2 DEF IInv, Locals, StageFrom, loopVars, worldVars
  <2>5. served' = {} /\ blame' \subseteq doubt /\ blame' = {}
    BY <1>1, <1>2 DEF IInv, Progress, Blame
  <2> QED BY <1>1, <1>2, <2>2, <2>3, <2>4, <2>5, QuietStep DEF packageVars
<1>3. CASE Raise /\ UNCHANGED blame
  BY <1>1, <1>3, RaiseStep DEF IInv, Blame
<1>4. CASE Send(stage = "plain")
  BY <1>1, <1>4, SendStep
<1> QED BY <1>1, <1>2, <1>3, <1>4 DEF CompareSend

LEMMA ProceedFacts ==
  ASSUME IInv, pc \in {"running", "save"}, Proceed, ClearPackage,
         UNCHANGED <<mark_tag, write_record>>
  PROVE  /\ Types' /\ Locals'
         /\ served' = {} /\ pc' \notin {"running", "save"}
<1>1. is_cmd_sent' \in BOOLEAN /\ mark_tag' = mark_tag
  BY Zenon DEF ClearPackage
<1>2. CASE /\ stage # "none" /\ NextStage /\ UNCHANGED loopVars
           /\ served' = {} /\ read_hw_compare' = FALSE
  <2>1. stage \in NodeStages \cup {"unit"}
    BY <1>2 DEF IInv, Types, NodeStages
  <2>2. pc' = "compare" /\ read10' = read10 /\ StageFrom(stage', todo')
    BY <1>2, <2>1, NextStageFacts
  <2>3. read_hw_compare' \in BOOLEAN
    BY <1>2, Zenon
  <2>4. Types'
    BY <1>1, <1>2, <2>2, <2>3 DEF IInv, Types, StageFrom, loopVars
  <2>5. Locals'
    BY <1>2, <2>2 DEF IInv, Locals, StageFrom, loopVars
  <2> QED BY <1>2, <2>2, <2>4, <2>5
<1>3. CASE /\ stage = "none" /\ pc' = "unit" /\ UNCHANGED <<loopVars, compareVars>>
           /\ served' = {} /\ read_hw_compare' = FALSE
  <2>1. read_hw_compare' \in BOOLEAN
    BY <1>3, Zenon
  <2>2. Types'
    BY <1>1, <1>3, <2>1 DEF IInv, Types, loopVars, compareVars
  <2>3. Locals'
    BY <1>3 DEF IInv, Locals, loopVars, compareVars
  <2> QED BY <1>3, <2>2, <2>3
<1>4. CASE /\ EnterCompare /\ UNCHANGED <<req, left, lba, _max_lba>>
           /\ served' = {} /\ read_hw_compare' = FALSE
  <2>1. /\ pc' = "compare" /\ at' = -1 /\ stage' = "unit" /\ todo' = {}
        /\ read10' \in BOOLEAN /\ read_hw_compare' \in BOOLEAN
    BY <1>4, Zenon DEF EnterCompare
  <2>2. Types'
    BY <1>1, <1>4, <2>1 DEF IInv, Types
  <2>3. Locals'
    BY <1>4, <2>1 DEF IInv, Locals, NodeStages
  <2> QED BY <1>4, <2>1, <2>2, <2>3
<1>5. CASE Leave("ok")
  <2>1. /\ pc' = "idle" /\ req' = NoRequest /\ left' = 0 /\ at' = 0 /\ lba' = 0 /\ _max_lba' = 0
        /\ stage' = "none" /\ todo' = {} /\ served' = {}
        /\ read10' \in BOOLEAN /\ read_hw_compare' \in BOOLEAN
    BY <1>5, Zenon DEF Leave
  <2>2. Types'
    BY <1>1, <2>1 DEF IInv, Types
  <2>3. NoRequest \in RequestType
    BY DEF NoRequest, RequestType
  <2>4. Locals'
    BY <2>1, <2>3 DEF Locals, NodeStages
  <2> QED BY <2>1, <2>2, <2>4
<1> QED BY <1>2, <1>3, <1>4, <1>5 DEF Proceed

LEMMA SendReturnsStep ==
  ASSUME IInv, SendReturns
  PROVE  IInv'
<1>1. /\ pc = "running" /\ served = DOMAIN cmd_list
      /\ UNCHANGED <<mark_tag, worldVars, blame>> /\ blame = {}
  BY DEF SendReturns, IInv, Blame
<1>2. CASE ~Records
  <2>1. ClearPackage /\ Proceed
    BY <1>2 DEF SendReturns
  <2>2. /\ Types' /\ Locals' /\ served' = {} /\ pc' \notin {"running", "save"}
    BY <1>1, <2>1, ProceedFacts DEF worldVars
  <2>3. cmd_list' = <<>>
    BY <2>1 DEF ClearPackage
  <2> QED BY <1>1, <2>2, <2>3, QuietStep
<1>3. CASE Records
  <2>1. /\ pc' = "save" /\ saved' = 0
        /\ UNCHANGED <<packageVars, read_hw_compare, loopVars, compareVars, served>>
    BY <1>3 DEF SendReturns
  <2>2. World' /\ RecordMatchesDevice'
    BY <1>1, SameWorld DEF IInv
  <2>3. PackageOk' /\ Expectations'
    BY <2>1 DEF IInv, PackageOk, Expectations, packageVars
  <2>4. Types'
    BY <1>1, <2>1 DEF IInv, Types, packageVars, loopVars, compareVars
  <2>5. Locals'
    BY <1>1, <1>3, <2>1 DEF IInv, Locals, NodeStages, Records, loopVars, compareVars
  <2>6. ServedSoFar'
    BY <1>1, <2>1 DEF IInv, Progress, ServedSoFar, Writers, Held, packageVars, worldVars
  <2>7. Len(cmd_list) \in Nat
    BY AppendFacts DEF IInv, PackageOk
  <2>8. Progress'
    BY <1>1, <2>1, <2>6, <2>7 DEF Progress, SavedSoFar, packageVars
  <2>9. Blame'
    BY <1>1 DEF Blame
  <2> QED BY <2>2, <2>3, <2>4, <2>5, <2>8, <2>9 DEF IInv
<1> QED BY <1>2, <1>3

LEMMA ComparisonFailsStep ==
  ASSUME IInv, NEW i \in DOMAIN cmd_list, ComparisonFails(i)
  PROVE  IInv'
<1>1. pc = "running" /\ Raise /\ blame' = Wrong(cmd_list[i])
  BY DEF ComparisonFails, Unserved
<1>2. ASSUME NEW b \in Wrong(cmd_list[i])
      PROVE  b \in doubt
  <2>1. b \in DOMAIN cmd_list[i].expect /\ cmd_list[i].expect[b] # Held(b)
    BY DEF Wrong
  <2>2. b \in AllBlocks /\ cmd_list[i].expect[b] = Recorded(b)
    BY <1>1, <2>1 DEF IInv, PackageOk, CommandIn, Expectations
  <2> QED BY <2>1, <2>2 DEF IInv, RecordMatchesDevice
<1> QED BY <1>1, <1>2, RaiseStep

LEMMA SendFailsStep ==
  ASSUME IInv, SendFails
  PROVE  IInv'
  BY RaiseStep DEF SendFails, IInv, Blame

LEMMA PowerCycleStep ==
  ASSUME IInv, PowerCycle
  PROVE  IInv'
<1>1. /\ pc = "running" /\ Leave("reset")
      /\ UNCHANGED <<packageVars, mark_tag, worldVars, blame>>
  BY DEF PowerCycle
<1> QED BY <1>1, LeaveStep DEF IInv, Blame

LEMMA BlocksInUnit ==
  ASSUME NEW c, CommandIn(c), NEW b \in BlocksOf(c)
  PROVE  /\ b \in AllBlocks /\ b[1] = c.lun
         /\ b[2] \in c.start .. c.start + c.length - 1
         /\ b[2] \in 0 .. Capacity[c.lun] - 1
<1>1. PICK l \in c.start .. c.start + c.length - 1 : b = <<c.lun, l>>
  BY DEF BlocksOf
<1>2. c.lun \in Luns /\ l \in 0 .. Capacity[c.lun] - 1
  <2>1. /\ c.lun \in Luns /\ c.start \in Nat /\ c.length \in Nat
        /\ c.start + c.length <= Capacity[c.lun]
    BY DEF CommandIn, CommandOk
  <2>2. Capacity[c.lun] \in Nat /\ l \in c.start .. c.start + c.length - 1
    BY <2>1
  <2>3. l \in 0 .. Capacity[c.lun] - 1
    BY ONLY <2>1, <2>2
  <2> QED BY <2>1, <2>3
<1>3. b \in AllBlocks
  BY <1>1, <1>2 DEF AllBlocks
<1> QED BY <1>1, <1>2, <1>3

LEMMA BlockFacts ==
  ASSUME NEW b \in AllBlocks
  PROVE  b[1] \in Luns /\ b[2] \in 0 .. Capacity[b[1]] - 1 /\ b = <<b[1], b[2]>>
  BY DEF AllBlocks

(* What an executed command leaves on the medium.                          *)
LEMMA ExecuteFacts ==
  ASSUME IInv, NEW i \in DOMAIN cmd_list, Execute(i)
  PROVE  /\ DOMAIN device' = Luns
         /\ \A l \in Luns : DOMAIN device'[l] = 0 .. Capacity[l] - 1
         /\ doubt' = doubt \cup (IF Changes(cmd_list[i]) THEN BlocksOf(cmd_list[i]) ELSE {})
         /\ \A b \in AllBlocks :
              Held(b)' = IF Changes(cmd_list[i]) /\ b \in BlocksOf(cmd_list[i])
                         THEN cmd_list[i].data ELSE Held(b)
<1> DEFINE c == cmd_list[i]
<1>1. CommandIn(c) /\ World
  BY DEF IInv, PackageOk
<1> HIDE DEF c
<1>2. c.lun \in Luns /\ DOMAIN device = Luns
      /\ \A l \in Luns : DOMAIN device[l] = 0 .. Capacity[l] - 1
  BY <1>1 DEF CommandIn, CommandOk, World
<1>3. CASE Changes(c)
  <2> DEFINE unit == [l \in DOMAIN device[c.lun] |->
                        IF <<c.lun, l>> \in BlocksOf(c) THEN c.data ELSE device[c.lun][l]]
  <2>1. device' = [device EXCEPT ![c.lun] = unit] /\ doubt' = doubt \cup BlocksOf(c)
    BY <1>3 DEF Execute, c
  <2>2. DOMAIN unit = 0 .. Capacity[c.lun] - 1
    BY <1>2
  <2>3. \A l \in 0 .. Capacity[c.lun] - 1 :
          unit[l] = IF <<c.lun, l>> \in BlocksOf(c) THEN c.data ELSE device[c.lun][l]
    BY <1>2
  <2> HIDE DEF unit
  <2>4. /\ DOMAIN device' = Luns
        /\ \A l \in Luns : device'[l] = IF l = c.lun THEN unit ELSE device[l]
    BY <1>2, <2>1
  <2>5. ASSUME NEW b \in AllBlocks
        PROVE  Held(b)' = IF b \in BlocksOf(c) THEN c.data ELSE Held(b)
    <3>1. b[1] \in Luns /\ b[2] \in 0 .. Capacity[b[1]] - 1 /\ b = <<b[1], b[2]>>
      BY BlockFacts
    <3>2. CASE b[1] = c.lun
      BY <2>3, <2>4, <3>1, <3>2 DEF Held
    <3>3. CASE b[1] # c.lun
      <4>1. b \notin BlocksOf(c)
        BY <1>1, <3>3, BlocksInUnit
      <4> QED BY <2>4, <3>1, <3>3, <4>1 DEF Held
    <3> QED BY <3>2, <3>3
  <2> QED BY <1>2, <1>3, <2>1, <2>2, <2>4, <2>5 DEF c
<1>4. CASE ~Changes(c)
  <2>1. UNCHANGED <<device, doubt>>
    BY <1>4 DEF Execute, c
  <2> QED BY <1>2, <1>4, <2>1 DEF Held, c
<1> QED BY <1>3, <1>4

LEMMA ExecuteStep ==
  ASSUME IInv, NEW i \in DOMAIN cmd_list, Execute(i)
  PROVE  IInv'
<1>1. /\ pc = "running" /\ i \notin served /\ served' = served \cup {i}
      /\ UNCHANGED <<packageVars, read_hw_compare, mark_tag, pc, loopVars, compareVars,
                     write_record, saved, blame>>
  BY DEF Execute, Unserved
<1> DEFINE c == cmd_list[i]
<1>2. /\ DOMAIN device' = Luns
      /\ \A l \in Luns : DOMAIN device'[l] = 0 .. Capacity[l] - 1
      /\ doubt' = doubt \cup (IF Changes(c) THEN BlocksOf(c) ELSE {})
      /\ \A b \in AllBlocks :
           Held(b)' = IF Changes(c) /\ b \in BlocksOf(c) THEN c.data ELSE Held(b)
  BY ExecuteFacts
<1>3. CommandIn(c)
  BY DEF IInv, PackageOk
<1>4. World'
  <2>1. doubt' \subseteq AllBlocks
    BY <1>2, <1>3, BlocksInUnit DEF IInv, World
  <2> QED BY <1>1, <1>2, <2>1 DEF IInv, World
<1>5. \A b : Recorded(b)' = Recorded(b)
  BY <1>1 DEF Recorded
<1>6. RecordMatchesDevice'
  BY <1>2, <1>5 DEF IInv, RecordMatchesDevice
<1>7. PackageOk' /\ Expectations'
  BY <1>1, <1>5 DEF IInv, PackageOk, Expectations, packageVars
<1>8. Types' /\ Locals'
  BY <1>1 DEF IInv, Types, Locals, packageVars, loopVars, compareVars
<1>9. ServedSoFar'
  <2> SUFFICES ASSUME NEW k \in served', Changes(cmd_list[k]), NEW b \in BlocksOf(cmd_list[k])
               PROVE  b \in doubt' /\ (Writers(b) = {k} => Held(b)' = cmd_list[k].data)
    BY <1>1 DEF ServedSoFar, Writers, packageVars
  <2>0. k \in DOMAIN cmd_list /\ CommandIn(cmd_list[k])
    BY <1>1 DEF IInv, Progress, PackageOk
  <2>1. b \in AllBlocks
    BY <2>0, BlocksInUnit
  <2>2. CASE k = i
    BY <1>2, <2>1, <2>2
  <2>3. CASE k # i
    <3>1. k \in served
      BY <1>1, <2>3
    <3>2. b \in doubt /\ (Writers(b) = {k} => Held(b) = cmd_list[k].data)
      BY <3>1 DEF IInv, Progress, ServedSoFar
    <3>3. Changes(c) /\ b \in BlocksOf(c) => i \in Writers(b)
      BY DEF Writers
    <3> QED BY <1>2, <2>1, <2>3, <3>2, <3>3
  <2> QED BY <2>2, <2>3
<1>10. Progress'
  BY <1>1, <1>9 DEF IInv, Progress, packageVars
<1>11. Blame'
  BY <1>1, <1>2 DEF IInv, Blame
<1> QED BY <1>4, <1>6, <1>7, <1>8, <1>10, <1>11 DEF IInv

(* Recording a command gives its blocks its data and leaves the rest.      *)
LEMMA SaveCommandFacts ==
  ASSUME IInv, SaveCommand
  PROVE  LET c == cmd_list[saved + 1]
         IN  /\ saved + 1 \in DOMAIN cmd_list
             /\ DOMAIN write_record' = Luns
             /\ \A l \in Luns : UnitRecord(l, write_record'[l])
             /\ \A b \in AllBlocks :
                  Recorded(b)' = IF Changes(c) /\ b \in BlocksOf(c) THEN c.data ELSE Recorded(b)
<1> DEFINE c == cmd_list[saved + 1]
           new == Node(c.start, c.start + c.length - 1, c.data)
<1>1. pc = "save" /\ saved < Len(cmd_list) /\ write_record' = SaveByCmd(write_record, c)
  BY DEF SaveCommand
<1>2. saved + 1 \in DOMAIN cmd_list
  <2>1. saved \in 0 .. Len(cmd_list)
    BY <1>1 DEF IInv, Progress
  <2>2. Len(cmd_list) \in Nat /\ DOMAIN cmd_list = 1 .. Len(cmd_list)
    BY AppendFacts DEF IInv, PackageOk
  <2> QED BY ONLY <1>1, <2>1, <2>2
<1>3. CommandIn(c) /\ DOMAIN write_record = Luns
      /\ \A l \in Luns : UnitRecord(l, write_record[l])
  BY <1>2 DEF IInv, PackageOk, World
<1> HIDE DEF c
<1>4. /\ c.lun \in Luns /\ c.start \in Nat /\ c.length \in Nat /\ c.length # 0
      /\ c.start + c.length <= Capacity[c.lun] /\ Capacity[c.lun] \in Nat
  BY <1>3 DEF CommandIn, CommandOk
<1>5. CASE Changes(c)
  <2>1. write_record' = [write_record EXCEPT ![c.lun] = Save(write_record[c.lun], new)]
    BY <1>1, <1>5 DEF SaveByCmd
  <2>2. /\ DOMAIN write_record' = Luns
        /\ \A l \in Luns :
             write_record'[l] = IF l = c.lun THEN Save(write_record[c.lun], new) ELSE write_record[l]
    BY <1>3, <2>1
  <2>3. new.start = c.start /\ new.end = c.start + c.length - 1 /\ new.data = c.data
    BY DEF Node
  <2>4. NodeIn(c.lun, new)
    <3>1. new = Node(new.start, new.end, new.data)
      BY <2>3
    <3> HIDE DEF new
    <3> QED BY <1>4, <2>3, <3>1 DEF NodeIn
  <2> HIDE DEF new
  <2>5. /\ UnitRecord(c.lun, Save(write_record[c.lun], new))
        /\ \A l \in Nat : RecordedIn(Save(write_record[c.lun], new), l) =
             IF l \in new.start .. new.end THEN new.data ELSE RecordedIn(write_record[c.lun], l)
    BY <1>3, <1>4, <2>4, SaveFacts
  <2>6. ASSUME NEW b \in AllBlocks
        PROVE  Recorded(b)' = IF b \in BlocksOf(c) THEN c.data ELSE Recorded(b)
    <3>1. b[1] \in Luns /\ b[2] \in Nat /\ b = <<b[1], b[2]>>
      BY BlockFacts
    <3>2. Recorded(b)' = RecordedIn(write_record'[b[1]], b[2])
      BY DEF Recorded
    <3>3. CASE b[1] = c.lun
      <4>1. b \in BlocksOf(c) <=> b[2] \in c.start .. c.start + c.length - 1
        BY <3>1, <3>3 DEF BlocksOf
      <4> QED BY <2>2, <2>3, <2>5, <3>1, <3>2, <3>3, <4>1 DEF Recorded
    <3>4. CASE b[1] # c.lun
      <4>1. b \notin BlocksOf(c)
        BY <1>3, <3>4, BlocksInUnit
      <4> QED BY <2>2, <3>1, <3>2, <3>4, <4>1 DEF Recorded
    <3> QED BY <3>3, <3>4
  <2>7. \A l \in Luns : UnitRecord(l, write_record'[l])
    BY <1>3, <2>2, <2>5
  <2> QED BY <1>2, <1>5, <2>2, <2>6, <2>7 DEF c
<1>6. CASE ~Changes(c)
  <2>1. write_record' = write_record
    BY <1>1, <1>6 DEF SaveByCmd
  <2>2. \A b : Recorded(b)' = Recorded(b)
    BY <2>1 DEF Recorded
  <2> QED BY <1>2, <1>3, <1>6, <2>1, <2>2 DEF c
<1> QED BY <1>5, <1>6

LEMMA SaveCommandStep ==
  ASSUME IInv, SaveCommand
  PROVE  IInv'
<1> DEFINE c == cmd_list[saved + 1]
<1>1. /\ pc = "save" /\ saved' = saved + 1 /\ saved < Len(cmd_list)
      /\ UNCHANGED <<packageVars, read_hw_compare, mark_tag, pc, loopVars, compareVars, device,
                     doubt, served, blame>>
  BY DEF SaveCommand
<1>2. /\ saved + 1 \in DOMAIN cmd_list
      /\ DOMAIN write_record' = Luns
      /\ \A l \in Luns : UnitRecord(l, write_record'[l])
      /\ \A b \in AllBlocks :
           Recorded(b)' = IF Changes(c) /\ b \in BlocksOf(c) THEN c.data ELSE Recorded(b)
  BY SaveCommandFacts
<1>3. /\ served = DOMAIN cmd_list /\ saved \in 0 .. Len(cmd_list) /\ SavedSoFar /\ ServedSoFar
      /\ stage = "none" /\ todo = {}
  BY <1>1 DEF IInv, Progress, Locals, NodeStages
<1>4. Len(cmd_list) \in Nat /\ DOMAIN cmd_list = 1 .. Len(cmd_list)
  BY AppendFacts DEF IInv, PackageOk
<1>5. World'
  BY <1>1, <1>2 DEF IInv, World
<1>6. RecordMatchesDevice'
  <2> SUFFICES ASSUME NEW b \in AllBlocks, b \notin doubt
               PROVE  Recorded(b)' = Held(b)
    BY <1>1 DEF RecordMatchesDevice, Held
  <2>1. Recorded(b) = Held(b)
    BY DEF IInv, RecordMatchesDevice
  <2>2. ~(Changes(c) /\ b \in BlocksOf(c))
    BY <1>2, <1>3 DEF ServedSoFar
  <2> QED BY <1>2, <2>1, <2>2
<1>7. PackageOk' /\ Expectations'
  BY <1>1 DEF IInv, PackageOk, Expectations, packageVars
<1>8. Types' /\ Locals'
  BY <1>1, <1>3 DEF IInv, Types, Locals, NodeStages, packageVars, loopVars, compareVars
<1>9. ServedSoFar'
  BY <1>1, <1>3 DEF ServedSoFar, Writers, Held, packageVars
<1>10. SavedSoFar'
  <2> SUFFICES ASSUME NEW k \in 1 .. saved', Changes(cmd_list[k]), NEW b \in BlocksOf(cmd_list[k]),
                      Writers(b) = {k}
               PROVE  Recorded(b)' = cmd_list[k].data
    BY <1>1 DEF SavedSoFar, Writers, packageVars
  <2>1. k \in 1 .. saved + 1 /\ k \in DOMAIN cmd_list
    BY <1>1, <1>3, <1>4
  <2>2. b \in AllBlocks
    BY <2>1, BlocksInUnit DEF IInv, PackageOk
  <2>3. CASE k = saved + 1
    BY <1>2, <2>2, <2>3
  <2>4. CASE k # saved + 1
    <3>1. k \in 1 .. saved
      BY ONLY <1>3, <2>1, <2>4
    <3>2. Recorded(b) = cmd_list[k].data
      BY <1>3, <3>1 DEF SavedSoFar
    <3>3. Changes(c) /\ b \in BlocksOf(c) => saved + 1 \in Writers(b)
      BY <1>2 DEF Writers
    <3> QED BY <1>2, <2>2, <2>4, <3>2, <3>3
  <2> QED BY <2>3, <2>4
<1>11. Progress'
  <2>1. saved' \in 0 .. Len(cmd_list)
    BY ONLY <1>1, <1>3, <1>4
  <2> QED BY <1>1, <1>3, <1>9, <1>10, <2>1 DEF Progress, packageVars
<1>12. Blame'
  BY <1>1 DEF IInv, Blame
<1> QED BY <1>5, <1>6, <1>7, <1>8, <1>11, <1>12 DEF IInv

LEMMA AllSavedStep ==
  ASSUME IInv, AllSaved
  PROVE  IInv'
<1>1. /\ pc = "save" /\ saved = Len(cmd_list)
      /\ doubt' = {b \in doubt : \A i \in DOMAIN cmd_list : Writers(b) # {i}}
      /\ ClearPackage /\ Proceed
      /\ UNCHANGED <<mark_tag, write_record, device, blame>>
  BY DEF AllSaved
<1>2. Types' /\ Locals' /\ served' = {} /\ pc' \notin {"running", "save"}
  BY <1>1, ProceedFacts
<1>3. /\ served = DOMAIN cmd_list /\ ServedSoFar /\ SavedSoFar /\ blame = {}
      /\ DOMAIN cmd_list = 1 .. saved
  BY <1>1, AppendFacts DEF IInv, Progress, Blame, PackageOk
<1>4. World'
  BY <1>1 DEF IInv, World
<1>5. RecordMatchesDevice'
  <2> SUFFICES ASSUME NEW b \in AllBlocks, b \notin doubt'
               PROVE  Recorded(b) = Held(b)
    BY <1>1 DEF RecordMatchesDevice, Recorded, Held
  <2>1. CASE b \notin doubt
    BY <2>1 DEF IInv, RecordMatchesDevice
  <2>2. CASE b \in doubt
    <3>1. PICK i \in DOMAIN cmd_list : Writers(b) = {i}
      BY <1>1, <2>2
    <3>2. Changes(cmd_list[i]) /\ b \in BlocksOf(cmd_list[i])
      BY <3>1 DEF Writers
    <3>3. Held(b) = cmd_list[i].data
      BY <1>3, <3>1, <3>2 DEF ServedSoFar
    <3>4. Recorded(b) = cmd_list[i].data
      BY <1>3, <3>1, <3>2 DEF SavedSoFar
    <3> QED BY <3>3, <3>4
  <2> QED BY <2>1, <2>2
<1>6. PackageOk' /\ Expectations'
  <2>1. cmd_list' = <<>>
    BY <1>1 DEF ClearPackage
  <2> QED BY <2>1 DEF PackageOk, Expectations, IsList
<1>7. Progress'
  BY <1>2 DEF Progress, ServedSoFar
<1>8. Blame'
  BY <1>1, <1>3 DEF Blame
<1> QED BY <1>2, <1>4, <1>5, <1>6, <1>7, <1>8 DEF IInv

LEMMA StutterStep ==
  ASSUME IInv, UNCHANGED vars
  PROVE  IInv'
<1>1. /\ UNCHANGED <<cmd_list, is_cmd_sent, read_hw_compare, mark_tag, pc, served, saved, blame>>
      /\ UNCHANGED loopVars /\ UNCHANGED compareVars /\ UNCHANGED worldVars
  BY DEF vars, packageVars
<1>2. World' /\ RecordMatchesDevice'
  BY <1>1, SameWorld DEF IInv
<1>3. PackageOk' /\ Expectations'
  BY <1>1 DEF IInv, PackageOk, Expectations, Recorded, worldVars
<1>4. Types' /\ Locals'
  BY <1>1 DEF IInv, Types, Locals, loopVars, compareVars, worldVars
<1>5. Progress'
  <2>1. \A b : Writers(b)' = Writers(b) /\ Recorded(b)' = Recorded(b) /\ Held(b)' = Held(b)
    BY <1>1 DEF Writers, Recorded, Held, worldVars
  <2>2. ServedSoFar <=> ServedSoFar'
    BY <1>1, <2>1 DEF ServedSoFar, worldVars
  <2>3. SavedSoFar <=> SavedSoFar'
    BY <1>1, <2>1 DEF SavedSoFar
  <2> QED BY <1>1, <2>2, <2>3 DEF IInv, Progress
<1>6. Blame'
  BY <1>1 DEF IInv, Blame, worldVars
<1> QED BY <1>2, <1>3, <1>4, <1>5, <1>6 DEF IInv

LEMMA Inductive == IInv /\ [Next]_vars => IInv'
<1> SUFFICES ASSUME IInv, [Next]_vars PROVE IInv'
  OBVIOUS
<1>1. CASE \E r \in Requests : Call(r)
  BY <1>1, CallStep
<1>2. CASE PatternClears
  BY <1>2, PatternClearsStep
<1>3. CASE Drawing
  BY <1>3, DrawStep, DrawStuckStep, SendDrawnStep DEF Drawing
<1>4. CASE Chunking
  BY <1>4, ChunkStep, SendChunksStep, NextUnitStep DEF Chunking
<1>5. CASE Comparing
  BY <1>5, CompareUnitStep, CompareNodeStep, CompareSendStep DEF Comparing
<1>6. CASE Running
  BY <1>6, ExecuteStep, ComparisonFailsStep, SendReturnsStep DEF Running
<1>7. CASE Saving
  BY <1>7, SaveCommandStep, AllSavedStep DEF Saving
<1>8. CASE Errors
  BY <1>8, SendFailsStep, PowerCycleStep DEF Errors
<1>9. CASE UNCHANGED vars
  BY <1>9, StutterStep
<1> QED BY <1>1, <1>2, <1>3, <1>4, <1>5, <1>6, <1>7, <1>8, <1>9 DEF Next, Steps

LEMMA Invariant == Spec => []IInv
  BY Initially, Inductive, PTL DEF Spec

-----------------------------------------------------------------------------
(* The theorems. *)

(* The types of the helpers' state.                                        *)
THEOREM HelpersTyped == Spec => []TypeOK
<1>1. IInv => TypeOK
  BY DEF IInv, TypeOK, Types, PackageOk, CommandIn, Progress, World, Blame
<1> QED BY <1>1, Invariant, PTL

(* No helper makes a command that reaches beyond the end of its unit.      *)
CommandsInUnit ==
  \A i \in DOMAIN cmd_list : cmd_list[i].start + cmd_list[i].length <= Capacity[cmd_list[i].lun]

THEOREM CommandsStayInUnit == Spec => []CommandsInUnit
<1>1. IInv => CommandsInUnit
  BY DEF IInv, CommandsInUnit, PackageOk, CommandIn
<1> QED BY <1>1, Invariant, PTL

(* A drawn command keeps to the range the caller gave.                     *)
THEOREM DrawnCommandsInRange == Spec => CommandsInRange
<1>1. ASSUME IInv, [Next]_vars, pc = "draw", cmd_list' # cmd_list
      PROVE  InRange(cmd_list'[Len(cmd_list')])
  <2>1. PICK lun \in Luns, drawn \in req.min_size .. req.max_size :
          \E start \in Starts(lun, DataLen(lun, drawn)) : Draw(lun, drawn, start)
    BY <1>1 DEF Next, vars, packageVars, Steps, Drawing, Chunking, Comparing, Running, Saving,
       Errors, Call, PatternClears, DrawStuck, SendDrawn, Send, Raise, Chunk, SendChunks, NextUnit,
       CompareUnit, CompareNode, CompareSend, Execute, ComparisonFails, Unserved, SendReturns,
       SaveCommand, AllSaved, SendFails, PowerCycle
  <2>2. PICK start \in Starts(lun, DataLen(lun, drawn)) : Draw(lun, drawn, start)
    BY <2>1
  <2> DEFINE length == DataLen(lun, drawn)
             first  == IntoUnit(lun, start, length)
             end    == IF req.max_lba < Capacity[lun] THEN req.max_lba ELSE Capacity[lun]
             c      == DrawnCommand(lun, first, length)
  <2>3. /\ first + length <= Capacity[lun]
        /\ req.min_lba + length <= end => first >= req.min_lba /\ first + length <= end
    BY <1>1, DrawFacts
  <2>4. cmd_list' = Append(cmd_list, c)
    BY <1>1, <2>2 DEF Draw, Raise, packageVars, Enqueue
  <2> HIDE DEF length, first
  <2>5. c.lun = lun /\ c.start = first /\ c.length = length
    <3>1. req.fn \in RandomHelpers
      BY <1>1 DEF IInv, Locals
    <3>2. c \in {Write(lun, first, length, "HW_INCREASE"), Unmap(lun, first, length),
                 Read(lun, first, length, "HW_INCREASE", ReadCompares(lun, first, length))}
      BY <3>1 DEF DrawnCommand, RandomHelpers
    <3> QED BY <3>2 DEF Write, Unmap, Read, Command
  <2> HIDE DEF c
  <2>6. cmd_list'[Len(cmd_list')] = c
    BY <1>1, <2>4, AppendFacts DEF IInv, PackageOk
  <2> QED BY <2>3, <2>5, <2>6 DEF InRange
<1> QED BY <1>1, Invariant, PTL DEF Spec, CommandsInRange

(* The record is what the device holds wherever no package is in doubt:    *)
(* for any number of units, of any capacity, and any calls.                *)
THEOREM RecordIsRight == Spec => []RecordMatchesDevice
<1>1. IInv => RecordMatchesDevice
  BY DEF IInv
<1> QED BY <1>1, Invariant, PTL

(* A comparison fails only on blocks in doubt.                             *)
THEOREM ComparisonsAreRight == Spec => []FailsOnlyInDoubt
<1>1. IInv => FailsOnlyInDoubt
  BY DEF IInv, Blame, FailsOnlyInDoubt
<1> QED BY <1>1, Invariant, PTL

-----------------------------------------------------------------------------
(* What a comparison that runs has seen. *)

(* In the packages of a stage these reads are compared.                    *)
ComparesIn(phase) == IF phase = "plain" THEN {"tag", "crc"} ELSE {"crc"}

InPackage(b) ==
  \E i \in DOMAIN cmd_list \ served :
    b \in BlocksOf(cmd_list[i]) /\ cmd_list[i].compare \in ComparesIn(stage)

InTodo(b) == \E n \in todo : b[2] \in n.start .. n.end

(* A recorded block of the unit at hand has been looked at, is in the      *)
(* package, or comes later.                                                *)
Accounted(b) ==
  \/ verdict[b] # "unread"
  \/ stage = "plain" /\ Recorded(b) = Erased
  \/ InTodo(b)
  \/ InPackage(b)

EqualIsEqual == \A b \in AllBlocks : verdict[b] = "equal" => Recorded(b) = Held(b)

LeftBehind ==
  \A b \in AllBlocks :
    (b[1] < at \/ (b[1] = at /\ stage = "unit")) /\ Recorded(b) # NONE => verdict[b] # "unread"

UnitAtHand ==
  stage \in NodeStages => \A b \in AllBlocks : b[1] = at /\ Recorded(b) # NONE => Accounted(b)

Comparison ==
  pc = "running" => stage \in NodeStages /\ todo = {} /\ (stage = "plain" => read_hw_compare)

CompareInv == stage # "none" => EqualIsEqual /\ LeftBehind /\ UnitAtHand /\ Comparison

LEMMA HolderOf ==
  ASSUME World, NEW b \in AllBlocks, Recorded(b) # NONE
  PROVE  \E n \in write_record[b[1]] : b[2] \in n.start .. n.end /\ n.data = Recorded(b)
<1>1. b[1] \in Luns /\ b[2] \in Nat
  BY BlockFacts
<1>2. PICK n \in write_record[b[1]] : b[2] \in n.start .. n.end
  BY <1>1, RecordedByNobody DEF Recorded
<1>3. Disjoint(write_record[b[1]])
  BY <1>1 DEF World, UnitRecord
<1>4. RecordedIn(write_record[b[1]], b[2]) = n.data
  BY <1>1, <1>2, <1>3, RecordedByHolder
<1> QED BY <1>2, <1>4 DEF Recorded

-----------------------------------------------------------------------------
(* Outside a comparison a step leaves it alone or begins one. *)

LEMMA SendKeepsNone ==
  ASSUME stage = "none", NEW hw, Send(hw)
  PROVE  stage' = "none"
  BY DEF Send, Raise, Leave, compareVars

LEMMA ProceedFromNone ==
  ASSUME stage = "none", Proceed
  PROVE  stage' = "none" \/ EnterCompare
  BY DEF Proceed, Leave, compareVars

LEMMA FromNone ==
  ASSUME IInv, stage = "none", [Next]_vars
  PROVE  stage' = "none" \/ EnterCompare
<1>0. pc # "compare"
  BY DEF IInv, Locals
<1>1. CASE \E r \in Requests : Call(r)
  BY <1>1 DEF Call, compareVars
<1>2. CASE PatternClears
  BY <1>2 DEF PatternClears, compareVars
<1>3. CASE Drawing
  BY <1>3, SendKeepsNone DEF Drawing, Draw, DrawStuck, SendDrawn, Raise, Leave, compareVars
<1>4. CASE Chunking
  BY <1>4, SendKeepsNone DEF Chunking, Chunk, SendChunks, NextUnit, Raise, Leave, compareVars
<1>5. CASE Comparing
  BY <1>0, <1>5 DEF Comparing, CompareUnit, CompareNode, CompareSend
<1>6. CASE Running
  <2>1. CASE SendReturns
    BY <2>1, ProceedFromNone DEF SendReturns, compareVars
  <2>2. CASE \E i \in DOMAIN cmd_list : Execute(i) \/ ComparisonFails(i)
    BY <2>2 DEF Execute, ComparisonFails, Raise, Leave, compareVars
  <2> QED BY <1>6, <2>1, <2>2 DEF Running
<1>7. CASE Saving
  BY <1>7, ProceedFromNone DEF Saving, SaveCommand, AllSaved, compareVars
<1>8. CASE Errors
  BY <1>8 DEF Errors, SendFails, PowerCycle, Raise, Leave
<1>9. CASE UNCHANGED vars
  BY <1>9 DEF vars, compareVars
<1> QED BY <1>1, <1>2, <1>3, <1>4, <1>5, <1>6, <1>7, <1>8, <1>9 DEF Next, Steps

LEMMA ComparisonBegins ==
  ASSUME EnterCompare
  PROVE  CompareInv'
<1>1. /\ pc' = "compare" /\ at' = -1 /\ stage' = "unit"
      /\ \A b \in AllBlocks : verdict'[b] = "unread"
  BY DEF EnterCompare
<1>2. \A b \in AllBlocks : b[1] \in Luns
  BY BlockFacts
<1>3. \A l \in Luns : ~(l < -1) /\ l # -1
  OBVIOUS
<1> QED BY <1>1, <1>2, <1>3
     DEF CompareInv, EqualIsEqual, LeftBehind, UnitAtHand, Comparison, NodeStages

-----------------------------------------------------------------------------
(* The steps of a comparison. *)

LEMMA ComparisonWaits ==
  ASSUME CompareInv, Comparison',
         UNCHANGED <<cmd_list, served, stage, todo, at, verdict>>, UNCHANGED worldVars
  PROVE  CompareInv'
<1>1. \A b : Recorded(b)' = Recorded(b) /\ Held(b)' = Held(b)
  BY DEF Recorded, Held, worldVars
<1>2. \A b : InPackage(b)' <=> InPackage(b)
  BY DEF InPackage
<1>3. \A b : Accounted(b)' <=> Accounted(b)
  BY <1>1, <1>2 DEF Accounted, InTodo
<1> QED BY <1>1, <1>3 DEF CompareInv, EqualIsEqual, LeftBehind, UnitAtHand

LEMMA StageDone ==
  ASSUME IInv, CompareInv, stage \in NodeStages, NextStage,
         UNCHANGED <<at, verdict, write_record, device>>,
         \A b : ~InTodo(b) /\ ~InPackage(b)
  PROVE  CompareInv'
<1>1. \A b : Recorded(b)' = Recorded(b) /\ Held(b)' = Held(b)
  BY DEF Recorded, Held
<1>2. EqualIsEqual /\ LeftBehind /\ stage # "unit"
  BY DEF CompareInv, NodeStages
<1>3. \A b \in AllBlocks : b[1] = at /\ Recorded(b) # NONE =>
        verdict[b] # "unread" \/ (stage = "plain" /\ Recorded(b) = Erased)
  BY DEF CompareInv, UnitAtHand, Accounted, NodeStages
<1>4. EqualIsEqual' /\ Comparison'
  BY <1>1, <1>2 DEF EqualIsEqual, Comparison, NextStage
<1>5. CASE stage = "plain"
  <2>1. stage' = "erased" /\ todo' = NodesOf(at, "erased")
    BY <1>5 DEF NextStage, EnterStage
  <2>2. LeftBehind'
    BY <1>1, <1>2, <2>1 DEF LeftBehind
  <2>3. ASSUME NEW b \in AllBlocks, b[1] = at, Recorded(b) # NONE, verdict[b] = "unread"
        PROVE  InTodo(b)'
    <3>1. PICK n \in write_record[at] : b[2] \in n.start .. n.end /\ n.data = Recorded(b)
      BY <2>3, HolderOf DEF IInv
    <3>2. n.data = Erased
      BY <1>3, <2>3, <3>1
    <3>3. n \in todo'
      BY <2>1, <3>2 DEF NodesOf
    <3> QED BY <3>1, <3>3 DEF InTodo
  <2>4. UnitAtHand'
    BY <1>1, <2>3 DEF UnitAtHand, Accounted
  <2> QED BY <1>4, <2>2, <2>4 DEF CompareInv
<1>6. CASE stage # "plain"
  <2>1. stage' = "unit"
    BY <1>6 DEF NextStage
  <2>2. LeftBehind'
    BY <1>1, <1>2, <1>3, <1>6, <2>1 DEF LeftBehind
  <2> QED BY <1>4, <2>1, <2>2 DEF CompareInv, UnitAtHand, NodeStages
<1> QED BY <1>5, <1>6

LEMMA UnitCompared ==
  ASSUME IInv, CompareInv, CompareUnit
  PROVE  CompareInv'
<1>1. pc = "compare" /\ stage = "unit" /\ UNCHANGED worldVars
  BY DEF CompareUnit
<1>2. CASE at + 1 \notin Luns
  BY <1>2 DEF CompareUnit, Leave, CompareInv
<1>3. CASE at + 1 \in Luns
  <2>1. at' = at + 1 /\ UNCHANGED <<pc, verdict>>
    BY <1>3 DEF CompareUnit
  <2>2. \A b : Recorded(b)' = Recorded(b) /\ Held(b)' = Held(b)
    BY <1>1 DEF Recorded, Held, worldVars
  <2>3. EqualIsEqual /\ LeftBehind
    BY <1>1 DEF CompareInv
  <2>4. EqualIsEqual' /\ Comparison'
    BY <1>1, <2>1, <2>2, <2>3 DEF EqualIsEqual, Comparison
  <2>5. at \in Int /\ \A b \in AllBlocks : b[1] \in Nat
    BY BlockFacts DEF IInv, Types
  <2>6. \A b \in AllBlocks : b[1] < at + 1 /\ Recorded(b) # NONE => verdict[b] # "unread"
    BY <1>1, <2>3, <2>5 DEF LeftBehind
  <2>7. CASE write_record[at + 1] = {}
    <3>1. stage' = "unit"
      BY <1>1, <1>3, <2>7 DEF CompareUnit
    <3>2. ASSUME NEW b \in AllBlocks, b[1] = at + 1
          PROVE  Recorded(b) = NONE
      BY <2>7, <3>2, HolderOf DEF IInv
    <3>3. LeftBehind'
      BY <2>1, <2>2, <2>6, <3>2 DEF LeftBehind
    <3> QED BY <2>4, <3>1, <3>3 DEF CompareInv, UnitAtHand, NodeStages
  <2>8. CASE write_record[at + 1] # {}
    <3>1. stage' \in {"plain", "sw"} /\ todo' = NodesOf(at + 1, stage')
      BY <1>3, <2>8 DEF CompareUnit, EnterStage
    <3>2. LeftBehind'
      BY <2>1, <2>2, <2>6, <3>1 DEF LeftBehind
    <3>3. ASSUME NEW b \in AllBlocks, b[1] = at + 1, Recorded(b) # NONE,
                 ~(stage' = "plain" /\ Recorded(b) = Erased)
          PROVE  InTodo(b)'
      <4>1. PICK n \in write_record[at + 1] : b[2] \in n.start .. n.end /\ n.data = Recorded(b)
        BY <3>3, HolderOf DEF IInv
      <4>2. n \in todo'
        BY <3>1, <3>3, <4>1 DEF NodesOf
      <4> QED BY <4>1, <4>2 DEF InTodo
    <3>4. UnitAtHand'
      BY <2>1, <2>2, <3>3 DEF UnitAtHand, Accounted
    <3> QED BY <2>4, <3>2, <3>4 DEF CompareInv
  <2> QED BY <2>7, <2>8
<1> QED BY <1>2, <1>3

LEMMA NodeCompared ==
  ASSUME IInv, CompareInv, NEW node \in todo, CompareNode(node)
  PROVE  CompareInv'
<1> DEFINE c == ReadOf(node)
<1>1. CASE Refused(c)
  BY <1>1 DEF CompareNode, Raise, Leave, CompareInv
<1>2. CASE ~Refused(c)
  <2>1. /\ cmd_list' = Append(cmd_list, c) /\ todo' = todo \ {node}
        /\ UNCHANGED <<pc, at, stage, verdict, served>> /\ UNCHANGED worldVars
    BY <1>2 DEF CompareNode, Enqueue, loopVars
  <2>2. /\ pc = "compare" /\ stage \in NodeStages /\ at \in Luns /\ todo \subseteq write_record[at]
        /\ served \subseteq DOMAIN cmd_list
    BY DEF CompareNode, IInv, Locals, Progress
  <2>3. \A b : Recorded(b)' = Recorded(b) /\ Held(b)' = Held(b)
    BY <2>1 DEF Recorded, Held, worldVars
  <2>4. EqualIsEqual /\ LeftBehind /\ UnitAtHand
    BY <2>2 DEF CompareInv, NodeStages
  <2>5. EqualIsEqual' /\ LeftBehind' /\ Comparison'
    BY <2>1, <2>2, <2>3, <2>4 DEF EqualIsEqual, LeftBehind, Comparison
  <2>6. /\ c.lun = at /\ c.start = node.start /\ c.length = node.end - node.start + 1
        /\ c.compare \in ComparesIn(stage)
    BY DEF ReadOf, Read, Command, ComparesIn
  <2>7. node.start \in Nat /\ node.end \in Nat
    BY <2>2 DEF IInv, World, UnitRecord, NodeIn
  <2>8. ASSUME NEW b \in AllBlocks, b[1] = at, b[2] \in node.start .. node.end
        PROVE  b \in BlocksOf(c)
    <3>1. b = <<at, b[2]>>
      BY <2>8, BlockFacts
    <3>2. c.start + c.length - 1 = node.end
      BY <2>6, <2>7
    <3> QED BY <2>6, <2>8, <3>1, <3>2 DEF BlocksOf
  <2> HIDE DEF c
  <2>9. /\ DOMAIN cmd_list' = DOMAIN cmd_list \cup {Len(cmd_list) + 1}
        /\ Len(cmd_list) + 1 \notin DOMAIN cmd_list
        /\ \A i \in DOMAIN cmd_list : cmd_list'[i] = cmd_list[i]
        /\ cmd_list'[Len(cmd_list) + 1] = c
    <3>1. Len(cmd_list) \in Nat /\ DOMAIN cmd_list = 1 .. Len(cmd_list)
      BY AppendFacts DEF IInv, PackageOk
    <3> QED BY <2>1, <3>1, AppendFacts DEF IInv, PackageOk
  <2>10. ASSUME NEW b \in AllBlocks, b[1] = at, Recorded(b) # NONE
         PROVE  Accounted(b)'
    <3>1. Accounted(b)
      BY <2>2, <2>4, <2>10 DEF UnitAtHand
    <3>2. CASE verdict[b] # "unread" \/ (stage = "plain" /\ Recorded(b) = Erased)
      BY <2>1, <2>3, <3>2 DEF Accounted
    <3>3. CASE b[2] \in node.start .. node.end
      <4>1. InPackage(b)'
        BY <2>1, <2>2, <2>6, <2>8, <2>9, <2>10, <3>3 DEF InPackage
      <4> QED BY <4>1 DEF Accounted
    <3>4. CASE InTodo(b) /\ b[2] \notin node.start .. node.end
      <4>1. InTodo(b)'
        BY <2>1, <3>4 DEF InTodo
      <4> QED BY <4>1 DEF Accounted
    <3>5. CASE InPackage(b)
      <4>1. InPackage(b)'
        BY <2>1, <2>9, <3>5 DEF InPackage
      <4> QED BY <4>1 DEF Accounted
    <3> QED BY <3>1, <3>2, <3>3, <3>4, <3>5 DEF Accounted
  <2>11. UnitAtHand'
    BY <2>1, <2>3, <2>10 DEF UnitAtHand
  <2> QED BY <2>5, <2>11 DEF CompareInv
<1> QED BY <1>1, <1>2

LEMMA PackageCompared ==
  ASSUME IInv, CompareInv, CompareSend
  PROVE  CompareInv'
<1>1. pc = "compare" /\ stage \in NodeStages /\ todo = {} /\ served = {}
  BY DEF CompareSend, IInv, Locals, Types, Progress, NodeStages
<1>2. CASE /\ cmd_list = <<>> /\ NextStage
           /\ UNCHANGED <<loopVars, worldVars, verdict>>
  <2>1. \A b : ~InTodo(b) /\ ~InPackage(b)
    BY <1>1, <1>2 DEF InTodo, InPackage
  <2> QED BY <1>1, <1>2, <2>1, StageDone DEF loopVars, worldVars
<1>3. CASE Raise
  BY <1>3 DEF Raise, Leave, CompareInv
<1>4. CASE Send(stage = "plain") /\ ~is_cmd_sent
  <2>1. /\ pc' = "running" /\ read_hw_compare' = (stage = "plain") /\ served' = {}
        /\ UNCHANGED <<cmd_list, stage, todo, at, verdict>> /\ UNCHANGED worldVars
    BY <1>4 DEF Send, loopVars, compareVars
  <2>2. Comparison'
    BY <1>1, <2>1, Zenon DEF Comparison
  <2> QED BY <1>1, <2>1, <2>2, ComparisonWaits
<1>5. CASE Send(stage = "plain") /\ is_cmd_sent
  BY <1>3, <1>5 DEF Send
<1> QED BY <1>2, <1>3, <1>4, <1>5 DEF CompareSend

LEMMA VerdictFacts ==
  ASSUME IInv, stage # "none", NEW i \in DOMAIN cmd_list, Execute(i), NEW b \in AllBlocks
  PROVE  LET c == cmd_list[i]
         IN  IF b \in BlocksOf(c) /\ Changes(c) THEN verdict'[b] = "overwritten"
             ELSE IF b \in BlocksOf(c) /\ Checked(c) THEN verdict'[b] = "equal"
             ELSE verdict'[b] = verdict[b]
  BY DEF Execute

LEMMA CommandCompared ==
  ASSUME IInv, CompareInv, stage # "none", NEW i \in DOMAIN cmd_list, Execute(i)
  PROVE  CompareInv'
<1> DEFINE c == cmd_list[i]
<1>1. /\ pc = "running" /\ served' = served \cup {i} /\ Wrong(c) = {}
      /\ UNCHANGED <<cmd_list, pc, at, stage, todo, read_hw_compare, write_record>>
  BY DEF Execute, Unserved, packageVars, loopVars, compareVars
<1>2. EqualIsEqual /\ LeftBehind /\ UnitAtHand /\ Comparison
  BY DEF CompareInv
<1>3. stage \in NodeStages /\ (stage = "plain" => read_hw_compare)
  BY <1>1, <1>2 DEF Comparison
<1>4. \A b : Recorded(b)' = Recorded(b)
  BY <1>1 DEF Recorded
<1>5. \A b \in AllBlocks :
        Held(b)' = IF Changes(c) /\ b \in BlocksOf(c) THEN c.data ELSE Held(b)
  BY ExecuteFacts
<1>6. \A b \in AllBlocks :
        IF b \in BlocksOf(c) /\ Changes(c) THEN verdict'[b] = "overwritten"
        ELSE IF b \in BlocksOf(c) /\ Checked(c) THEN verdict'[b] = "equal"
        ELSE verdict'[b] = verdict[b]
  BY VerdictFacts
<1>7. ASSUME Checked(c), NEW b \in BlocksOf(c)
      PROVE  Recorded(b) = Held(b)
  <2>1. b \in DOMAIN c.expect
    BY <1>7 DEF IInv, PackageOk, CommandIn, Checked
  <2>2. c.expect[b] = Recorded(b)
    BY <1>1, <2>1 DEF IInv, Expectations
  <2>3. c.expect[b] = Held(b)
    BY <1>1, <1>7, <2>1 DEF Wrong
  <2> QED BY <2>2, <2>3
<1> HIDE DEF c
<1>8. EqualIsEqual'
  <2> SUFFICES ASSUME NEW b \in AllBlocks, verdict'[b] = "equal"
               PROVE  Recorded(b) = Held(b)'
    BY <1>4 DEF EqualIsEqual
  <2>1. ~(Changes(c) /\ b \in BlocksOf(c))
    BY <1>6
  <2>2. Recorded(b) = Held(b)
    BY <1>2, <1>6, <1>7, <2>1 DEF EqualIsEqual
  <2> QED BY <1>5, <2>1, <2>2
<1>9. \A b \in AllBlocks : verdict[b] # "unread" => verdict'[b] # "unread"
  BY <1>6
<1>10. LeftBehind' /\ Comparison'
  BY <1>1, <1>2, <1>4, <1>9 DEF LeftBehind, Comparison
<1>11. ASSUME NEW b \in AllBlocks, b[1] = at, Recorded(b) # NONE
       PROVE  Accounted(b)'
  <2>1. Accounted(b)
    BY <1>2, <1>3, <1>11 DEF UnitAtHand
  <2>2. CASE verdict[b] # "unread"
    BY <1>9, <2>2 DEF Accounted
  <2>3. CASE (stage = "plain" /\ Recorded(b) = Erased) \/ InTodo(b)
    BY <1>1, <1>4, <2>3 DEF Accounted, InTodo
  <2>4. CASE InPackage(b)
    <3>1. PICK j \in DOMAIN cmd_list \ served :
            b \in BlocksOf(cmd_list[j]) /\ cmd_list[j].compare \in ComparesIn(stage)
      BY <2>4 DEF InPackage
    <3>2. CASE j = i
      <4>1. Checked(c)
        BY <1>3, <3>1, <3>2 DEF Checked, ComparesIn, c
      <4>2. verdict'[b] # "unread"
        BY <1>6, <3>1, <3>2, <4>1 DEF c
      <4> QED BY <4>2 DEF Accounted
    <3>3. CASE j # i
      <4>1. InPackage(b)'
        BY <1>1, <3>1, <3>3 DEF InPackage
      <4> QED BY <4>1 DEF Accounted
    <3> QED BY <3>2, <3>3
  <2> QED BY <2>1, <2>2, <2>3, <2>4 DEF Accounted
<1>12. UnitAtHand'
  BY <1>1, <1>4, <1>11 DEF UnitAtHand
<1> QED BY <1>8, <1>10, <1>12 DEF CompareInv

LEMMA AnswersCompared ==
  ASSUME IInv, CompareInv, stage # "none", SendReturns
  PROVE  CompareInv'
<1>1. /\ pc = "running" /\ served = DOMAIN cmd_list
      /\ NextStage /\ UNCHANGED <<loopVars, verdict>> /\ UNCHANGED worldVars
  BY DEF SendReturns, Records, Proceed
<1>2. stage \in NodeStages /\ todo = {}
  BY <1>1 DEF CompareInv, Comparison
<1>3. \A b : ~InTodo(b) /\ ~InPackage(b)
  BY <1>1, <1>2 DEF InTodo, InPackage
<1> QED BY <1>1, <1>2, <1>3, StageDone DEF loopVars, worldVars

LEMMA CompareInductive ==
  ASSUME IInv, CompareInv, [Next]_vars
  PROVE  CompareInv'
<1>1. CASE stage = "none"
  <2>1. stage' = "none" \/ EnterCompare
    BY <1>1, FromNone
  <2> QED BY <2>1, ComparisonBegins DEF CompareInv
<1>2. CASE stage # "none"
  <2>0. pc \in {"compare", "running"}
    BY <1>2 DEF IInv, Types, Locals
  <2>1. ASSUME NEW how, Leave(how)
        PROVE  CompareInv'
    BY <2>1 DEF Leave, CompareInv
  <2>2. CASE CompareUnit
    BY <2>2, UnitCompared
  <2>3. CASE \E node \in todo : CompareNode(node)
    BY <2>3, NodeCompared
  <2>4. CASE CompareSend
    BY <2>4, PackageCompared
  <2>5. CASE \E i \in DOMAIN cmd_list : Execute(i)
    BY <1>2, <2>5, CommandCompared
  <2>6. CASE SendReturns
    BY <1>2, <2>6, AnswersCompared
  <2>7. CASE (\E i \in DOMAIN cmd_list : ComparisonFails(i)) \/ Errors
    BY <2>1, <2>7 DEF ComparisonFails, Errors, SendFails, PowerCycle, Raise
  <2>8. CASE UNCHANGED vars
    <3>1. /\ UNCHANGED <<cmd_list, served, stage, todo, at, verdict, pc, read_hw_compare>>
          /\ UNCHANGED worldVars
      BY <2>8 DEF vars, packageVars, loopVars, compareVars
    <3>2. Comparison'
      BY <1>2, <3>1 DEF CompareInv, Comparison
    <3> QED BY <3>1, <3>2, ComparisonWaits
  <2>9. ~(\E r \in Requests : Call(r)) /\ ~PatternClears /\ ~Drawing /\ ~Saving
    BY <2>0 DEF Call, PatternClears, Drawing, Draw, DrawStuck, SendDrawn, Saving, SaveCommand,
       AllSaved
  <2>10. ~Chunking
    BY <2>0 DEF Chunking, Chunk, SendChunks, NextUnit
  <2> QED BY <2>2, <2>3, <2>4, <2>5, <2>6, <2>7, <2>8, <2>9, <2>10
       DEF Next, Steps, Comparing, Running
<1> QED BY <1>1, <1>2

(* What read_compare calls equal is equal, and no recorded block of a unit *)
(* it has left behind was passed over, whatever else was in its packages.  *)
THEOREM ComparisonsAreComplete == Spec => []VerifiedMeansEqual
<1>1. Init => CompareInv
  BY DEF Init, CompareInv
<1>2. IInv /\ CompareInv /\ [Next]_vars => CompareInv'
  BY CompareInductive
<1>3. CompareInv => VerifiedMeansEqual
  BY DEF CompareInv, EqualIsEqual, LeftBehind, VerifiedMeansEqual
<1> QED BY <1>1, <1>2, <1>3, Invariant, PTL DEF Spec

-----------------------------------------------------------------------------
(* The helpers against what CommandPackage promises and expects. *)

Sent == pc \in {"running", "save"} => is_cmd_sent

(* What a step can do to the package.                                      *)
Touch ==
  \/ /\ UNCHANGED <<cmd_list, is_cmd_sent>>
     /\ pc' = "running" <=> pc = "running"
     /\ pc' = "save" => pc = "save"
  \/ /\ \E c : cmd_list' = Append(cmd_list, c)
     /\ ~is_cmd_sent /\ UNCHANGED is_cmd_sent
     /\ pc \notin {"running", "save"} /\ pc' = pc
  \/ /\ ~is_cmd_sent /\ is_cmd_sent' /\ UNCHANGED cmd_list
     /\ pc # "running" /\ pc' = "running"
  \/ /\ cmd_list' = <<>> /\ ~is_cmd_sent' /\ pc' \notin {"running", "save"}
  \/ /\ UNCHANGED <<cmd_list, is_cmd_sent>>
     /\ pc = "running" /\ pc' # "running"

LEMMA SendTouches ==
  ASSUME IInv, pc \notin {"running", "save"}, NEW hw, Send(hw)
  PROVE  Touch
<1>1. CASE is_cmd_sent
  BY <1>1 DEF Send, Raise, Leave, Touch, packageVars
<1>2. CASE ~is_cmd_sent
  BY <1>2 DEF Send, Touch
<1> QED BY <1>1, <1>2

LEMMA RaiseTouches ==
  ASSUME Raise
  PROVE  Touch
  BY DEF Raise, Leave, Touch, packageVars

LEMMA EnqueueTouches ==
  ASSUME pc \notin {"running", "save"}, pc' = pc, NEW c, ~Refused(c), Enqueue(c)
  PROVE  Touch
  BY DEF Refused, Enqueue, Touch

LEMMA ClearTouches ==
  ASSUME ClearPackage, pc' \notin {"running", "save"}
  PROVE  Touch
  BY DEF ClearPackage, Touch

LEMMA StepTouches ==
  ASSUME IInv, [Next]_vars
  PROVE  Touch
<1>1. CASE \E r \in Requests : Call(r)
  <2>1. PICK r \in Requests : Call(r)
    BY <1>1
  <2>2. pc = "idle" /\ UNCHANGED <<cmd_list, is_cmd_sent>>
    BY <2>1 DEF Call, packageVars
  <2>3. CASE WrongArguments(r)
    BY <2>1, <2>2, <2>3 DEF Call, Touch
  <2>4. CASE ~WrongArguments(r)
    <3>1. r.fn \in RandomHelpers \cup {"sequential", "all", "compare"}
      BY DEF RequestType
    <3>2. pc' \in {"compare", "draw", "chunk", "unit"}
      BY <2>1, <2>4, <3>1 DEF Call, EnterCompare, RandomHelpers
    <3> QED BY <2>2, <3>2 DEF Touch
  <2> QED BY <2>3, <2>4
<1>2. CASE PatternClears
  BY <1>2, ClearTouches DEF PatternClears
<1>3. CASE Drawing
  <2>1. ASSUME NEW lun \in Luns, NEW drawn \in req.min_size .. req.max_size,
               NEW start \in Starts(lun, DataLen(lun, drawn)), Draw(lun, drawn, start)
        PROVE  Touch
    BY <2>1, RaiseTouches, EnqueueTouches DEF Draw
  <2>2. CASE DrawStuck
    BY <2>2, RaiseTouches DEF DrawStuck
  <2>3. CASE SendDrawn
    BY <2>3, SendTouches DEF SendDrawn
  <2> QED BY <1>3, <2>1, <2>2, <2>3 DEF Drawing
<1>4. CASE Chunking
  <2>1. CASE Chunk
    BY <2>1, RaiseTouches, EnqueueTouches DEF Chunk
  <2>2. CASE SendChunks
    BY <2>2, RaiseTouches, SendTouches DEF SendChunks
  <2>3. CASE NextUnit
    BY <2>3 DEF NextUnit, Leave, Touch, packageVars
  <2> QED BY <1>4, <2>1, <2>2, <2>3 DEF Chunking
<1>5. CASE Comparing
  <2>1. CASE CompareUnit
    BY <2>1 DEF CompareUnit, Leave, Touch, packageVars
  <2>2. ASSUME NEW node \in todo, CompareNode(node)
        PROVE  Touch
    BY <2>2, RaiseTouches, EnqueueTouches DEF CompareNode
  <2>3. CASE CompareSend
    <3>1. CASE NextStage /\ UNCHANGED packageVars
      BY <2>3, <3>1 DEF CompareSend, NextStage, Touch, packageVars
    <3>2. CASE Raise
      BY <3>2, RaiseTouches
    <3>3. CASE Send(stage = "plain")
      BY <2>3, <3>3, SendTouches DEF CompareSend
    <3> QED BY <2>3, <3>1, <3>2, <3>3 DEF CompareSend
  <2> QED BY <1>5, <2>1, <2>2, <2>3 DEF Comparing
<1>6. CASE Running
  <2>1. ASSUME NEW i \in DOMAIN cmd_list, Execute(i)
        PROVE  Touch
    BY <2>1 DEF Execute, Touch, packageVars
  <2>2. ASSUME NEW i \in DOMAIN cmd_list, ComparisonFails(i)
        PROVE  Touch
    BY <2>2, RaiseTouches DEF ComparisonFails
  <2>3. CASE SendReturns /\ Records
    BY <2>3 DEF SendReturns, Touch, packageVars
  <2>4. CASE SendReturns /\ ~Records
    <3>1. pc = "running" /\ ClearPackage /\ Proceed /\ UNCHANGED <<mark_tag, write_record>>
      BY <2>4 DEF SendReturns, worldVars
    <3> QED BY <3>1, ProceedFacts, ClearTouches
  <2> QED BY <1>6, <2>1, <2>2, <2>3, <2>4 DEF Running
<1>7. CASE Saving
  <2>1. CASE SaveCommand
    BY <2>1 DEF SaveCommand, Touch, packageVars
  <2>2. CASE AllSaved
    <3>1. pc = "save" /\ ClearPackage /\ Proceed /\ UNCHANGED <<mark_tag, write_record>>
      BY <2>2 DEF AllSaved
    <3> QED BY <3>1, ProceedFacts, ClearTouches
  <2> QED BY <1>7, <2>1, <2>2 DEF Saving
<1>8. CASE Errors
  <2>1. CASE SendFails
    BY <2>1, RaiseTouches DEF SendFails
  <2>2. CASE PowerCycle
    BY <2>2 DEF PowerCycle, Leave, Touch, packageVars
  <2> QED BY <1>8, <2>1, <2>2 DEF Errors
<1>9. CASE UNCHANGED vars
  BY <1>9 DEF vars, packageVars, Touch
<1> QED BY <1>1, <1>2, <1>3, <1>4, <1>5, <1>6, <1>7, <1>8, <1>9 DEF Next, Steps

LEMMA TouchKeepsSent ==
  ASSUME Sent, Touch
  PROVE  Sent'
  BY DEF Sent, Touch

(* Every step of the helpers is a step of the package, or none: commands   *)
(* are added to an open one only, it is started once, and then cleared.    *)
THEOREM HelpersUsePackage == Spec => UsesPackage
<1>1. Init => Sent
  BY DEF Init, Sent
<1>2. IInv /\ [Next]_vars /\ Sent => Sent'
  BY StepTouches, TouchKeepsSent
<1>3. ASSUME IInv, Sent, [Next]_vars
      PROVE  [Package!Next]_(Package!vars)
  <2> DEFINE ph == IF pc = "running" THEN "running" ELSE IF is_cmd_sent THEN "ended" ELSE "open"
  <2>1. Len(cmd_list) \in Nat /\ Len(<<>>) = 0
    BY <1>3, AppendFacts DEF IInv, PackageOk
  <2>2. \A c : Len(Append(cmd_list, c)) = Len(cmd_list) + 1
    BY <1>3, AppendFacts DEF IInv, PackageOk
  <2>3. Package!OwnAnswers({}) = <<>>
    BY DEF Package!OwnAnswers
  <2>4. CASE UNCHANGED cmd_list /\ ph' = ph
    BY <2>4 DEF Package!vars
  <2>5. CASE (\E c : cmd_list' = Append(cmd_list, c)) /\ ph = "open" /\ ph' = "open"
    BY <2>2, <2>5 DEF Package!vars, Package!Next, Package!Add
  <2>6. CASE UNCHANGED cmd_list /\ ph = "open" /\ ph' = "running"
    BY <2>6 DEF Package!vars, Package!Next, Package!Start
  <2>7. CASE cmd_list' = <<>> /\ ph' = "open"
    BY <2>1, <2>3, <2>7 DEF Package!vars, Package!Next, Package!Reset
  <2>8. CASE UNCHANGED cmd_list /\ ph = "running" /\ ph' = "ended"
    <3>1. {} \in SUBSET (1 .. Len(cmd_list))
      OBVIOUS
    <3> QED BY <2>3, <2>8, <3>1 DEF Package!vars, Package!Next, Package!End, Package!Fail
  <2>9. Touch
    BY <1>3, StepTouches
  <2> QED BY <1>3, <2>4, <2>5, <2>6, <2>7, <2>8, <2>9 DEF Touch, Sent
<1> QED BY <1>1, <1>2, <1>3, Invariant, PTL DEF Spec, UsesPackage
=============================================================================
