-------------------------- MODULE WriteRecordProofs --------------------------
(***************************************************************************)
(* The write record, for every unit, data and command: the list is sorted  *)
(* and true of the device, lookups are exact, and the whole implements the *)
(* map of LbaMap.                                                          *)
(***************************************************************************)
EXTENDS WriteRecordRefinement, SequenceTheorems, TLAPS

USE RecordAssumption

-----------------------------------------------------------------------------
(* Extents, and what a list of them says of a device. *)

Extents == {e \in [start : Lbas, end : Lbas, data : Data \cup {Erased}] : e.start <= e.end}

Blocks(e) == e.start .. e.end

BlocksOf(list) == {l \in Lbas : \E i \in 1 .. Len(list) : l \in Blocks(list[i])}

Ordered(list) == \A i, j \in 1 .. Len(list) : i < j => list[i].end < list[j].start

(* The extents of list say what dev holds, and hold all that was written,  *)
(* save for the blocks of exempt.                                          *)
Says(list, dev, exempt)  == \A i \in 1 .. Len(list) : \A l \in Blocks(list[i]) : l \in exempt \/ dev[l] = list[i].data
Holds(list, dev, exempt) == \A l \in Lbas : l \in exempt \/ dev[l] = NONE \/ l \in BlocksOf(list)

Truthful(list, dev, exempt) == Says(list, dev, exempt) /\ Holds(list, dev, exempt)

(* What a step of the loop makes of a list: pieces of its extents, and the *)
(* new one; of the blocks the new one does not hold, only lost are lost.   *)
PieceOf(p, list) == \E j \in 1 .. Len(list) : Blocks(p) \subseteq Blocks(list[j]) /\ p.data = list[j].data

Repairs(after, before, e, lost) ==
  /\ \A i \in 1 .. Len(after) : after[i] = e \/ PieceOf(after[i], before)
  /\ \A j \in 1 .. Len(before) : Blocks(before[j]) \subseteq Blocks(e) \cup BlocksOf(after) \cup lost

LEMMA ExtentType ==
  ASSUME NEW e \in Extents
  PROVE  /\ e.start \in Lbas /\ e.end \in Lbas /\ e.start \in Nat /\ e.end \in Nat
         /\ e.start <= e.end /\ e.end <= MaxLba
         /\ e.data \in Data \cup {Erased}
         /\ Blocks(e) \subseteq Lbas
  BY DEF Extents, Blocks, Lbas

LEMMA NodeType ==
  ASSUME NEW start \in Lbas, NEW end \in Lbas, NEW data \in Data \cup {Erased}, start <= end
  PROVE  Node(start, end, data) \in Extents
  BY DEF Node, Extents

(* InsertAt and RemoveAt, entry by entry.                                  *)
LEMMA Inserted ==
  ASSUME NEW list \in Seq(Extents), NEW k \in 1 .. Len(list) + 1, NEW e \in Extents
  PROVE  /\ InsertAt(list, k, e) \in Seq(Extents)
         /\ Len(InsertAt(list, k, e)) = Len(list) + 1
         /\ \A i \in 1 .. k - 1 : InsertAt(list, k, e)[i] = list[i]
         /\ InsertAt(list, k, e)[k] = e
         /\ \A i \in k + 1 .. Len(list) + 1 : InsertAt(list, k, e)[i] = list[i - 1]
<1> DEFINE n == Len(list)
           a == SubSeq(list, 1, k - 1)
           b == <<e>>
           c == SubSeq(list, k, Len(list))
<1>1. n \in Nat /\ k \in 1 .. n + 1 /\ \A i \in 1 .. n : list[i] \in Extents
  OBVIOUS
<1>2. a \in Seq(Extents) /\ Len(a) = k - 1 /\ \A i \in 1 .. k - 1 : a[i] = list[i]
  <2>1. \A i \in 1 .. k - 1 : list[i] \in Extents
    BY <1>1
  <2> QED BY <1>1, <2>1, SubSeqProperties
<1>3. c \in Seq(Extents) /\ Len(c) = n - k + 1 /\ \A i \in 1 .. n - k + 1 : c[i] = list[k + i - 1]
  <2>1. \A i \in k .. n : list[i] \in Extents
    BY <1>1
  <2>2. /\ c \in Seq(Extents) /\ Len(c) = IF k <= n THEN n - k + 1 ELSE 0
        /\ \A i \in 1 .. n - k + 1 : c[i] = list[k + i - 1]
    BY <1>1, <2>1, SubSeqProperties
  <2> QED BY <1>1, <2>2
<1>4. b \in Seq(Extents) /\ Len(b) = 1 /\ b[1] = e
  OBVIOUS
<1> HIDE DEF a, b, c, n
<1>5. /\ a \o b \in Seq(Extents) /\ Len(a \o b) = k
      /\ \A i \in 1 .. k : (a \o b)[i] = IF i <= k - 1 THEN a[i] ELSE b[i - (k - 1)]
  <2>1. /\ a \o b \in Seq(Extents) /\ Len(a \o b) = Len(a) + Len(b)
        /\ \A i \in 1 .. Len(a) + Len(b) : (a \o b)[i] = IF i <= Len(a) THEN a[i] ELSE b[i - Len(a)]
    BY ONLY <1>2, <1>4, ConcatProperties, Zenon
  <2>2. Len(a) + Len(b) = k
    BY <1>1, <1>2, <1>4
  <2> QED BY ONLY <1>2, <2>1, <2>2, Zenon
<1>6. /\ (a \o b) \o c \in Seq(Extents) /\ Len((a \o b) \o c) = n + 1
      /\ \A i \in 1 .. n + 1 : ((a \o b) \o c)[i] = IF i <= k THEN (a \o b)[i] ELSE c[i - k]
  <2> DEFINE ab == a \o b
  <2>1. ab \in Seq(Extents) /\ Len(ab) = k
    BY <1>5
  <2> HIDE DEF ab
  <2>2. /\ ab \o c \in Seq(Extents) /\ Len(ab \o c) = Len(ab) + Len(c)
        /\ \A i \in 1 .. Len(ab) + Len(c) : (ab \o c)[i] = IF i <= Len(ab) THEN ab[i] ELSE c[i - Len(ab)]
    BY ONLY <1>3, <2>1, ConcatProperties, Zenon
  <2>3. Len(ab) + Len(c) = n + 1
    BY <1>1, <1>3, <2>1
  <2>4. /\ ab \o c \in Seq(Extents) /\ Len(ab \o c) = n + 1
        /\ \A i \in 1 .. n + 1 : (ab \o c)[i] = IF i <= k THEN ab[i] ELSE c[i - k]
    BY ONLY <2>1, <2>2, <2>3, Zenon
  <2> QED BY ONLY <2>4 DEF ab
<1>7. InsertAt(list, k, e) = (a \o b) \o c
  BY DEF InsertAt, a, b, c
<1>8. \A i \in 1 .. k - 1 : ((a \o b) \o c)[i] = list[i]
  <2> TAKE i \in 1 .. k - 1
  <2>1. i \in 1 .. k /\ i \in 1 .. n + 1 /\ i <= k
    BY <1>1
  <2>2. ((a \o b) \o c)[i] = (a \o b)[i]
    BY <1>6, <2>1
  <2>3. (a \o b)[i] = a[i]
    BY <1>5, <2>1
  <2> QED BY <1>2, <2>2, <2>3
<1>9. ((a \o b) \o c)[k] = e
  BY <1>1, <1>4, <1>5, <1>6
<1>10. \A i \in k + 1 .. n + 1 : ((a \o b) \o c)[i] = list[i - 1]
  <2> TAKE i \in k + 1 .. n + 1
  <2>1. i - k \in 1 .. n - k + 1 /\ k + (i - k) - 1 = i - 1 /\ i \in 1 .. n + 1 /\ ~(i <= k)
    BY <1>1
  <2>2. ((a \o b) \o c)[i] = c[i - k]
    BY <1>6, <2>1
  <2>3. c[i - k] = list[k + (i - k) - 1]
    BY <1>3, <2>1
  <2> QED BY <2>1, <2>2, <2>3
<1> QED BY <1>6, <1>7, <1>8, <1>9, <1>10 DEF n

LEMMA Removed ==
  ASSUME NEW S, NEW list \in Seq(S), NEW k \in 1 .. Len(list)
  PROVE  /\ RemoveAt(list, k) \in Seq(S)
         /\ Len(RemoveAt(list, k)) = Len(list) - 1
         /\ \A i \in 1 .. k - 1 : RemoveAt(list, k)[i] = list[i]
         /\ \A i \in k .. Len(list) - 1 : RemoveAt(list, k)[i] = list[i + 1]
<1> DEFINE n == Len(list)
           a == SubSeq(list, 1, k - 1)
           c == SubSeq(list, k + 1, Len(list))
<1>1. n \in Nat /\ k \in 1 .. n /\ \A i \in 1 .. n : list[i] \in S
  OBVIOUS
<1>2. a \in Seq(S) /\ Len(a) = k - 1 /\ \A i \in 1 .. k - 1 : a[i] = list[i]
  <2>1. \A i \in 1 .. k - 1 : list[i] \in S
    BY <1>1
  <2> QED BY <1>1, <2>1, SubSeqProperties
<1>3. c \in Seq(S) /\ Len(c) = n - k /\ \A i \in 1 .. n - k : c[i] = list[k + i]
  <2>1. \A i \in k + 1 .. n : list[i] \in S
    BY <1>1
  <2>2. /\ c \in Seq(S) /\ Len(c) = IF k + 1 <= n THEN n - (k + 1) + 1 ELSE 0
        /\ \A i \in 1 .. n - (k + 1) + 1 : c[i] = list[k + 1 + i - 1]
    BY <1>1, <2>1, SubSeqProperties
  <2>3. Len(c) = n - k
    BY ONLY <1>1, <2>2
  <2>4. ASSUME NEW i \in 1 .. n - k
        PROVE  c[i] = list[k + i]
    <3>1. i \in 1 .. n - (k + 1) + 1 /\ k + 1 + i - 1 = k + i
      BY ONLY <1>1, <2>4
    <3> QED BY ONLY <2>2, <3>1, Zenon
  <2> QED BY ONLY <2>2, <2>3, <2>4, Zenon
<1> HIDE DEF a, c, n
<1>4. /\ a \o c \in Seq(S) /\ Len(a \o c) = n - 1
      /\ \A i \in 1 .. n - 1 : (a \o c)[i] = IF i <= k - 1 THEN a[i] ELSE c[i - (k - 1)]
  <2>1. /\ a \o c \in Seq(S) /\ Len(a \o c) = Len(a) + Len(c)
        /\ \A i \in 1 .. Len(a) + Len(c) : (a \o c)[i] = IF i <= Len(a) THEN a[i] ELSE c[i - Len(a)]
    BY ONLY <1>2, <1>3, ConcatProperties, Zenon
  <2>2. Len(a) + Len(c) = n - 1
    BY <1>1, <1>2, <1>3
  <2> QED BY ONLY <1>2, <2>1, <2>2, Zenon
<1>5. RemoveAt(list, k) = a \o c
  BY DEF RemoveAt, a, c
<1>6. \A i \in 1 .. k - 1 : (a \o c)[i] = list[i]
  BY <1>1, <1>2, <1>4
<1>7. \A i \in k .. n - 1 : (a \o c)[i] = list[i + 1]
  <2> TAKE i \in k .. n - 1
  <2>1. i - (k - 1) \in 1 .. n - k /\ k + (i - (k - 1)) = i + 1 /\ i \in 1 .. n - 1 /\ ~(i <= k - 1)
    BY <1>1
  <2>2. (a \o c)[i] = c[i - (k - 1)]
    BY <1>4, <2>1
  <2>3. c[i - (k - 1)] = list[k + (i - (k - 1))]
    BY <1>3, <2>1
  <2> QED BY <2>1, <2>2, <2>3
<1> QED BY <1>4, <1>5, <1>6, <1>7 DEF n

-----------------------------------------------------------------------------
(* A list of extents that is in order has each block once. *)

LEMMA OneHolder ==
  ASSUME NEW list \in Seq(Extents), Ordered(list),
         NEW i \in 1 .. Len(list), NEW j \in 1 .. Len(list), NEW l \in Int,
         l \in Blocks(list[i]), l \in Blocks(list[j])
  PROVE  i = j
<1>1. list[i] \in Extents /\ list[j] \in Extents
  OBVIOUS
<1>2. /\ list[i].start \in Nat /\ list[i].end \in Nat /\ list[j].start \in Nat /\ list[j].end \in Nat
  BY <1>1, ExtentType
<1>3. /\ list[i].start <= l /\ l <= list[i].end /\ list[j].start <= l /\ l <= list[j].end
  BY <1>2 DEF Blocks
<1>4. i < j => list[i].end < list[j].start
  BY DEF Ordered
<1>5. j < i => list[j].end < list[i].start
  BY DEF Ordered
<1> QED BY <1>2, <1>3, <1>4, <1>5

LEMMA StillTruthful ==
  ASSUME NEW before \in Seq(Extents), NEW after \in Seq(Extents), NEW e \in Extents,
         NEW dev, NEW T,
         Truthful(before, dev, T \cup Blocks(e)), Repairs(after, before, e, {}),
         \A l \in Blocks(e) : dev[l] = e.data
  PROVE  Truthful(after, dev, T \cup Blocks(e))
<1>1. Says(after, dev, T \cup Blocks(e))
  <2>1. SUFFICES ASSUME NEW i \in 1 .. Len(after), NEW l \in Blocks(after[i]), l \notin T \cup Blocks(e)
                 PROVE  dev[l] = after[i].data
    BY DEF Says
  <2>2. after[i] # e
    BY <2>1
  <2>3. PICK j \in 1 .. Len(before) : Blocks(after[i]) \subseteq Blocks(before[j]) /\ after[i].data = before[j].data
    BY <2>2 DEF Repairs, PieceOf
  <2> QED BY <2>1, <2>3 DEF Truthful, Says
<1>2. Holds(after, dev, T \cup Blocks(e))
  <2>1. SUFFICES ASSUME NEW l \in Lbas, l \notin T \cup Blocks(e), dev[l] # NONE
                 PROVE  l \in BlocksOf(after)
    BY DEF Holds
  <2>2. l \in BlocksOf(before)
    BY <2>1 DEF Truthful, Holds
  <2>3. PICK j \in 1 .. Len(before) : l \in Blocks(before[j])
    BY <2>2 DEF BlocksOf
  <2> QED BY <2>1, <2>3 DEF Repairs
<1> QED BY <1>1, <1>2 DEF Truthful

LEMMA TruthfulAgain ==
  ASSUME NEW list \in Seq(Extents), NEW e \in Extents, NEW dev, NEW T,
         Truthful(list, dev, T \cup Blocks(e)), Ordered(list),
         NEW k \in 1 .. Len(list), list[k] = e,
         \A l \in Blocks(e) : dev[l] = e.data
  PROVE  Truthful(list, dev, T)
<1>1. Says(list, dev, T)
  <2>1. SUFFICES ASSUME NEW i \in 1 .. Len(list), NEW l \in Blocks(list[i]), l \notin T
                 PROVE  dev[l] = list[i].data
    BY DEF Says
  <2>2. list[i] \in Extents
    OBVIOUS
  <2>3. l \in Lbas /\ l \in Int
    BY <2>2, ExtentType DEF Lbas
  <2>4. CASE l \in Blocks(e)
    <3>1. i = k
      BY <2>3, <2>4, OneHolder
    <3> QED BY <2>4, <3>1
  <2>5. CASE l \notin Blocks(e)
    BY <2>1, <2>5 DEF Truthful, Says
  <2> QED BY <2>4, <2>5
<1>2. Holds(list, dev, T)
  BY DEF Truthful, Holds, BlocksOf
<1> QED BY <1>1, <1>2 DEF Truthful

(* What the list says, and holds, of a block.                              *)
LEMMA RecordedBlock ==
  ASSUME write_record \in Seq(Extents), NEW dev, NEW T, NEW l \in Lbas, l \notin T,
         Truthful(write_record, dev, T)
  PROVE  Recorded(l) = dev[l]
<1> DEFINE holders == {i \in 1 .. Len(write_record) : l \in write_record[i].start .. write_record[i].end}
<1>1. CASE holders = {}
  <2>1. Recorded(l) = NONE
    BY <1>1 DEF Recorded
  <2>2. l \notin BlocksOf(write_record)
    BY <1>1 DEF BlocksOf, Blocks
  <2> QED BY <2>1, <2>2 DEF Truthful, Holds
<1>2. CASE holders # {}
  <2> DEFINE i == CHOOSE i \in holders : TRUE
  <2>1. i \in holders
    BY <1>2
  <2>2. Recorded(l) = write_record[i].data
    BY <1>2 DEF Recorded
  <2> HIDE DEF i
  <2>3. i \in 1 .. Len(write_record) /\ l \in Blocks(write_record[i])
    BY <2>1 DEF Blocks
  <2> QED BY <2>2, <2>3 DEF Truthful, Says
<1> QED BY <1>1, <1>2

-----------------------------------------------------------------------------
(* The cases of the save loop, as operations on a list. *)

(* The first s extents end before start, and if the next one does, those   *)
(* after it begin behind end.                                              *)
Placed(list, s, start, end) ==
  /\ \A i \in 1 .. s : list[i].end < start
  /\ s < Len(list) /\ list[s + 1].end < start => \A i \in s + 2 .. Len(list) : end < list[i].start

(* The new extent is the s-th; what follows it may still lie under it.     *)
Settled(list, s, e) ==
  /\ s \in 1 .. Len(list) /\ list[s] = e
  /\ \A i, j \in 1 .. Len(list) : i < j /\ i # s => list[i].end < list[j].start
  /\ \A j \in s + 1 .. Len(list) : e.start < list[j].start

LEMMA SameRepairs ==
  ASSUME NEW list \in Seq(Extents), NEW e
  PROVE  Repairs(list, list, e, {})
<1>1. \A i \in 1 .. Len(list) : PieceOf(list[i], list)
  BY DEF PieceOf
<1>2. \A i \in 1 .. Len(list) : Blocks(list[i]) \subseteq BlocksOf(list)
  <2> TAKE i \in 1 .. Len(list)
  <2>1. list[i] \in Extents
    OBVIOUS
  <2>2. Blocks(list[i]) \subseteq Lbas
    BY <2>1, ExtentType
  <2> QED BY <2>2 DEF BlocksOf
<1> QED BY <1>1, <1>2 DEF Repairs

LEMMA CutFacts ==
  ASSUME NEW list \in Seq(Extents), NEW a \in 1 .. Len(list), NEW p \in Extents,
         p.start >= list[a].start, p.end <= list[a].end, p.data = list[a].data,
         NEW e, NEW lost, Blocks(list[a]) \subseteq Blocks(e) \cup Blocks(p) \cup lost
  PROVE  LET cut == [list EXCEPT ![a] = p] IN
         /\ cut \in Seq(Extents) /\ Len(cut) = Len(list) /\ cut[a] = p
         /\ \A i \in 1 .. Len(list) : i # a => cut[i] = list[i]
         /\ Ordered(list) => Ordered(cut)
         /\ Repairs(cut, list, e, lost)
<1> DEFINE cut == [list EXCEPT ![a] = p]
<1>1. /\ cut \in Seq(Extents) /\ Len(cut) = Len(list) /\ cut[a] = p
      /\ \A i \in 1 .. Len(list) : i # a => cut[i] = list[i]
  OBVIOUS
<1>2. /\ list[a] \in Extents
      /\ p.start \in Nat /\ p.end \in Nat /\ list[a].start \in Nat /\ list[a].end \in Nat
  BY ExtentType
<1> HIDE DEF cut
<1>3. ASSUME Ordered(list), NEW i \in 1 .. Len(list), NEW j \in 1 .. Len(list), i < j
      PROVE  cut[i].end < cut[j].start
  <2>1. list[i].end < list[j].start
    BY <1>3 DEF Ordered
  <2>2. list[i] \in Extents /\ list[j] \in Extents
    OBVIOUS
  <2>3. list[i].end \in Nat /\ list[j].start \in Nat
    BY <2>2, ExtentType
  <2>4. CASE i = a
    BY <1>1, <1>2, <1>3, <2>1, <2>3, <2>4
  <2>5. CASE j = a
    BY <1>1, <1>2, <1>3, <2>1, <2>3, <2>5
  <2>6. CASE i # a /\ j # a
    BY <1>1, <2>1, <2>6
  <2> QED BY <2>4, <2>5, <2>6
<1>4. Ordered(list) => Ordered(cut)
  BY <1>1, <1>3 DEF Ordered
<1>5. Blocks(p) \subseteq Blocks(list[a])
  BY <1>2 DEF Blocks
<1>6. \A i \in 1 .. Len(list) : PieceOf(cut[i], list)
  <2> TAKE i \in 1 .. Len(list)
  <2>1. CASE i = a
    BY <1>1, <1>5, <2>1 DEF PieceOf
  <2>2. CASE i # a
    BY <1>1, <2>2 DEF PieceOf
  <2> QED BY <2>1, <2>2
<1>7. \A j \in 1 .. Len(list) : Blocks(list[j]) \subseteq Blocks(e) \cup BlocksOf(cut) \cup lost
  <2>1. \A i \in 1 .. Len(cut) : Blocks(cut[i]) \subseteq BlocksOf(cut)
    <3> TAKE i \in 1 .. Len(cut)
    <3>1. cut[i] \in Extents
      BY <1>1
    <3> QED BY <3>1, ExtentType DEF BlocksOf
  <2> TAKE j \in 1 .. Len(list)
  <2>2. CASE j = a
    BY <1>1, <2>1, <2>2
  <2>3. CASE j # a
    BY <1>1, <2>1, <2>3
  <2> QED BY <2>2, <2>3
<1>8. Repairs(cut, list, e, lost)
  BY <1>1, <1>6, <1>7 DEF Repairs
<1> QED BY <1>1, <1>4, <1>8 DEF cut

LEMMA PutRepairs ==
  ASSUME NEW before \in Seq(Extents), NEW after \in Seq(Extents), NEW e, NEW lost,
         Repairs(after, before, e, lost),
         NEW k \in 1 .. Len(after) + 1, NEW p \in Extents, p = e \/ PieceOf(p, before)
  PROVE  Repairs(InsertAt(after, k, p), before, e, lost \ Blocks(p))
<1> DEFINE put == InsertAt(after, k, p)
           n == Len(after)
<1>1. /\ put \in Seq(Extents) /\ Len(put) = n + 1 /\ put[k] = p
      /\ \A i \in 1 .. k - 1 : put[i] = after[i]
      /\ \A i \in k + 1 .. n + 1 : put[i] = after[i - 1]
  BY Inserted
<1>2. n \in Nat /\ k \in 1 .. n + 1
  OBVIOUS
<1> HIDE DEF put, n
<1>3. \A i \in 1 .. n + 1 : i = k \/ i \in 1 .. k - 1 \/ (i \in k + 1 .. n + 1 /\ i - 1 \in 1 .. n)
  BY <1>2
<1>4. \A i \in 1 .. k - 1 : i \in 1 .. n
  BY <1>2
<1>5. \A i \in 1 .. n + 1 : put[i] = p \/ \E j \in 1 .. n : put[i] = after[j]
  BY <1>1, <1>3, <1>4
<1>6. \A i \in 1 .. n + 1 : put[i] = e \/ PieceOf(put[i], before)
  BY <1>5 DEF Repairs, n
<1>7. \A j \in 1 .. n : \E i \in 1 .. n + 1 : put[i] = after[j]
  <2> TAKE j \in 1 .. n
  <2>1. CASE j < k
    BY <1>1, <1>2, <2>1
  <2>2. CASE j >= k
    <3> DEFINE i == j + 1
    <3>1. i \in k + 1 .. n + 1 /\ i \in 1 .. n + 1 /\ i - 1 = j
      BY <1>2, <2>2
    <3> HIDE DEF i
    <3> QED BY <1>1, <3>1
  <2> QED BY <1>2, <2>1, <2>2
<1>8. BlocksOf(after) \subseteq BlocksOf(put)
  BY <1>1, <1>7 DEF BlocksOf, n
<1>9. Blocks(p) \subseteq BlocksOf(put)
  BY <1>1, <1>2, ExtentType DEF BlocksOf
<1>10. \A j \in 1 .. Len(before) :
          Blocks(before[j]) \subseteq Blocks(e) \cup BlocksOf(put) \cup (lost \ Blocks(p))
  BY <1>8, <1>9 DEF Repairs
<1> QED BY <1>1, <1>6, <1>10 DEF Repairs, put

LEMMA PutFacts ==
  ASSUME NEW list \in Seq(Extents), Ordered(list), NEW k \in 1 .. Len(list) + 1, NEW e \in Extents,
         \A i \in 1 .. k - 1 : list[i].end < e.start
  PROVE  LET put == InsertAt(list, k, e) IN
         /\ (\A i \in k .. Len(list) : e.end < list[i].start) => Ordered(put)
         /\ (\A i \in k .. Len(list) : e.start < list[i].start) => Settled(put, k, e)
<1> DEFINE put == InsertAt(list, k, e)
           n == Len(list)
<1>1. /\ put \in Seq(Extents) /\ Len(put) = n + 1 /\ put[k] = e
      /\ \A i \in 1 .. k - 1 : put[i] = list[i]
      /\ \A i \in k + 1 .. n + 1 : put[i] = list[i - 1]
  BY Inserted
<1>2. n \in Nat /\ k \in 1 .. n + 1
  OBVIOUS
<1>3. \A i, j \in 1 .. n : i < j => list[i].end < list[j].start
  BY DEF Ordered
<1>4. \A i \in 1 .. k - 1 : put[i].end < e.start
  BY <1>1
<1> HIDE DEF put, n
<1>5. ASSUME NEW i \in 1 .. n + 1, NEW j \in 1 .. n + 1, i < j, i # k
      PROVE  put[i].end < put[j].start
  <2>1. CASE j < k
    <3>1. put[i] = list[i] /\ put[j] = list[j] /\ i \in 1 .. n /\ j \in 1 .. n
      BY <1>1, <1>2, <1>5, <2>1
    <3> QED BY <1>3, <1>5, <3>1
  <2>2. CASE j = k
    <3>1. i \in 1 .. k - 1
      BY <1>2, <1>5, <2>2
    <3> QED BY <1>1, <1>4, <2>2, <3>1
  <2>3. CASE j > k /\ i < k
    <3>1. put[i] = list[i] /\ put[j] = list[j - 1] /\ i \in 1 .. n /\ j - 1 \in 1 .. n /\ i < j - 1
      BY <1>1, <1>2, <1>5, <2>3
    <3> QED BY <1>3, <3>1
  <2>4. CASE j > k /\ i > k
    <3>1. put[i] = list[i - 1] /\ put[j] = list[j - 1] /\ i - 1 \in 1 .. n /\ j - 1 \in 1 .. n
          /\ i - 1 < j - 1
      BY <1>1, <1>2, <1>5, <2>4
    <3> QED BY <1>3, <3>1
  <2> QED BY <1>2, <1>5, <2>1, <2>2, <2>3, <2>4
<1>6. ASSUME NEW j \in k + 1 .. n + 1
      PROVE  j - 1 \in k .. n /\ put[j] = list[j - 1]
  BY <1>1, <1>2
<1>7. ASSUME \A i \in k .. n : e.end < list[i].start
      PROVE  Ordered(put)
  <2>1. \A j \in k + 1 .. n + 1 : put[k].end < put[j].start
    BY <1>1, <1>6, <1>7
  <2>2. ASSUME NEW i \in 1 .. n + 1, NEW j \in 1 .. n + 1, i < j
        PROVE  put[i].end < put[j].start
    <3>1. CASE i = k
      <4>1. j \in k + 1 .. n + 1
        BY <1>2, <2>2, <3>1
      <4> QED BY <2>1, <3>1, <4>1
    <3> QED BY <1>5, <2>2, <3>1
  <2> QED BY <1>1, <2>2 DEF Ordered
<1>8. ASSUME \A i \in k .. n : e.start < list[i].start
      PROVE  Settled(put, k, e)
  <2>1. \A j \in k + 1 .. n + 1 : e.start < put[j].start
    BY <1>6, <1>8
  <2> QED BY <1>1, <1>2, <1>5, <2>1 DEF Settled
<1> QED BY <1>7, <1>8 DEF put, n

(* Case 1.                                                                 *)
LEMMA ReplaceFacts ==
  ASSUME NEW list \in Seq(Extents), Ordered(list), NEW a \in 1 .. Len(list), NEW e \in Extents,
         \A i \in 1 .. a - 1 : list[i].end < e.start,
         e.start <= list[a].start, e.end >= list[a].end
  PROVE  LET after == [list EXCEPT ![a] = e] IN
         after \in Seq(Extents) /\ Settled(after, a, e) /\ Repairs(after, list, e, {})
<1> DEFINE after == [list EXCEPT ![a] = e]
<1>1. /\ after \in Seq(Extents) /\ Len(after) = Len(list) /\ after[a] = e
      /\ \A i \in 1 .. Len(list) : i # a => after[i] = list[i]
  OBVIOUS
<1> HIDE DEF after
<1>2. /\ list[a] \in Extents
      /\ e.start \in Nat /\ e.end \in Nat /\ list[a].start \in Nat /\ list[a].end \in Nat
      /\ list[a].start <= list[a].end
  BY ExtentType
<1>3. ASSUME NEW i \in 1 .. Len(list), NEW j \in 1 .. Len(list), i < j, i # a
      PROVE  after[i].end < after[j].start
  <2>1. CASE j = a
    <3>1. i \in 1 .. a - 1
      BY <1>3, <2>1
    <3> QED BY <1>1, <1>3, <2>1, <3>1
  <2>2. CASE j # a
    BY <1>1, <1>3, <2>2 DEF Ordered
  <2> QED BY <2>1, <2>2
<1>4. ASSUME NEW j \in a + 1 .. Len(list)
      PROVE  e.start < after[j].start
  <2>1. j \in 1 .. Len(list) /\ a < j
    OBVIOUS
  <2>2. list[j] \in Extents /\ list[a].end < list[j].start
    BY <2>1 DEF Ordered
  <2>3. list[j].start \in Nat
    BY <2>2, ExtentType
  <2> QED BY <1>1, <1>2, <2>1, <2>2, <2>3
<1>5. Settled(after, a, e)
  BY <1>1, <1>3, <1>4 DEF Settled
<1>6. \A i \in 1 .. Len(list) : after[i] = e \/ PieceOf(after[i], list)
  BY <1>1 DEF PieceOf
<1>7. ASSUME NEW j \in 1 .. Len(list)
      PROVE  Blocks(list[j]) \subseteq Blocks(e) \cup BlocksOf(after)
  <2>1. CASE j = a
    BY <1>2, <2>1 DEF Blocks
  <2>2. CASE j # a
    <3>1. list[j] \in Extents /\ after[j] = list[j]
      BY <1>1, <2>2
    <3> QED BY <1>1, <3>1, ExtentType DEF BlocksOf
  <2> QED BY <2>1, <2>2
<1> QED BY <1>1, <1>5, <1>6, <1>7 DEF Repairs, after

LEMMA RemoveFacts ==
  ASSUME NEW list \in Seq(Extents), NEW s \in 1 .. Len(list) - 1, NEW e \in Extents,
         Settled(list, s, e), e.start <= list[s + 1].start, e.end >= list[s + 1].end
  PROVE  LET after == RemoveAt(list, s + 1) IN
         after \in Seq(Extents) /\ Settled(after, s, e) /\ Repairs(after, list, e, {})
<1> DEFINE a == s + 1
           n == Len(list)
           after == RemoveAt(list, a)
<1>1. n \in Nat /\ s \in 1 .. n - 1 /\ a \in 1 .. n /\ a = s + 1
  OBVIOUS
<1>2. /\ after \in Seq(Extents) /\ Len(after) = n - 1
      /\ \A i \in 1 .. a - 1 : after[i] = list[i]
      /\ \A i \in a .. n - 1 : after[i] = list[i + 1]
  BY <1>1, Removed
<1>3. /\ e.start \in Nat /\ e.end \in Nat /\ list[a] \in Extents
      /\ e.start <= list[a].start /\ e.end >= list[a].end
      /\ list[a].start \in Nat /\ list[a].end \in Nat
  BY <1>1, ExtentType
<1>4. list[s] = e /\ (\A i, j \in 1 .. n : i < j /\ i # s => list[i].end < list[j].start)
      /\ \A j \in s + 1 .. n : e.start < list[j].start
  BY DEF Settled
<1> HIDE DEF a, n, after
<1>5. \A i \in 1 .. n - 1 : \/ i < a /\ i \in 1 .. n /\ after[i] = list[i]
                            \/ i >= a /\ i + 1 \in 1 .. n /\ after[i] = list[i + 1]
  BY <1>1, <1>2
<1>6. ASSUME NEW i \in 1 .. n - 1, NEW j \in 1 .. n - 1, i < j, i # s
      PROVE  after[i].end < after[j].start
  <2>1. CASE j < a
    <3>1. i \in 1 .. n /\ j \in 1 .. n /\ after[i] = list[i] /\ after[j] = list[j]
      BY <1>1, <1>5, <1>6, <2>1
    <3> QED BY <1>4, <1>6, <3>1
  <2>2. CASE j >= a /\ i < a
    <3>1. i \in 1 .. n /\ j + 1 \in 1 .. n /\ after[i] = list[i] /\ after[j] = list[j + 1] /\ i < j + 1
      BY <1>1, <1>5, <1>6, <2>2
    <3> QED BY <1>4, <1>6, <3>1
  <2>3. CASE i >= a
    <3>1. i + 1 \in 1 .. n /\ j + 1 \in 1 .. n /\ after[i] = list[i + 1] /\ after[j] = list[j + 1]
          /\ i + 1 < j + 1 /\ i + 1 # s
      BY <1>1, <1>5, <1>6, <2>3
    <3> QED BY <1>4, <3>1
  <2> QED BY <1>1, <1>6, <2>1, <2>2, <2>3
<1>7. ASSUME NEW j \in s + 1 .. n - 1
      PROVE  e.start < after[j].start
  <2>1. after[j] = list[j + 1] /\ j + 1 \in s + 1 .. n
    BY <1>1, <1>2
  <2> QED BY <1>4, <2>1
<1>8. after[s] = e
  BY <1>1, <1>2, <1>4
<1>9. Settled(after, s, e)
  BY <1>1, <1>2, <1>6, <1>7, <1>8 DEF Settled
<1>10. \A i \in 1 .. n - 1 : PieceOf(after[i], list)
  BY <1>5 DEF PieceOf, n
<1>11. ASSUME NEW j \in 1 .. n
       PROVE  Blocks(list[j]) \subseteq Blocks(e) \cup BlocksOf(after)
  <2>1. CASE j = a
    BY <1>3, <2>1 DEF Blocks
  <2>2. CASE j # a
    <3>1. list[j] \in Extents
      BY DEF n
    <3>2. \E i \in 1 .. n - 1 : after[i] = list[j]
      <4>1. CASE j < a
        <5>1. j \in 1 .. n - 1 /\ after[j] = list[j]
          BY <1>1, <1>2, <4>1
        <5> QED BY <5>1
      <4>2. CASE j > a
        <5> DEFINE i == j - 1
        <5>1. i \in 1 .. n - 1 /\ i \in a .. n - 1 /\ i + 1 = j
          BY <1>1, <4>2
        <5> HIDE DEF i
        <5>2. after[i] = list[i + 1]
          BY <1>2, <5>1
        <5> QED BY <5>1, <5>2
      <4> QED BY <1>1, <2>2, <4>1, <4>2
    <3> QED BY <1>2, <3>1, <3>2, ExtentType DEF BlocksOf
  <2> QED BY <2>1, <2>2
<1> QED BY <1>2, <1>9, <1>10, <1>11 DEF Repairs, after, a, n

-----------------------------------------------------------------------------
(* The inductive invariant. *)

Saving == pc = "save" \/ (pc = "search" /\ op = "save")

ControlInv ==
  /\ pc \in {"idle", "next", "search", "save", "find", "found"} /\ op \in {"save", "find"}
  /\ pc \in {"idle", "next", "save"} => op = "save"
  /\ pc \in {"find", "found"} => op = "find"
  /\ pc = "idle" \/ op = "find" => todo = <<>>
  /\ pc = "search" /\ op = "save" => ~insert
  /\ insert \in BOOLEAN
  /\ Saving => write_record # <<>>

(* The device has what the command still to be recorded left there.        *)
DataInv ==
  /\ device \in [Lbas -> Data \cup {Erased, NONE}]
  /\ todo \in Seq(Extents)
  /\ \A i \in 1 .. Len(todo) : \A l \in Blocks(todo[i]) : device[l] = todo[i].data
  /\ Saving => new \in Extents /\ \A l \in Blocks(new) : device[l] = new.data
  /\ op = "find" => new \in [start : Lbas, end : Lbas, data : {NONE}] /\ new.start <= new.end

(* The list tells the truth of every block but those still to be recorded. *)
ListInv ==
  /\ write_record \in Seq(Extents)
  /\ ~(pc = "save" /\ insert) => Ordered(write_record)
  /\ ~Saving => Truthful(write_record, device, BlocksOf(todo))
  /\ Saving => Truthful(write_record, device, BlocksOf(todo) \cup Blocks(new))

(* The loop starts where the search put it, and has nothing behind it to   *)
(* repair.                                                                 *)
SaveInv ==
  pc = "save" =>
    IF insert THEN Settled(write_record, start_index, new)
    ELSE /\ start_index \in 0 .. Len(write_record) - 1
         /\ Placed(write_record, start_index, new.start, new.end)

LEMMA NewWithoutHead ==
  ASSUME NEW list \in Seq(Extents), NEW a \in 1 .. Len(list), NEW x
  PROVE  [list EXCEPT ![a].start = x] = [list EXCEPT ![a] = Node(x, list[a].end, list[a].data)]
<1>1. list[a] \in [start : Lbas, end : Lbas, data : Data \cup {Erased}]
  BY DEF Extents
<1>2. [list[a] EXCEPT !.start = x] = Node(x, list[a].end, list[a].data)
  BY <1>1 DEF Node
<1> QED BY <1>2, Zenon

LEMMA NewWithoutTail ==
  ASSUME NEW list \in Seq(Extents), NEW a \in 1 .. Len(list), NEW x
  PROVE  [list EXCEPT ![a].end = x] = [list EXCEPT ![a] = Node(list[a].start, x, list[a].data)]
<1>1. list[a] \in [start : Lbas, end : Lbas, data : Data \cup {Erased}]
  BY DEF Extents
<1>2. [list[a] EXCEPT !.end = x] = Node(list[a].start, x, list[a].data)
  BY <1>1 DEF Node
<1> QED BY <1>2, Zenon

(* What an iteration that leaves the loop has to show.                     *)
Done(after, before, e) ==
  /\ after \in Seq(Extents) /\ Ordered(after) /\ Repairs(after, before, e, {})
  /\ \E k \in 1 .. Len(after) : after[k] = e

(* Case 2, the new extent not yet in the list.                             *)
LEMMA SplitFacts ==
  ASSUME NEW list \in Seq(Extents), Ordered(list), NEW a \in 1 .. Len(list), NEW e \in Extents,
         \A i \in 1 .. a - 1 : list[i].end < e.start,
         list[a].start <= e.start, list[a].end > e.end
  PROVE  LET cut == [list EXCEPT ![a].start = e.end + 1]
             put == InsertAt(cut, a, e)
             rest == Node(list[a].start, e.start - 1, list[a].data)
         IN  /\ list[a].start = e.start => Done(put, list, e)
             /\ list[a].start # e.start => Done(InsertAt(put, a, rest), list, e)
<1> DEFINE n == Len(list)
           o == list[a]
           p == Node(e.end + 1, o.end, o.data)
           cut == [list EXCEPT ![a].start = e.end + 1]
           put == InsertAt(cut, a, e)
           rest == Node(o.start, e.start - 1, o.data)
           lost == Blocks(o) \ (Blocks(e) \cup Blocks(p))
<1>1. n \in Nat /\ a \in 1 .. n /\ o \in Extents
  OBVIOUS
<1>2. /\ o.start \in Lbas /\ o.end \in Lbas /\ o.data \in Data \cup {Erased}
      /\ o.start \in Nat /\ o.end \in Nat /\ o.end <= MaxLba /\ o.start <= o.end
      /\ e.start \in Nat /\ e.end \in Nat /\ e.start \in Lbas /\ e.end \in Lbas /\ e.start <= e.end
  BY <1>1, ExtentType
<1>3. p \in Extents /\ p.start = e.end + 1 /\ p.end = o.end /\ p.data = o.data
  <2>1. e.end + 1 \in Lbas /\ e.end + 1 <= o.end
    BY <1>2 DEF Lbas
  <2>2. p \in Extents
    BY <1>2, <2>1, NodeType
  <2> QED BY <2>2 DEF Node
<1>4. cut = [list EXCEPT ![a] = p]
  BY NewWithoutHead
<1>5. p.start >= o.start /\ p.end <= o.end /\ Blocks(o) \subseteq Blocks(e) \cup Blocks(p) \cup lost
  BY <1>2, <1>3
<1> HIDE DEF p, cut, lost
<1>6. /\ cut \in Seq(Extents) /\ Len(cut) = n /\ cut[a] = p
      /\ \A i \in 1 .. n : i # a => cut[i] = list[i]
      /\ Ordered(cut) /\ Repairs(cut, list, e, lost)
  <2> DEFINE c == [list EXCEPT ![a] = p]
  <2>1. /\ c \in Seq(Extents) /\ Len(c) = Len(list) /\ c[a] = p
        /\ \A i \in 1 .. Len(list) : i # a => c[i] = list[i]
        /\ Ordered(list) => Ordered(c)
        /\ Repairs(c, list, e, lost)
    BY <1>3, <1>5, CutFacts, Zenon
  <2> HIDE DEF c
  <2>2. cut = c
    BY <1>4 DEF c
  <2> QED BY <2>1, <2>2, Zenon
<1>7. \A i \in 1 .. a - 1 : cut[i].end < e.start
  BY <1>1, <1>6
<1>8. \A i \in a .. n : e.end < cut[i].start
  <2> TAKE i \in a .. n
  <2>1. CASE i = a
    BY <1>2, <1>3, <1>6, <2>1
  <2>2. CASE i # a
    <3>1. i \in 1 .. n /\ a < i /\ i \in 1 .. Len(cut) /\ a \in 1 .. Len(cut)
      BY <1>1, <1>6, <2>2
    <3>2. cut[a].end < cut[i].start
      BY <1>6, <3>1 DEF Ordered
    <3>3. cut[i] \in Extents
      BY <1>6, <3>1
    <3> QED BY <1>2, <1>3, <1>6, <3>2, <3>3, ExtentType
  <2> QED BY <2>1, <2>2
<1>9. Ordered(put)
  <2>1. a \in 1 .. Len(cut) + 1 /\ \A i \in a .. Len(cut) : e.end < cut[i].start
    BY <1>1, <1>6, <1>8
  <2> QED BY <1>6, <1>7, <2>1, PutFacts, Zenon
<1>10. /\ put \in Seq(Extents) /\ Len(put) = n + 1 /\ put[a] = e
       /\ \A i \in 1 .. a - 1 : put[i] = cut[i]
  <2>1. a \in 1 .. Len(cut) + 1 /\ cut \in Seq(Extents) /\ e \in Extents
    BY <1>1, <1>6
  <2>2. /\ put \in Seq(Extents) /\ Len(put) = Len(cut) + 1 /\ put[a] = e
        /\ \A i \in 1 .. a - 1 : put[i] = cut[i]
    BY ONLY <2>1, Inserted
  <2> QED BY <1>6, <2>2
<1>11. Repairs(put, list, e, lost \ Blocks(e))
  BY <1>1, <1>6, PutRepairs
<1> HIDE DEF put
<1>12. ASSUME o.start = e.start
       PROVE  Done(put, list, e)
  <2>1. lost \ Blocks(e) = {}
    BY <1>2, <1>3, <1>12 DEF lost, Blocks
  <2>2. a \in 1 .. Len(put)
    BY <1>1, <1>10
  <2> QED BY ONLY <1>9, <1>10, <1>11, <2>1, <2>2, Zenon DEF Done
<1>13. ASSUME o.start # e.start
       PROVE  Done(InsertAt(put, a, rest), list, e)
  <2> DEFINE all == InsertAt(put, a, rest)
  <2>1. rest \in Extents /\ rest.start = o.start /\ rest.end = e.start - 1 /\ rest.data = o.data
    <3>1. e.start - 1 \in Lbas /\ o.start <= e.start - 1
      BY <1>2, <1>13 DEF Lbas
    <3>2. rest \in Extents
      BY <1>2, <3>1, NodeType
    <3> QED BY <3>2 DEF Node
  <2> HIDE DEF rest
  <2>2. Blocks(rest) \subseteq Blocks(o)
    BY <1>2, <2>1 DEF Blocks
  <2>3. PieceOf(rest, list)
    BY <2>1, <2>2 DEF PieceOf
  <2>4. \A i \in 1 .. a - 1 : put[i].end < rest.start
    <3> TAKE i \in 1 .. a - 1
    <3>1. i \in 1 .. n /\ i < a /\ put[i] = list[i]
      BY <1>1, <1>6, <1>10
    <3> QED BY <2>1, <3>1 DEF Ordered
  <2>5. \A i \in a .. n + 1 : rest.end < put[i].start
    <3> TAKE i \in a .. n + 1
    <3>1. CASE i = a
      BY <1>2, <1>10, <2>1, <3>1
    <3>2. CASE i # a
      <4>1. i \in 1 .. Len(put) /\ a \in 1 .. Len(put) /\ a < i
        BY <1>1, <1>10, <3>2
      <4>2. put[a].end < put[i].start
        BY <1>9, <4>1 DEF Ordered
      <4>3. put[i] \in Extents
        BY <1>10, <4>1
      <4>4. /\ rest.end = e.start - 1 /\ put[a] = e /\ e \in Extents
            /\ e.start \in Nat /\ e.end \in Nat /\ e.start <= e.end /\ put[i].start \in Nat
        BY <1>2, <1>10, <2>1, <4>3, ExtentType
      <4> QED BY ONLY <4>2, <4>4
    <3> QED BY <3>1, <3>2
  <2>6. a \in 1 .. Len(put) + 1
    BY <1>1, <1>10
  <2>7. Ordered(all)
    BY <1>9, <1>10, <2>1, <2>4, <2>5, <2>6, PutFacts
  <2>8. /\ all \in Seq(Extents) /\ Len(all) = n + 2
        /\ \A i \in a + 1 .. n + 2 : all[i] = put[i - 1]
    <3>1. Len(put) + 1 = n + 2
      BY <1>1, <1>10
    <3>2. /\ all \in Seq(Extents) /\ Len(all) = Len(put) + 1
          /\ \A i \in a + 1 .. Len(put) + 1 : all[i] = put[i - 1]
      <4>1. put \in Seq(Extents) /\ rest \in Extents /\ a \in 1 .. Len(put) + 1
        BY <1>10, <2>1, <2>6
      <4>2. all = InsertAt(put, a, rest)
        BY Zenon
      <4> QED BY ONLY <4>1, <4>2, Inserted
    <3> QED BY <3>1, <3>2, Zenon
  <2>9. all[a + 1] = e /\ a + 1 \in 1 .. n + 2
    <3>1. a + 1 \in a + 1 .. n + 2 /\ a + 1 - 1 = a /\ a + 1 \in 1 .. n + 2
      BY <1>1
    <3> QED BY <1>10, <2>8, <3>1
  <2>10. Repairs(all, list, e, (lost \ Blocks(e)) \ Blocks(rest))
    BY <1>10, <1>11, <2>1, <2>3, <2>6, PutRepairs
  <2>11. (lost \ Blocks(e)) \ Blocks(rest) = {}
    BY <1>2, <1>3, <2>1 DEF lost, Blocks
  <2> HIDE DEF all
  <2>12. Done(all, list, e)
    BY <2>7, <2>8, <2>9, <2>10, <2>11 DEF Done
  <2> QED BY <2>12 DEF all, rest
<1> QED BY <1>12, <1>13 DEF cut, put

(* Case 3.                                                                 *)
LEMMA CutTailFacts ==
  ASSUME NEW list \in Seq(Extents), Ordered(list), NEW a \in 1 .. Len(list), NEW e \in Extents,
         \A i \in 1 .. a - 1 : list[i].end < e.start,
         list[a].start < e.start, e.start <= list[a].end, list[a].end <= e.end
  PROVE  LET cut == [list EXCEPT ![a].end = e.start - 1]
             put == InsertAt(cut, a + 1, e)
         IN  put \in Seq(Extents) /\ Settled(put, a + 1, e) /\ Repairs(put, list, e, {})
<1> DEFINE n == Len(list)
           o == list[a]
           p == Node(o.start, e.start - 1, o.data)
           cut == [list EXCEPT ![a].end = e.start - 1]
           put == InsertAt(cut, a + 1, e)
<1>1. n \in Nat /\ a \in 1 .. n /\ o \in Extents
  OBVIOUS
<1>2. /\ o.start \in Lbas /\ o.end \in Lbas /\ o.data \in Data \cup {Erased}
      /\ o.start \in Nat /\ o.end \in Nat /\ o.end <= MaxLba
      /\ e.start \in Nat /\ e.end \in Nat /\ e.start \in Lbas /\ e.start <= MaxLba
  BY <1>1, ExtentType
<1>3. p \in Extents /\ p.start = o.start /\ p.end = e.start - 1 /\ p.data = o.data
  <2>1. e.start - 1 \in Lbas /\ o.start <= e.start - 1
    BY <1>2 DEF Lbas
  <2>2. p \in Extents
    BY <1>2, <2>1, NodeType
  <2> QED BY <2>2 DEF Node
<1>4. cut = [list EXCEPT ![a] = p]
  BY NewWithoutTail
<1> HIDE DEF p
<1>5. p.start >= o.start /\ p.end <= o.end /\ Blocks(o) \subseteq Blocks(e) \cup Blocks(p) \cup {}
  BY <1>2, <1>3 DEF Blocks
<1> HIDE DEF cut
<1>6. /\ cut \in Seq(Extents) /\ Len(cut) = n /\ cut[a] = p
      /\ \A i \in 1 .. n : i # a => cut[i] = list[i]
      /\ Ordered(cut) /\ Repairs(cut, list, e, {})
  <2> DEFINE c == [list EXCEPT ![a] = p]
  <2>1. /\ c \in Seq(Extents) /\ Len(c) = Len(list) /\ c[a] = p
        /\ \A i \in 1 .. Len(list) : i # a => c[i] = list[i]
        /\ Ordered(list) => Ordered(c)
        /\ Repairs(c, list, e, {})
    BY <1>3, <1>5, CutFacts, Zenon
  <2> HIDE DEF c
  <2>2. cut = c
    BY <1>4 DEF c
  <2> QED BY <2>1, <2>2, Zenon
<1>7. \A i \in 1 .. a : cut[i].end < e.start
  <2> TAKE i \in 1 .. a
  <2>1. CASE i = a
    BY <1>2, <1>3, <1>6, <2>1
  <2>2. CASE i # a
    <3>1. i \in 1 .. a - 1 /\ i \in 1 .. n
      BY <1>1, <2>2
    <3> QED BY <1>6, <2>2, <3>1
  <2> QED BY <2>1, <2>2
<1>8. \A i \in a + 1 .. n : e.start < cut[i].start
  <2> TAKE i \in a + 1 .. n
  <2>1. i \in 1 .. n /\ a < i
    BY <1>1
  <2>2. list[a].end < list[i].start /\ cut[i] = list[i] /\ list[i] \in Extents
    BY <1>6, <2>1 DEF Ordered
  <2> QED BY <1>2, <2>2, ExtentType
<1>9. a + 1 \in 1 .. Len(cut) + 1 /\ a + 1 - 1 = a
  BY <1>1, <1>6
<1>10. \A i \in 1 .. a + 1 - 1 : cut[i].end < e.start
  BY <1>7, <1>9
<1>11. Settled(put, a + 1, e)
  <2> DEFINE k == a + 1
  <2>1. \A i \in k .. Len(cut) : e.start < cut[i].start
    BY <1>6, <1>8
  <2>2. e \in Extents /\ cut \in Seq(Extents) /\ Ordered(cut)
    BY <1>6
  <2>3. k \in 1 .. Len(cut) + 1 /\ \A i \in 1 .. k - 1 : cut[i].end < e.start
    BY <1>9, <1>10
  <2> HIDE DEF k
  <2>4. Settled(InsertAt(cut, k, e), k, e)
    BY ONLY <2>1, <2>2, <2>3, PutFacts
  <2> QED BY <2>4 DEF k
<1>12. put \in Seq(Extents)
  BY <1>6, <1>9, Inserted
<1>13. Repairs(put, list, e, {} \ Blocks(e))
  BY <1>6, <1>9, PutRepairs
<1>14. {} \ Blocks(e) = {}
  OBVIOUS
<1> QED BY <1>11, <1>12, <1>13, <1>14 DEF cut

(* Case 4.                                                                 *)
LEMMA CutHeadFacts ==
  ASSUME NEW list \in Seq(Extents), NEW a \in 1 .. Len(list), NEW e \in Extents,
         e.start < list[a].start, list[a].start <= e.end, e.end < list[a].end
  PROVE  LET cut == [list EXCEPT ![a].start = e.end + 1] IN
         /\ Ordered(list) /\ (\A i \in 1 .. a - 1 : list[i].end < e.start) =>
              Done(InsertAt(cut, a, e), list, e)
         /\ a - 1 \in 1 .. Len(list) /\ Settled(list, a - 1, e) => Done(cut, list, e)
<1> DEFINE n == Len(list)
           o == list[a]
           p == Node(e.end + 1, o.end, o.data)
           cut == [list EXCEPT ![a].start = e.end + 1]
           put == InsertAt(cut, a, e)
<1>1. n \in Nat /\ a \in 1 .. n /\ o \in Extents
  OBVIOUS
<1>2. /\ o.start \in Lbas /\ o.end \in Lbas /\ o.data \in Data \cup {Erased}
      /\ o.start \in Nat /\ o.end \in Nat /\ o.end <= MaxLba
      /\ e.start \in Nat /\ e.end \in Nat
  BY <1>1, ExtentType
<1>3. p \in Extents /\ p.start = e.end + 1 /\ p.end = o.end /\ p.data = o.data
  <2>1. e.end + 1 \in Lbas /\ e.end + 1 <= o.end
    BY <1>2 DEF Lbas
  <2>2. p \in Extents
    BY <1>2, <2>1, NodeType
  <2> QED BY <2>2 DEF Node
<1>4. cut = [list EXCEPT ![a] = p]
  BY NewWithoutHead
<1> HIDE DEF p
<1>5. p.start >= o.start /\ p.end <= o.end /\ Blocks(o) \subseteq Blocks(e) \cup Blocks(p) \cup {}
  BY <1>2, <1>3 DEF Blocks
<1> HIDE DEF cut
<1>6. /\ cut \in Seq(Extents) /\ Len(cut) = n /\ cut[a] = p
      /\ \A i \in 1 .. n : i # a => cut[i] = list[i]
      /\ Ordered(list) => Ordered(cut)
      /\ Repairs(cut, list, e, {})
  <2> DEFINE c == [list EXCEPT ![a] = p]
  <2>1. /\ c \in Seq(Extents) /\ Len(c) = Len(list) /\ c[a] = p
        /\ \A i \in 1 .. Len(list) : i # a => c[i] = list[i]
        /\ Ordered(list) => Ordered(c)
        /\ Repairs(c, list, e, {})
    BY <1>3, <1>5, CutFacts, Zenon
  <2> HIDE DEF c
  <2>2. cut = c
    BY <1>4 DEF c
  <2> QED BY <2>1, <2>2, Zenon
<1>7. ASSUME Ordered(list), \A i \in 1 .. a - 1 : list[i].end < e.start
      PROVE  Done(put, list, e)
  <2>1. \A i \in 1 .. a - 1 : cut[i].end < e.start
    BY <1>1, <1>6, <1>7
  <2>2. \A i \in a .. n : e.end < cut[i].start
    <3> TAKE i \in a .. n
    <3>1. CASE i = a
      BY <1>2, <1>3, <1>6, <3>1
    <3>2. CASE i # a
      <4>1. i \in 1 .. n /\ a < i
        BY <1>1, <3>2
      <4>2. list[a].end < list[i].start /\ cut[i] = list[i] /\ list[i] \in Extents
        BY <1>6, <1>7, <4>1 DEF Ordered
      <4> QED BY <1>2, <4>2, ExtentType
    <3> QED BY <3>1, <3>2
  <2>3. Ordered(put)
    <3>1. /\ cut \in Seq(Extents) /\ Ordered(cut) /\ e \in Extents /\ a \in 1 .. Len(cut) + 1
          /\ \A i \in a .. Len(cut) : e.end < cut[i].start
      BY <1>1, <1>6, <1>7, <2>2
    <3> QED BY ONLY <2>1, <3>1, PutFacts
  <2>4. put \in Seq(Extents) /\ Len(put) = n + 1 /\ put[a] = e
    <3>1. a \in 1 .. Len(cut) + 1 /\ cut \in Seq(Extents) /\ e \in Extents
      BY <1>1, <1>6
    <3>2. put = InsertAt(cut, a, e)
      BY Zenon
    <3>3. put \in Seq(Extents) /\ Len(put) = Len(cut) + 1 /\ put[a] = e
      BY ONLY <3>1, <3>2, Inserted
    <3> QED BY <1>6, <3>3
  <2>5. Repairs(put, list, e, {} \ Blocks(e))
    BY <1>1, <1>6, PutRepairs
  <2>6. {} \ Blocks(e) = {} /\ a \in 1 .. n + 1
    BY <1>1
  <2> HIDE DEF put
  <2> QED BY <2>3, <2>4, <2>5, <2>6 DEF Done
<1>8. ASSUME a - 1 \in 1 .. n, Settled(list, a - 1, e)
      PROVE  Done(cut, list, e)
  <2>1. \A i, j \in 1 .. n : i < j /\ i # a - 1 => list[i].end < list[j].start
    BY <1>8 DEF Settled
  <2>2. ASSUME NEW i \in 1 .. n, NEW j \in 1 .. n, i < j
        PROVE  cut[i].end < cut[j].start
    <3>0. list[i] \in Extents /\ list[j] \in Extents
      OBVIOUS
    <3>1. CASE i # a - 1 /\ i # a /\ j # a
      BY <1>6, <2>1, <2>2, <3>1
    <3>2. CASE i # a - 1 /\ j = a
      <4>1. list[i].end < list[a].start /\ cut[i] = list[i]
        BY <1>6, <2>1, <2>2, <3>2
      <4>2. list[a].start <= p.start /\ cut[a] = p
        BY <1>2, <1>5, <1>6
      <4>3. list[i].end \in Nat /\ list[a].start \in Nat /\ p.start \in Nat
        BY <1>2, <1>3, <3>0, ExtentType
      <4> QED BY ONLY <3>2, <4>1, <4>2, <4>3
    <3>3. CASE i = a
      <4>1. list[a].end < list[j].start /\ cut[j] = list[j]
        BY <1>1, <1>6, <2>1, <2>2, <3>3
      <4> QED BY <1>3, <1>6, <3>3, <4>1
    <3>4. CASE i = a - 1
      <4>1. cut[i] = e
        BY <1>1, <1>6, <1>8, <3>4 DEF Settled
      <4>2. CASE j = a
        BY <1>2, <1>3, <1>6, <4>1, <4>2
      <4>3. CASE j # a
        <5>1. a < j
          BY <1>1, <2>2, <3>4, <4>3
        <5>2. list[a].end < list[j].start /\ cut[j] = list[j]
          BY <1>1, <1>6, <2>1, <4>3, <5>1
        <5> QED BY <1>2, <3>0, <4>1, <5>2, ExtentType
      <4> QED BY <4>2, <4>3
    <3> QED BY <3>1, <3>2, <3>3, <3>4
  <2>3. Ordered(cut)
    BY <1>6, <2>2 DEF Ordered
  <2>4. cut[a - 1] = e
    BY <1>1, <1>6, <1>8 DEF Settled
  <2> QED BY <1>6, <1>8, <2>3, <2>4 DEF Done
<1> QED BY <1>7, <1>8 DEF cut

(* Case 5, and the end of the list.                                        *)
LEMMA ApartFacts ==
  ASSUME NEW list \in Seq(Extents), Ordered(list), NEW a \in 1 .. Len(list), NEW e \in Extents,
         \A i \in 1 .. a - 1 : list[i].end < e.start,
         list[a].end < e.start => \A i \in a + 1 .. Len(list) : e.end < list[i].start
  PROVE  /\ e.end < list[a].start => Done(InsertAt(list, a, e), list, e)
         /\ list[a].end < e.start => Done(InsertAt(list, a + 1, e), list, e)
<1> DEFINE n == Len(list)
<1>1. n \in Nat /\ a \in 1 .. n
  OBVIOUS
<1>2. /\ list[a] \in Extents /\ e.start \in Nat /\ e.end \in Nat
      /\ list[a].start \in Nat /\ list[a].end \in Nat /\ list[a].start <= list[a].end
  BY ExtentType
<1>3. Repairs(list, list, e, {}) /\ {} \ Blocks(e) = {}
  BY SameRepairs
<1>4. ASSUME NEW k \in 1 .. n + 1, \A i \in 1 .. k - 1 : list[i].end < e.start,
             \A i \in k .. n : e.end < list[i].start
      PROVE  Done(InsertAt(list, k, e), list, e)
  <2> DEFINE put == InsertAt(list, k, e)
  <2>1. Ordered(put)
    BY <1>4, PutFacts
  <2>2. put \in Seq(Extents) /\ Len(put) = n + 1 /\ put[k] = e
    BY Inserted
  <2>3. Repairs(put, list, e, {} \ Blocks(e))
    BY <1>3, PutRepairs
  <2> HIDE DEF put
  <2>4. Done(put, list, e)
    BY <1>3, <2>1, <2>2, <2>3 DEF Done
  <2> QED BY <2>4 DEF put
<1>5. ASSUME e.end < list[a].start
      PROVE  Done(InsertAt(list, a, e), list, e)
  <2>1. ASSUME NEW i \in a .. n
        PROVE  e.end < list[i].start
    <3>1. CASE i = a
      BY <1>5, <3>1
    <3>2. CASE i # a
      <4>1. i \in 1 .. n /\ a < i
        BY <1>1, <3>2
      <4>2. list[a].end < list[i].start /\ list[i] \in Extents
        BY <4>1 DEF Ordered
      <4> QED BY <1>2, <1>5, <4>2, ExtentType
    <3> QED BY <3>1, <3>2
  <2>2. a \in 1 .. n + 1
    BY <1>1
  <2> QED BY <1>4, <2>1, <2>2
<1>6. ASSUME list[a].end < e.start
      PROVE  Done(InsertAt(list, a + 1, e), list, e)
  <2>1. a + 1 \in 1 .. n + 1 /\ \A i \in 1 .. a + 1 - 1 : i = a \/ i \in 1 .. a - 1
    BY <1>1
  <2>2. \A i \in 1 .. a + 1 - 1 : list[i].end < e.start
    BY <1>6, <2>1
  <2> QED BY <1>4, <1>6, <2>1, <2>2
<1> QED BY <1>5, <1>6

LEMMA InOrderAgain ==
  ASSUME NEW list \in Seq(Extents), NEW s, NEW e \in Extents, Settled(list, s, e),
         s < Len(list) => e.end < list[s + 1].start
  PROVE  Done(list, list, e)
<1>1. /\ s \in 1 .. Len(list) /\ list[s] = e /\ e.end \in Nat
      /\ \A i, j \in 1 .. Len(list) : i < j /\ i # s => list[i].end < list[j].start
  BY ExtentType DEF Settled
<1>2. ASSUME NEW j \in 1 .. Len(list), s < j
      PROVE  e.end < list[j].start
  <2>1. CASE j = s + 1
    BY <1>1, <1>2, <2>1
  <2>2. CASE j # s + 1
    <3>1. s + 1 \in 1 .. Len(list) /\ s + 1 < j /\ s < Len(list)
      BY <1>1, <1>2, <2>2
    <3>2. list[s + 1] \in Extents /\ list[j] \in Extents
      BY <3>1
    <3>3. /\ list[s + 1].start \in Nat /\ list[s + 1].end \in Nat /\ list[j].start \in Nat
          /\ list[s + 1].start <= list[s + 1].end
      BY <3>2, ExtentType
    <3>4. list[s + 1].end < list[j].start /\ e.end < list[s + 1].start
      BY <1>1, <3>1
    <3> QED BY <1>1, <3>3, <3>4
  <2> QED BY <2>1, <2>2
<1>3. Ordered(list)
  BY <1>1, <1>2 DEF Ordered
<1> QED BY <1>1, <1>3, SameRepairs DEF Done

(* An iteration of the loop either goes on, the new extent in the list, or *)
(* leaves the list in order.                                               *)
GoesOn ==
  /\ pc = "save" /\ pc' = "save" /\ insert' = TRUE
  /\ write_record' \in Seq(Extents) /\ Settled(write_record', start_index', new)
  /\ Repairs(write_record', write_record, new, {})

Leaves ==
  /\ pc = "save" /\ pc' = "next" /\ insert' \in BOOLEAN
  /\ Done(write_record', write_record, new)

(* The first iteration.                                                    *)
LEMMA FirstIteration ==
  ASSUME ControlInv, DataInv, ListInv, SaveInv, SaveLoop, ~insert
  PROVE  GoesOn \/ Leaves
<1> DEFINE a == start_index + 1
           w == write_record
<1>1. pc = "save"
  BY DEF SaveLoop, ReplaceOld, RemoveOld, SplitOld, CutTail, CutHead, PutApart, EndOfList, InLoop
<1>2. new \in Extents /\ w \in Seq(Extents) /\ Ordered(w) /\ insert \in BOOLEAN
  BY <1>1 DEF DataInv, ListInv, ControlInv, Saving
<1>3. /\ start_index \in 0 .. Len(w) - 1
      /\ \A i \in 1 .. start_index : w[i].end < new.start
      /\ start_index < Len(w) /\ w[start_index + 1].end < new.start =>
           \A i \in start_index + 2 .. Len(w) : new.end < w[i].start
  BY <1>1 DEF SaveInv, Placed
<1>4. /\ a \in 1 .. Len(w) /\ start_index < Len(w) /\ a - 1 = start_index /\ a + 1 = start_index + 2
      /\ start_index + 1 = a
  BY <1>2, <1>3
<1>5. /\ \A i \in 1 .. a - 1 : w[i].end < new.start
      /\ w[a].end < new.start => \A i \in a + 1 .. Len(w) : new.end < w[i].start
  BY ONLY <1>3, <1>4, Zenon
<1>6. Old = w[a]
  BY DEF Old
<1>7. /\ w[a] \in Extents /\ new.start \in Nat /\ new.end \in Nat /\ new.start <= new.end
      /\ w[a].start \in Nat /\ w[a].end \in Nat /\ w[a].start <= w[a].end
  BY <1>2, <1>4, ExtentType
<1> HIDE DEF a, w
<1>8. CASE ReplaceOld
  <2>1. /\ new.start <= w[a].start /\ new.end >= w[a].end /\ insert' = TRUE /\ pc' = "save"
        /\ w' = [w EXCEPT ![a] = new] /\ start_index' = a
    BY <1>1, <1>6, <1>8 DEF ReplaceOld, Covers, Continue, w, a
  <2>2. LET after == [w EXCEPT ![a] = new] IN
        after \in Seq(Extents) /\ Settled(after, a, new) /\ Repairs(after, w, new, {})
    BY ONLY <1>2, <1>4, <1>5, <2>1, ReplaceFacts
  <2> QED BY <1>1, <2>1, <2>2 DEF GoesOn, w
<1>9. CASE SplitOld
  <2>1. w[a].start <= new.start /\ w[a].end > new.end /\ pc' = "next" /\ insert' = insert
    BY <1>6, <1>9 DEF SplitOld, Inside, Break
  <2>2. w' = LET cut == [w EXCEPT ![a].start = new.end + 1]
                 put == InsertAt(cut, a, new)
             IN  IF w[a].start # new.start
                 THEN InsertAt(put, a, Node(w[a].start, new.start - 1, w[a].data))
                 ELSE put
    BY <1>6, <1>9 DEF SplitOld, PutAt, WithoutHead, w, a
  <2>3. LET cut == [w EXCEPT ![a].start = new.end + 1]
            put == InsertAt(cut, a, new)
            rest == Node(w[a].start, new.start - 1, w[a].data)
        IN  /\ w[a].start = new.start => Done(put, w, new)
            /\ w[a].start # new.start => Done(InsertAt(put, a, rest), w, new)
    BY ONLY <1>2, <1>4, <1>5, <2>1, SplitFacts
  <2>4. Done(w', w, new)
    BY ONLY <2>2, <2>3, Zenon
  <2> QED BY <1>1, <1>2, <2>1, <2>4 DEF Leaves, w
<1>10. CASE CutTail
  <2>1. /\ w[a].start < new.start /\ new.start <= w[a].end /\ w[a].end <= new.end
        /\ insert' = TRUE /\ pc' = "save"
    BY <1>1, <1>6, <1>7, <1>10 DEF CutTail, HitsTail, Inside, Covers
  <2>2. /\ w' = InsertAt([w EXCEPT ![a].end = new.start - 1], a + 1, new)
        /\ start_index' = a + 1
    <3>1. start_index + 1 + 1 = a + 1 /\ start_index + 2 = a + 1
      BY <1>4, <1>3
    <3>2. /\ w' = InsertAt([w EXCEPT ![a].end = new.start - 1], start_index + 1 + 1, new)
          /\ start_index' = start_index + 2
      BY <1>10 DEF CutTail, PutAt, AfterInserted, w, a
    <3> QED BY ONLY <3>1, <3>2, Zenon
  <2>3. LET cut == [w EXCEPT ![a].end = new.start - 1]
            put == InsertAt(cut, a + 1, new)
        IN  put \in Seq(Extents) /\ Settled(put, a + 1, new) /\ Repairs(put, w, new, {})
    BY ONLY <1>2, <1>4, <1>5, <2>1, CutTailFacts
  <2>4. w' \in Seq(Extents) /\ Settled(w', start_index', new) /\ Repairs(w', w, new, {})
    BY ONLY <2>2, <2>3, Zenon
  <2> QED BY <1>1, <2>1, <2>4 DEF GoesOn, w
<1>11. CASE CutHead
  <2>1. /\ new.start < w[a].start /\ w[a].start <= new.end /\ new.end < w[a].end
        /\ insert' = TRUE /\ pc' = "next"
    BY <1>1, <1>6, <1>7, <1>11 DEF CutHead, HitsHead, HitsTail, Inside, Covers, Break
  <2>2. w' = InsertAt([w EXCEPT ![a].start = new.end + 1], a, new)
    BY <1>11 DEF CutHead, PutAt, WithoutHead, w, a
  <2>3. LET cut == [w EXCEPT ![a].start = new.end + 1] IN
        Ordered(w) /\ (\A i \in 1 .. a - 1 : w[i].end < new.start) => Done(InsertAt(cut, a, new), w, new)
    BY ONLY <1>2, <1>4, <2>1, CutHeadFacts
  <2>4. Done(w', w, new)
    BY ONLY <1>2, <1>5, <2>2, <2>3, Zenon
  <2> QED BY <1>1, <2>1, <2>4 DEF Leaves, w
<1>12. CASE PutApart
  <2>1. /\ new.end < w[a].start \/ w[a].end < new.start
        /\ insert' = insert /\ pc' = "next"
    BY <1>6, <1>7, <1>12 DEF PutApart, Apart, HitsHead, HitsTail, Inside, Covers, Break
  <2>2. w' = InsertAt(w, (IF new.end < w[a].start THEN start_index ELSE start_index + 1) + 1, new)
    BY <1>6, <1>12 DEF PutApart, PutAt, w
  <2>3. /\ new.end < w[a].start => Done(InsertAt(w, a, new), w, new)
        /\ w[a].end < new.start => Done(InsertAt(w, a + 1, new), w, new)
    BY ONLY <1>2, <1>4, <1>5, ApartFacts
  <2>4. CASE new.end < w[a].start
    <3>1. w' = InsertAt(w, a, new)
      BY ONLY <1>4, <2>2, <2>4, Zenon
    <3>2. Done(w', w, new)
      BY ONLY <2>3, <2>4, <3>1, Zenon
    <3> QED BY <1>1, <1>2, <2>1, <3>2 DEF Leaves, w
  <2>5. CASE ~(new.end < w[a].start)
    <3>1. w' = InsertAt(w, a + 1, new)
      BY ONLY <1>4, <2>2, <2>5, Zenon
    <3>2. Done(w', w, new)
      BY ONLY <2>1, <2>3, <2>5, <3>1, Zenon
    <3> QED BY <1>1, <1>2, <2>1, <3>2 DEF Leaves, w
  <2> QED BY <2>4, <2>5
<1>13. ~RemoveOld /\ ~EndOfList
  BY <1>3 DEF RemoveOld, EndOfList, w
<1> QED BY <1>8, <1>9, <1>10, <1>11, <1>12, <1>13 DEF SaveLoop

(* The later ones: the new extent is in the list, before the old one.      *)
LEMMA LaterIteration ==
  ASSUME ControlInv, DataInv, ListInv, SaveInv, SaveLoop, insert
  PROVE  GoesOn \/ Leaves
<1> DEFINE s == start_index
           a == start_index + 1
           w == write_record
<1>1. pc = "save" /\ insert = TRUE
  BY DEF SaveLoop, ReplaceOld, RemoveOld, SplitOld, CutTail, CutHead, PutApart, EndOfList, InLoop,
         ControlInv
<1>2. new \in Extents /\ w \in Seq(Extents) /\ Settled(w, s, new)
  BY <1>1 DEF DataInv, ListInv, SaveInv, Saving
<1>3. s \in 1 .. Len(w) /\ w[s] = new /\ \A j \in s + 1 .. Len(w) : new.start < w[j].start
  BY <1>2 DEF Settled
<1>4. new.start \in Nat /\ new.end \in Nat
  BY <1>2, ExtentType
<1>5. CASE EndOfList
  <2>1. w' = w /\ pc' = "next" /\ insert' = insert /\ ~(s < Len(w))
    BY <1>2, <1>3, <1>5 DEF EndOfList, Break
  <2>2. Done(w, w, new)
    BY ONLY <1>2, <2>1, InOrderAgain
  <2> QED BY <1>1, <2>1, <2>2 DEF Leaves
<1>6. CASE InLoop
  <2>1. /\ a \in 1 .. Len(w) /\ s < Len(w) /\ s \in 1 .. Len(w) - 1 /\ a = s + 1 /\ a - 1 = s
        /\ new.start < w[a].start
    BY <1>2, <1>3, <1>6 DEF InLoop
  <2>2. /\ w[a].start \in Nat /\ w[a].end \in Nat /\ w[a].start <= w[a].end
    BY <1>2, <2>1, ExtentType
  <2>3. Old = w[a]
    BY DEF Old
  <2>4. ~ReplaceOld
    BY <1>1 DEF ReplaceOld
  <2> HIDE DEF a, w, s
  <2>5. ~SplitOld /\ ~CutTail
    <3>1. ~(w[a].start <= new.start)
      BY <1>4, <2>1, <2>2
    <3> QED BY <2>3, <3>1 DEF SplitOld, CutTail, Inside, HitsTail
  <2>6. CASE RemoveOld
    <3>1. /\ new.start <= w[s + 1].start /\ new.end >= w[s + 1].end
          /\ w' = RemoveAt(w, s + 1) /\ insert' = insert /\ pc' = pc /\ s' = s
      BY <2>1, <2>3, <2>6 DEF RemoveOld, Covers, w, a, s
    <3>2. LET after == RemoveAt(w, s + 1) IN
          after \in Seq(Extents) /\ Settled(after, s, new) /\ Repairs(after, w, new, {})
      BY ONLY <1>2, <2>1, <3>1, RemoveFacts
    <3> QED BY <1>1, <3>1, <3>2 DEF GoesOn, w, s
  <2>7. CASE CutHead
    <3>1. /\ w[a].start <= new.end /\ new.end < w[a].end /\ insert' = TRUE /\ pc' = "next"
          /\ w' = [w EXCEPT ![a].start = new.end + 1]
      BY <1>1, <1>4, <2>1, <2>2, <2>3, <2>7
      DEF CutHead, HitsHead, HitsTail, Inside, Covers, Break, WithoutHead, w, a
    <3>2. a - 1 \in 1 .. Len(w) /\ Settled(w, a - 1, new) =>
            Done([w EXCEPT ![a].start = new.end + 1], w, new)
      BY ONLY <1>2, <2>1, <3>1, CutHeadFacts
    <3>3. Done(w', w, new)
      BY ONLY <1>2, <1>3, <2>1, <3>1, <3>2, Zenon
    <3> QED BY <1>1, <3>1, <3>3 DEF Leaves, w
  <2>8. CASE PutApart
    <3>1. /\ new.end < w[s + 1].start /\ insert' = insert /\ pc' = "next" /\ w' = w
      BY <1>1, <1>4, <2>1, <2>2, <2>3, <2>8
      DEF PutApart, Apart, HitsHead, HitsTail, Inside, Covers, Break, w
    <3>2. Done(w, w, new)
      BY ONLY <1>2, <3>1, InOrderAgain
    <3> QED BY <1>1, <3>1, <3>2 DEF Leaves, w
  <2>9. ~EndOfList
    <3>1. ~(s >= Len(w))
      BY <1>2, <2>1
    <3> QED BY <3>1 DEF EndOfList, w, s
  <2> QED BY <2>4, <2>5, <2>6, <2>7, <2>8, <2>9 DEF SaveLoop
<1> QED BY <1>5, <1>6
    DEF SaveLoop, ReplaceOld, RemoveOld, SplitOld, CutTail, CutHead, PutApart

LEMMA SaveLoopNext ==
  ASSUME ControlInv, DataInv, ListInv, SaveInv, SaveLoop
  PROVE  /\ ControlInv' /\ DataInv' /\ ListInv' /\ SaveInv'
         /\ pc = "save" /\ pc' \in {"save", "next"} /\ unchangedInLoop
<1>1. unchangedInLoop
  BY DEF SaveLoop, ReplaceOld, RemoveOld, SplitOld, CutTail, CutHead, PutApart, EndOfList
<1>2. GoesOn \/ Leaves
  BY FirstIteration, LaterIteration DEF ControlInv
<1>3. pc = "save" /\ Saving
  BY <1>2 DEF GoesOn, Leaves, Saving
<1>4. /\ op' = op /\ todo' = todo /\ new' = new /\ device' = device
      /\ op = "save" /\ todo \in Seq(Extents) /\ new \in Extents
      /\ \A l \in Blocks(new) : device[l] = new.data
      /\ write_record \in Seq(Extents)
      /\ Truthful(write_record, device, BlocksOf(todo) \cup Blocks(new))
  BY <1>1, <1>3 DEF unchangedInLoop, ControlInv, DataInv, ListInv
<1>5. /\ write_record' \in Seq(Extents) /\ Repairs(write_record', write_record, new, {})
      /\ \E k \in 1 .. Len(write_record') : write_record'[k] = new
  BY <1>2 DEF GoesOn, Leaves, Done, Settled
<1>6. Truthful(write_record', device, BlocksOf(todo) \cup Blocks(new))
  BY <1>4, <1>5, StillTruthful
<1>7. write_record' # <<>>
  BY <1>5
<1>8. pc' \in {"save", "next"} /\ insert' \in BOOLEAN
  BY <1>2 DEF GoesOn, Leaves
<1>9. ControlInv'
  BY <1>4, <1>7, <1>8 DEF ControlInv
<1>10. DataInv'
  BY <1>3, <1>4, <1>8 DEF DataInv
<1>11. CASE GoesOn
  <2>1. pc' = "save" /\ insert' = TRUE /\ Settled(write_record', start_index', new)
    BY <1>11 DEF GoesOn
  <2>2. ListInv'
    BY <1>4, <1>5, <1>6, <2>1 DEF ListInv, Saving
  <2>3. SaveInv'
    BY <1>4, <2>1 DEF SaveInv
  <2> QED BY <1>1, <1>3, <1>8, <1>9, <1>10, <2>2, <2>3
<1>12. CASE Leaves
  <2>1. pc' = "next" /\ Ordered(write_record')
    BY <1>12 DEF Leaves, Done
  <2>2. Truthful(write_record', device, BlocksOf(todo))
    BY <1>4, <1>5, <1>6, <2>1, TruthfulAgain
  <2>3. ListInv'
    BY <1>4, <1>5, <2>1, <2>2 DEF ListInv, Saving
  <2>4. SaveInv'
    BY <2>1 DEF SaveInv
  <2> QED BY <1>1, <1>3, <1>8, <1>9, <1>10, <2>3, <2>4
<1> QED BY <1>2, <1>11, <1>12

-----------------------------------------------------------------------------
(* The bisection. *)

(* What lies left of the window ends before the new extent starts, what    *)
(* lies right of it begins later; the leftmost extent the new one reaches, *)
(* if there is one beyond the first, is just right of the window.          *)
SearchInv ==
  LET w == write_record IN
  pc = "search" =>
    /\ left \in 0 .. Len(w) /\ right \in -1 .. Len(w) - 1 /\ left <= right + 1
    /\ mid = 0 \/ mid \in 0 .. Len(w) - 1
    /\ Len(w) # 0 /\ left = right + 1 => mid \in {left - 1, left}
    /\ \A i \in 1 .. left : w[i].end < new.start
    /\ \A i \in right + 2 .. Len(w) : new.start < w[i].start
    /\ cover # 0 => cover = right + 1 /\ cover \in 1 .. Len(w) - 1 /\ w[cover + 1].start <= new.end
    /\ cover = 0 => right = -1 \/ \A i \in right + 2 .. Len(w) : new.end < w[i].start

(* Where the search ends.                                                  *)
Lands(w, index) ==
  /\ index \in Nat
  /\ Len(w) # 0 => index < Len(w)
  /\ Len(w) = 0 => index = 0
  /\ Placed(w, index, new.start, new.end)

LEMMA WholeExtents ==
  ASSUME NEW w \in Seq(Extents), Ordered(w)
  PROVE  /\ Len(w) \in Nat
         /\ \A i \in 1 .. Len(w) : w[i].start \in Nat /\ w[i].end \in Nat /\ w[i].start <= w[i].end
         /\ \A i, j \in 1 .. Len(w) : i < j => w[i].end < w[j].start
<1>1. ASSUME NEW i \in 1 .. Len(w)
      PROVE  w[i].start \in Nat /\ w[i].end \in Nat /\ w[i].start <= w[i].end
  <2>1. w[i] \in Extents
    OBVIOUS
  <2> QED BY <2>1, ExtentType
<1> QED BY <1>1 DEF Ordered

LEMMA SearchedNew ==
  ASSUME ControlInv, DataInv, pc = "search"
  PROVE  new.start \in Nat /\ new.end \in Nat /\ new.start <= new.end
<1>1. CASE op = "save"
  <2>1. new \in Extents
    BY <1>1 DEF DataInv, Saving
  <2> QED BY <2>1, ExtentType
<1>2. CASE op = "find"
  BY <1>2 DEF DataInv, Lbas
<1> QED BY <1>1, <1>2 DEF ControlInv

LEMMA SearchStepNext ==
  ASSUME ControlInv, DataInv, ListInv, SearchInv, SearchStep
  PROVE  \/ SearchInv' /\ pc' = "search" /\ start_index' = start_index
         \/ pc' = op /\ Lands(write_record, start_index')
<1> DEFINE w == write_record
           m == (left + right) \div 2
           node == w[m + 1]
           s == new.start
           e == new.end
<1>1. /\ pc = "search" /\ left <= right /\ write_record' = write_record /\ new' = new /\ op' = op
  BY DEF SearchStep
<1>2. w \in Seq(Extents) /\ Ordered(w)
  BY <1>1 DEF ListInv
<1>3. /\ Len(w) \in Nat
      /\ \A i \in 1 .. Len(w) : w[i].start \in Nat /\ w[i].end \in Nat /\ w[i].start <= w[i].end
      /\ \A i, j \in 1 .. Len(w) : i < j => w[i].end < w[j].start
  BY <1>2, WholeExtents
<1>4. s \in Nat /\ e \in Nat /\ s <= e
  BY <1>1, SearchedNew
<1>5. /\ left \in 0 .. Len(w) /\ right \in -1 .. Len(w) - 1
      /\ \A i \in 1 .. left : w[i].end < s
      /\ \A i \in right + 2 .. Len(w) : s < w[i].start
      /\ cover # 0 => cover = right + 1 /\ cover \in 1 .. Len(w) - 1 /\ w[cover + 1].start <= e
      /\ cover = 0 => right = -1 \/ \A i \in right + 2 .. Len(w) : e < w[i].start
  BY <1>1 DEF SearchInv
<1>6. m \in left .. right /\ m \in 0 .. Len(w) - 1
  <2>1. left \in Int /\ right \in Int /\ left <= right /\ 0 <= left /\ right <= Len(w) - 1
    BY <1>1, <1>3, <1>5
  <2>2. m \in Int /\ left <= m /\ m <= right
    BY ONLY <2>1
  <2> QED BY ONLY <1>3, <2>1, <2>2
<1>7. IF node.start <= s /\ node.end >= s
      THEN EndSearch(m)
      ELSE /\ mid' = m
           /\ IF \/ node.start <= e /\ node.end >= e
                 \/ s <= node.start /\ e >= node.end
              THEN cover' = m /\ right' = m - 1 /\ left' = left
              ELSE /\ cover' = cover
                   /\ right' = IF node.start > s THEN m - 1 ELSE right
                   /\ left'  = IF node.start < s THEN m + 1 ELSE left
           /\ UNCHANGED <<pc, start_index>>
  BY DEF SearchStep, Leftwards
<1> HIDE DEF m, node
<1>8. /\ m + 1 \in 1 .. Len(w) /\ node.start \in Nat /\ node.end \in Nat /\ node.start <= node.end
  BY <1>3, <1>6 DEF node
<1>9. \A i \in 1 .. m : w[i].end < node.start
  BY <1>3, <1>6, <1>8 DEF node
<1>10. \A i \in m + 2 .. Len(w) : node.end < w[i].start
  BY <1>3, <1>6, <1>8 DEF node
<1>11. \A i \in m + 1 .. Len(w) : node.start <= w[i].start
  <2> TAKE i \in m + 1 .. Len(w)
  <2>1. CASE i = m + 1
    BY <1>8, <2>1 DEF node
  <2>2. CASE i # m + 1
    <3>1. i \in m + 2 .. Len(w) /\ i \in 1 .. Len(w)
      BY <1>6, <2>2
    <3>2. node.end < w[i].start /\ w[i].start \in Nat
      BY <1>3, <1>10, <3>1
    <3> QED BY <1>8, <3>2
  <2> QED BY <2>1, <2>2
<1> HIDE DEF w, s, e
<1>12. CASE node.start <= s /\ node.end >= s
  <2>1. start_index' = m /\ pc' = op
    BY <1>7, <1>12 DEF EndSearch
  <2>2. \A i \in 1 .. m : w[i].end < s
    <3> TAKE i \in 1 .. m
    <3>1. i \in 1 .. Len(w)
      BY <1>6
    <3> QED BY <1>3, <1>4, <1>8, <1>9, <1>12, <3>1
  <2>3. ~(w[m + 1].end < s)
    BY <1>4, <1>8, <1>12 DEF node
  <2>4. Lands(w, m)
    BY <1>3, <1>6, <2>2, <2>3 DEF Lands, Placed, s, e
  <2> QED BY <2>1, <2>4 DEF w
<1>13. CASE ~(node.start <= s /\ node.end >= s)
  <2>1. mid' = m /\ pc' = "search" /\ start_index' = start_index
    BY <1>1, <1>7, <1>13
  <2>2. CASE \/ node.start <= e /\ node.end >= e
             \/ s <= node.start /\ e >= node.end
    <3>1. cover' = m /\ right' = m - 1 /\ left' = left
      BY <1>7, <1>13, <2>2
    <3>2. s < node.start /\ node.start <= e
      BY <1>4, <1>8, <1>13, <2>2
    <3>3. \A i \in m + 1 .. Len(w) : s < w[i].start
      <4> TAKE i \in m + 1 .. Len(w)
      <4>1. i \in 1 .. Len(w) /\ node.start <= w[i].start
        BY <1>6, <1>11
      <4> QED BY <1>3, <1>4, <1>8, <3>2, <4>1
    <3>4. /\ left \in 0 .. Len(w) /\ m - 1 \in -1 .. Len(w) - 1 /\ left <= m - 1 + 1
          /\ m - 1 + 2 = m + 1 /\ m - 1 + 1 = m
      BY <1>5, <1>6
    <3>5. left = m - 1 + 1 => m \in {left - 1, left}
      BY <3>4
    <3>6. m # 0 => m = m - 1 + 1 /\ m \in 1 .. Len(w) - 1 /\ w[m + 1].start <= e
      BY <1>6, <3>2 DEF node
    <3>7. m = 0 => m - 1 = -1
      OBVIOUS
    <3>8. \A i \in m - 1 + 2 .. Len(w) : s < w[i].start
      BY ONLY <3>3, <3>4, Zenon
    <3>9. SearchInv'
      BY ONLY <1>1, <1>5, <1>6, <2>1, <3>1, <3>4, <3>5, <3>6, <3>7, <3>8 DEF SearchInv, w, s, e
    <3> QED BY <2>1, <3>9
  <2>3. CASE ~(\/ node.start <= e /\ node.end >= e
               \/ s <= node.start /\ e >= node.end)
    <3>1. /\ cover' = cover
          /\ right' = IF node.start > s THEN m - 1 ELSE right
          /\ left'  = IF node.start < s THEN m + 1 ELSE left
      BY <1>7, <1>13, <2>3
    <3>2. CASE node.start > s
      <4>1. right' = m - 1 /\ left' = left
        BY <1>4, <1>8, <3>1, <3>2
      <4>2. e < node.start
        BY <1>4, <1>8, <2>3, <3>2
      <4>3. \A i \in m + 1 .. Len(w) : e < w[i].start /\ s < w[i].start
        <5> TAKE i \in m + 1 .. Len(w)
        <5>1. i \in 1 .. Len(w) /\ node.start <= w[i].start
          BY <1>6, <1>11
        <5> QED BY <1>3, <1>4, <1>8, <3>2, <4>2, <5>1
      <4>4. cover = 0
        <5> SUFFICES ASSUME cover # 0
                     PROVE  FALSE
          OBVIOUS
        <5>1. cover = right + 1 /\ cover \in 1 .. Len(w) - 1 /\ w[cover + 1].start <= e
          BY <1>5
        <5>2. cover + 1 \in m + 1 .. Len(w)
          BY <1>3, <1>5, <1>6, <5>1
        <5>3. e < w[cover + 1].start /\ cover + 1 \in 1 .. Len(w)
          BY <1>6, <4>3, <5>2
        <5> QED BY <1>3, <1>4, <5>1, <5>3
      <4>5. /\ left \in 0 .. Len(w) /\ m - 1 \in -1 .. Len(w) - 1 /\ left <= m - 1 + 1
            /\ m - 1 + 2 = m + 1
        BY <1>5, <1>6
      <4>6. left = m - 1 + 1 => m \in {left - 1, left}
        BY <1>6, <4>5
      <4>7. \A i \in m - 1 + 2 .. Len(w) : e < w[i].start /\ s < w[i].start
        BY ONLY <4>3, <4>5, Zenon
      <4>8. SearchInv'
        BY ONLY <1>1, <1>5, <1>6, <2>1, <3>1, <4>1, <4>4, <4>5, <4>6, <4>7 DEF SearchInv, w, s, e
      <4> QED BY <2>1, <4>8
    <3>3. CASE ~(node.start > s)
      <4>1. node.start < s /\ node.end < s
        BY <1>4, <1>8, <1>13, <3>3
      <4>2. right' = right /\ left' = m + 1
        BY <3>1, <3>3, <4>1
      <4>3. \A i \in 1 .. m + 1 : w[i].end < s
        <5> TAKE i \in 1 .. m + 1
        <5>1. CASE i = m + 1
          BY <4>1, <5>1 DEF node
        <5>2. CASE i # m + 1
          <6>1. i \in 1 .. m /\ i \in 1 .. Len(w)
            BY <1>6, <5>2
          <6>2. w[i].end < node.start /\ w[i].end \in Nat
            BY <1>3, <1>9, <6>1
          <6> QED BY <1>4, <1>8, <4>1, <6>2
        <5> QED BY <5>1, <5>2
      <4>4. m + 1 \in 0 .. Len(w) /\ m + 1 <= right + 1 /\ m \in {m + 1 - 1, m + 1}
        BY <1>5, <1>6
      <4>5. SearchInv'
        BY ONLY <1>1, <1>5, <1>6, <2>1, <3>1, <4>2, <4>3, <4>4 DEF SearchInv, w, s, e
      <4> QED BY <2>1, <4>5
    <3> QED BY <3>2, <3>3
  <2> QED BY <2>2, <2>3
<1> QED BY <1>12, <1>13

LEMMA SearchOverNext ==
  ASSUME ControlInv, DataInv, ListInv, SearchInv, SearchOver
  PROVE  pc' = op /\ Lands(write_record, start_index')
<1> DEFINE w == write_record
           s == new.start
           e == new.end
           k == SearchResult
<1>1. pc = "search" /\ left > right /\ pc' = op /\ start_index' = k
  BY DEF SearchOver, EndSearch
<1>2. w \in Seq(Extents) /\ Ordered(w)
  BY <1>1 DEF ListInv
<1>3. /\ Len(w) \in Nat
      /\ \A i \in 1 .. Len(w) : w[i].start \in Nat /\ w[i].end \in Nat /\ w[i].start <= w[i].end
  BY <1>2, WholeExtents
<1>4. s \in Nat /\ e \in Nat /\ s <= e
  BY <1>1, SearchedNew
<1>5. /\ left \in 0 .. Len(w) /\ right \in -1 .. Len(w) - 1 /\ left <= right + 1
      /\ mid = 0 \/ mid \in 0 .. Len(w) - 1
      /\ Len(w) # 0 /\ left = right + 1 => mid \in {left - 1, left}
      /\ \A i \in 1 .. left : w[i].end < s
      /\ \A i \in right + 2 .. Len(w) : s < w[i].start
      /\ cover # 0 => cover = right + 1 /\ cover \in 1 .. Len(w) - 1 /\ w[cover + 1].start <= e
      /\ cover = 0 => right = -1 \/ \A i \in right + 2 .. Len(w) : e < w[i].start
  BY <1>1 DEF SearchInv
<1>6. left = right + 1 /\ right + 2 = left + 1
  BY <1>1, <1>5
<1>7. \A i \in left + 1 .. Len(w) : s < w[i].start
  BY ONLY <1>5, <1>6, Zenon
<1>8. left + 1 \in left + 1 .. Len(w) => ~(w[left + 1].end < s)
  <2> SUFFICES ASSUME left + 1 \in left + 1 .. Len(w)
               PROVE  ~(w[left + 1].end < s)
    OBVIOUS
  <2>1. left + 1 \in 1 .. Len(w) /\ s < w[left + 1].start
    BY <1>5, <1>7
  <2> QED BY <1>3, <1>4, <2>1
<1> HIDE DEF w, s, e
<1>9. CASE Len(w) = 0
  <2>1. k = 0
    BY <1>5, <1>9 DEF SearchResult
  <2> QED BY <1>1, <1>9, <2>1 DEF Lands, Placed, w, s, e
<1>10. CASE Len(w) # 0 /\ cover # 0
  <2>1. k = left /\ k \in 1 .. Len(w) - 1 /\ k + 1 \in left + 1 .. Len(w)
    BY <1>3, <1>5, <1>6, <1>10 DEF SearchResult
  <2>2. \A i \in 1 .. k : w[i].end < s
    BY <1>5, <2>1
  <2>3. ~(w[k + 1].end < s)
    BY <1>8, <2>1
  <2> QED BY <1>1, <1>3, <1>10, <2>1, <2>2, <2>3 DEF Lands, Placed, w, s, e
<1>11. CASE Len(w) # 0 /\ cover = 0
  <2>1. k = mid /\ mid \in {left - 1, left} /\ mid \in 0 .. Len(w) - 1
    BY <1>3, <1>5, <1>6, <1>11 DEF SearchResult
  <2>2. \A i \in 1 .. k : w[i].end < s
    <3> TAKE i \in 1 .. k
    <3>1. i \in 1 .. left
      BY <1>5, <2>1
    <3> QED BY <1>5, <3>1
  <2>3. w[k + 1].end < s => \A i \in k + 2 .. Len(w) : e < w[i].start
    <3>1. CASE mid = left
      <4>1. k + 1 = left + 1 /\ left + 1 \in left + 1 .. Len(w)
        BY <1>5, <2>1, <3>1
      <4> QED BY <1>8, <4>1
    <3>2. CASE mid = left - 1
      <4>1. right # -1 /\ k + 2 = right + 2
        BY <1>5, <1>6, <2>1, <3>2
      <4> QED BY <1>5, <1>11, <4>1
    <3> QED BY <2>1, <3>1, <3>2
  <2> QED BY <1>1, <1>3, <1>11, <2>1, <2>2, <2>3 DEF Lands, Placed, w, s, e
<1> QED BY <1>9, <1>10, <1>11

-----------------------------------------------------------------------------
(* The lookup. *)

Met == [start : Lbas, end : Lbas, data : Data \cup {Erased}]

(* The extents met are consecutive, and say what the device holds.         *)
MetInv ==
  /\ met \in Seq(Met)
  /\ \A i \in 1 .. Len(met) :
       /\ i > 1 => met[i].start = met[i - 1].end + 1
       /\ \A l \in met[i].start .. met[i].end : met[i].data = device[l]

AllWritten(first, last) == \A l \in first .. last : device[l] # NONE

FindInv ==
  /\ pc \notin {"find", "found"} => met = <<>>
  /\ pc # "found" => answer = NONE
  /\ MetInv
  /\ pc = "find" =>
       /\ start_index \in 0 .. Len(write_record)
       /\ Placed(write_record, start_index, new.start, new.start)
       /\ met # <<>> => /\ met[Len(met)].end = new.start - 1 /\ met[1].start <= new.start
                        /\ AllWritten(met[1].start, new.start - 1)
  /\ pc = "found" =>
       /\ answer \in {Crc, NotFound, Unbound}
       /\ met # <<>> => met[1].start <= new.start
       /\ answer = Crc => /\ met # <<>> /\ met[Len(met)].end = new.end
                          /\ AllWritten(met[1].start, new.end)
       /\ answer # Crc => device[new.start] = NONE

LEMMA MetAppended ==
  ASSUME MetInv, NEW e \in Met,
         met # <<>> => met[Len(met)].end = e.start - 1,
         \A l \in e.start .. e.end : e.data = device[l],
         met' = Append(met, e), device' = device
  PROVE  /\ MetInv' /\ met' # <<>> /\ met'[Len(met')] = e
         /\ met'[1] = IF met = <<>> THEN e ELSE met[1]
<1> DEFINE n == Len(met)
           q == Append(met, e)
<1>1. met \in Seq(Met) /\ n \in Nat /\ (met # <<>> => n >= 1) /\ (met = <<>> => n = 0)
  BY DEF MetInv
<1>2. /\ q \in Seq(Met) /\ Len(q) = n + 1 /\ q[n + 1] = e
      /\ \A i \in 1 .. n : q[i] = met[i]
  BY <1>1
<1>3. \A i \in 1 .. n : /\ i > 1 => met[i].start = met[i - 1].end + 1
                        /\ \A l \in met[i].start .. met[i].end : met[i].data = device[l]
  BY DEF MetInv
<1>4. e.start \in Nat
  BY DEF Met, Lbas
<1> HIDE DEF n, q
<1>5. ASSUME NEW i \in 1 .. n + 1
      PROVE  /\ i > 1 => q[i].start = q[i - 1].end + 1
             /\ \A l \in q[i].start .. q[i].end : q[i].data = device[l]
  <2>1. CASE i = n + 1
    <3>1. q[i] = e
      BY <1>2, <2>1
    <3>2. ASSUME i > 1
          PROVE  e.start = q[i - 1].end + 1
      <4>1. n >= 1 /\ n \in 1 .. n /\ i - 1 = n /\ met # <<>>
        BY <1>1, <2>1, <3>2
      <4>2. q[n] = met[n] /\ met[n].end = e.start - 1
        BY <1>2, <4>1 DEF n
      <4> QED BY <1>4, <4>1, <4>2
    <3> QED BY <3>1, <3>2
  <2>2. CASE i # n + 1
    <3>1. i \in 1 .. n /\ (i > 1 => i - 1 \in 1 .. n)
      BY <1>1, <2>2
    <3>2. q[i] = met[i] /\ (i > 1 => q[i - 1] = met[i - 1])
      BY <1>2, <3>1
    <3> QED BY <1>3, <3>1, <3>2
  <2> QED BY <2>1, <2>2
<1>6. met' = q
  BY DEF q
<1>7. MetInv'
  BY <1>2, <1>5, <1>6 DEF MetInv
<1>8. q # <<>> /\ q[Len(q)] = e
  BY <1>1, <1>2
<1>9. q[1] = IF met = <<>> THEN e ELSE met[1]
  BY <1>1, <1>2
<1>10. met' # <<>> /\ met'[Len(met')] = e
  BY ONLY <1>6, <1>8
<1>11. met'[1] = IF met = <<>> THEN e ELSE met[1]
  BY ONLY <1>6, <1>9
<1> QED BY ONLY <1>7, <1>10, <1>11, Zenon

LEMMA FindHitNext ==
  ASSUME ControlInv, DataInv, ListInv, FindInv, FindHit
  PROVE  ControlInv' /\ DataInv' /\ ListInv' /\ FindInv' /\ pc' # "search" /\ pc' # "save"
<1> DEFINE w == write_record
           a == start_index + 1
           o == w[a]
           e == Node(new.start, Least(new.end, o.end), o.data)
<1>1. /\ pc = "find" /\ start_index < Len(w) /\ o.start <= new.start /\ o.end >= new.start
      /\ met' = Append(met, e)
      /\ IF o.end < new.end
         THEN new' = [new EXCEPT !.start = o.end + 1] /\ start_index' = a /\ pc' = pc /\ answer' = answer
         ELSE pc' = "found" /\ answer' = Crc /\ new' = new /\ start_index' = start_index
      /\ UNCHANGED <<write_record, op, todo, searchVars, insert, device>>
  BY DEF FindHit, HoldsStart, Old, Continue
<1>2. op = "find" /\ todo = <<>> /\ ~Saving /\ insert \in BOOLEAN
  BY <1>1 DEF ControlInv, Saving
<1>3. w \in Seq(Extents) /\ Ordered(w) /\ Truthful(w, device, BlocksOf(todo))
  BY <1>1, <1>2 DEF ListInv
<1>4. /\ Len(w) \in Nat
      /\ \A i \in 1 .. Len(w) : w[i].start \in Nat /\ w[i].end \in Nat /\ w[i].start <= w[i].end
      /\ \A i, j \in 1 .. Len(w) : i < j => w[i].end < w[j].start
  BY <1>3, WholeExtents
<1>5. /\ start_index \in 0 .. Len(w)
      /\ met # <<>> => /\ met[Len(met)].end = new.start - 1 /\ met[1].start <= new.start
                       /\ AllWritten(met[1].start, new.start - 1)
  BY <1>1 DEF FindInv
<1>6. a \in 1 .. Len(w)
  BY <1>1, <1>4, <1>5
<1>7. o \in Extents
  BY <1>3, <1>6
<1>8. /\ o.start \in Nat /\ o.end \in Nat /\ o.end \in Lbas /\ o.end <= MaxLba /\ o.start <= o.end
      /\ o.data \in Data \cup {Erased}
  BY <1>7, ExtentType
<1>0. o = w[a]
  OBVIOUS
<1>9. /\ new \in [start : Lbas, end : Lbas, data : {NONE}] /\ new.start \in Lbas /\ new.end \in Lbas
      /\ new.start \in Nat /\ new.end \in Nat /\ new.start <= new.end /\ new.end <= MaxLba
  BY <1>2 DEF DataInv, Lbas
<1>10. BlocksOf(todo) = {}
  BY <1>2 DEF BlocksOf
<1>11. \A l \in o.start .. o.end : device[l] = o.data /\ device[l] # NONE
  BY <1>3, <1>6, <1>8, <1>10 DEF Truthful, Says, Blocks
<1> HIDE DEF a, o, w
<1>12. /\ e \in Met /\ e.start = new.start /\ e.data = o.data /\ e.end <= o.end
       /\ e.end \in Nat
       /\ o.end < new.end => e.end = o.end
       /\ ~(o.end < new.end) => e.end = new.end
  <2>1. Least(new.end, o.end) \in Lbas /\ Least(new.end, o.end) <= o.end
    BY <1>8, <1>9 DEF Least
  <2>2. e.start = new.start /\ e.data = o.data /\ e.end = Least(new.end, o.end)
    BY DEF Node
  <2>3. e \in Met
    BY <1>8, <1>9, <2>1 DEF Node, Met
  <2> QED BY <1>8, <1>9, <2>1, <2>2, <2>3 DEF Least, Lbas
<1> HIDE DEF e
<1>13. \A l \in e.start .. e.end : e.data = device[l]
  <2> TAKE l \in e.start .. e.end
  <2>1. l \in o.start .. o.end
    BY <1>1, <1>8, <1>9, <1>12
  <2> QED BY <1>11, <1>12, <2>1
<1>14. /\ MetInv' /\ met' # <<>> /\ met'[Len(met')] = e
       /\ met'[1] = IF met = <<>> THEN e ELSE met[1]
  <2>1. met # <<>> => met[Len(met)].end = e.start - 1
    BY <1>5, <1>12
  <2>2. MetInv
    BY DEF FindInv
  <2> QED BY <1>1, <1>12, <1>13, <2>1, <2>2, MetAppended
<1>15. met \in Seq(Met)
  BY DEF FindInv, MetInv
<1>16. met'[1].start \in Nat /\ met'[1].start <= new.start
  <2>1. CASE met = <<>>
    BY <1>9, <1>12, <1>14, <2>1
  <2>2. CASE met # <<>>
    <3>1. met[1] \in Met
      BY <1>15, <2>2
    <3>2. met[1].start \in Nat
      BY <3>1 DEF Met, Lbas
    <3> QED BY <1>5, <1>14, <2>2, <3>2
  <2> QED BY <2>1, <2>2
<1>17. \A l \in met'[1].start .. e.end : device[l] # NONE
  <2> TAKE l \in met'[1].start .. e.end
  <2>1. CASE l >= new.start
    <3>1. l \in o.start .. o.end
      BY <1>1, <1>8, <1>9, <1>12, <2>1
    <3> QED BY <1>11, <3>1
  <2>2. CASE ~(l >= new.start)
    <3>1. met # <<>>
      BY <1>9, <1>12, <1>14, <2>2
    <3>2. l \in met[1].start .. new.start - 1
      BY <1>9, <1>14, <1>16, <2>2, <3>1
    <3> QED BY <1>5, <3>1, <3>2 DEF AllWritten
  <2> QED BY <2>1, <2>2
<1>18. ListInv'
  BY <1>1, <1>2, <1>3, <1>10 DEF ListInv, Saving, w
<1>19. CASE o.end < new.end
  <2>1. new' = [new EXCEPT !.start = o.end + 1] /\ start_index' = a /\ pc' = "find" /\ answer' = answer
    BY <1>1, <1>19
  <2>2. /\ new' \in [start : Lbas, end : Lbas, data : {NONE}] /\ new'.start = o.end + 1
        /\ new'.start <= new'.end
    <3>1. o.end + 1 \in Lbas
      BY <1>8, <1>9, <1>19 DEF Lbas
    <3>2. new'.start = o.end + 1 /\ new'.end = new.end
      BY <1>9, <2>1
    <3>3. new' \in [start : Lbas, end : Lbas, data : {NONE}]
      BY <1>9, <2>1, <3>1
    <3> QED BY <1>8, <1>9, <1>19, <3>2, <3>3
  <2>3. ControlInv'
    BY <1>1, <1>2, <2>1 DEF ControlInv, Saving
  <2>4. DataInv'
    BY <1>1, <1>2, <2>1, <2>2 DEF DataInv, Saving
  <2>5. Placed(w, a, o.end + 1, o.end + 1)
    <3>1. \A i \in 1 .. a : w[i].end < o.end + 1
      <4> TAKE i \in 1 .. a
      <4>1. i \in 1 .. Len(w)
        BY <1>6
      <4>2. CASE i = a
        BY <1>8, <4>2 DEF o
      <4>3. CASE i # a
        <5>1. i < a /\ w[i].end < w[a].start /\ w[i].end \in Nat
          BY <1>4, <1>6, <4>1, <4>3
        <5> QED BY ONLY <1>0, <1>8, <5>1
      <4> QED BY <4>2, <4>3
    <3>2. a < Len(w) => ~(w[a + 1].end < o.end + 1)
      <4> SUFFICES ASSUME a < Len(w)
                   PROVE  ~(w[a + 1].end < o.end + 1)
        OBVIOUS
      <4>1. a + 1 \in 1 .. Len(w) /\ a < a + 1
        BY <1>4, <1>6
      <4>2. w[a].end < w[a + 1].start /\ w[a + 1].start <= w[a + 1].end
            /\ w[a + 1].start \in Nat /\ w[a + 1].end \in Nat
        BY <1>4, <1>6, <4>1
      <4> QED BY ONLY <1>0, <1>8, <4>2
    <3> QED BY <3>1, <3>2 DEF Placed
  <2>6. met'[Len(met')].end = new'.start - 1 /\ met'[1].start <= new'.start
    <3>1. e.end = o.end
      BY <1>12, <1>19
    <3>2. met'[Len(met')].end = new'.start - 1
      BY ONLY <1>8, <1>14, <2>2, <3>1
    <3>3. new.start <= o.end
      BY <1>1, <1>8, <1>9
    <3> QED BY ONLY <1>8, <1>9, <1>16, <2>2, <3>2, <3>3
  <2>7. new'.start - 1 = e.end
    BY <1>8, <1>12, <1>19, <2>2
  <2>8. AllWritten(met[1].start, new.start - 1)'
    BY <1>1, <1>17, <2>7 DEF AllWritten
  <2>9. start_index' \in 0 .. Len(write_record') /\ Placed(write_record', start_index', new'.start, new'.start)
    BY <1>1, <1>6, <2>1, <2>2, <2>5 DEF w
  <2>10. answer' = NONE
    BY <1>1, <2>1 DEF FindInv
  <2>11. FindInv'
    BY <1>14, <2>1, <2>6, <2>8, <2>9, <2>10 DEF FindInv
  <2> QED BY <1>18, <2>1, <2>3, <2>4, <2>11
<1>20. CASE ~(o.end < new.end)
  <2>1. pc' = "found" /\ answer' = Crc /\ new' = new
    BY <1>1, <1>20
  <2>2. ControlInv'
    BY <1>1, <1>2, <2>1 DEF ControlInv, Saving
  <2>3. DataInv'
    BY <1>1, <1>2, <2>1 DEF DataInv, Saving
  <2>4. AllWritten(met[1].start, new.end)'
    BY <1>1, <1>12, <1>17, <1>20, <2>1 DEF AllWritten
  <2>5. met'[Len(met')].end = new'.end /\ met'[1].start <= new'.start
    BY <1>12, <1>14, <1>16, <1>20, <2>1
  <2>6. FindInv'
    BY <1>14, <2>1, <2>4, <2>5 DEF FindInv
  <2> QED BY <1>18, <2>1, <2>2, <2>3, <2>6
<1> QED BY <1>19, <1>20

(* The loop gives up on a block that no extent holds.                      *)
LEMMA FindFailsNext ==
  ASSUME ControlInv, DataInv, ListInv, FindInv, FindMiss \/ FindEnd
  PROVE  /\ ControlInv' /\ DataInv' /\ ListInv' /\ FindInv' /\ pc' = "found"
         /\ device[new.start] = NONE /\ answer' # Crc /\ answer' # NONE
<1> DEFINE w == write_record
           s == new.start
<1>1. /\ pc = "find" /\ pc' = "found" /\ met' = met /\ answer' \in {NotFound, Unbound}
      /\ UNCHANGED <<write_record, op, todo, new, insert, device>>
      /\ start_index >= Len(w) \/ (start_index < Len(w) /\ ~HoldsStart)
  BY DEF FindMiss, FindEnd
<1>2. op = "find" /\ todo = <<>> /\ ~Saving /\ insert \in BOOLEAN
  BY <1>1 DEF ControlInv, Saving
<1>3. w \in Seq(Extents) /\ Ordered(w) /\ Truthful(w, device, BlocksOf(todo))
  BY <1>1, <1>2 DEF ListInv
<1>4. /\ Len(w) \in Nat
      /\ \A i \in 1 .. Len(w) : w[i].start \in Nat /\ w[i].end \in Nat /\ w[i].start <= w[i].end
      /\ \A i, j \in 1 .. Len(w) : i < j => w[i].end < w[j].start
  BY <1>3, WholeExtents
<1>5. /\ start_index \in 0 .. Len(w)
      /\ \A i \in 1 .. start_index : w[i].end < s
      /\ start_index < Len(w) /\ w[start_index + 1].end < s => \A i \in start_index + 2 .. Len(w) : s < w[i].start
  BY <1>1 DEF FindInv, Placed
<1>6. new \in [start : Lbas, end : Lbas, data : {NONE}] /\ s \in Lbas /\ s \in Nat
  BY <1>2 DEF DataInv, Lbas
<1> HIDE DEF w, s
<1>7. ASSUME NEW i \in 1 .. Len(w)
      PROVE  ~(w[i].start <= s /\ s <= w[i].end)
  <2>0. w[i].start \in Nat /\ w[i].end \in Nat
    BY <1>4
  <2>1. CASE i <= start_index
    BY <1>5, <1>6, <2>0, <2>1
  <2>2. CASE start_index < i
    <3>1. start_index < Len(w) /\ ~HoldsStart /\ start_index + 1 \in 1 .. Len(w)
      BY <1>1, <1>4, <1>5, <2>2
    <3>2. ~(w[start_index + 1].start <= s /\ w[start_index + 1].end >= s)
      BY <3>1 DEF HoldsStart, Old, w, s
    <3>3. CASE i = start_index + 1
      BY <1>6, <2>0, <3>2, <3>3
    <3>4. CASE i # start_index + 1
      <4>1. i \in start_index + 2 .. Len(w) /\ start_index + 1 < i
        BY <1>5, <2>2, <3>4
      <4>2. CASE w[start_index + 1].end < s
        BY <1>5, <1>6, <2>0, <3>1, <4>1, <4>2
      <4>3. CASE ~(w[start_index + 1].end < s)
        <5>1. w[start_index + 1].end < w[i].start /\ w[start_index + 1].end \in Nat
          BY <1>4, <3>1, <4>1
        <5> QED BY <1>6, <2>0, <4>3, <5>1
      <4> QED BY <4>2, <4>3
    <3> QED BY <3>3, <3>4
  <2> QED BY <1>5, <2>1, <2>2
<1>8. s \notin BlocksOf(w)
  <2> SUFFICES ASSUME NEW i \in 1 .. Len(w), s \in Blocks(w[i])
               PROVE  FALSE
    BY DEF BlocksOf
  <2>1. w[i].start \in Nat /\ w[i].end \in Nat
    BY <1>4
  <2> QED BY <1>7, <2>1 DEF Blocks
<1>9. BlocksOf(todo) = {}
  BY <1>2 DEF BlocksOf
<1>10. device[s] = NONE
  BY <1>3, <1>6, <1>8, <1>9 DEF Truthful, Holds
<1>11. answer' # Crc /\ answer' # NONE
  BY <1>1 DEF Crc, NotFound, Unbound
<1>12. ControlInv'
  BY <1>1, <1>2 DEF ControlInv, Saving
<1>13. DataInv'
  BY <1>1, <1>2 DEF DataInv, Saving
<1>14. ListInv'
  BY <1>1, <1>2, <1>3 DEF ListInv, Saving, w
<1>15. MetInv'
  BY <1>1 DEF FindInv, MetInv
<1>16. met # <<>> => met[1].start <= new.start
  BY <1>1 DEF FindInv
<1>17. FindInv'
  BY <1>1, <1>10, <1>11, <1>15, <1>16 DEF FindInv, s
<1> QED BY <1>1, <1>10, <1>11, <1>12, <1>13, <1>14, <1>17 DEF s

-----------------------------------------------------------------------------
(* The calls, and the extents of a command one after the other. *)

Inv == ControlInv /\ DataInv /\ ListInv /\ SearchInv /\ SaveInv /\ FindInv

(* Every write has a block: the length 0 of a WRITE (6) is recorded as no  *)
(* block and writes ZeroMeans.                                             *)
NoEmptyWrite == 0 \notin Lengths \cup Write6Lengths

LEMMA CommandNext ==
  ASSUME Inv, pc = "idle", pc' = "next", op' = "save", todo' \in Seq(Extents),
         NEW value \in Data \cup {Erased}, \A i \in 1 .. Len(todo') : todo'[i].data = value,
         device' = [l \in Lbas |-> IF l \in BlocksOf(todo') THEN value ELSE device[l]],
         UNCHANGED <<write_record, new, searchVars, start_index, insert, answerVars>>
  PROVE  Inv'
<1>1. /\ insert \in BOOLEAN /\ todo = <<>> /\ ~Saving
      /\ write_record \in Seq(Extents) /\ Ordered(write_record)
      /\ Truthful(write_record, device, BlocksOf(todo))
      /\ device \in [Lbas -> Data \cup {Erased, NONE}]
      /\ met = <<>> /\ answer = NONE
  BY DEF Inv, ControlInv, DataInv, ListInv, FindInv, Saving
<1>2. BlocksOf(todo) = {}
  BY <1>1 DEF BlocksOf
<1>3. ControlInv'
  BY <1>1 DEF ControlInv, Saving
<1>4. \A i \in 1 .. Len(todo') : \A l \in Blocks(todo'[i]) : l \in Lbas /\ l \in BlocksOf(todo')
  <2> TAKE i \in 1 .. Len(todo')
  <2>1. todo'[i] \in Extents
    OBVIOUS
  <2> QED BY <2>1, ExtentType DEF BlocksOf
<1>5. DataInv'
  <2>1. device' \in [Lbas -> Data \cup {Erased, NONE}]
    BY <1>1
  <2>2. \A i \in 1 .. Len(todo') : \A l \in Blocks(todo'[i]) : device'[l] = todo'[i].data
    BY <1>4
  <2> QED BY <2>1, <2>2 DEF DataInv, Saving
<1>6. Says(write_record, device', BlocksOf(todo'))
  <2> SUFFICES ASSUME NEW i \in 1 .. Len(write_record), NEW l \in Blocks(write_record[i]),
                      l \notin BlocksOf(todo')
               PROVE  device'[l] = write_record[i].data
    BY DEF Says
  <2>1. write_record[i] \in Extents
    BY <1>1
  <2>2. l \in Lbas
    BY <2>1, ExtentType
  <2>3. device[l] = write_record[i].data
    BY <1>1, <1>2 DEF Truthful, Says
  <2> QED BY <2>2, <2>3
<1>7. Holds(write_record, device', BlocksOf(todo'))
  BY <1>1, <1>2 DEF Truthful, Holds
<1>8. ListInv'
  BY <1>1, <1>6, <1>7 DEF ListInv, Saving, Truthful
<1>9. SearchInv' /\ SaveInv'
  BY DEF SearchInv, SaveInv
<1>10. FindInv'
  BY <1>1 DEF FindInv, MetInv, answerVars
<1> QED BY <1>3, <1>5, <1>8, <1>9, <1>10 DEF Inv

LEMMA WriteBlocks ==
  ASSUME NoEmptyWrite, NEW kind \in {"write", "write6"}, NEW start \in Lbas, NEW data \in Data,
         NEW length \in Lengths \cup Write6Lengths, SaveWrite(kind, start, length, data)
  PROVE  /\ todo' \in Seq(Extents) /\ \A i \in 1 .. Len(todo') : todo'[i].data = data
         /\ BlocksOf(todo') = start .. start + length - 1
         /\ device' = [l \in Lbas |-> IF l \in BlocksOf(todo') THEN data ELSE device[l]]
<1> DEFINE e == Node(start, start + length - 1, data)
<1>1. length \in Nat /\ length # 0 /\ start \in Nat
  <2>1. Lengths \subseteq Nat /\ Write6Lengths \subseteq Nat
    BY RecordAssumption
  <2> QED BY ONLY <2>1, start \in Lbas, length \in Lengths \cup Write6Lengths, NoEmptyWrite
      DEF NoEmptyWrite, Lbas
<1>2. DeviceBlocks(kind, length) = length /\ RecordedBlocks(kind, length) = length
  BY <1>1 DEF DeviceBlocks, RecordedBlocks
<1>3. start + length - 1 \in Lbas /\ start <= start + length - 1
  BY <1>1, <1>2 DEF SaveWrite
<1>4. e \in Extents /\ e.start = start /\ e.end = start + length - 1 /\ e.data = data
  <2>1. e \in Extents
    BY <1>3, NodeType
  <2> QED BY <2>1 DEF Node
<1>5. todo' = <<e>> /\ device' = Written(device, start, length, data)
  BY <1>2 DEF SaveWrite
<1> HIDE DEF e
<1>6. Len(todo') = 1 /\ todo'[1] = e /\ todo' \in Seq(Extents)
  BY <1>4, <1>5
<1>7. BlocksOf(todo') = Blocks(e)
  <2>1. Blocks(e) \subseteq Lbas
    BY <1>4, ExtentType
  <2> QED BY <1>6, <2>1 DEF BlocksOf
<1>8. Blocks(e) = start .. start + length - 1
  BY <1>4 DEF Blocks
<1>9. device' = [l \in Lbas |-> IF l \in BlocksOf(todo') THEN data ELSE device[l]]
  BY ONLY <1>5, <1>7, <1>8, Zenon DEF Written
<1>10. \A i \in 1 .. Len(todo') : todo'[i].data = data
  BY ONLY <1>4, <1>6
<1>11. BlocksOf(todo') = start .. start + length - 1
  BY ONLY <1>7, <1>8
<1> QED BY ONLY <1>6, <1>9, <1>10, <1>11, Zenon

LEMMA UnmapBlocks ==
  ASSUME NEW descriptors \in Unmaps, SaveUnmap(descriptors)
  PROVE  /\ todo' \in Seq(Extents) /\ \A i \in 1 .. Len(todo') : todo'[i].data = Erased
         /\ device' = [l \in Lbas |-> IF l \in BlocksOf(todo') THEN Erased ELSE device[l]]
<1> DEFINE n == Len(descriptors)
           first(i) == descriptors[i].lba
           last(i) == descriptors[i].lba + descriptors[i].length - 1
<1>1. n \in Nat /\ DOMAIN descriptors = 1 .. n
  BY DEF RecordAssumption
<1>2. \A i \in 1 .. n : first(i) \in Lbas /\ last(i) \in first(i) .. MaxLba
  BY <1>1 DEF RecordAssumption, Lbas
<1>3. \A i \in 1 .. n : first(i) \in Lbas /\ last(i) \in Lbas /\ first(i) <= last(i)
  <2> TAKE i \in 1 .. n
  <2>1. first(i) \in Lbas /\ last(i) \in first(i) .. MaxLba
    BY <1>2
  <2> HIDE DEF first, last
  <2> QED BY <2>1 DEF Lbas
<1>4. /\ todo' = [i \in 1 .. n |-> Node(first(i), last(i), Erased)]
      /\ device' = EraseBlocks(device, descriptors)
  BY <1>1 DEF SaveUnmap
<1> HIDE DEF n, first, last
<1>5. \A i \in 1 .. n : /\ todo'[i] = Node(first(i), last(i), Erased) /\ todo'[i] \in Extents
                        /\ todo'[i].data = Erased /\ Blocks(todo'[i]) = first(i) .. last(i)
  <2> TAKE i \in 1 .. n
  <2>1. todo'[i] = Node(first(i), last(i), Erased)
    BY <1>4
  <2>2. todo'[i] \in Extents
    BY <1>3, <2>1, NodeType
  <2>3. todo'[i].start = first(i) /\ todo'[i].end = last(i) /\ todo'[i].data = Erased
    BY <2>1 DEF Node
  <2> QED BY <2>1, <2>2, <2>3 DEF Blocks
<1>6. todo' \in Seq(Extents) /\ Len(todo') = n
  <2>1. todo' \in [1 .. n -> Extents]
    BY <1>4, <1>5
  <2> QED BY <1>1, <2>1
<1>7. BlocksOf(todo') = {l \in Lbas : \E i \in 1 .. n : l \in first(i) .. last(i)}
  BY <1>5, <1>6 DEF BlocksOf
<1>8. device' = [l \in Lbas |-> IF \E i \in 1 .. n : l \in first(i) .. last(i) THEN Erased ELSE device[l]]
  BY <1>1, <1>4 DEF EraseBlocks, first, last
<1>9. device' = [l \in Lbas |-> IF l \in BlocksOf(todo') THEN Erased ELSE device[l]]
  BY <1>7, <1>8
<1> QED BY <1>5, <1>6, <1>9

LEMMA FindNext ==
  ASSUME Inv, NEW start \in Lbas, NEW length \in Lengths \ {0}, Find(start, length)
  PROVE  Inv' /\ new'.start = start /\ new'.end = start + length - 1 /\ start <= start + length - 1
<1>1. /\ insert \in BOOLEAN /\ todo = <<>> /\ ~Saving /\ pc = "idle"
      /\ write_record \in Seq(Extents) /\ Ordered(write_record)
      /\ Truthful(write_record, device, BlocksOf(todo))
      /\ device \in [Lbas -> Data \cup {Erased, NONE}]
      /\ met = <<>> /\ answer = NONE
  BY DEF Inv, ControlInv, DataInv, ListInv, FindInv, Saving, Find
<1>2. start \in Nat /\ length \in Nat /\ length # 0 /\ start + length - 1 \in Lbas
  <2>1. Lengths \subseteq Nat /\ start + length - 1 \in Lbas
    BY RecordAssumption DEF Find
  <2> QED BY ONLY <2>1, start \in Lbas, length \in Lengths \ {0} DEF Lbas
<1>3. /\ pc' = "search" /\ op' = "find" /\ new' = Node(start, start + length - 1, NONE)
      /\ met' = <<>> /\ answer' = NONE
      /\ left' = 0 /\ right' = Len(write_record) - 1 /\ mid' = 0 /\ cover' = 0
      /\ UNCHANGED <<write_record, todo, start_index, insert, device>>
  BY DEF Find, StartSearch
<1>4. /\ new' \in [start : Lbas, end : Lbas, data : {NONE}]
      /\ new'.start = start /\ new'.end = start + length - 1 /\ start <= start + length - 1
  BY <1>2, <1>3 DEF Node
<1>5. ControlInv'
  BY <1>1, <1>3 DEF ControlInv, Saving
<1>6. DataInv'
  BY <1>1, <1>3, <1>4 DEF DataInv, Saving
<1>7. ListInv'
  BY <1>1, <1>3 DEF ListInv, Saving
<1>8. SearchInv'
  <2>1. Len(write_record) \in Nat
    BY <1>1
  <2> QED BY <1>3, <2>1 DEF SearchInv
<1>9. SaveInv'
  BY <1>3 DEF SaveInv
<1>10. FindInv'
  BY <1>1, <1>3 DEF FindInv, MetInv
<1> QED BY <1>4, <1>5, <1>6, <1>7, <1>8, <1>9, <1>10 DEF Inv

LEMMA NextExtentNext ==
  ASSUME Inv, NextExtent
  PROVE  /\ Inv' /\ todo # <<>> /\ new' = Head(todo) /\ todo' = Tail(todo) /\ op = "save"
         /\ device' = device /\ pc' \in {"next", "search"}
<1> DEFINE w == write_record
           h == Head(todo)
           t == Tail(todo)
<1>1. /\ pc = "next" /\ todo # <<>> /\ todo' = t /\ new' = h /\ insert' = FALSE
      /\ UNCHANGED <<op, start_index, answerVars, device>>
      /\ IF w = <<>> THEN w' = <<h>> /\ pc' = pc /\ UNCHANGED searchVars
         ELSE StartSearch /\ UNCHANGED w
  BY DEF NextExtent
<1>2. /\ op = "save" /\ ~Saving /\ todo \in Seq(Extents)
      /\ w \in Seq(Extents) /\ Ordered(w) /\ Truthful(w, device, BlocksOf(todo))
      /\ device \in [Lbas -> Data \cup {Erased, NONE}]
      /\ met = <<>> /\ answer = NONE
      /\ \A i \in 1 .. Len(todo) : \A l \in Blocks(todo[i]) : device[l] = todo[i].data
  BY <1>1 DEF Inv, ControlInv, DataInv, ListInv, FindInv, Saving
<1>3. /\ Len(todo) \in Nat \ {0} /\ h \in Extents /\ h = todo[1] /\ t \in Seq(Extents)
      /\ Len(t) = Len(todo) - 1 /\ \A i \in 1 .. Len(t) : t[i] = todo[i + 1]
  BY <1>1, <1>2
<1>4. h.data \in Data \cup {Erased} /\ Blocks(h) \subseteq Lbas
  BY <1>3, ExtentType
<1> HIDE DEF h, t
<1>5. BlocksOf(todo) = BlocksOf(t) \cup Blocks(h)
  <2>1. \A l \in BlocksOf(t) : l \in BlocksOf(todo)
    <3> TAKE l \in BlocksOf(t)
    <3>1. PICK i \in 1 .. Len(t) : l \in Blocks(t[i])
      BY DEF BlocksOf
    <3>2. i + 1 \in 1 .. Len(todo) /\ t[i] = todo[i + 1]
      BY <1>3
    <3> QED BY <3>1, <3>2 DEF BlocksOf
  <2>2. \A l \in Blocks(h) : l \in BlocksOf(todo)
    <3>1. 1 \in 1 .. Len(todo)
      BY <1>3
    <3> QED BY <1>3, <1>4, <3>1 DEF BlocksOf
  <2>3. \A l \in BlocksOf(todo) : l \in BlocksOf(t) \cup Blocks(h)
    <3> TAKE l \in BlocksOf(todo)
    <3>1. PICK i \in 1 .. Len(todo) : l \in Blocks(todo[i])
      BY DEF BlocksOf
    <3>2. CASE i = 1
      BY <1>3, <3>1, <3>2
    <3>3. CASE i # 1
      <4> DEFINE j == i - 1
      <4>1. j \in 1 .. Len(t) /\ j + 1 = i
        BY <1>3, <3>3
      <4> HIDE DEF j
      <4>2. t[j] = todo[i]
        BY <1>3, <4>1
      <4> QED BY <3>1, <4>1, <4>2 DEF BlocksOf
    <3> QED BY <3>2, <3>3
  <2> QED BY <2>1, <2>2, <2>3
<1>6. /\ \A l \in Blocks(h) : device[l] = h.data
      /\ \A i \in 1 .. Len(t) : \A l \in Blocks(t[i]) : device[l] = t[i].data
  <2>1. 1 \in 1 .. Len(todo) /\ \A i \in 1 .. Len(t) : i + 1 \in 1 .. Len(todo)
    BY <1>3
  <2>2. \A l \in Blocks(h) : device[l] = h.data
    BY ONLY <1>2, <1>3, <2>1
  <2>3. ASSUME NEW i \in 1 .. Len(t), NEW l \in Blocks(t[i])
        PROVE  device[l] = t[i].data
    <3>1. i + 1 \in 1 .. Len(todo) /\ t[i] = todo[i + 1]
      BY <1>3, <2>1
    <3> QED BY ONLY <1>2, <2>3, <3>1
  <2> QED BY <2>2, <2>3
<1>7. CASE w = <<>>
  <2>1. pc' = "next" /\ w' = <<h>>
    BY <1>1, <1>7
  <2> HIDE DEF w
  <2>2. w' \in Seq(Extents) /\ Len(w') = 1 /\ w'[1] = h
    BY <1>3, <2>1
  <2>3. ControlInv'
    BY <1>1, <1>2, <2>1 DEF ControlInv, Saving
  <2>4. DataInv'
    BY <1>1, <1>2, <1>3, <1>6, <2>1 DEF DataInv, Saving
  <2>5. Truthful(w', device, BlocksOf(t))
    <3>1. Says(w', device, BlocksOf(t))
      BY <1>6, <2>2 DEF Says
    <3>2. Holds(w', device, BlocksOf(t))
      <4> SUFFICES ASSUME NEW l \in Lbas, l \notin BlocksOf(t), device[l] # NONE
                   PROVE  l \in BlocksOf(w')
        BY DEF Holds
      <4>1. l \notin BlocksOf(w)
        BY <1>7 DEF BlocksOf
      <4>2. l \in BlocksOf(todo)
        BY <1>2, <4>1 DEF Truthful, Holds
      <4>3. l \in Blocks(h)
        BY <1>5, <4>2
      <4> QED BY <2>2, <4>3 DEF BlocksOf
    <3> QED BY <3>1, <3>2 DEF Truthful
  <2>6. Ordered(w')
    BY <2>2 DEF Ordered
  <2>7. ListInv'
    BY <1>1, <2>1, <2>2, <2>5, <2>6 DEF ListInv, Saving, w
  <2>8. SearchInv' /\ SaveInv'
    BY <2>1 DEF SearchInv, SaveInv
  <2>9. FindInv'
    BY <1>1, <1>2, <2>1 DEF FindInv, MetInv, answerVars
  <2> QED BY <1>1, <1>2, <2>1, <2>3, <2>4, <2>7, <2>8, <2>9 DEF Inv, h, t
<1>8. CASE w # <<>>
  <2>1. /\ w' = w /\ pc' = "search"
        /\ left' = 0 /\ right' = Len(w) - 1 /\ mid' = 0 /\ cover' = 0
    BY <1>1, <1>8 DEF StartSearch
  <2>2. ControlInv'
    BY <1>1, <1>2, <1>8, <2>1 DEF ControlInv, Saving
  <2>3. DataInv'
    BY <1>1, <1>2, <1>3, <1>6, <2>1 DEF DataInv, Saving
  <2>4. ListInv'
    BY <1>1, <1>2, <1>5, <2>1 DEF ListInv, Saving
  <2>5. SearchInv'
    <3>1. Len(w) \in Nat
      BY <1>2
    <3> QED BY <2>1, <3>1 DEF SearchInv
  <2>6. SaveInv'
    BY <2>1 DEF SaveInv
  <2>7. FindInv'
    BY <1>1, <1>2, <2>1 DEF FindInv, MetInv, answerVars
  <2> QED BY <1>1, <1>2, <2>1, <2>2, <2>3, <2>4, <2>5, <2>6, <2>7 DEF Inv, h, t
<1> QED BY <1>7, <1>8

LEMMA ReturnsNext ==
  ASSUME Inv, CommandSaved \/ FindReturns
  PROVE  Inv' /\ todo = <<>> /\ pc' = "idle" /\ answer' = NONE /\ met' = <<>> /\ op' = "save"
<1>1. /\ pc \in {"next", "found"} /\ todo = <<>> /\ todo' = todo /\ device' = device
      /\ write_record' = write_record /\ pc' = "idle" /\ op' = "save" /\ insert' = FALSE
      /\ met' = <<>> /\ answer' = NONE /\ ~Saving
  BY DEF CommandSaved, FindReturns, Return, Inv, ControlInv, FindInv, answerVars, Saving
<1>2. /\ write_record \in Seq(Extents) /\ Ordered(write_record)
      /\ Truthful(write_record, device, BlocksOf(todo))
      /\ device \in [Lbas -> Data \cup {Erased, NONE}]
  BY <1>1 DEF Inv, DataInv, ListInv
<1>3. ControlInv'
  BY <1>1 DEF ControlInv, Saving
<1>4. DataInv'
  BY <1>1, <1>2 DEF DataInv, Saving
<1>5. ListInv'
  BY <1>1, <1>2 DEF ListInv, Saving
<1>6. SearchInv' /\ SaveInv'
  BY <1>1 DEF SearchInv, SaveInv
<1>7. FindInv'
  BY <1>1 DEF FindInv, MetInv
<1> QED BY <1>1, <1>3, <1>4, <1>5, <1>6, <1>7 DEF Inv

LEMMA SearchNext ==
  ASSUME Inv, SearchLoop
  PROVE  /\ Inv' /\ pc = "search" /\ pc' \in {"search", op}
         /\ UNCHANGED <<write_record, op, todo, new, insert, answerVars, device>>
<1>1. /\ UNCHANGED <<write_record, op, todo, new, insert, answerVars, device>>
      /\ pc = "search" /\ ControlInv /\ DataInv /\ ListInv /\ SearchInv
  BY DEF SearchLoop, SearchStep, SearchOver, Inv
<1>2. \/ SearchInv' /\ pc' = "search" /\ start_index' = start_index
      \/ pc' = op /\ Lands(write_record, start_index')
  BY <1>1, SearchStepNext, SearchOverNext DEF SearchLoop
<1>3. /\ op \in {"save", "find"}
      /\ op = "find" => todo = <<>>
      /\ op = "save" => insert = FALSE
      /\ insert \in BOOLEAN
      /\ op = "save" => Saving
      /\ op = "find" => ~Saving
      /\ op = "save" => write_record # <<>>
      /\ write_record \in Seq(Extents) /\ Ordered(write_record)
      /\ met = <<>> /\ answer = NONE
  BY <1>1 DEF Inv, ControlInv, ListInv, FindInv, Saving
<1>4. pc' \in {"search", op}
  BY <1>2
<1>5. ControlInv'
  BY <1>1, <1>3, <1>4 DEF ControlInv, Saving
<1>6. DataInv'
  BY <1>1, <1>3, <1>4 DEF DataInv, Saving
<1>7. ListInv'
  BY <1>1, <1>3, <1>4 DEF ListInv, Saving
<1>8. MetInv'
  BY <1>1, <1>3 DEF MetInv, answerVars
<1>9. CASE pc' = "search" /\ SearchInv'
  <2>1. SaveInv'
    BY <1>9 DEF SaveInv
  <2>2. FindInv'
    BY <1>1, <1>3, <1>8, <1>9 DEF FindInv, answerVars
  <2> QED BY <1>1, <1>4, <1>5, <1>6, <1>7, <1>9, <2>1, <2>2 DEF Inv
<1>10. CASE pc' = op /\ Lands(write_record, start_index')
  <2>1. /\ new.start \in Nat /\ new.end \in Nat /\ new.start <= new.end
    BY <1>1, SearchedNew
  <2>2. Len(write_record) \in Nat
    BY <1>3
  <2>3. /\ start_index' \in 0 .. Len(write_record)
        /\ Len(write_record) # 0 => start_index' \in 0 .. Len(write_record) - 1
        /\ Placed(write_record, start_index', new.start, new.end)
    BY <1>10, <2>2 DEF Lands
  <2>4. SearchInv'
    BY <1>3, <1>10 DEF SearchInv
  <2>5. SaveInv'
    <3>1. op = "save" => Len(write_record) # 0
      BY <1>3
    <3> QED BY <1>1, <1>3, <1>10, <2>3, <3>1 DEF SaveInv
  <2>6. Placed(write_record, start_index', new.start, new.start)
    <3> DEFINE k == start_index'
    <3>1. /\ \A i \in 1 .. k : write_record[i].end < new.start
          /\ k < Len(write_record) /\ write_record[k + 1].end < new.start =>
               \A i \in k + 2 .. Len(write_record) : new.end < write_record[i].start
      BY <2>3 DEF Placed
    <3>2. k \in Nat
      BY <2>2, <2>3
    <3> HIDE DEF k
    <3>3. ASSUME NEW i \in k + 2 .. Len(write_record), new.end < write_record[i].start
          PROVE  new.start < write_record[i].start
      <4>1. i \in 1 .. Len(write_record)
        BY <2>2, <3>2
      <4>2. write_record[i].start \in Nat
        BY <1>3, <4>1, ExtentType
      <4> QED BY <2>1, <3>3, <4>2
    <3>4. Placed(write_record, k, new.start, new.start)
      BY <3>1, <3>3 DEF Placed
    <3> QED BY <3>4 DEF k
  <2>7. FindInv'
    BY <1>1, <1>3, <1>8, <1>10, <2>3, <2>6 DEF FindInv, answerVars
  <2> QED BY <1>1, <1>4, <1>5, <1>6, <1>7, <2>4, <2>5, <2>7 DEF Inv
<1> QED BY <1>2, <1>9, <1>10

-----------------------------------------------------------------------------
(* The invariant holds. *)

LEMMA InvInit ==
  Init => Inv
<1> SUFFICES ASSUME Init
             PROVE  Inv
  OBVIOUS
<1>1. ControlInv
  BY DEF Init, ControlInv, Saving
<1>2. DataInv
  BY DEF Init, DataInv, Saving
<1>3. ListInv
  <2>1. Says(write_record, device, BlocksOf(todo)) /\ Holds(write_record, device, BlocksOf(todo))
    BY DEF Init, Says, Holds
  <2>2. Ordered(write_record) /\ write_record \in Seq(Extents)
    BY DEF Init, Ordered
  <2> QED BY <2>1, <2>2 DEF Init, ListInv, Saving, Truthful
<1>4. SearchInv /\ SaveInv
  BY DEF Init, SearchInv, SaveInv
<1>5. FindInv
  BY DEF Init, FindInv, MetInv
<1> QED BY <1>1, <1>2, <1>3, <1>4, <1>5 DEF Inv

LEMMA CallsNext ==
  ASSUME NoEmptyWrite, Inv, Calls
  PROVE  Inv'
<1>1. ASSUME NEW kind \in {"write", "write6"}, NEW start \in Lbas, NEW data \in Data,
             NEW length \in Lengths \cup Write6Lengths, SaveWrite(kind, start, length, data)
      PROVE  Inv'
  <2>1. /\ todo' \in Seq(Extents) /\ \A i \in 1 .. Len(todo') : todo'[i].data = data
        /\ device' = [l \in Lbas |-> IF l \in BlocksOf(todo') THEN data ELSE device[l]]
    BY <1>1, WriteBlocks
  <2>2. /\ pc = "idle" /\ pc' = "next" /\ op' = "save"
        /\ UNCHANGED <<write_record, new, searchVars, start_index, insert, answerVars>>
    BY <1>1 DEF SaveWrite
  <2>3. data \in Data \cup {Erased}
    OBVIOUS
  <2> QED BY <2>1, <2>2, <2>3, CommandNext
<1>2. ASSUME NEW descriptors \in Unmaps, SaveUnmap(descriptors)
      PROVE  Inv'
  <2>1. /\ todo' \in Seq(Extents) /\ \A i \in 1 .. Len(todo') : todo'[i].data = Erased
        /\ device' = [l \in Lbas |-> IF l \in BlocksOf(todo') THEN Erased ELSE device[l]]
    BY <1>2, UnmapBlocks
  <2>2. /\ pc = "idle" /\ pc' = "next" /\ op' = "save"
        /\ UNCHANGED <<write_record, new, searchVars, start_index, insert, answerVars>>
    BY <1>2 DEF SaveUnmap
  <2>3. Erased \in Data \cup {Erased}
    OBVIOUS
  <2> QED BY <2>1, <2>2, <2>3, CommandNext
<1>3. ASSUME NEW start \in Lbas, NEW length \in Lengths \ {0}, Find(start, length)
      PROVE  Inv'
  BY <1>3, FindNext
<1> QED BY <1>1, <1>2, <1>3 DEF Calls

LEMMA InvNext ==
  ASSUME NoEmptyWrite, Inv, [Next]_vars
  PROVE  Inv'
<1>1. CASE Calls
  BY <1>1, CallsNext
<1>2. CASE NextExtent
  BY <1>2, NextExtentNext
<1>3. CASE CommandSaved \/ FindReturns
  BY <1>3, ReturnsNext
<1>4. CASE SearchLoop
  BY <1>4, SearchNext
<1>5. CASE SaveLoop
  <2>1. /\ ControlInv' /\ DataInv' /\ ListInv' /\ SaveInv'
        /\ pc = "save" /\ pc' \in {"save", "next"} /\ unchangedInLoop
    BY <1>5, SaveLoopNext DEF Inv
  <2>2. SearchInv'
    BY <2>1 DEF SearchInv
  <2>3. FindInv'
    BY <2>1 DEF Inv, FindInv, MetInv, unchangedInLoop, answerVars
  <2> QED BY <2>1, <2>2, <2>3 DEF Inv
<1>6. CASE FindHit
  <2>1. ControlInv' /\ DataInv' /\ ListInv' /\ FindInv' /\ pc' # "search" /\ pc' # "save"
    BY <1>6, FindHitNext DEF Inv
  <2> QED BY <2>1 DEF Inv, SearchInv, SaveInv
<1>7. CASE FindMiss \/ FindEnd
  <2>1. ControlInv' /\ DataInv' /\ ListInv' /\ FindInv' /\ pc' = "found"
    BY <1>7, FindFailsNext DEF Inv
  <2> QED BY <2>1 DEF Inv, SearchInv, SaveInv
<1>8. CASE UNCHANGED vars
  <2>1. ControlInv' = ControlInv /\ DataInv' = DataInv /\ ListInv' = ListInv
    BY <1>8 DEF vars, ControlInv, DataInv, ListInv, Saving
  <2>2. SearchInv' = SearchInv /\ SaveInv' = SaveInv
    BY <1>8 DEF vars, searchVars, SearchInv, SaveInv
  <2>3. FindInv' = FindInv
    BY <1>8 DEF vars, answerVars, FindInv, MetInv, AllWritten
  <2> QED BY <2>1, <2>2, <2>3 DEF Inv
<1> QED BY <1>1, <1>2, <1>3, <1>4, <1>5, <1>6, <1>7, <1>8 DEF Next, Steps, FindLoop

LEMMA InvHolds ==
  ASSUME NoEmptyWrite
  PROVE  Spec => []Inv
<1>1. Spec => Init /\ [][Next]_vars
  BY PTL DEF Spec
<1> QED BY <1>1, InvInit, InvNext, PTL

(* The extents are in order, without overlap and without empty ones,       *)
(* whenever no repair of the list is under way.                            *)
THEOREM RecordIsSorted ==
  ASSUME NoEmptyWrite
  PROVE  Spec => []SortedDisjoint
<1>1. Inv => SortedDisjoint
  <2> SUFFICES ASSUME Inv, pc \in {"idle", "next", "search"}, NEW i \in 1 .. Len(write_record)
               PROVE  /\ write_record[i].start <= write_record[i].end
                      /\ i > 1 => write_record[i - 1].end < write_record[i].start
    BY DEF SortedDisjoint
  <2>1. write_record \in Seq(Extents) /\ Ordered(write_record)
    BY DEF Inv, ListInv
  <2>2. write_record[i].start <= write_record[i].end
    BY <2>1, WholeExtents
  <2>3. i > 1 => write_record[i - 1].end < write_record[i].start
    BY <2>1 DEF Ordered
  <2> QED BY <2>2, <2>3
<1> QED BY <1>1, InvHolds, PTL

(* Between two calls the list says of every block what the last command    *)
(* left on the device, and nothing of a block nobody wrote.                *)
THEOREM RecordIsTrue ==
  ASSUME NoEmptyWrite
  PROVE  Spec => []RecordMatchesDevice
<1>1. Inv => RecordMatchesDevice
  <2> SUFFICES ASSUME Inv, pc = "idle", NEW l \in Lbas
               PROVE  Recorded(l) = device[l]
    BY DEF RecordMatchesDevice
  <2>1. todo = <<>> /\ ~Saving
    BY DEF Inv, ControlInv, Saving
  <2>2. write_record \in Seq(Extents) /\ Truthful(write_record, device, BlocksOf(todo))
    BY <2>1 DEF Inv, ListInv
  <2>3. l \notin BlocksOf(todo)
    BY <2>1 DEF BlocksOf
  <2> QED BY <2>2, <2>3, RecordedBlock
<1> QED BY <1>1, InvHolds, PTL

(* A lookup computes its CRC over what the device holds, over all of the   *)
(* blocks asked for; when it fails it names a block nobody wrote.          *)
THEOREM LookupsAreExact ==
  ASSUME NoEmptyWrite
  PROVE  Spec => []LookupExact
<1>1. Inv => LookupExact
  <2> SUFFICES ASSUME Inv, pc = "found"
               PROVE  LookupExact
    BY DEF LookupExact
  <2>1. /\ answer = Crc => met # <<>> /\ met[Len(met)].end = new.end
        /\ answer # Crc => device[new.start] = NONE
    BY DEF Inv, FindInv
  <2>2. \A i \in 1 .. Len(met) :
          /\ i > 1 => met[i].start = met[i - 1].end + 1
          /\ \A l \in met[i].start .. met[i].end : met[i].data = device[l]
    BY DEF Inv, FindInv, MetInv
  <2>3. Last(met) = met[Len(met)]
    BY DEF Last
  <2> QED BY <2>1, <2>2, <2>3 DEF LookupExact
<1> QED BY <1>1, InvHolds, PTL

-----------------------------------------------------------------------------
(* The list implements the map. *)

(* Extents still to be recorded included, the list always says what the    *)
(* device holds.                                                           *)
LEMMA MapIsDevice ==
  Inv => AbstractMap = device
<1> SUFFICES ASSUME Inv
             PROVE  AbstractMap = device
  OBVIOUS
<1>1. /\ todo \in Seq(Extents) /\ write_record \in Seq(Extents)
      /\ device \in [Lbas -> Data \cup {Erased, NONE}]
      /\ Saving => new \in Extents
      /\ pc = "save" => op = "save"
  BY DEF Inv, DataInv, ListInv, ControlInv
<1>2. /\ Pending \in Seq(Extents)
      /\ \A i \in DOMAIN Pending : \A l \in Blocks(Pending[i]) : device[l] = Pending[i].data
      /\ Truthful(write_record, device, BlocksOf(Pending))
  <2>1. CASE Saving
    <3> DEFINE p == <<new>> \o todo
    <3>1. Pending = p
      BY <1>1, <2>1 DEF Pending, Saving
    <3>2. /\ p \in Seq(Extents) /\ Len(p) = Len(todo) + 1 /\ p[1] = new /\ Len(todo) \in Nat
          /\ \A i \in 2 .. Len(todo) + 1 : p[i] = todo[i - 1]
      BY <1>1, <2>1
    <3> HIDE DEF p
    <3>3. \A i \in 1 .. Len(p) : \A l \in Blocks(p[i]) : device[l] = p[i].data
      <4> TAKE i \in 1 .. Len(p)
      <4>1. CASE i = 1
        BY <2>1, <3>2, <4>1 DEF Inv, DataInv
      <4>2. CASE i # 1
        <5>1. i \in 2 .. Len(todo) + 1 /\ i - 1 \in 1 .. Len(todo)
          BY <3>2, <4>2
        <5> QED BY <3>2, <5>1 DEF Inv, DataInv
      <4> QED BY <4>1, <4>2
    <3>4. \A l \in BlocksOf(todo) \cup Blocks(new) : l \in BlocksOf(p)
      <4>1. \A l \in Blocks(new) : l \in BlocksOf(p)
        BY <1>1, <2>1, <3>2, ExtentType DEF BlocksOf
      <4>2. ASSUME NEW l \in BlocksOf(todo)
            PROVE  l \in BlocksOf(p)
        <5>1. PICK i \in 1 .. Len(todo) : l \in Blocks(todo[i])
          BY DEF BlocksOf
        <5> DEFINE j == i + 1
        <5>2. j \in 2 .. Len(todo) + 1 /\ j \in 1 .. Len(p) /\ j - 1 = i
          BY <3>2
        <5> HIDE DEF j
        <5>3. p[j] = todo[i]
          BY <3>2, <5>2
        <5> QED BY <5>1, <5>2, <5>3 DEF BlocksOf
      <4> QED BY <4>1, <4>2
    <3>5. Truthful(write_record, device, BlocksOf(todo) \cup Blocks(new))
      BY <2>1 DEF Inv, ListInv
    <3>6. Truthful(write_record, device, BlocksOf(p))
      BY <3>4, <3>5 DEF Truthful, Says, Holds
    <3>7. DOMAIN p = 1 .. Len(p)
      BY <3>2
    <3> QED BY <3>1, <3>2, <3>3, <3>6, <3>7
  <2>2. CASE ~Saving
    <3>1. Pending = todo
      BY <1>1, <2>2 DEF Pending, Saving
    <3>2. Truthful(write_record, device, BlocksOf(todo))
      BY <2>2 DEF Inv, ListInv
    <3>3. DOMAIN todo = 1 .. Len(todo)
      BY <1>1
    <3> QED BY <1>1, <3>1, <3>2, <3>3 DEF Inv, DataInv
  <2> QED BY <2>1, <2>2
<1>3. ASSUME NEW l \in Lbas
      PROVE  (IF PendingAt(l) = {} THEN Recorded(l) ELSE Pending[CHOOSE i \in PendingAt(l) : TRUE].data)
               = device[l]
  <2>1. CASE PendingAt(l) = {}
    <3>1. DOMAIN Pending = 1 .. Len(Pending)
      BY <1>2
    <3>2. l \notin BlocksOf(Pending)
      BY <2>1, <3>1 DEF PendingAt, BlocksOf, Blocks
    <3>3. Recorded(l) = device[l]
      BY <1>1, <1>2, <3>2, RecordedBlock
    <3> QED BY <2>1, <3>3
  <2>2. CASE PendingAt(l) # {}
    <3> DEFINE k == CHOOSE i \in PendingAt(l) : TRUE
    <3>1. k \in PendingAt(l)
      BY <2>2
    <3> HIDE DEF k
    <3>2. k \in DOMAIN Pending /\ l \in Blocks(Pending[k])
      BY <3>1 DEF PendingAt, Blocks
    <3>3. Pending[k].data = device[l]
      BY <1>2, <3>2
    <3> QED BY <2>2, <3>3 DEF k
  <2> QED BY <2>1, <2>2
<1>4. AbstractMap = [l \in Lbas |-> device[l]]
  BY <1>3 DEF AbstractMap
<1> QED BY <1>1, <1>4

Same  == AbstractMap = device
Busy  == pc # "idle"
Reply == IF answer = NONE THEN NONE ELSE answer = Crc

LEMMA MapVars ==
  ASSUME AbstractMap' = AbstractMap, Asked' = Asked, answer' = answer, Busy' = Busy
  PROVE  UNCHANGED Map!vars
  BY DEF Map!vars, Busy

LEMMA AskedStays ==
  ASSUME UNCHANGED <<op, new, met>>
  PROVE  Asked' = Asked
  BY DEF Asked

(* The steps of a lookup.                                                  *)
LEMMA FindHitMaps ==
  ASSUME Inv, Inv', FindHit, AbstractMap = device, AbstractMap' = device'
  PROVE  Map!Reply \/ UNCHANGED Map!vars
<1> DEFINE first == IF met = <<>> THEN new.start ELSE met[1].start
<1>1. /\ pc = "find" /\ op = "find" /\ op' = "find" /\ device' = device /\ answer = NONE
      /\ met \in Seq(Met) /\ met' # <<>>
      /\ new \in [start : Lbas, end : Lbas, data : {NONE}] /\ new.start <= new.end
      /\ met # <<>> => met[1].start <= new.start
  BY DEF FindHit, Inv, ControlInv, DataInv, FindInv, MetInv
<1>2. met'[1].start = first
  <2> DEFINE e == Node(new.start, Least(new.end, Old.end), Old.data)
  <2>1. met' = Append(met, e) /\ e.start = new.start
    BY DEF FindHit, Node
  <2> HIDE DEF e
  <2>2. met = <<>> => met'[1] = e
    BY <2>1
  <2>3. met # <<>> => met'[1] = met[1]
    BY <1>1, <2>1
  <2> QED BY <2>1, <2>2, <2>3
<1>3. new'.end = new.end
  BY <1>1 DEF FindHit
<1> HIDE DEF first
<1>4. Asked = first .. new.end /\ Asked' = first .. new.end
  BY <1>1, <1>2, <1>3 DEF Asked, first
<1>5. CASE pc' = "find"
  <2>1. answer' = answer /\ Busy' = Busy
    BY <1>1, <1>5 DEF Inv, FindInv, Busy
  <2> QED BY <1>1, <1>4, <2>1, MapVars
<1>6. CASE pc' = "found"
  <2>1. answer' = Crc
    BY <1>5, <1>6 DEF FindHit, Continue
  <2>2. \A l \in first .. new.end : device[l] # NONE
    BY <1>1, <1>2, <1>3, <1>6, <2>1 DEF Inv, FindInv, AllWritten
  <2>3. first \in Nat /\ first <= new.start /\ new.start \in Nat /\ new.end \in Nat /\ new.end <= MaxLba
    <3>1. met # <<>> => met[1] \in Met
      BY <1>1
    <3> QED BY <1>1, <3>1 DEF first, Met, Lbas
  <2>4. new.start \in first .. new.end /\ first .. new.end \subseteq Lbas
    BY <1>1, <2>3 DEF Lbas
  <2>5. Asked \subseteq Map!Known /\ Asked # {}
    BY <1>4, <2>2, <2>4 DEF Map!Known
  <2>6. Busy /\ Busy' /\ answer = NONE /\ answer' = Crc /\ Crc # NONE
    BY <1>1, <1>6, <2>1 DEF Busy, Crc
  <2> QED BY <1>1, <1>4, <2>5, <2>6, Zenon DEF Map!Reply, Busy
<1> QED BY <1>1, <1>5, <1>6 DEF FindHit, Continue

LEMMA FindFailsMaps ==
  ASSUME Inv, FindMiss \/ FindEnd, AbstractMap = device, AbstractMap' = device'
  PROVE  Map!Reply
<1>1. /\ pc = "find" /\ pc' = "found" /\ op = "find" /\ answer = NONE /\ met \in Seq(Met)
      /\ UNCHANGED <<op, new, met, device>>
      /\ new \in [start : Lbas, end : Lbas, data : {NONE}] /\ new.start <= new.end
      /\ met # <<>> => met[1].start <= new.start
  BY DEF FindMiss, FindEnd, Inv, ControlInv, DataInv, FindInv, MetInv
<1>2. device[new.start] = NONE /\ answer' # Crc /\ answer' # NONE
  BY FindFailsNext DEF Inv
<1>3. new.start \in Asked
  <2>1. met # <<>> => met[1] \in Met
    BY <1>1
  <2> QED BY <1>1, <2>1 DEF Asked, Met, Lbas
<1>4. ~(Asked \subseteq Map!Known) /\ Asked # {}
  BY <1>2, <1>3 DEF Map!Known
<1>5. Asked' = Asked /\ AbstractMap' = AbstractMap /\ Busy /\ Busy'
  BY <1>1, AskedStays DEF Busy
<1> QED BY <1>1, <1>2, <1>4, <1>5, Zenon DEF Map!Reply, Busy

LEMMA CallsMap ==
  ASSUME NoEmptyWrite, Inv, Calls, AbstractMap = device, AbstractMap' = device'
  PROVE  Map!Next
<1>1. pc = "idle" /\ op = "save" /\ answer = NONE /\ Asked = {} /\ ~Busy
  BY DEF Calls, SaveWrite, SaveUnmap, Find, Inv, ControlInv, FindInv, Asked, Busy
<1>2. ASSUME NEW value \in Data \cup {Erased}, pc' = "next", op' = "save", answer' = answer,
             device' = [l \in Lbas |-> IF l \in BlocksOf(todo') THEN value ELSE device[l]]
      PROVE  Map!Next
  <2>1. Asked' = {} /\ Busy'
    BY <1>2 DEF Asked, Busy
  <2>2. Map!Save(BlocksOf(todo'), value)
    BY <1>1, <1>2, <2>1 DEF Map!Save, Busy
  <2>3. BlocksOf(todo') \in SUBSET Lbas
    BY DEF BlocksOf
  <2> QED BY <1>2, <2>2, <2>3 DEF Map!Next
<1>3. ASSUME NEW kind \in {"write", "write6"}, NEW start \in Lbas, NEW data \in Data,
             NEW length \in Lengths \cup Write6Lengths, SaveWrite(kind, start, length, data)
      PROVE  Map!Next
  <2>1. device' = [l \in Lbas |-> IF l \in BlocksOf(todo') THEN data ELSE device[l]]
    BY <1>3, WriteBlocks
  <2>2. pc' = "next" /\ op' = "save" /\ answer' = answer
    BY <1>3 DEF SaveWrite, answerVars
  <2> QED BY <1>2, <2>1, <2>2
<1>4. ASSUME NEW descriptors \in Unmaps, SaveUnmap(descriptors)
      PROVE  Map!Next
  <2>1. device' = [l \in Lbas |-> IF l \in BlocksOf(todo') THEN Erased ELSE device[l]]
    BY <1>4, UnmapBlocks
  <2>2. pc' = "next" /\ op' = "save" /\ answer' = answer
    BY <1>4 DEF SaveUnmap, answerVars
  <2> QED BY <1>2, <2>1, <2>2
<1>5. ASSUME NEW start \in Lbas, NEW length \in Lengths \ {0}, Find(start, length)
      PROVE  Map!Next
  <2> DEFINE blocks == start .. start + length - 1
  <2>1. /\ new'.start = start /\ new'.end = start + length - 1 /\ start <= start + length - 1
    BY <1>5, FindNext
  <2>2. /\ pc' = "search" /\ op' = "find" /\ met' = <<>> /\ answer' = NONE /\ device' = device
        /\ start + length - 1 \in Lbas
    BY <1>5 DEF Find, StartSearch
  <2>3. Asked' = blocks /\ Busy'
    BY <2>1, <2>2 DEF Asked, Busy
  <2>4. start \in blocks /\ blocks \subseteq Lbas
    BY <2>1, <2>2 DEF Lbas
  <2> HIDE DEF blocks
  <2>5. Map!Lookup(blocks)
    BY <1>1, <2>2, <2>3 DEF Map!Lookup, Busy
  <2>6. blocks \in (SUBSET Lbas) \ {{}}
    BY <2>4
  <2> QED BY <2>5, <2>6 DEF Map!Next
<1> QED BY <1>3, <1>4, <1>5 DEF Calls

LEMMA ReturnsMap ==
  ASSUME Inv, CommandSaved \/ FindReturns, AbstractMap = device, AbstractMap' = device'
  PROVE  Map!Return
<1>1. /\ pc' = "idle" /\ answer' = NONE /\ op' = "save" /\ pc \in {"next", "found"}
      /\ device' = device
  BY ReturnsNext DEF CommandSaved, FindReturns
<1>2. Asked' = {} /\ Busy /\ ~Busy'
  BY <1>1 DEF Asked, Busy
<1>3. CASE pc = "next"
  <2>1. Asked = {}
    BY <1>3 DEF Asked, Inv, ControlInv
  <2> QED BY <1>1, <1>2, <2>1 DEF Map!Return, Busy
<1>4. CASE pc = "found"
  <2>1. answer # NONE
    BY <1>4, RecordAssumption DEF Inv, FindInv, Crc, NotFound, Unbound
  <2>2. (answer = Crc) \in BOOLEAN /\ (answer = Crc) # NONE
    BY RecordAssumption
  <2> QED BY <1>1, <1>2, <2>1, <2>2 DEF Map!Return, Busy
<1> QED BY <1>1, <1>3, <1>4

LEMMA QuietMaps ==
  ASSUME Inv, NextExtent \/ SearchLoop \/ SaveLoop \/ UNCHANGED vars,
         AbstractMap = device, AbstractMap' = device'
  PROVE  UNCHANGED Map!vars
<1>1. CASE NextExtent
  <2>1. op = "save" /\ op' = "save" /\ device' = device /\ answer' = answer /\ pc # "idle" /\ pc' # "idle"
    BY <1>1, NextExtentNext DEF NextExtent, answerVars
  <2>2. Asked' = Asked /\ Busy' = Busy
    BY <2>1 DEF Asked, Busy
  <2> QED BY <2>1, <2>2, MapVars
<1>2. CASE SearchLoop
  <2>1. /\ pc = "search" /\ pc' \in {"search", op} /\ op \in {"save", "find"}
        /\ UNCHANGED <<op, new, met, answer, device>>
    BY <1>2, SearchNext DEF answerVars, Inv, ControlInv
  <2>2. Asked' = Asked /\ Busy' = Busy
    BY <2>1, AskedStays DEF Busy
  <2> QED BY <2>1, <2>2, MapVars
<1>3. CASE SaveLoop
  <2>1. pc = "save" /\ pc' \in {"save", "next"} /\ UNCHANGED <<op, new, met, answer, device>>
    BY <1>3, SaveLoopNext DEF Inv, unchangedInLoop, answerVars
  <2>2. Asked' = Asked /\ Busy' = Busy
    BY <2>1, AskedStays DEF Busy
  <2> QED BY <2>1, <2>2, MapVars
<1>4. CASE UNCHANGED vars
  <2>1. UNCHANGED <<op, new, met, answer, device, pc>>
    BY <1>4 DEF vars, answerVars
  <2>2. Asked' = Asked /\ Busy' = Busy
    BY <2>1, AskedStays DEF Busy
  <2> QED BY <2>1, <2>2, MapVars
<1> QED BY <1>1, <1>2, <1>3, <1>4

(* Every behaviour of the record is one of the map: a save changes the map *)
(* once, as it is called, and only in its own blocks; no step of a search  *)
(* or of a repair does; a lookup succeeds just when all its blocks are     *)
(* known.                                                                  *)
THEOREM RecordIsAMap ==
  ASSUME NoEmptyWrite
  PROVE  Spec => MapSteps
<1>1. Init => Map!Init
  <2> SUFFICES ASSUME Init
               PROVE  Map!Init
    OBVIOUS
  <2>1. AbstractMap = device
    BY InvInit, MapIsDevice
  <2>2. Asked = {} /\ answer = NONE /\ pc = "idle" /\ device = [l \in Lbas |-> NONE]
    BY DEF Init, Asked
  <2> QED BY <2>1, <2>2 DEF Map!Init
<1>2. Inv /\ Inv' /\ Same /\ Same' /\ [Next]_vars => [Map!Next]_(Map!vars)
  <2> SUFFICES ASSUME Inv, Inv', AbstractMap = device, AbstractMap' = device', [Next]_vars
               PROVE  Map!Next \/ UNCHANGED Map!vars
    BY DEF Same
  <2>1. CASE Calls
    BY <2>1, CallsMap
  <2>2. CASE NextExtent \/ SearchLoop \/ SaveLoop \/ UNCHANGED vars
    BY <2>2, QuietMaps
  <2>3. CASE CommandSaved \/ FindReturns
    BY <2>3, ReturnsMap DEF Map!Next
  <2>4. CASE FindHit
    BY <2>4, FindHitMaps DEF Map!Next
  <2>5. CASE FindMiss \/ FindEnd
    BY <2>5, FindFailsMaps DEF Map!Next
  <2> QED BY <2>1, <2>2, <2>3, <2>4, <2>5 DEF Next, Steps, FindLoop
<1>3. Spec => []Same
  <2>1. Inv => Same
    BY MapIsDevice DEF Same
  <2> QED BY <2>1, InvHolds, PTL
<1>4. Spec => Init /\ [][Next]_vars
  BY PTL DEF Spec
<1> QED BY <1>1, <1>2, <1>3, <1>4, InvHolds, PTL DEF MapSteps, Map!Steps
===============================================================================
