--------------------------- MODULE ExecutorProofs ---------------------------
(***************************************************************************)
(* Theorems about the executor's own books, for every layout, every set of *)
(* commands and every length of a package: what is accepted fits, what is  *)
(* refused is not sent, modes, options, and where everything lies in the   *)
(* buffer.  ResponseProofs has what the tester makes of it.                *)
(***************************************************************************)
EXTENDS Executor, FiniteSetTheorems, TLAPS

USE ExecutorAssumption, LayoutAssumption

(* Steps with any command at all: what they preserve, a step of the        *)
(* executor does, and so does one that adds commands of its own.           *)
AnyCommand == {c \in CommandType : c.class = "tester" => c.ehs = 0 /\ c.payload = 0}
AnyNext == Next \/ \E c \in AnyCommand : Enqueue(c)

-----------------------------------------------------------------------------
(* Address arithmetic, for every size the layout allows.                   *)


(* Division as the provers need it: quotient and remainder are naturals.   *)
LEMMA DivMod ==
  ASSUME NEW a \in Nat, NEW b \in Nat \ {0}
  PROVE  /\ a \div b \in Nat /\ a % b \in 0 .. b - 1
         /\ a = b * (a \div b) + (a % b)
  OBVIOUS

(* A product of naturals is monotone in its first factor.                  *)
LEMMA TimesMonotone ==
  ASSUME NEW m \in Nat, NEW n \in Nat, NEW k \in Nat, m <= n
  PROVE  m * k <= n * k
  OBVIOUS

(* Quotient and remainder are unique.                                      *)
LEMMA DivUnique ==
  ASSUME NEW b \in Nat \ {0}, NEW q \in Nat, NEW r \in 0 .. b - 1
  PROVE  (q * b + r) \div b = q /\ (q * b + r) % b = r
<1> DEFINE m == q * b
           a == m + r
<1> m \in Nat
  OBVIOUS
<1> HIDE DEF m
<1> a \in Nat
  OBVIOUS
<1> DEFINE p == a \div b
<1>1. p \in Nat /\ a % b \in 0 .. b - 1 /\ a = b * p + (a % b)
  BY DivMod
<1> p * b = b * p
  BY <1>1
<1>2. ~ p + 1 <= q
  <2> SUFFICES ASSUME p + 1 <= q PROVE FALSE
    OBVIOUS
  <2>1. (p + 1) * b <= q * b
    BY <1>1, TimesMonotone
  <2>2. (p + 1) * b = p * b + b
    BY <1>1
  <2> HIDE DEF p, a
  <2> QED BY <1>1, <2>1, <2>2 DEF a, m
<1>3. ~ q + 1 <= p
  <2> SUFFICES ASSUME q + 1 <= p PROVE FALSE
    OBVIOUS
  <2>1. (q + 1) * b <= p * b
    BY <1>1, TimesMonotone
  <2>2. (q + 1) * b = q * b + b
    OBVIOUS
  <2> HIDE DEF p
  <2> QED BY <1>1, <2>1, <2>2 DEF m
<1> HIDE DEF p
<1>4. p = q
  BY <1>1, <1>2, <1>3
<1> QED BY <1>1, <1>4 DEF p, m

(* The least multiple at or above a value, and the least one only.         *)
LEMMA CeilDivFacts ==
  ASSUME NEW x \in Nat, NEW a \in Nat \ {0}
  PROVE  /\ CeilDiv(x, a) \in Nat
         /\ x <= AlignUp(x, a)
         /\ AlignUp(x, a) \in Nat
         /\ \A k \in Nat : x <= k * a => CeilDiv(x, a) <= k /\ AlignUp(x, a) <= k * a
<1> DEFINE c == (x + a - 1) \div a
<1>1. x + a - 1 \in Nat
  OBVIOUS
<1>2. /\ c \in Nat /\ (x + a - 1) % a \in 0 .. a - 1
      /\ x + a - 1 = a * c + ((x + a - 1) % a)
  BY <1>1, DivMod
<1>3. a * c = c * a /\ c * a \in Nat
  BY <1>2
<1>4. x <= c * a
  BY <1>2, <1>3
<1>5. ASSUME NEW k \in Nat, x <= k * a
      PROVE  c <= k
  <2> SUFFICES ASSUME k + 1 <= c PROVE FALSE
    BY <1>2
  <2>1. (k + 1) * a <= c * a
    BY <1>2, TimesMonotone
  <2>2. (k + 1) * a = k * a + a
    OBVIOUS
  <2> HIDE DEF c
  <2> QED BY <1>2, <1>3, <1>5, <2>1, <2>2
<1>6. ASSUME NEW k \in Nat, x <= k * a
      PROVE  c * a <= k * a
  BY <1>2, <1>5, <1>6, TimesMonotone
<1> HIDE DEF c
<1>7. CeilDiv(x, a) = c
  BY DEF CeilDiv, c
<1> QED BY <1>2, <1>3, <1>4, <1>5, <1>6, <1>7 DEF AlignUp

(* A group holds at least one entry, and its padding is less than one.     *)
LEMMA GroupShape ==
  /\ EntriesPerGroup \in Nat \ {0}
  /\ EntryPadding \in 0 .. EntrySize - 1
  /\ GroupSize = EntriesPerGroup * EntrySize + EntryPadding
<1>1. /\ EntriesPerGroup \in Nat /\ EntryPadding \in 0 .. EntrySize - 1
      /\ GroupSize = EntrySize * EntriesPerGroup + EntryPadding
  BY DivMod, LayoutAssumption DEF EntriesPerGroup, EntryPadding
<1>2. EntriesPerGroup # 0
  BY <1>1, LayoutAssumption
<1>3. EntrySize * EntriesPerGroup = EntriesPerGroup * EntrySize
  BY <1>1, LayoutAssumption
<1> QED BY <1>1, <1>2, <1>3

(* The offset of an entry that is the r-th of the group q.                 *)
LEMMA OffsetInGroup ==
  ASSUME NEW q \in Nat, NEW r \in 0 .. EntriesPerGroup - 1
  PROVE  /\ EntryOffset(q * EntriesPerGroup + r) = q * GroupSize + r * EntrySize
         /\ EntryOffset(q * EntriesPerGroup + r) \in Nat
<1>1. /\ (q * EntriesPerGroup + r) \div EntriesPerGroup = q
      /\ (q * EntriesPerGroup + r) % EntriesPerGroup = r
  BY DivUnique, GroupShape
<1>2. q * GroupSize \in Nat /\ r * EntrySize \in Nat
  BY GroupShape, LayoutAssumption
<1> QED BY <1>1, <1>2 DEF EntryOffset

(* Every entry has a group and a place in it.                              *)
LEMMA GroupAndPlace ==
  ASSUME NEW i \in Nat
  PROVE  \E q \in Nat, r \in 0 .. EntriesPerGroup - 1 : i = q * EntriesPerGroup + r
<1>1. /\ i \div EntriesPerGroup \in Nat /\ i % EntriesPerGroup \in 0 .. EntriesPerGroup - 1
      /\ i = EntriesPerGroup * (i \div EntriesPerGroup) + (i % EntriesPerGroup)
  BY DivMod, GroupShape
<1> DEFINE q == i \div EntriesPerGroup
           r == i % EntriesPerGroup
<1> HIDE DEF q, r
<1>2. q \in Nat /\ r \in 0 .. EntriesPerGroup - 1 /\ i = EntriesPerGroup * q + r
  BY <1>1 DEF q, r
<1>3. EntriesPerGroup * q = q * EntriesPerGroup
  BY <1>2, GroupShape
<1> QED BY <1>2, <1>3

(* A group followed by w bytes that do not fill another one.               *)
LEMMA Beyond ==
  ASSUME NEW b \in Nat \ {0}, NEW q \in Nat, NEW w \in 0 .. b - 1, NEW x, x = q * b + w
  PROVE  x % b = w
  BY DivUnique

(* The running pointer of _push_entry follows the offset formula of        *)
(* gen_rsp_cycle_indicator, inside a group and across its end.             *)
LEMMA EntryOffsetStep ==
  ASSUME NEW i \in Nat
  PROVE  /\ EntryOffset(i) \in Nat
         /\ NextEntryPtr(EntryOffset(i)) = EntryOffset(i + 1)
<1> DEFINE E == EntriesPerGroup
           S == EntrySize
           G == GroupSize
           pad == EntryPadding
<1>1. /\ E \in Nat \ {0} /\ S \in Nat \ {0} /\ G \in Nat \ {0}
      /\ pad \in 0 .. S - 1 /\ G = E * S + pad /\ S <= G
  BY GroupShape, LayoutAssumption
<1>2. PICK q \in Nat, r \in 0 .. E - 1 : i = q * E + r
  BY GroupAndPlace
<1> DEFINE P == q * G
           R == r * S
<1>3. P \in Nat /\ R \in Nat
  BY <1>1
<1>4. EntryOffset(i) = P + R
  BY <1>2, OffsetInGroup
<1>5. NextEntryPtr(P + R) =
        IF (P + R + 2 * S) % G < S THEN P + R + S + pad ELSE P + R + S
  BY DEF NextEntryPtr
<1>6. ASSUME r + 1 \in 0 .. E - 1
      PROVE  EntryOffset(i + 1) = P + R + S /\ R + 2 * S <= E * S
  <2>1. i + 1 = q * E + (r + 1)
    <3>1. q * E \in Nat
      BY <1>1
    <3> HIDE DEF E
    <3> QED BY <1>2, <3>1
  <2>2. EntryOffset(q * E + (r + 1)) = q * G + (r + 1) * S
    BY <1>6, OffsetInGroup
  <2>3. (r + 1) * S = R + S
    BY <1>1
  <2>4. (r + 2) * S <= E * S
    <3> HIDE DEF E
    <3> QED BY <1>1, <1>6, TimesMonotone
  <2>5. (r + 2) * S = R + 2 * S
    BY <1>1
  <2>6. EntryOffset(i + 1) = P + (R + S)
    BY <2>1, <2>2, <2>3
  <2> HIDE DEF P, R, E
  <2> QED BY <1>1, <1>3, <2>4, <2>5, <2>6
<1>7. ASSUME r + 1 = E
      PROVE  EntryOffset(i + 1) = P + G /\ R + S = E * S
  <2>1. i + 1 = (q + 1) * E + 0
    <3>1. q * E \in Nat /\ (q + 1) * E = q * E + E
      BY <1>1
    <3> HIDE DEF E
    <3> QED BY <1>1, <1>2, <1>7, <3>1
  <2>2. EntryOffset((q + 1) * E + 0) = (q + 1) * G + 0 * S
    <3>1. 0 \in 0 .. E - 1 /\ q + 1 \in Nat
      BY <1>1
    <3> QED BY <3>1, OffsetInGroup
  <2>3. (q + 1) * G + 0 * S = P + G
    BY <1>1
  <2>4. (r + 1) * S = R + S
    BY <1>1
  <2> HIDE DEF P, R, E
  <2> QED BY <1>7, <2>1, <2>2, <2>3, <2>4
<1>8. E * S \in Nat /\ r + 1 \in 0 .. E
  BY <1>1
<1>9. P + R \in Nat
  BY <1>3
<1>10. P + G = (q + 1) * G
  BY <1>1
<1> DEFINE F == E * S
<1> HIDE DEF E, R, S, G, pad, F
<1>11. CASE r + 1 \in 0 .. E - 1
  <2>1. CASE R + 2 * S < G
    <3>1. R + 2 * S \in 0 .. G - 1 /\ P + R + 2 * S = q * G + (R + 2 * S)
      BY <1>1, <1>3, <2>1
    <3>2. (P + R + 2 * S) % G = R + 2 * S
      BY ONLY <1>1, <3>1, Beyond
    <3> HIDE DEF P
    <3> QED BY <1>1, <1>3, <1>4, <1>5, <1>6, <1>9, <1>11, <2>1, <3>2
  <2>2. CASE ~ (R + 2 * S < G)
    <3>1. pad = 0
      BY <1>1, <1>3, <1>6, <1>8, <1>11, <2>2 DEF F
    <3> HIDE DEF P
    <3> QED BY <1>1, <1>3, <1>4, <1>5, <1>6, <1>9, <1>11, <3>1
  <2> QED BY <2>1, <2>2
<1>12. CASE r + 1 = E
  <2>1. R + S + pad = G
    BY <1>1, <1>3, <1>7, <1>8, <1>12 DEF F
  <2>2. CASE pad = 0
    <3> HIDE DEF P
    <3> QED BY <1>1, <1>3, <1>4, <1>5, <1>7, <1>9, <1>12, <2>1, <2>2
  <2>3. CASE pad # 0
    <3>1. S - pad \in 0 .. G - 1 /\ P + R + 2 * S = (P + G) + (S - pad)
      <4> HIDE DEF P
      <4> QED BY <1>1, <1>3, <2>1, <2>3
    <3>2. (P + R + 2 * S) % G = S - pad
      <4> DEFINE next == q + 1
      <4>1. next \in Nat
        OBVIOUS
      <4>2. P + R + 2 * S = next * G + (S - pad)
        BY <1>10, <3>1
      <4> HIDE DEF next, P
      <4> QED BY ONLY <1>1, <3>1, <4>1, <4>2, Beyond
    <3> HIDE DEF P
    <3> QED BY <1>1, <1>3, <1>4, <1>5, <1>7, <1>9, <1>12, <2>1, <2>3, <3>2
  <2> QED BY <2>2, <2>3
<1>13. r + 1 \in 0 .. E - 1 \/ r + 1 = E
  BY <1>1, <1>8
<1> QED BY <1>4, <1>9, <1>11, <1>12, <1>13

(* n entries and one spare entry end before the payloads.                  *)
LEMMA EntriesBeforeData ==
  ASSUME NEW n \in Nat
  PROVE  /\ DataBegin(n + 1) \in Nat
         /\ EntryOffset(n) + EntrySize <= DataBegin(n + 1)
         /\ \A i \in 0 .. n - 1 : EntryOffset(i) + 2 * EntrySize <= DataBegin(n + 1)
         /\ \A i \in 0 .. n - 1 :
              AlignUp(EntryOffset(i) + 2 * EntrySize, GroupSize) <= DataBegin(n + 1)
<1> DEFINE E == EntriesPerGroup
           S == EntrySize
           G == GroupSize
           c == CeilDiv(n + 1, E)
           D == DataBegin(n + 1)
<1>1. /\ E \in Nat \ {0} /\ S \in Nat \ {0} /\ G \in Nat \ {0}
      /\ E * S <= G /\ S <= G /\ E * S \in Nat
  BY GroupShape, LayoutAssumption
<1>2. c \in Nat /\ n + 1 <= c * E
  <2> n + 1 \in Nat
    OBVIOUS
  <2> HIDE DEF E
  <2> QED BY <1>1, CeilDivFacts DEF AlignUp
<1>3. c * G \in Nat /\ D \in Nat /\ c * G <= D
  <2>1. c * G \in Nat /\ MinGroups * G \in Nat
    BY <1>1, <1>2, LayoutAssumption
  <2> QED BY <2>1 DEF DataBegin, AtLeast
<1> HIDE DEF c, D
<1>4. ASSUME NEW i \in Nat, NEW k \in {1, 2}, i + k <= n + 1
      PROVE  EntryOffset(i) \in Nat /\ EntryOffset(i) + k * S <= c * G
  <2>1. PICK q \in Nat, r \in 0 .. E - 1 : i = q * E + r
    BY GroupAndPlace
  <2> DEFINE P == q * G
             R == r * S
             Q == q * E
  <2>2. P \in Nat /\ R \in Nat /\ Q \in Nat
    BY <1>1
  <2>3. EntryOffset(i) = P + R
    BY <2>1, OffsetInGroup
  <2>4. ASSUME NEW m \in Nat, ~ (c >= q + m + 1)
        PROVE  c * E <= Q + m * E
    <3>1. c * E <= (q + m) * E
      <4>1. q + m \in Nat /\ c <= q + m
        BY <1>2, <2>4
      <4> QED BY <1>1, <1>2, <4>1, TimesMonotone
    <3>2. (q + m) * E = q * E + m * E
      BY <1>1
    <3> QED BY <3>1, <3>2
  <2>5. ASSUME NEW m \in Nat, c >= q + m
        PROVE  P + m * G <= c * G
    <3>1. (q + m) * G <= c * G
      <4>1. q + m \in Nat /\ q + m <= c
        BY <1>2, <2>5
      <4> QED BY <1>1, <1>2, <4>1, TimesMonotone
    <3>2. (q + m) * G = q * G + m * G
      BY <1>1
    <3> QED BY <3>1, <3>2
  <2>6. ASSUME NEW j \in Nat, r + j <= E
        PROVE  R + j * S <= E * S
    <3>1. (r + j) * S <= E * S
      <4>1. r + j \in Nat
        BY <1>1
      <4> QED BY <1>1, <2>6, <4>1, TimesMonotone
    <3>2. (r + j) * S = r * S + j * S
      BY <1>1
    <3> QED BY <3>1, <3>2
  <2> DEFINE F == E * S
             C == c * G
             X == c * E
  <2>7. F \in Nat /\ C \in Nat /\ F <= G /\ X \in Nat /\ n + 1 <= X
    BY <1>1, <1>2, <1>3
  <2>8. i = Q + r
    BY <2>1
  <2>9. CASE r + k <= E
    <3>1. c >= q + 0 + 1
      <4>1. SUFFICES ASSUME ~ (c >= q + 0 + 1) PROVE FALSE
        OBVIOUS
      <4>2. X <= Q + 0 * E
        BY <2>4, <4>1
      <4> HIDE DEF Q, E, X
      <4> QED BY <1>1, <1>4, <2>2, <2>7, <2>8, <4>2
    <3>2. P + 1 * G <= C
      <4>1. c >= q + 1
        BY <1>2, <3>1
      <4> QED BY <2>5, <4>1
    <3>3. R + k * S <= F
      BY <2>6, <2>9
    <3> HIDE DEF P, R, F, C, S, G
    <3> QED BY <1>1, <2>2, <2>3, <2>7, <3>2, <3>3 DEF C
  <2>10. CASE r + 1 = E /\ k = 2
    <3>1. c >= q + 1 + 1
      <4>1. SUFFICES ASSUME ~ (c >= q + 1 + 1) PROVE FALSE
        OBVIOUS
      <4>2. X <= Q + 1 * E
        BY <2>4, <4>1
      <4> HIDE DEF Q, E, X
      <4> QED BY <1>1, <1>4, <2>2, <2>7, <2>8, <2>10, <4>2
    <3>2. P + 2 * G <= C
      <4>1. c >= q + 2
        BY <1>2, <3>1
      <4> QED BY <2>5, <4>1
    <3>3. R + 1 * S <= F
      BY <2>6, <2>10
    <3> HIDE DEF P, R, F, C, S, G
    <3> QED BY <1>1, <2>2, <2>3, <2>7, <2>10, <3>2, <3>3 DEF C
  <2> QED BY <1>1, <2>2, <2>3, <2>9, <2>10
<1>5. EntryOffset(n) + S <= D
  <2> DEFINE C == c * G
  <2>1. EntryOffset(n) \in Nat /\ EntryOffset(n) + 1 * S <= C
    BY <1>4
  <2> HIDE DEF C
  <2> QED BY <1>1, <1>3, <2>1 DEF C
<1>6. ASSUME NEW i \in 0 .. n - 1
      PROVE  /\ EntryOffset(i) + 2 * S <= D
             /\ AlignUp(EntryOffset(i) + 2 * S, G) <= D
  <2> DEFINE C == c * G
  <2>1. EntryOffset(i) \in Nat /\ EntryOffset(i) + 2 * S <= C
    <3>1. i \in Nat /\ i + 2 <= n + 1
      OBVIOUS
    <3> QED BY <1>4, <3>1
  <2> DEFINE x == EntryOffset(i) + 2 * S
  <2>2. x \in Nat /\ x <= c * G
    BY <1>1, <2>1
  <2> HIDE DEF x
  <2>3. AlignUp(x, G) <= C /\ AlignUp(x, G) \in Nat
    BY <1>1, <1>2, <2>2, CeilDivFacts
  <2>4. C <= D /\ C \in Nat
    BY <1>3
  <2> HIDE DEF C
  <2>5. AlignUp(x, G) <= D
    BY <1>3, <2>3, <2>4
  <2>6. x <= D
    BY <1>3, <2>2, <2>4 DEF C
  <2> QED BY <2>5, <2>6 DEF x
<1> QED BY <1>3, <1>5, <1>6 DEF D

(* What the early check leaves room for.                                   *)
LEMMA RoomForData ==
  ASSUME NEW n \in Nat, NEW blocks \in Nat, NEW units \in Nat,
         ~ EarlyFull(n, blocks, units)
  PROVE  /\ \A b \in Nat : b <= blocks => DataBegin(n) + b * BlockSize <= BufSize
         /\ \A u \in Nat : u <= units => u * EhsUnit <= EhsBufSize
<1> DEFINE c == CeilDiv(n, EntriesPerGroup)
           g == AtLeast(c, MinGroups)
           H == GroupSize \div BlockSize
           M == BufSize \div BlockSize
           V == EhsBufSize \div EhsUnit
<1>1. c \in Nat
  BY GroupShape, CeilDivFacts
<1>2. /\ H \in Nat /\ GroupSize = BlockSize * H + (GroupSize % BlockSize)
      /\ M \in Nat /\ BufSize = BlockSize * M + (BufSize % BlockSize)
      /\ V \in Nat /\ EhsBufSize = EhsUnit * V + (EhsBufSize % EhsUnit)
      /\ EhsBufSize % EhsUnit \in 0 .. EhsUnit - 1
  BY DivMod, LayoutAssumption
<1>3. g \in Nat /\ DataBegin(n) = g * GroupSize
  <2>1. CASE c < MinGroups
    <3>1. c * GroupSize <= MinGroups * GroupSize
      BY <1>1, <2>1, LayoutAssumption, TimesMonotone
    <3>2. c * GroupSize \in Nat /\ MinGroups * GroupSize \in Nat
      BY <1>1, LayoutAssumption
    <3> QED BY <2>1, <3>1, <3>2, LayoutAssumption DEF DataBegin, AtLeast
  <2>2. CASE ~ (c < MinGroups)
    <3>1. MinGroups * GroupSize <= c * GroupSize
      BY <1>1, <2>2, LayoutAssumption, TimesMonotone
    <3>2. c * GroupSize \in Nat /\ MinGroups * GroupSize \in Nat
      BY <1>1, LayoutAssumption
    <3> QED BY <1>1, <2>2, <3>1, <3>2, LayoutAssumption DEF DataBegin, AtLeast
  <2> QED BY <2>1, <2>2
<1>4. ~ (M - g * H - blocks < 0) /\ ~ (units > V)
  BY DEF EarlyFull
<1> HIDE DEF g, H, M, V, c
<1>5. g * H \in Nat
  BY <1>2, <1>3
<1>6. ASSUME NEW b \in Nat, b <= blocks
      PROVE  DataBegin(n) + b * BlockSize <= BufSize
  <2> DEFINE W == g * H
  <2>1. W + b \in Nat /\ W + b <= M
    <3> HIDE DEF W
    <3> QED BY <1>2, <1>4, <1>5, <1>6 DEF W
  <2>2. (W + b) * BlockSize <= M * BlockSize
    <3> HIDE DEF W
    <3> QED BY <1>2, <2>1, LayoutAssumption, TimesMonotone
  <2>3. M * BlockSize = BufSize
    BY <1>2, LayoutAssumption
  <2>4. (W + b) * BlockSize = g * GroupSize + b * BlockSize
    <3>1. (W + b) * BlockSize = W * BlockSize + b * BlockSize
      <4> HIDE DEF W
      <4> QED BY <1>5, LayoutAssumption DEF W
    <3>2. W * BlockSize = g * (BlockSize * H)
      BY <1>2, <1>3, LayoutAssumption
    <3>3. BlockSize * H = GroupSize
      BY <1>2, LayoutAssumption
    <3> QED BY <3>1, <3>2, <3>3
  <2> QED BY <1>3, <2>2, <2>3, <2>4
<1>7. ASSUME NEW u \in Nat, u <= units
      PROVE  u * EhsUnit <= EhsBufSize
  <2>1. u * EhsUnit <= V * EhsUnit
    BY <1>2, <1>4, <1>7, LayoutAssumption, TimesMonotone
  <2>2. V * EhsUnit = EhsUnit * V /\ V * EhsUnit \in Nat /\ u * EhsUnit \in Nat
    BY <1>2, LayoutAssumption
  <2> QED BY <1>2, <2>1, <2>2, LayoutAssumption
<1> QED BY <1>6, <1>7
-----------------------------------------------------------------------------
(* Types *)

LEMMA AlignType ==
  ASSUME NEW n \in Nat, NEW a \in Nat \ {0}
  PROVE  CeilDiv(n, a) \in Nat /\ AlignUp(n, a) \in Nat
  BY CeilDivFacts

(* What the tuning of a command yields.                                    *)
LEMMA TunedType ==
  ASSUME NEW c \in AnyCommand, task_tag \in Tags
  PROVE  /\ c \in CommandType
         /\ DataLength(c) \in Nat
         /\ NextTag \in Tags
         /\ TunedTag(c) \in Int
         /\ KeyOf(c) \in ({"upiu"} \X Int) \cup ({"sdk"} \X Funcs)
         /\ TagValid(c) => KeyOf(c) \in Keys
         /\ DataBlocks(c) \in Nat /\ EhsUnits(c) \in Nat
<1>1. c \in CommandType
  BY DEF AnyCommand
<1>2. c.length \in Nat /\ c.ehs \in Nat /\ c.tag \in Int /\ c.func \in Funcs
  BY <1>1 DEF CommandType
<1>3. DataLength(c) \in Nat
  BY <1>2, AlignType DEF DataLength
<1>4. NextTag \in Tags
  <2>1. task_tag + 1 \in Nat
    BY DEF Tags
  <2>2. (task_tag + 1) % TagCount \in 0 .. TagCount - 1
    BY <2>1, DivMod
  <2> QED BY <2>2 DEF NextTag, Tags
<1>5. TunedTag(c) \in Int
  BY <1>2, <1>4 DEF TunedTag, Tags
<1>6. KeyOf(c) \in ({"upiu"} \X Int) \cup ({"sdk"} \X Funcs)
  BY <1>2, <1>5 DEF KeyOf
<1>7. TagValid(c) => KeyOf(c) \in Keys
  BY <1>2 DEF TagValid, KeyOf, Keys
<1>8. DataBlocks(c) \in Nat /\ EhsUnits(c) \in Nat
  BY <1>2, <1>3, AlignType DEF DataBlocks, EhsUnits
<1> QED BY <1>1, <1>3, <1>4, <1>5, <1>6, <1>7, <1>8

LEMMA ElementType ==
  ASSUME NEW c \in AnyCommand, TypeOK,
         NEW ci \in Int \X (({"upiu"} \X Int) \cup ({"sdk"} \X Funcs))
  PROVE  ListElement(c, ci) \in ListElementType
<1>1. /\ c \in CommandType /\ DataLength(c) \in Nat
      /\ KeyOf(c) \in ({"upiu"} \X Int) \cup ({"sdk"} \X Funcs)
  BY TunedType DEF TypeOK
<1>2. total_payload \in Nat /\ total_ehs \in Nat
  BY DEF TypeOK
<1> QED BY <1>1, <1>2 DEF ListElement, ListElementType

LEMMA EnqueueType ==
  ASSUME TypeOK, NEW c \in AnyCommand, Enqueue(c)
  PROVE  TypeOK'
<1> USE DEF TypeOK
<1>1. /\ c \in CommandType /\ NextTag \in Tags
      /\ KeyOf(c) \in ({"upiu"} \X Int) \cup ({"sdk"} \X Funcs)
      /\ TagValid(c) => KeyOf(c) \in Keys
      /\ DataBlocks(c) \in Nat /\ EhsUnits(c) \in Nat
  BY TunedType
<1>2. task_tag' \in Tags
  BY <1>1 DEF Enqueue
<1>3. rw_manual_mode' \in BOOLEAN \cup {NONE} /\ pattern_mode' \in PatternModes \cup {NONE}
  <2>1. c.manual \in BOOLEAN /\ c.pattern \in PatternModes
    BY <1>1 DEF CommandType
  <2> QED BY <2>1 DEF Enqueue, TuneModes, modeVars
<1>4. /\ cmd_list' \in Seq(ListElementType)
      /\ total_payload' \in Nat /\ total_ehs' \in Nat
      /\ active_task_mgmt' \in BOOLEAN /\ has_hpb' \in BOOLEAN /\ has_read_buffer' \in BOOLEAN
      /\ tracker' \in [Keys -> Int]
  <2>1. CASE AppendCommand(c)
    <3> DEFINE ci == IF TagValid(c) THEN <<tracker[KeyOf(c)] + 1, KeyOf(c)>> ELSE NoIndicator
    <3>1. ci \in Int \X (({"upiu"} \X Int) \cup ({"sdk"} \X Funcs))
      BY <1>1 DEF NoIndicator, AUTO
    <3>2. ListElement(c, ci) \in ListElementType
      BY <3>1, ElementType
    <3>3. cmd_list' = Append(cmd_list, ListElement(c, ci))
      BY <2>1 DEF AppendCommand
    <3>4. cmd_list' \in Seq(ListElementType)
      <4> HIDE DEF ci
      <4> QED BY <3>2, <3>3
    <3>5. tracker' \in [Keys -> Int]
      <4>1. tracker' = IF TagValid(c) THEN [tracker EXCEPT ![KeyOf(c)] = @ + 1] ELSE tracker
        BY <2>1 DEF AppendCommand, IncrementCycle
      <4>2. tracker \in [Keys -> Int] /\ (TagValid(c) => KeyOf(c) \in Keys)
        BY <1>1
      <4> QED BY ONLY <4>1, <4>2
    <3>6. /\ total_payload' \in Nat /\ total_ehs' \in Nat
          /\ active_task_mgmt' \in BOOLEAN /\ has_hpb' \in BOOLEAN
          /\ has_read_buffer' \in BOOLEAN
      <4>1. /\ total_payload' = total_payload + DataBlocks(c)
            /\ total_ehs' = total_ehs + EhsUnits(c)
            /\ active_task_mgmt' = (active_task_mgmt \/ c.class = "tm")
            /\ has_hpb' = (has_hpb \/ c.class = "hpb")
            /\ has_read_buffer' = (has_read_buffer \/ c.class = "readbuffer")
        BY <2>1 DEF AppendCommand
      <4>2. /\ total_payload \in Nat /\ total_ehs \in Nat
            /\ DataBlocks(c) \in Nat /\ EhsUnits(c) \in Nat
        BY <1>1
      <4> QED BY ONLY <4>1, <4>2
    <3> QED BY <3>4, <3>5, <3>6
  <2>2. CASE UNCHANGED enqueueVars
    BY <2>2 DEF enqueueVars
  <2> QED BY <2>1, <2>2 DEF Enqueue
<1>5. UNCHANGED <<is_cmd_sent, qd_limit, entry_ptr, data_ptr, ehs_ptr, data_begin, pc, opts>>
  BY DEF Enqueue, bufferVars
<1> QED BY <1>2, <1>3, <1>4, <1>5

LEMMA SendType ==
  ASSUME TypeOK, NEW qd \in QueueDepths \cup {NONE}, NEW hw \in BOOLEAN, NEW clr \in BOOLEAN,
         Send(qd, hw, clr)
  PROVE  TypeOK'
<1>1. DataBegin(Len(cmd_list) + 1) \in Nat
  <2> PICK n \in Nat : n = Len(cmd_list)
    BY DEF TypeOK
  <2>1. DataBegin(n + 1) \in Nat
    BY EntriesBeforeData
  <2> QED BY <2>1
<1>2. UNCHANGED <<cmd_list, total_payload, total_ehs, task_tag, rw_manual_mode, pattern_mode,
                  active_task_mgmt, has_hpb, has_read_buffer, tracker, qd_limit,
                  entry_ptr, ehs_ptr>>
  BY DEF Send, enqueueVars, modeVars
<1>3. /\ is_cmd_sent' \in BOOLEAN /\ data_begin' \in Nat \cup {-1} /\ data_ptr' \in Nat
      /\ pc' \in {"idle", "push", "monitor"}
      /\ opts' \in OptsType
  <2>1. CASE SendRefusal(hw) = "ok"
    <3>1. /\ is_cmd_sent' = TRUE /\ data_begin' = DataBegin(Len(cmd_list) + 1)
          /\ data_ptr' = data_begin' /\ pc' = "push"
          /\ opts' = [qd |-> qd, hwCompare |-> hw, clear |-> clr, pushed |-> 0]
      BY <2>1 DEF Send
    <3>2. [qd |-> qd, hwCompare |-> hw, clear |-> clr, pushed |-> 0] \in OptsType
      BY DEF OptsType
    <3> QED BY <1>1, <3>1, <3>2
  <2>2. CASE SendRefusal(hw) # "ok"
    BY <2>2 DEF Send, TypeOK
  <2> QED BY <2>1, <2>2
<1> QED BY <1>2, <1>3 DEF TypeOK

LEMMA PushType ==
  ASSUME TypeOK, PushCmd
  PROVE  TypeOK'
<1> DEFINE e == NextCommand
<1>1. /\ UNCHANGED <<total_payload, total_ehs, task_tag, rw_manual_mode, pattern_mode,
                     active_task_mgmt, has_hpb, has_read_buffer, tracker, qd_limit,
                     is_cmd_sent, data_begin>>
      /\ pc' \in {"idle", "push", "monitor"}
  BY DEF PushCmd, modeVars
<1>2. NoOpts \in OptsType
  BY DEF NoOpts, OptsType
<1>3. opts.pushed \in Nat /\ opts.pushed + 1 \in 1 .. Len(cmd_list) /\ e \in ListElementType
  <2>1. opts.pushed \in Nat /\ opts.pushed < Len(cmd_list) /\ cmd_list \in Seq(ListElementType)
    BY DEF PushCmd, TypeOK, OptsType
  <2> QED BY <2>1 DEF NextCommand
<1>4. e.dataLength \in Nat /\ e.cmd.ehs \in Nat
  BY <1>3 DEF ListElementType, CommandType
<1>5. AlignUp(e.dataLength, BlockSize) \in Nat /\ AlignUp(e.cmd.ehs, EhsUnit) \in Nat
  BY <1>4, AlignType
<1>6. NextEntryPtr(entry_ptr) \in Nat
  BY GroupShape DEF NextEntryPtr, TypeOK
<1>7. CASE PushResult(e) = "ok"
  <2>1. /\ data_ptr' = data_ptr + AlignUp(e.dataLength, BlockSize)
        /\ ehs_ptr' = ehs_ptr + AlignUp(e.cmd.ehs, EhsUnit)
        /\ entry_ptr' = NextEntryPtr(entry_ptr)
        /\ cmd_list' = IF IsTester(e.cmd) THEN cmd_list
                       ELSE [cmd_list EXCEPT ![opts.pushed + 1].l42 = data_ptr,
                                             ![opts.pushed + 1].l54 = ehs_ptr]
        /\ opts' = [opts EXCEPT !.pushed = @ + 1]
    BY <1>7 DEF PushCmd
  <2>2. cmd_list' \in Seq(ListElementType)
    <3> DEFINE k == opts.pushed + 1
               f == [cmd_list[k] EXCEPT !.l42 = data_ptr, !.l54 = ehs_ptr]
    <3>1. cmd_list[k] \in ListElementType
      BY <1>3 DEF NextCommand
    <3>2. f \in ListElementType
      BY <3>1 DEF ListElementType, TypeOK
    <3>3. cmd_list' = cmd_list \/ cmd_list' = [cmd_list EXCEPT ![k] = f]
      BY <1>3, <2>1 DEF TypeOK
    <3> HIDE DEF f, k
    <3> QED BY <3>2, <3>3 DEF TypeOK
  <2>3. opts' \in OptsType
    <3>1. opts \in OptsType
      BY DEF TypeOK
    <3> QED BY <2>1, <3>1 DEF OptsType
  <2>4. data_ptr' \in Nat /\ ehs_ptr' \in Nat /\ entry_ptr' \in Nat
    <3>1. data_ptr \in Nat /\ ehs_ptr \in Nat
      BY DEF TypeOK
    <3> QED BY <1>5, <1>6, <2>1, <3>1
  <2> QED BY <1>1, <2>2, <2>3, <2>4 DEF TypeOK
<1>8. CASE PushResult(e) # "ok"
  <2>1. opts' = NoOpts /\ UNCHANGED <<data_ptr, ehs_ptr, entry_ptr, cmd_list>>
    BY <1>8 DEF PushCmd
  <2> QED BY <1>1, <1>2, <2>1 DEF TypeOK
<1> QED BY <1>7, <1>8

(* The steps that leave the package as it is and move only the send().     *)
LEMMA QuietType ==
  ASSUME TypeOK,
         UNCHANGED <<cmd_list, total_payload, total_ehs, task_tag, rw_manual_mode, pattern_mode,
                     active_task_mgmt, has_hpb, has_read_buffer, is_cmd_sent, tracker,
                     entry_ptr, data_ptr, ehs_ptr, data_begin>>,
         qd_limit' \in QueueDepths \cup {NONE}, pc' \in {"idle", "push", "monitor"},
         opts' \in OptsType
  PROVE  TypeOK'
  BY DEF TypeOK

LEMMA ResetType ==
  ASSUME TypeOK, ResetPackage, ResetBuffer, ResetTracker,
         UNCHANGED <<task_tag, qd_limit>>, pc' = "idle", opts' \in OptsType
  PROVE  TypeOK'
<1>1. /\ cmd_list' = <<>> /\ total_payload' = 0 /\ total_ehs' = 0
      /\ rw_manual_mode' = NONE /\ pattern_mode' = NONE
      /\ active_task_mgmt' = FALSE /\ has_hpb' = FALSE /\ has_read_buffer' = FALSE
      /\ is_cmd_sent' = FALSE
      /\ entry_ptr' = 0 /\ data_ptr' = 0 /\ ehs_ptr' = 0 /\ data_begin' = -1
  BY DEF ResetPackage, ResetBuffer
<1>2. tracker' \in [Keys -> Int]
  BY DEF ResetTracker
<1>3. <<>> \in Seq(ListElementType)
  OBVIOUS
<1> QED BY <1>1, <1>2, <1>3 DEF TypeOK

(* Transmit, the errors of the monitor, the tester and SetQdLimit.         *)
QuietNext ==
  \/ Transmit \/ MonitorErrorWithInfo \/ MonitorError \/ TesterNext
  \/ \E qd \in QueueDepths : SetQdLimit(qd)

(* What the quiet steps have in common.                                    *)
LEMMA QuietSteps ==
  ASSUME TypeOK, QuietNext
  PROVE  /\ UNCHANGED <<cmd_list, total_payload, total_ehs, task_tag, rw_manual_mode,
                        pattern_mode, active_task_mgmt, has_hpb, has_read_buffer,
                        is_cmd_sent, tracker>>
         /\ UNCHANGED <<entry_ptr, data_ptr, ehs_ptr, data_begin>>
         /\ qd_limit' \in QueueDepths \cup {NONE}
         /\ pc' \in {"idle", "monitor"} /\ opts' \in OptsType
         /\ pc' = "monitor" => \/ pc = "monitor"
                               \/ /\ pc = "push" /\ opts.pushed = Len(cmd_list)
                                  /\ done_queue' = done_queue
         /\ pc = "idle" => done_queue' = done_queue
<1> USE DEF enqueueVars, modeVars, bufferVars, testerVars
<1>1. NoOpts \in OptsType
  BY DEF NoOpts, OptsType
<1>2. opts \in OptsType /\ qd_limit \in QueueDepths \cup {NONE}
  BY DEF TypeOK
<1>3. CASE Transmit
  <2>1. opts' \in OptsType
    <3>1. CASE opts' = NoOpts
      BY <1>1, <3>1
    <3>2. CASE qd_limit # NONE /\ opts' = [opts EXCEPT !.qd = IF @ = NONE THEN qd_limit ELSE @]
      <4> QED BY <1>2, <3>2 DEF OptsType
    <3> QED BY <1>3, <3>1, <3>2 DEF Transmit
  <2> QED BY <1>2, <1>3, <2>1 DEF Transmit
<1>4. CASE MonitorErrorWithInfo \/ MonitorError
  BY <1>1, <1>2, <1>4 DEF MonitorErrorWithInfo, MonitorError, ReturnBuffers
<1>5. CASE TesterNext
  BY <1>2, <1>5 DEF TesterNext, TesterIssue, TesterFunction, TesterComplete, TesterAbort, hostUnchanged
<1>6. CASE \E qd \in QueueDepths : SetQdLimit(qd)
  BY <1>2, <1>6 DEF SetQdLimit
<1> QED BY <1>3, <1>4, <1>5, <1>6 DEF QuietNext

(* A send() that succeeds and keeps its package, and one that clears it.   *)
LEMMA SuccessSteps ==
  ASSUME TypeOK, MonitorSuccess
  PROVE  /\ pc = "monitor" /\ pc' = "idle" /\ opts' \in OptsType
         /\ UNCHANGED <<task_tag, qd_limit>>
         /\ \/ ResetPackage /\ ResetBuffer /\ ResetTracker /\ done_queue' = <<>>
            \/ UNCHANGED <<cmd_list, total_payload, total_ehs, rw_manual_mode, pattern_mode,
                           active_task_mgmt, has_hpb, has_read_buffer, is_cmd_sent, tracker,
                           entry_ptr, data_ptr, ehs_ptr, data_begin, done_queue>>
<1>1. NoOpts \in OptsType
  BY DEF NoOpts, OptsType
<1>2. CASE opts.clear
  BY <1>1, <1>2 DEF MonitorSuccess, ClearState
<1>3. CASE ~opts.clear
  BY <1>1, <1>3 DEF MonitorSuccess, ReturnBuffers, enqueueVars, modeVars
<1> QED BY <1>2, <1>3

LEMMA ClearSteps ==
  ASSUME TypeOK, Clear
  PROVE  /\ ResetPackage /\ ResetBuffer /\ ResetTracker /\ done_queue' = <<>>
         /\ pc' = "idle" /\ opts' \in OptsType
         /\ UNCHANGED <<task_tag, qd_limit>>
  BY DEF Clear, ClearState, TypeOK

(* The steps of the executor, as the proofs below divide them.             *)
LEMMA NextIsAny == [Next]_vars => [AnyNext]_vars
  BY DEF AnyNext

LEMMA NextCases ==
  ASSUME [AnyNext]_vars
  PROVE  \/ \E c \in AnyCommand : Enqueue(c)
         \/ \E qd \in QueueDepths \cup {NONE}, hw, clr \in BOOLEAN : Send(qd, hw, clr)
         \/ PushCmd
         \/ QuietNext
         \/ MonitorSuccess
         \/ Clear
         \/ UNCHANGED vars
<1>1. Commands \subseteq AnyCommand
  BY DEF AnyCommand
<1> QED BY <1>1 DEF AnyNext, Next, PatternNext, SendNext, QuietNext

LEMMA TypeInit == Init => TypeOK
<1> SUFFICES ASSUME Init PROVE TypeOK
  OBVIOUS
<1>1. NoOpts \in OptsType
  BY DEF NoOpts, OptsType
<1>2. tracker \in [Keys -> Int]
  BY DEF Init
<1>3. 0 \in Tags
  BY DEF Tags
<1>4. /\ cmd_list = <<>> /\ total_payload = 0 /\ total_ehs = 0 /\ task_tag = 0
      /\ rw_manual_mode = NONE /\ pattern_mode = NONE
      /\ active_task_mgmt = FALSE /\ has_hpb = FALSE /\ has_read_buffer = FALSE
      /\ is_cmd_sent = FALSE /\ qd_limit = NONE
      /\ entry_ptr = 0 /\ data_ptr = 0 /\ ehs_ptr = 0 /\ data_begin = -1
      /\ pc = "idle" /\ opts = NoOpts
  BY DEF Init
<1>5. <<>> \in Seq(ListElementType)
  OBVIOUS
<1> QED BY <1>1, <1>2, <1>3, <1>4, <1>5 DEF TypeOK

LEMMA TypeNext == TypeOK /\ [AnyNext]_vars => TypeOK'
<1> SUFFICES ASSUME TypeOK, [AnyNext]_vars PROVE TypeOK'
  OBVIOUS
<1>1. CASE \E c \in AnyCommand : Enqueue(c)
  BY <1>1, EnqueueType
<1>2. CASE \E qd \in QueueDepths \cup {NONE}, hw, clr \in BOOLEAN : Send(qd, hw, clr)
  BY <1>2, SendType
<1>3. CASE PushCmd
  BY <1>3, PushType
<1>4. CASE QuietNext
  BY <1>4, QuietSteps, QuietType
<1>5. CASE MonitorSuccess
  <2>1. CASE ResetPackage /\ ResetBuffer /\ ResetTracker
    BY <1>5, <2>1, SuccessSteps, ResetType
  <2>2. CASE UNCHANGED <<cmd_list, total_payload, total_ehs, rw_manual_mode, pattern_mode,
                         active_task_mgmt, has_hpb, has_read_buffer, is_cmd_sent, tracker,
                         entry_ptr, data_ptr, ehs_ptr, data_begin>>
    <3>1. qd_limit' \in QueueDepths \cup {NONE}
      BY <1>5, SuccessSteps DEF TypeOK
    <3> QED BY <1>5, <2>2, <3>1, SuccessSteps, QuietType
  <2> QED BY <1>5, <2>1, <2>2, SuccessSteps
<1>6. CASE Clear
  BY <1>6, ClearSteps, ResetType
<1>7. CASE UNCHANGED vars
  BY <1>7 DEF vars, enqueueVars, modeVars, bufferVars, TypeOK
<1> QED BY <1>1, <1>2, <1>3, <1>4, <1>5, <1>6, <1>7, NextCases

(* Every variable the executor keeps between calls keeps its type, for all *)
(* commands, layouts and package lengths.                                  *)
THEOREM TypeCorrect == Spec => []TypeOK
  BY TypeInit, TypeNext, NextIsAny, PTL DEF Spec

-----------------------------------------------------------------------------
(* What enqueue accepts fits: FitInv is inductive.                         *)

(* The steps that touch neither the list nor the pointers.                 *)
LEMMA QuietFit ==
  ASSUME FitInv,
         UNCHANGED <<cmd_list, total_payload, total_ehs, is_cmd_sent, entry_ptr, ehs_ptr>>,
         pc' # "push", pc' # "idle" => pc # "idle"
  PROVE  FitInv'
<1>1. TotalsInv' /\ CapacityInv'
  BY DEF FitInv, TotalsInv, CapacityInv, BlocksBefore, EhsBefore
<1>2. OpenInv'
  BY DEF FitInv, OpenInv
<1>3. PushInv'
  BY DEF PushInv
<1> QED BY <1>1, <1>2, <1>3 DEF FitInv

LEMMA ResetFit ==
  ASSUME ResetPackage, ResetBuffer, pc' = "idle"
  PROVE  FitInv'
<1>1. cmd_list' = <<>> /\ total_payload' = 0 /\ total_ehs' = 0 /\ entry_ptr' = 0 /\ ehs_ptr' = 0
  BY DEF ResetPackage, ResetBuffer
<1>2. TotalsInv' /\ CapacityInv'
  BY <1>1 DEF TotalsInv, CapacityInv, BlocksBefore, EhsBefore
<1> QED BY <1>1, <1>2 DEF FitInv, OpenInv, PushInv

(* The element enqueue appends holds the share it was counted with.        *)
LEMMA ElementShare ==
  ASSUME NEW c \in AnyCommand, NEW ci
  PROVE  /\ Blocks(ListElement(c, ci)) = DataBlocks(c)
         /\ Units(ListElement(c, ci)) = EhsUnits(c)
<1>1. CeilDiv(0, BlockSize) = 0 /\ CeilDiv(0, EhsUnit) = 0
  <2>1. \A a \in Nat \ {0} : CeilDiv(0, a) = 0
    <3> TAKE a \in Nat \ {0}
    <3>1. CeilDiv(0, a) \in Nat /\ (0 <= 0 * a => CeilDiv(0, a) <= 0)
      BY CeilDivFacts
    <3> QED BY <3>1
  <2> QED BY <2>1
<1>2. IsTester(c) => DataLength(c) = 0 /\ c.ehs = 0
  BY DEF IsTester, DataLength, AnyCommand
<1> QED BY <1>1, <1>2 DEF Blocks, Units, ListElement, DataBlocks, EhsUnits

LEMMA BeforeType ==
  ASSUME TypeOK, NEW i \in 1 .. Len(cmd_list) + 1
  PROVE  BlocksBefore(i) \in Nat /\ EhsBefore(i) \in Nat
<1>1. total_payload \in Nat /\ total_ehs \in Nat /\ Len(cmd_list) \in Nat
  BY DEF TypeOK
<1>2. CASE i <= Len(cmd_list)
  <2>1. cmd_list[i] \in ListElementType
    BY <1>2 DEF TypeOK
  <2> QED BY <1>2, <2>1 DEF BlocksBefore, EhsBefore, ListElementType
<1> QED BY <1>1, <1>2 DEF BlocksBefore, EhsBefore

LEMMA EnqueueFit ==
  ASSUME TypeOK, FitInv, NEW c \in AnyCommand, Enqueue(c)
  PROVE  FitInv'
<1>1. UNCHANGED <<is_cmd_sent, entry_ptr, ehs_ptr, pc>> /\ pc = "idle"
  BY DEF Enqueue, bufferVars
<1>2. CASE UNCHANGED enqueueVars
  BY <1>1, <1>2, QuietFit DEF enqueueVars
<1>3. CASE AppendCommand(c) /\ EnqueueResult(c) \in {"ok", "INVALID_TASKTAG_VALUE"}
  <2> PICK n \in Nat : n = Len(cmd_list)
    BY DEF TypeOK
  <2> DEFINE ci == IF TagValid(c) THEN <<tracker[KeyOf(c)] + 1, KeyOf(c)>> ELSE NoIndicator
             el == ListElement(c, ci)
  <2>1. /\ cmd_list' = Append(cmd_list, el)
        /\ total_payload' = total_payload + DataBlocks(c)
        /\ total_ehs' = total_ehs + EhsUnits(c)
    BY <1>3 DEF AppendCommand
  <2>2. /\ Blocks(el) = DataBlocks(c) /\ Units(el) = EhsUnits(c)
        /\ el.blocksBefore = total_payload /\ el.ehsBefore = total_ehs
    BY ElementShare DEF ListElement
  <2> HIDE DEF el
  <2>3. /\ n \in Nat /\ Len(cmd_list') = n + 1 /\ cmd_list'[n + 1] = el
        /\ \A i \in 1 .. n : cmd_list'[i] = cmd_list[i]
    BY <2>1 DEF TypeOK
  <2>4. /\ \A i \in 1 .. n + 1 : BlocksBefore(i)' = BlocksBefore(i) /\ EhsBefore(i)' = EhsBefore(i)
        /\ BlocksBefore(n + 2)' = total_payload' /\ EhsBefore(n + 2)' = total_ehs'
        /\ BlocksBefore(n + 1) = total_payload /\ EhsBefore(n + 1) = total_ehs
    BY <2>2, <2>3 DEF BlocksBefore, EhsBefore
  <2>5. /\ DataBlocks(c) \in Nat /\ EhsUnits(c) \in Nat
        /\ total_payload \in Nat /\ total_ehs \in Nat
    BY TunedType DEF TypeOK
  <2>6. TotalsInv'
    <3>1. BlocksBefore(1)' = 0 /\ EhsBefore(1)' = 0
      BY <2>3, <2>4 DEF FitInv, TotalsInv
    <3>2. ASSUME NEW i \in 1 .. n + 1
          PROVE  /\ BlocksBefore(i)' + Blocks(cmd_list'[i]) = BlocksBefore(i + 1)'
                 /\ BlocksBefore(i + 1)' <= total_payload'
                 /\ EhsBefore(i)' + Units(cmd_list'[i]) = EhsBefore(i + 1)'
                 /\ EhsBefore(i + 1)' <= total_ehs'
      <4>1. CASE i = n + 1
        <5>1. i + 1 = n + 2
          BY <2>3, <4>1
        <5>2. /\ BlocksBefore(i)' = total_payload /\ EhsBefore(i)' = total_ehs
              /\ BlocksBefore(i + 1)' = total_payload' /\ EhsBefore(i + 1)' = total_ehs'
              /\ cmd_list'[i] = el
          BY <2>3, <2>4, <4>1, <5>1
        <5> QED BY <2>1, <2>2, <2>5, <5>2
      <4>2. CASE i # n + 1
        <5>1. i \in 1 .. n /\ i + 1 \in 1 .. n + 1
          BY <2>3, <4>2
        <5>2. /\ BlocksBefore(i) + Blocks(cmd_list[i]) = BlocksBefore(i + 1)
              /\ BlocksBefore(i + 1) <= total_payload
              /\ EhsBefore(i) + Units(cmd_list[i]) = EhsBefore(i + 1)
              /\ EhsBefore(i + 1) <= total_ehs
          BY <5>1 DEF FitInv, TotalsInv
        <5>3. BlocksBefore(i + 1) \in Nat /\ EhsBefore(i + 1) \in Nat
          BY <5>1, BeforeType
        <5>4. /\ BlocksBefore(i)' = BlocksBefore(i) /\ EhsBefore(i)' = EhsBefore(i)
              /\ BlocksBefore(i + 1)' = BlocksBefore(i + 1)
              /\ EhsBefore(i + 1)' = EhsBefore(i + 1)
              /\ cmd_list'[i] = cmd_list[i]
          BY <2>3, <2>4, <5>1
        <5>5. total_payload <= total_payload' /\ total_ehs <= total_ehs'
          BY <2>1, <2>5
        <5>6. total_payload' \in Nat /\ total_ehs' \in Nat
          BY <2>1, <2>5
        <5> QED BY <2>5, <5>2, <5>3, <5>4, <5>5, <5>6
      <4> QED BY <4>1, <4>2
    <3> QED BY <2>3, <3>1, <3>2 DEF TotalsInv, Blocks, Units
  <2>7. CapacityInv'
    <3>1. ~ EarlyFull(n + 2, total_payload + DataBlocks(c), total_ehs + EhsUnits(c))
      <4>1. TuneResult(c) # "INVALID_TASKTAG_VALUE"
        BY DEF TuneResult
      <4>2. ~ EarlyFull(Len(cmd_list) + 2, total_payload + DataBlocks(c), total_ehs + EhsUnits(c))
        BY <1>3, <4>1 DEF EnqueueResult
      <4> QED BY <4>2
    <3>2. Len(cmd_list') + 1 = n + 2
      BY <2>3
    <3>3. ~ EarlyFull(Len(cmd_list') + 1, total_payload', total_ehs')
      BY <2>1, <3>1, <3>2
    <3> QED BY <3>3 DEF CapacityInv, EarlyFull
  <2>8. OpenInv' /\ PushInv'
    BY <1>1 DEF FitInv, OpenInv, PushInv
  <2> QED BY <2>6, <2>7, <2>8 DEF FitInv
<1> QED BY <1>2, <1>3 DEF Enqueue

LEMMA SendFit ==
  ASSUME TypeOK, FitInv, NEW qd, NEW hw, NEW clr, Send(qd, hw, clr)
  PROVE  FitInv'
<1>1. UNCHANGED <<cmd_list, total_payload, total_ehs, entry_ptr, ehs_ptr>>
  BY DEF Send, enqueueVars
<1>2. CASE SendRefusal(hw) = "ok"
  <2>1. /\ is_cmd_sent' = TRUE /\ pc' = "push" /\ opts'.pushed = 0
        /\ data_begin' = DataBegin(Len(cmd_list) + 1) /\ data_ptr' = data_begin'
    BY <1>2 DEF Send
  <2>2. ~is_cmd_sent /\ entry_ptr = 0 /\ ehs_ptr = 0
    BY <1>2 DEF SendRefusal, NotClear, FitInv, OpenInv
  <2>3. TotalsInv' /\ CapacityInv' /\ BlocksBefore(1)' = 0 /\ EhsBefore(1)' = 0
    BY <1>1 DEF FitInv, TotalsInv, CapacityInv, BlocksBefore, EhsBefore
  <2>4. EntryOffset(0) = 0
    <3>1. 0 \in 0 .. EntriesPerGroup - 1
      BY GroupShape
    <3>2. EntryOffset(0 * EntriesPerGroup + 0) = 0 * GroupSize + 0 * EntrySize
      BY <3>1, OffsetInGroup
    <3>3. 0 * EntriesPerGroup + 0 = 0 /\ 0 * GroupSize + 0 * EntrySize = 0
      BY GroupShape
    <3> QED BY <3>2, <3>3
  <2>5. DataBegin(Len(cmd_list) + 1) \in Nat /\ Len(cmd_list) \in Nat
    <3>1. Len(cmd_list) \in Nat
      BY DEF TypeOK
    <3> QED BY <3>1, EntriesBeforeData
  <2>6. PushInv'
    <3>1. opts'.pushed <= Len(cmd_list') /\ entry_ptr' = EntryOffset(opts'.pushed)
      BY <1>1, <2>1, <2>2, <2>4, <2>5
    <3>2. data_ptr' = data_begin' + 0 * BlockSize /\ ehs_ptr' = 0 * EhsUnit
      BY <1>1, <2>1, <2>2, <2>5
    <3>3. opts'.pushed + 1 = 1
      BY <2>1
    <3> QED BY <1>1, <2>1, <2>3, <3>1, <3>2, <3>3 DEF PushInv
  <2> QED BY <2>1, <2>3, <2>6 DEF FitInv, OpenInv
<1>3. CASE SendRefusal(hw) # "ok"
  BY <1>1, <1>3, QuietFit DEF Send
<1> QED BY <1>2, <1>3

(* What a successful push does to the list: only the two offsets change.   *)
LEMMA PushedList ==
  ASSUME TypeOK, PushCmd, PushResult(NextCommand) = "ok"
  PROVE  /\ Len(cmd_list') = Len(cmd_list)
         /\ \A i \in 1 .. Len(cmd_list) :
              /\ cmd_list'[i].cmd = cmd_list[i].cmd
              /\ cmd_list'[i].key = cmd_list[i].key
              /\ cmd_list'[i].ci = cmd_list[i].ci
              /\ cmd_list'[i].dataLength = cmd_list[i].dataLength
              /\ cmd_list'[i].blocksBefore = cmd_list[i].blocksBefore
              /\ cmd_list'[i].ehsBefore = cmd_list[i].ehsBefore
<1>1. \/ cmd_list' = cmd_list
      \/ cmd_list' = [cmd_list EXCEPT ![opts.pushed + 1].l42 = data_ptr,
                                      ![opts.pushed + 1].l54 = ehs_ptr]
  BY DEF PushCmd
<1>2. \A i \in 1 .. Len(cmd_list) : cmd_list[i] \in ListElementType
  BY DEF TypeOK
<1>3. cmd_list \in Seq(ListElementType)
  BY DEF TypeOK
<1>4. CASE cmd_list' = [cmd_list EXCEPT ![opts.pushed + 1].l42 = data_ptr,
                                        ![opts.pushed + 1].l54 = ehs_ptr]
  <2> DEFINE k == opts.pushed + 1
             f == [cmd_list[k] EXCEPT !.l42 = data_ptr, !.l54 = ehs_ptr]
  <2>1. k \in 1 .. Len(cmd_list)
    <3>1. opts.pushed \in Nat /\ opts.pushed < Len(cmd_list) /\ Len(cmd_list) \in Nat
      BY DEF PushCmd, TypeOK, OptsType
    <3> QED BY <3>1
  <2>2. cmd_list' = [cmd_list EXCEPT ![k] = f]
    BY <1>3, <1>4, <2>1
  <2>3. /\ f.cmd = cmd_list[k].cmd /\ f.key = cmd_list[k].key /\ f.ci = cmd_list[k].ci
        /\ f.dataLength = cmd_list[k].dataLength
        /\ f.blocksBefore = cmd_list[k].blocksBefore /\ f.ehsBefore = cmd_list[k].ehsBefore
    BY <1>2, <2>1 DEF ListElementType
  <2> HIDE DEF f, k
  <2> QED BY <1>3, <2>1, <2>2, <2>3
<1> QED BY <1>1, <1>4

LEMMA PushFit ==
  ASSUME TypeOK, FitInv, PushCmd
  PROVE  FitInv'
<1>1. /\ UNCHANGED <<total_payload, total_ehs, is_cmd_sent, data_begin>>
      /\ pc = "push" /\ is_cmd_sent
  BY DEF PushCmd, FitInv, OpenInv
<1>2. CASE PushResult(NextCommand) = "ok"
  <2> PICK p \in Nat, n \in Nat : p = opts.pushed /\ n = Len(cmd_list)
    BY DEF TypeOK, OptsType
  <2>1. /\ p + 1 \in 1 .. n
        /\ NextCommand = cmd_list[p + 1] /\ NextCommand \in ListElementType
    <3>1. p < n
      BY DEF PushCmd
    <3>2. p + 1 \in 1 .. n
      BY <3>1
    <3> QED BY <3>2 DEF NextCommand, TypeOK
  <2>2. /\ Len(cmd_list') = n
        /\ \A i \in 1 .. n :
             /\ cmd_list'[i].cmd = cmd_list[i].cmd
             /\ cmd_list'[i].dataLength = cmd_list[i].dataLength
             /\ cmd_list'[i].blocksBefore = cmd_list[i].blocksBefore
             /\ cmd_list'[i].ehsBefore = cmd_list[i].ehsBefore
    BY <1>2, PushedList
  <2>3. \A i \in 1 .. n + 1 : BlocksBefore(i)' = BlocksBefore(i) /\ EhsBefore(i)' = EhsBefore(i)
    BY <1>1, <2>2 DEF BlocksBefore, EhsBefore
  <2>4. TotalsInv'
    <3>1. BlocksBefore(1)' = 0 /\ EhsBefore(1)' = 0
      BY <2>3 DEF FitInv, TotalsInv
    <3>2. ASSUME NEW i \in 1 .. n
          PROVE  /\ BlocksBefore(i)' + Blocks(cmd_list'[i]) = BlocksBefore(i + 1)'
                 /\ BlocksBefore(i + 1)' <= total_payload'
                 /\ EhsBefore(i)' + Units(cmd_list'[i]) = EhsBefore(i + 1)'
                 /\ EhsBefore(i + 1)' <= total_ehs'
      <4>1. i \in 1 .. n + 1 /\ i + 1 \in 1 .. n + 1
        OBVIOUS
      <4>2. Blocks(cmd_list'[i]) = Blocks(cmd_list[i]) /\ Units(cmd_list'[i]) = Units(cmd_list[i])
        BY <2>2 DEF Blocks, Units
      <4>3. /\ BlocksBefore(i) + Blocks(cmd_list[i]) = BlocksBefore(i + 1)
            /\ BlocksBefore(i + 1) <= total_payload
            /\ EhsBefore(i) + Units(cmd_list[i]) = EhsBefore(i + 1)
            /\ EhsBefore(i + 1) <= total_ehs
        BY DEF FitInv, TotalsInv
      <4> QED BY <1>1, <2>3, <4>1, <4>2, <4>3
    <3> QED BY <2>2, <3>1, <3>2 DEF TotalsInv, Blocks, Units
  <2>5. CapacityInv'
    <3>1. cmd_list # <<>>
      BY <2>1 DEF TypeOK
    <3> QED BY <1>1, <2>2, <3>1 DEF FitInv, CapacityInv
  <2>6. OpenInv'
    BY <1>1 DEF OpenInv
  <2>7. PushInv'
    <3>1. /\ opts'.pushed = p + 1
          /\ entry_ptr' = NextEntryPtr(entry_ptr)
          /\ data_ptr' = data_ptr + AlignUp(NextCommand.dataLength, BlockSize)
          /\ ehs_ptr' = ehs_ptr + AlignUp(NextCommand.cmd.ehs, EhsUnit)
      BY <1>2 DEF PushCmd, TypeOK, OptsType
    <3>2. /\ entry_ptr = EntryOffset(p) /\ data_begin = DataBegin(n + 1)
          /\ data_ptr = data_begin + BlocksBefore(p + 1) * BlockSize
          /\ ehs_ptr = EhsBefore(p + 1) * EhsUnit
      BY <1>1 DEF FitInv, PushInv
    <3>3. entry_ptr' = EntryOffset(p + 1)
      BY <3>1, <3>2, EntryOffsetStep
    <3>4. /\ BlocksBefore(p + 1) + Blocks(NextCommand) = BlocksBefore(p + 2)
          /\ EhsBefore(p + 1) + Units(NextCommand) = EhsBefore(p + 2)
      <4>1. p + 1 + 1 = p + 2
        OBVIOUS
      <4> QED BY <2>1, <4>1 DEF FitInv, TotalsInv
    <3>5. /\ AlignUp(NextCommand.dataLength, BlockSize) = Blocks(NextCommand) * BlockSize
          /\ AlignUp(NextCommand.cmd.ehs, EhsUnit) = Units(NextCommand) * EhsUnit
          /\ Blocks(NextCommand) \in Nat /\ Units(NextCommand) \in Nat
      BY <2>1, AlignType DEF AlignUp, Blocks, Units, ListElementType, CommandType
    <3>6. BlocksBefore(p + 1) \in Nat /\ EhsBefore(p + 1) \in Nat /\ data_begin \in Nat
      <4>1. p + 1 \in 1 .. n + 1 /\ data_begin = DataBegin(n + 1)
        BY <2>1, <3>2
      <4> QED BY <4>1, BeforeType, EntriesBeforeData
    <3>7. data_ptr' = data_begin + BlocksBefore(p + 2) * BlockSize
      <4>1. (BlocksBefore(p + 1) + Blocks(NextCommand)) * BlockSize
              = BlocksBefore(p + 1) * BlockSize + Blocks(NextCommand) * BlockSize
        BY <3>5, <3>6
      <4> DEFINE x == BlocksBefore(p + 1) * BlockSize
                 y == Blocks(NextCommand) * BlockSize
                 z == BlocksBefore(p + 2) * BlockSize
      <4>2. x \in Nat /\ y \in Nat
        <5>1. BlockSize \in Nat
          BY LayoutAssumption
        <5> QED BY ONLY <3>5, <3>6, <5>1
      <4>3. z = x + y
        BY <3>4, <4>1
      <4>4. data_ptr' = data_begin + x + y
        BY <3>1, <3>2, <3>5
      <4> HIDE DEF x, y, z
      <4>5. data_ptr' = data_begin + z
        BY <3>6, <4>2, <4>3, <4>4
      <4> QED BY <4>5 DEF z
    <3>8. ehs_ptr' = EhsBefore(p + 2) * EhsUnit
      <4>1. (EhsBefore(p + 1) + Units(NextCommand)) * EhsUnit
              = EhsBefore(p + 1) * EhsUnit + Units(NextCommand) * EhsUnit
        BY <3>5, <3>6, LayoutAssumption
      <4>2. EhsBefore(p + 1) + Units(NextCommand) = EhsBefore(p + 2)
        BY <3>4
      <4>3. ehs_ptr' = EhsBefore(p + 1) * EhsUnit + Units(NextCommand) * EhsUnit
        BY <3>1, <3>2, <3>5
      <4> QED BY ONLY <4>1, <4>2, <4>3
    <3>9. BlocksBefore(p + 2)' = BlocksBefore(p + 2) /\ EhsBefore(p + 2)' = EhsBefore(p + 2)
      BY <2>1, <2>3
    <3>10. opts'.pushed + 1 = p + 2 /\ opts'.pushed <= Len(cmd_list')
      BY <2>1, <2>2, <3>1
    <3> QED BY <1>1, <2>2, <3>1, <3>2, <3>3, <3>7, <3>8, <3>9, <3>10 DEF PushInv
  <2> QED BY <2>4, <2>5, <2>6, <2>7 DEF FitInv
<1>3. CASE PushResult(NextCommand) # "ok"
  BY <1>3, QuietFit DEF PushCmd
<1> QED BY <1>2, <1>3

LEMMA FitInit == Init => FitInv
<1> SUFFICES ASSUME Init PROVE FitInv
  OBVIOUS
<1>1. /\ cmd_list = <<>> /\ total_payload = 0 /\ total_ehs = 0
      /\ entry_ptr = 0 /\ ehs_ptr = 0 /\ pc = "idle"
  BY DEF Init
<1>2. TotalsInv /\ CapacityInv
  BY <1>1 DEF TotalsInv, CapacityInv, BlocksBefore, EhsBefore
<1> QED BY <1>1, <1>2 DEF FitInv, OpenInv, PushInv

LEMMA FitNext == TypeOK /\ FitInv /\ [AnyNext]_vars => FitInv'
<1> SUFFICES ASSUME TypeOK, FitInv, [AnyNext]_vars PROVE FitInv'
  OBVIOUS
<1>1. CASE \E c \in AnyCommand : Enqueue(c)
  BY <1>1, EnqueueFit
<1>2. CASE \E qd \in QueueDepths \cup {NONE}, hw, clr \in BOOLEAN : Send(qd, hw, clr)
  BY <1>2, SendFit
<1>3. CASE PushCmd
  BY <1>3, PushFit
<1>4. CASE QuietNext
  BY <1>4, QuietSteps, QuietFit
<1>5. CASE MonitorSuccess
  BY <1>5, SuccessSteps, QuietFit, ResetFit
<1>6. CASE Clear
  BY <1>6, ClearSteps, ResetFit
<1>7. CASE UNCHANGED vars
  <2>1. UNCHANGED <<cmd_list, total_payload, total_ehs, is_cmd_sent, entry_ptr, data_ptr,
                    ehs_ptr, data_begin, pc, opts>>
    BY <1>7 DEF vars, enqueueVars, bufferVars
  <2> QED BY <2>1 DEF FitInv, TotalsInv, CapacityInv, OpenInv, PushInv, BlocksBefore, EhsBefore,
                      Blocks, Units
<1> QED BY <1>1, <1>2, <1>3, <1>4, <1>5, <1>6, <1>7, NextCases

LEMMA FitImpliesFits == TypeOK /\ FitInv => AcceptedFits
<1> SUFFICES ASSUME TypeOK, FitInv, pc = "push", opts.pushed < Len(cmd_list)
             PROVE  HasRoom(entry_ptr, data_ptr, ehs_ptr, data_begin,
                            NextCommand.dataLength, NextCommand.cmd.ehs)
  BY DEF AcceptedFits
<1> DEFINE n == Len(cmd_list)
           p == opts.pushed
           e == NextCommand
<1>1. /\ n \in Nat /\ p \in 0 .. n - 1 /\ p + 1 \in 1 .. n
      /\ e = cmd_list[p + 1] /\ e \in ListElementType
  BY DEF TypeOK, OptsType, NextCommand
<1>2. /\ entry_ptr = EntryOffset(p) /\ data_begin = DataBegin(n + 1)
      /\ data_ptr = data_begin + BlocksBefore(p + 1) * BlockSize
      /\ ehs_ptr = EhsBefore(p + 1) * EhsUnit
  BY DEF FitInv, PushInv
<1>3. /\ BlocksBefore(p + 1) + Blocks(e) = BlocksBefore(p + 1 + 1)
      /\ BlocksBefore(p + 1 + 1) <= total_payload
      /\ EhsBefore(p + 1) + Units(e) = EhsBefore(p + 1 + 1)
      /\ EhsBefore(p + 1 + 1) <= total_ehs
  BY <1>1 DEF FitInv, TotalsInv
<1> DEFINE b == BlocksBefore(p + 1)
           k == Blocks(e)
           u == EhsBefore(p + 1)
           w == Units(e)
<1>4. /\ AlignUp(e.dataLength, BlockSize) = k * BlockSize
      /\ AlignUp(e.cmd.ehs, EhsUnit) = w * EhsUnit
      /\ k \in Nat /\ w \in Nat
  BY <1>1, AlignType DEF AlignUp, Blocks, Units, ListElementType, CommandType
<1>5. b \in Nat /\ u \in Nat /\ total_payload \in Nat /\ total_ehs \in Nat
  BY <1>1, BeforeType DEF TypeOK
<1>6. ~ EarlyFull(n + 1, total_payload, total_ehs)
  BY <1>1 DEF FitInv, CapacityInv, TypeOK
<1>7. data_begin \in Nat
  BY <1>1, <1>2, EntriesBeforeData
<1> HIDE DEF n, p, e, b, k, u, w
<1>8. AlignUp(entry_ptr + 2 * EntrySize, GroupSize) <= data_begin
  BY <1>1, <1>2, EntriesBeforeData
<1>9. data_ptr + AlignUp(e.dataLength, BlockSize) <= BufSize
  <2>1. b + k \in Nat /\ b + k <= total_payload /\ n + 1 \in Nat
    BY <1>1, <1>3, <1>4, <1>5 DEF b, k
  <2>2. data_begin + (b + k) * BlockSize <= BufSize
    BY <1>2, <1>5, <1>6, <2>1, RoomForData
  <2>3. (b + k) * BlockSize = b * BlockSize + k * BlockSize
    BY <1>4, <1>5
  <2>4. data_ptr = data_begin + b * BlockSize
    BY <1>2 DEF b
  <2>5. b * BlockSize \in Nat /\ k * BlockSize \in Nat
    BY <1>4, <1>5
  <2> QED BY <1>4, <1>7, <2>2, <2>3, <2>4, <2>5
<1>10. ehs_ptr + AlignUp(e.cmd.ehs, EhsUnit) <= EhsBufSize
  <2>1. u + w \in Nat /\ u + w <= total_ehs /\ n + 1 \in Nat
    BY <1>1, <1>3, <1>4, <1>5 DEF u, w
  <2>2. (u + w) * EhsUnit <= EhsBufSize
    BY <1>5, <1>6, <2>1, RoomForData
  <2>3. (u + w) * EhsUnit = u * EhsUnit + w * EhsUnit
    BY <1>4, <1>5
  <2>4. ehs_ptr = u * EhsUnit
    BY <1>2 DEF u
  <2> QED BY <1>4, <2>2, <2>3, <2>4
<1> QED BY <1>8, <1>9, <1>10 DEF HasRoom, e

(* What enqueue accepted, the push loop of send() can always write, for    *)
(* every layout and every package.                                         *)
THEOREM AcceptedAlwaysFits == Spec => []AcceptedFits
<1>1. Init => TypeOK /\ FitInv
  BY TypeInit, FitInit
<1>2. TypeOK /\ FitInv /\ [Next]_vars => (TypeOK /\ FitInv)'
  BY NextIsAny, TypeNext, FitNext
<1>3. TypeOK /\ FitInv => AcceptedFits
  BY FitImpliesFits
<1> QED BY <1>1, <1>2, <1>3, PTL DEF Spec

-----------------------------------------------------------------------------
(* A package is uniform: ModesInv is inductive.                            *)

(* A command enters the list only if every check before the append passed. *)
LEMMA Accepted ==
  ASSUME NEW c, EnqueueResult(c) \in {"ok", "INVALID_TASKTAG_VALUE"}
  PROVE  ~NotClear /\ (~IsTester(c) => TuneResult(c) = "ok")
<1>1. TuneResult(c) # "INVALID_TASKTAG_VALUE"
  BY DEF TuneResult
<1> QED BY <1>1 DEF EnqueueResult

(* The modes stay, or one command sets them, agreeing with what they were. *)
LEMMA ModesStep ==
  ASSUME NEW c, Enqueue(c)
  PROVE  \/ UNCHANGED modeVars
         \/ /\ rw_manual_mode' = c.manual /\ pattern_mode' = c.pattern
            /\ rw_manual_mode \in {NONE, c.manual} /\ pattern_mode \in {NONE, c.pattern}
  BY DEF Enqueue, TuneModes, SetsModes, DataModeMixed, PatternModeMixed, modeVars

LEMMA AppendedModes ==
  ASSUME NEW c, Enqueue(c), EnqueueResult(c) \in {"ok", "INVALID_TASKTAG_VALUE"},
         ReadsOrWrites(c)
  PROVE  rw_manual_mode' = c.manual /\ pattern_mode' = c.pattern
<1>1. ~IsTester(c)
  BY DEF ReadsOrWrites, IsTester
<1>2. TuneResult(c) = "ok" /\ ~NotClear
  BY <1>1, Accepted
<1>3. SetsModes(c)
  BY <1>2 DEF TuneResult, SetsModes
<1> QED BY <1>1, <1>2, <1>3 DEF Enqueue, TuneModes

(* The steps that leave the list and the modes as they are.                *)
LEMMA QuietModes ==
  ASSUME ModesInv, UNCHANGED <<rw_manual_mode, pattern_mode>>,
         Len(cmd_list') = Len(cmd_list),
         \A i \in 1 .. Len(cmd_list) : cmd_list'[i].cmd = cmd_list[i].cmd
  PROVE  ModesInv'
  BY DEF ModesInv, ReadsOrWrites

LEMMA EnqueueModes ==
  ASSUME TypeOK, ModesInv, NEW c \in AnyCommand, Enqueue(c)
  PROVE  ModesInv'
<1> PICK n \in Nat : n = Len(cmd_list)
  BY DEF TypeOK
<1>1. ASSUME NEW i \in 1 .. n, ReadsOrWrites(cmd_list[i].cmd)
      PROVE  cmd_list[i].cmd.manual = rw_manual_mode' /\ cmd_list[i].cmd.pattern = pattern_mode'
  <2>1. cmd_list[i].cmd.manual = rw_manual_mode /\ cmd_list[i].cmd.pattern = pattern_mode
    BY <1>1 DEF ModesInv
  <2>2. cmd_list[i].cmd \in CommandType
    <3>1. cmd_list[i] \in ListElementType
      BY DEF TypeOK
    <3> QED BY <3>1 DEF ListElementType
  <2>3. rw_manual_mode # NONE /\ pattern_mode # NONE
    BY <2>1, <2>2 DEF CommandType
  <2> QED BY <2>1, <2>3, ModesStep DEF modeVars
<1>2. CASE UNCHANGED enqueueVars
  BY <1>1, <1>2 DEF ModesInv, enqueueVars
<1>3. CASE AppendCommand(c) /\ EnqueueResult(c) \in {"ok", "INVALID_TASKTAG_VALUE"}
  <2> DEFINE ci == IF TagValid(c) THEN <<tracker[KeyOf(c)] + 1, KeyOf(c)>> ELSE NoIndicator
             el == ListElement(c, ci)
  <2>1. cmd_list' = Append(cmd_list, el) /\ el.cmd = c
    BY <1>3 DEF AppendCommand, ListElement
  <2> HIDE DEF el
  <2>2. /\ Len(cmd_list') = n + 1 /\ cmd_list'[n + 1] = el
        /\ \A i \in 1 .. n : cmd_list'[i] = cmd_list[i]
    BY <2>1 DEF TypeOK
  <2>3. ASSUME NEW i \in 1 .. n + 1, ReadsOrWrites(cmd_list'[i].cmd)
        PROVE  cmd_list'[i].cmd.manual = rw_manual_mode' /\ cmd_list'[i].cmd.pattern = pattern_mode'
    <3>1. CASE i = n + 1
      BY <1>3, <2>1, <2>2, <2>3, <3>1, AppendedModes
    <3>2. CASE i \in 1 .. n
      BY <1>1, <2>2, <2>3, <3>2
    <3> QED BY <3>1, <3>2
  <2> QED BY <2>2, <2>3 DEF ModesInv, ReadsOrWrites
<1> QED BY <1>2, <1>3 DEF Enqueue

LEMMA ModesNext == TypeOK /\ ModesInv /\ [AnyNext]_vars => ModesInv'
<1> SUFFICES ASSUME TypeOK, ModesInv, [AnyNext]_vars PROVE ModesInv'
  OBVIOUS
<1>1. CASE \E c \in AnyCommand : Enqueue(c)
  BY <1>1, EnqueueModes
<1>2. CASE \E qd \in QueueDepths \cup {NONE}, hw, clr \in BOOLEAN : Send(qd, hw, clr)
  BY <1>2, QuietModes DEF Send, enqueueVars, modeVars
<1>3. CASE PushCmd
  <2>1. UNCHANGED <<rw_manual_mode, pattern_mode>>
    BY <1>3 DEF PushCmd, modeVars
  <2>2. CASE PushResult(NextCommand) = "ok"
    BY <1>3, <2>1, <2>2, PushedList, QuietModes
  <2>3. CASE PushResult(NextCommand) # "ok"
    BY <1>3, <2>1, <2>3, QuietModes DEF PushCmd
  <2> QED BY <2>2, <2>3
<1>4. CASE QuietNext
  BY <1>4, QuietSteps, QuietModes
<1>5. ASSUME ResetPackage PROVE ModesInv'
  BY <1>5 DEF ResetPackage, ModesInv
<1>6. CASE MonitorSuccess
  BY <1>5, <1>6, SuccessSteps, QuietModes
<1>7. CASE Clear
  BY <1>5, <1>7, ClearSteps
<1>8. CASE UNCHANGED vars
  BY <1>8, QuietModes DEF vars, enqueueVars, modeVars
<1> QED BY <1>1, <1>2, <1>3, <1>4, <1>6, <1>7, <1>8, NextCases

(* All reads and writes of a package agree in data mode and pattern mode,  *)
(* whatever was refused in between.                                        *)
THEOREM PackagesAreUniform == Spec => []PackageUniform
<1>1. Init => TypeOK /\ ModesInv
  BY TypeInit DEF Init, ModesInv
<1>2. TypeOK /\ ModesInv /\ [Next]_vars => (TypeOK /\ ModesInv)'
  BY NextIsAny, TypeNext, ModesNext
<1>3. ModesInv => PackageUniform
  BY DEF ModesInv, PackageUniform
<1> QED BY <1>1, <1>2, <1>3, PTL DEF Spec

-----------------------------------------------------------------------------
(* What was refused is never sent: EncodedInv is inductive.                *)

(* The steps that keep the keys and indicators of the list, away from push.*)
LEMMA QuietEncoded ==
  ASSUME EncodedInv, UNCHANGED cmd_list, pc' # "push",
         pc' = "monitor" => pc = "monitor" \/ (pc = "push" /\ opts.pushed = Len(cmd_list))
  PROVE  EncodedInv'
  BY DEF EncodedInv, TagEncodable

LEMMA AppendedEncoded ==
  ASSUME TypeOK, NEW c \in AnyCommand
  PROVE  LET ci == IF TagValid(c) THEN <<tracker[KeyOf(c)] + 1, KeyOf(c)>> ELSE NoIndicator
             el == ListElement(c, ci)
         IN  TagEncodable(el) => el.ci # NoIndicator
<1> DEFINE ci == IF TagValid(c) THEN <<tracker[KeyOf(c)] + 1, KeyOf(c)>> ELSE NoIndicator
           el == ListElement(c, ci)
<1> SUFFICES ASSUME TagEncodable(el) PROVE el.ci # NoIndicator
  OBVIOUS
<1>1. el.key = KeyOf(c) /\ el.ci = ci
  BY DEF ListElement
<1>2. TagValid(c)
  BY <1>1 DEF TagEncodable, KeyOf, TagValid
<1>3. KeyOf(c) # <<"upiu", AUTO>>
  <2>1. AUTO \notin Tags
    BY DEF AUTO, Tags
  <2> QED BY <1>2, <2>1 DEF KeyOf, TagValid
<1> QED BY <1>1, <1>2, <1>3 DEF NoIndicator

LEMMA EncodedNext == TypeOK /\ EncodedInv /\ [AnyNext]_vars => EncodedInv'
<1> SUFFICES ASSUME TypeOK, EncodedInv, [AnyNext]_vars PROVE EncodedInv'
  OBVIOUS
<1>1. ASSUME NEW c \in AnyCommand, Enqueue(c) PROVE EncodedInv'
  <2>1. pc = "idle" /\ pc' = pc /\ opts' = opts
    BY <1>1 DEF Enqueue
  <2>2. CASE UNCHANGED enqueueVars
    BY <2>1, <2>2, QuietEncoded DEF enqueueVars
  <2>3. CASE AppendCommand(c)
    <3> DEFINE ci == IF TagValid(c) THEN <<tracker[KeyOf(c)] + 1, KeyOf(c)>> ELSE NoIndicator
               el == ListElement(c, ci)
    <3> PICK n \in Nat : n = Len(cmd_list)
      BY DEF TypeOK
    <3>1. cmd_list' = Append(cmd_list, el) /\ (TagEncodable(el) => el.ci # NoIndicator)
      BY <2>3, AppendedEncoded DEF AppendCommand
    <3> HIDE DEF el
    <3>2. /\ Len(cmd_list') = n + 1 /\ cmd_list'[n + 1] = el
          /\ \A i \in 1 .. n : cmd_list'[i] = cmd_list[i]
      BY <3>1 DEF TypeOK
    <3>3. ASSUME NEW i \in 1 .. n + 1, TagEncodable(cmd_list'[i])
          PROVE  cmd_list'[i].ci # NoIndicator
      <4>1. CASE i = n + 1
        BY <3>1, <3>2, <3>3, <4>1
      <4>2. CASE i \in 1 .. n
        BY <3>2, <3>3, <4>2 DEF EncodedInv
      <4> QED BY <4>1, <4>2
    <3> QED BY <2>1, <3>2, <3>3 DEF EncodedInv, TagEncodable
  <2> QED BY <1>1, <2>2, <2>3 DEF Enqueue
<1>2. ASSUME NEW qd, NEW hw, NEW clr, Send(qd, hw, clr) PROVE EncodedInv'
  <2>1. UNCHANGED cmd_list /\ pc = "idle"
    BY <1>2 DEF Send, enqueueVars
  <2>2. pc' = "idle" \/ (pc' = "push" /\ opts'.pushed = 0)
    BY <1>2, <2>1 DEF Send
  <2> QED BY <2>1, <2>2 DEF EncodedInv, TagEncodable
<1>3. CASE PushCmd
  <2>1. CASE PushResult(NextCommand) = "ok"
    <3> PICK p \in Nat, n \in Nat : p = opts.pushed /\ n = Len(cmd_list)
      BY DEF TypeOK, OptsType
    <3>1. /\ Len(cmd_list') = n
          /\ \A i \in 1 .. n : cmd_list'[i].key = cmd_list[i].key /\ cmd_list'[i].ci = cmd_list[i].ci
      BY <1>3, <2>1, PushedList
    <3>2. pc = "push" /\ pc' = "push" /\ opts'.pushed = p + 1 /\ p < n
      BY <1>3, <2>1 DEF PushCmd, TypeOK, OptsType
    <3>3. TagEncodable(cmd_list[p + 1])
      BY <2>1 DEF PushResult, NextCommand
    <3>4. \A i \in 1 .. p + 1 : TagEncodable(cmd_list[i])
      BY <3>2, <3>3 DEF EncodedInv
    <3>5. \A i \in 1 .. n : TagEncodable(cmd_list'[i]) <=> TagEncodable(cmd_list[i])
      BY <3>1 DEF TagEncodable
    <3>6. \A i \in 1 .. n : TagEncodable(cmd_list'[i]) => cmd_list'[i].ci # NoIndicator
      BY <3>1, <3>5 DEF EncodedInv
    <3>7. \A i \in 1 .. p + 1 : TagEncodable(cmd_list'[i])
      BY <3>2, <3>4, <3>5
    <3>8. /\ \A i \in 1 .. Len(cmd_list') : TagEncodable(cmd_list'[i]) => cmd_list'[i].ci # NoIndicator
          /\ \A i \in 1 .. opts'.pushed : TagEncodable(cmd_list'[i])
          /\ pc' # "monitor"
      BY <3>1, <3>2, <3>6, <3>7
    <3> QED BY <3>8 DEF EncodedInv, TagEncodable
  <2>2. CASE PushResult(NextCommand) # "ok"
    BY <1>3, <2>2, QuietEncoded DEF PushCmd
  <2> QED BY <2>1, <2>2
<1>4. CASE QuietNext
  BY <1>4, QuietSteps, QuietEncoded
<1>5. ASSUME ResetPackage, pc' = "idle" PROVE EncodedInv'
  BY <1>5 DEF ResetPackage, EncodedInv
<1>6. CASE MonitorSuccess
  BY <1>5, <1>6, SuccessSteps, QuietEncoded
<1>7. CASE Clear
  BY <1>5, <1>7, ClearSteps
<1>8. CASE UNCHANGED vars
  <2>1. UNCHANGED <<cmd_list, pc, opts>>
    BY <1>8 DEF vars, enqueueVars
  <2> QED BY <2>1 DEF EncodedInv, TagEncodable
<1> QED BY <1>1, <1>2, <1>3, <1>4, <1>6, <1>7, <1>8, NextCases

(* A command whose enqueue raised after the append never reaches the       *)
(* tester: whatever the package, the push loop stops at it.                *)
THEOREM RefusedIsNeverSent == Spec => []RefusedNeverSent
<1>1. Init => TypeOK /\ EncodedInv
  BY TypeInit DEF Init, EncodedInv
<1>2. TypeOK /\ EncodedInv /\ [Next]_vars => (TypeOK /\ EncodedInv)'
  BY NextIsAny, TypeNext, EncodedNext
<1>3. EncodedInv => RefusedNeverSent
  BY DEF EncodedInv, RefusedNeverSent
<1> QED BY <1>1, <1>2, <1>3, PTL DEF Spec

-----------------------------------------------------------------------------
(* A package starts with an empty done queue: QueueInv is inductive.       *)

LEMMA QueueNext == TypeOK /\ QueueInv /\ [AnyNext]_vars => QueueInv'
<1> SUFFICES ASSUME TypeOK, QueueInv, [AnyNext]_vars PROVE QueueInv'
  OBVIOUS
<1>1. ASSUME NEW c, Enqueue(c) PROVE QueueInv'
  BY <1>1 DEF Enqueue, testerVars, QueueInv
<1>2. ASSUME NEW qd, NEW hw, NEW clr, Send(qd, hw, clr) PROVE QueueInv'
  <2>1. CASE SendRefusal(hw) = "ok"
    <3>1. ~is_cmd_sent
      BY <2>1 DEF SendRefusal, NotClear
    <3> QED BY <1>2, <2>1, <3>1 DEF Send, testerVars, QueueInv
  <2>2. CASE SendRefusal(hw) # "ok"
    BY <1>2, <2>2 DEF Send, testerVars, QueueInv
  <2> QED BY <2>1, <2>2
<1>3. CASE PushCmd
  BY <1>3 DEF PushCmd, testerVars, QueueInv
<1>4. CASE QuietNext
  BY <1>4, QuietSteps DEF QueueInv
<1>5. CASE MonitorSuccess
  BY <1>5, SuccessSteps DEF QueueInv
<1>6. CASE Clear
  BY <1>6, ClearSteps DEF QueueInv
<1>7. CASE UNCHANGED vars
  BY <1>7 DEF vars, enqueueVars, testerVars, QueueInv
<1> QED BY <1>1, <1>2, <1>3, <1>4, <1>5, <1>6, <1>7, NextCases

(* No answer of an earlier package is in the done queue when a package is  *)
(* handed to the tester.                                                   *)
THEOREM DoneQueueIsFresh == Spec => FreshDoneQueue
<1>1. Init => TypeOK /\ QueueInv
  BY TypeInit DEF Init, QueueInv
<1>2. TypeOK /\ QueueInv /\ [Next]_vars => (TypeOK /\ QueueInv)'
  BY NextIsAny, TypeNext, QueueNext
<1>3. QueueInv => [pc = "push" /\ pc' = "monitor" => done_queue = <<>>]_<<pc, wire>>
  BY DEF QueueInv
<1> QED BY <1>1, <1>2, <1>3, PTL DEF Spec, FreshDoneQueue
-----------------------------------------------------------------------------
(* What an accepted command adds to the list. *)

LEMMA AppendedList ==
  ASSUME TypeOK, NEW c \in AnyCommand, AppendCommand(c)
  PROVE  /\ Len(cmd_list') = Len(cmd_list) + 1
         /\ \A i \in 1 .. Len(cmd_list) : cmd_list'[i] = cmd_list[i]
         /\ cmd_list'[Len(cmd_list) + 1].cmd = c
         /\ cmd_list'[Len(cmd_list) + 1].blocksBefore = total_payload
         /\ cmd_list'[Len(cmd_list) + 1].ehsBefore = total_ehs
<1> DEFINE ci == IF TagValid(c) THEN <<tracker[KeyOf(c)] + 1, KeyOf(c)>> ELSE NoIndicator
           el == ListElement(c, ci)
<1>1. cmd_list' = Append(cmd_list, el)
  BY DEF AppendCommand
<1>2. el.cmd = c /\ el.blocksBefore = total_payload /\ el.ehsBefore = total_ehs
  BY DEF ListElement
<1> HIDE DEF el
<1> QED BY <1>1, <1>2 DEF TypeOK

-----------------------------------------------------------------------------
(* The option bits: OptionsInv is inductive. *)

(* The flags say which classes the list has, and a package that is sent    *)
(* with hardware compare passed the checks of send().                      *)
OptionsInv ==
  /\ active_task_mgmt <=> \E i \in 1 .. Len(cmd_list) : cmd_list[i].cmd.class = "tm"
  /\ \A i \in 1 .. Len(cmd_list) :
       /\ cmd_list[i].cmd.class = "hpb" => has_hpb
       /\ cmd_list[i].cmd.class = "readbuffer" => has_read_buffer
  /\ pc # "idle" /\ opts.hwCompare => ~has_hpb /\ ~has_read_buffer /\ rw_manual_mode # TRUE

LEMMA QuietOptions ==
  ASSUME OptionsInv,
         UNCHANGED <<active_task_mgmt, has_hpb, has_read_buffer, rw_manual_mode>>,
         pc' # "idle" => pc # "idle" /\ opts'.hwCompare = opts.hwCompare,
         Len(cmd_list') = Len(cmd_list),
         \A i \in 1 .. Len(cmd_list) : cmd_list'[i].cmd = cmd_list[i].cmd
  PROVE  OptionsInv'
  BY DEF OptionsInv

LEMMA EnqueueOptions ==
  ASSUME TypeOK, OptionsInv, NEW c \in AnyCommand, Enqueue(c)
  PROVE  OptionsInv'
<1> PICK n \in Nat : n = Len(cmd_list)
  BY DEF TypeOK
<1>1. pc' = "idle"
  BY DEF Enqueue
<1>2. CASE UNCHANGED enqueueVars
  BY <1>1, <1>2 DEF OptionsInv, enqueueVars
<1>3. CASE AppendCommand(c)
  <2>1. /\ Len(cmd_list') = n + 1 /\ cmd_list'[n + 1].cmd = c
        /\ \A i \in 1 .. n : cmd_list'[i] = cmd_list[i]
    BY <1>3, AppendedList
  <2>2. /\ active_task_mgmt' = (active_task_mgmt \/ c.class = "tm")
        /\ has_hpb' = (has_hpb \/ c.class = "hpb")
        /\ has_read_buffer' = (has_read_buffer \/ c.class = "readbuffer")
    BY <1>3 DEF AppendCommand
  <2>3. active_task_mgmt' <=> \E i \in 1 .. n + 1 : cmd_list'[i].cmd.class = "tm"
    <3>1. CASE c.class = "tm"
      <4>1. active_task_mgmt' = TRUE
        BY <3>1, <2>2
      <4>2. n + 1 \in 1 .. n + 1 /\ cmd_list'[n + 1].cmd.class = "tm"
        BY <3>1, <2>1
      <4> QED BY <4>1, <4>2
    <3>2. CASE c.class # "tm"
      <4>1. active_task_mgmt' <=> \E i \in 1 .. n : cmd_list[i].cmd.class = "tm"
        BY <3>2, <2>2 DEF OptionsInv, TypeOK
      <4>2. \A i \in 1 .. n + 1 : i \in 1 .. n \/ i = n + 1
        OBVIOUS
      <4>3. \A i \in 1 .. n : i \in 1 .. n + 1
        OBVIOUS
      <4> QED BY <4>1, <4>2, <4>3, <3>2, <2>1
    <3> QED BY <3>1, <3>2
  <2>4. ASSUME NEW i \in 1 .. n + 1
        PROVE  /\ cmd_list'[i].cmd.class = "hpb" => has_hpb'
               /\ cmd_list'[i].cmd.class = "readbuffer" => has_read_buffer'
    <3>1. CASE i = n + 1
      BY <3>1, <2>1, <2>2
    <3>2. CASE i \in 1 .. n
      BY <3>2, <2>1, <2>2 DEF OptionsInv
    <3> QED BY <3>1, <3>2
  <2> QED BY <1>1, <2>1, <2>3, <2>4 DEF OptionsInv
<1> QED BY <1>2, <1>3 DEF Enqueue

LEMMA OptionsNext == TypeOK /\ OptionsInv /\ [AnyNext]_vars => OptionsInv'
<1> SUFFICES ASSUME TypeOK, OptionsInv, [AnyNext]_vars PROVE OptionsInv'
  OBVIOUS
<1>1. CASE \E c \in AnyCommand : Enqueue(c)
  BY <1>1, EnqueueOptions
<1>2. ASSUME NEW qd, NEW hw \in BOOLEAN, NEW clr, Send(qd, hw, clr) PROVE OptionsInv'
  <2>1. UNCHANGED <<cmd_list, active_task_mgmt, has_hpb, has_read_buffer, rw_manual_mode>> /\ pc = "idle"
    BY <1>2 DEF Send, enqueueVars, modeVars
  <2>2. CASE SendRefusal(hw) = "ok"
    <3>1. opts'.hwCompare = hw
      BY <1>2, <2>2 DEF Send
    <3>2. hw => ~has_hpb /\ ~has_read_buffer /\ rw_manual_mode # TRUE
      BY <2>2 DEF SendRefusal, HpbInPackage
    <3> QED BY <2>1, <3>1, <3>2 DEF OptionsInv
  <2>3. CASE SendRefusal(hw) # "ok"
    BY <1>2, <2>1, <2>3 DEF Send, OptionsInv
  <2> QED BY <2>2, <2>3
<1>3. CASE PushCmd
  <2>1. /\ UNCHANGED <<active_task_mgmt, has_hpb, has_read_buffer, rw_manual_mode>>
        /\ pc = "push" /\ (pc' # "idle" => opts'.hwCompare = opts.hwCompare)
    BY <1>3 DEF PushCmd, modeVars, TypeOK, OptsType
  <2>2. /\ Len(cmd_list') = Len(cmd_list)
        /\ \A i \in 1 .. Len(cmd_list) : cmd_list'[i].cmd = cmd_list[i].cmd
    <3>1. CASE PushResult(NextCommand) = "ok"
      BY <1>3, <3>1, PushedList
    <3>2. CASE PushResult(NextCommand) # "ok"
      BY <1>3, <3>2 DEF PushCmd
    <3> QED BY <3>1, <3>2
  <2> QED BY <2>1, <2>2, QuietOptions
<1>4. CASE QuietNext
  <2>1. pc' # "idle" => pc # "idle" /\ opts'.hwCompare = opts.hwCompare
    BY <1>4 DEF QuietNext, Transmit, MonitorErrorWithInfo, MonitorError, TesterNext, TesterIssue,
                TesterFunction, TesterComplete, TesterAbort, hostUnchanged, SetQdLimit, TypeOK, OptsType
  <2> QED BY <1>4, <2>1, QuietSteps, QuietOptions
<1>5. ASSUME ResetPackage, pc' = "idle" PROVE OptionsInv'
  BY <1>5 DEF ResetPackage, OptionsInv
<1>6. CASE MonitorSuccess
  BY <1>5, <1>6, SuccessSteps, QuietOptions
<1>7. CASE Clear
  BY <1>5, <1>7, ClearSteps
<1>8. CASE UNCHANGED vars
  BY <1>8, QuietOptions DEF vars, enqueueVars, modeVars
<1> QED BY <1>1, <1>2, <1>3, <1>4, <1>6, <1>7, <1>8, NextCases

(* The task-management option is set for exactly the packages with a       *)
(* request, and hardware compare is never requested with a manual read or  *)
(* write, an HPB read or a READ BUFFER, whatever was refused in between.   *)
THEOREM OptionsFollowPackage == Spec => []OptionsMatchPackage
<1>1. Init => TypeOK /\ ModesInv /\ OptionsInv
  BY TypeInit DEF Init, ModesInv, OptionsInv
<1>2. TypeOK /\ ModesInv /\ OptionsInv /\ [Next]_vars => (TypeOK /\ ModesInv /\ OptionsInv)'
  BY NextIsAny, TypeNext, ModesNext, OptionsNext
<1>3. ModesInv /\ OptionsInv => OptionsMatchPackage
  BY DEF ModesInv, OptionsInv, OptionsMatchPackage
<1> QED BY <1>1, <1>2, <1>3, PTL DEF Spec

-----------------------------------------------------------------------------
(* Where the payloads lie: PlaceInv is inductive. *)

(* Every payload that was pushed lies where the shares of the commands     *)
(* before it end; the tester does not move anything.                       *)
Placed(i) ==
  ~IsTester(cmd_list[i].cmd) =>
    /\ cmd_list[i].l42 = data_begin + BlocksBefore(i) * BlockSize
    /\ cmd_list[i].l54 = EhsBefore(i) * EhsUnit

PlaceInv ==
  /\ \A i, j \in 1 .. Len(cmd_list) + 1 :
       i <= j => BlocksBefore(i) <= BlocksBefore(j) /\ EhsBefore(i) <= EhsBefore(j)
  /\ pc # "idle" =>
       /\ data_begin = DataBegin(Len(cmd_list) + 1)
       /\ opts.pushed <= Len(cmd_list)
       /\ \A i \in 1 .. opts.pushed : Placed(i)

LEMMA QuietPlace ==
  ASSUME PlaceInv, UNCHANGED <<cmd_list, total_payload, total_ehs, data_begin>>,
         pc' # "idle" => pc # "idle" /\ opts'.pushed = opts.pushed
  PROVE  PlaceInv'
  BY DEF PlaceInv, Placed, BlocksBefore, EhsBefore

LEMMA ResetPlace ==
  ASSUME ResetPackage, pc' = "idle"
  PROVE  PlaceInv'
<1>1. Len(cmd_list') = 0 /\ total_payload' = 0 /\ total_ehs' = 0
  BY DEF ResetPackage
<1>2. \A i \in 1 .. 1 : BlocksBefore(i)' = 0 /\ EhsBefore(i)' = 0
  BY <1>1 DEF BlocksBefore, EhsBefore
<1> QED BY <1>1, <1>2 DEF PlaceInv

LEMMA EnqueuePlace ==
  ASSUME TypeOK, FitInv, PlaceInv, NEW c \in AnyCommand, Enqueue(c)
  PROVE  PlaceInv'
<1> PICK n \in Nat : n = Len(cmd_list)
  BY DEF TypeOK
<1>1. pc' = "idle"
  BY DEF Enqueue
<1>2. CASE UNCHANGED enqueueVars
  BY <1>1, <1>2 DEF PlaceInv, BlocksBefore, EhsBefore, enqueueVars
<1>3. CASE AppendCommand(c)
  <2>1. /\ Len(cmd_list') = n + 1
        /\ cmd_list'[n + 1].blocksBefore = total_payload /\ cmd_list'[n + 1].ehsBefore = total_ehs
        /\ \A i \in 1 .. n : cmd_list'[i] = cmd_list[i]
    BY <1>3, AppendedList
  <2>2. total_payload' = total_payload + DataBlocks(c) /\ total_ehs' = total_ehs + EhsUnits(c)
    BY <1>3 DEF AppendCommand
  <2>3. /\ DataBlocks(c) \in Nat /\ EhsUnits(c) \in Nat /\ total_payload \in Nat /\ total_ehs \in Nat
    BY TunedType DEF TypeOK
  <2>4. /\ \A i \in 1 .. n + 1 : BlocksBefore(i)' = BlocksBefore(i) /\ EhsBefore(i)' = EhsBefore(i)
        /\ BlocksBefore(n + 2)' = total_payload' /\ EhsBefore(n + 2)' = total_ehs'
    BY <2>1 DEF BlocksBefore, EhsBefore
  <2>5. BlocksBefore(n + 1) = total_payload /\ EhsBefore(n + 1) = total_ehs
    BY DEF BlocksBefore, EhsBefore
  <2>6. ASSUME NEW i \in 1 .. n + 2, NEW j \in 1 .. n + 2, i <= j
        PROVE  BlocksBefore(i)' <= BlocksBefore(j)' /\ EhsBefore(i)' <= EhsBefore(j)'
    <3>1. CASE j \in 1 .. n + 1
      <4>1. i \in 1 .. n + 1
        BY <3>1, <2>6
      <4>2. BlocksBefore(i) <= BlocksBefore(j) /\ EhsBefore(i) <= EhsBefore(j)
        BY <4>1, <3>1, <2>6 DEF PlaceInv
      <4> QED BY <4>1, <4>2, <3>1, <2>4
    <3>2. CASE i \in 1 .. n + 1 /\ j = n + 2
      <4>1. BlocksBefore(i) <= total_payload /\ EhsBefore(i) <= total_ehs
        <5>1. n + 1 \in 1 .. n + 1 /\ i <= n + 1
          BY <3>2
        <5> QED BY <5>1, <3>2, <2>5 DEF PlaceInv
      <4>2. BlocksBefore(i) \in Nat /\ EhsBefore(i) \in Nat
        BY <3>2, BeforeType
      <4>3. BlocksBefore(i)' = BlocksBefore(i) /\ EhsBefore(i)' = EhsBefore(i)
        BY <3>2, <2>4
      <4>4. BlocksBefore(j)' = total_payload' /\ EhsBefore(j)' = total_ehs'
        BY <3>2, <2>4
      <4> QED BY ONLY <4>1, <4>2, <4>3, <4>4, <2>2, <2>3
    <3>3. CASE i = n + 2 /\ j = n + 2
      BY <3>3, <2>2, <2>3, <2>4
    <3> QED BY <3>1, <3>2, <3>3, <2>6
  <2>7. Len(cmd_list') + 1 = n + 2
    BY <2>1
  <2> QED BY <1>1, <2>6, <2>7 DEF PlaceInv
<1> QED BY <1>2, <1>3 DEF Enqueue

(* A push puts the payload where the pointers are and moves no other.      *)
LEMMA PushedPlaces ==
  ASSUME TypeOK, PushCmd, PushResult(NextCommand) = "ok"
  PROVE  /\ opts.pushed + 1 \in 1 .. Len(cmd_list) /\ opts'.pushed = opts.pushed + 1
         /\ \A i \in 1 .. opts.pushed : cmd_list'[i] = cmd_list[i]
         /\ ~IsTester(cmd_list[opts.pushed + 1].cmd) =>
              /\ cmd_list'[opts.pushed + 1].l42 = data_ptr
              /\ cmd_list'[opts.pushed + 1].l54 = ehs_ptr
<1> PICK p \in Nat, n \in Nat : p = opts.pushed /\ n = Len(cmd_list)
  BY DEF TypeOK, OptsType
<1>1. p < n /\ opts'.pushed = p + 1
  BY DEF PushCmd, TypeOK, OptsType
<1>2. \A i \in 1 .. n : cmd_list[i] \in ListElementType
  BY DEF TypeOK
<1>3. cmd_list \in Seq(ListElementType)
  BY DEF TypeOK
<1>4. p + 1 \in 1 .. n
  BY <1>1
<1>5. CASE IsTester(cmd_list[p + 1].cmd)
  <2>1. cmd_list' = cmd_list
    BY <1>5 DEF PushCmd, NextCommand
  <2> QED BY <2>1, <1>1, <1>4, <1>5
<1>6. CASE ~IsTester(cmd_list[p + 1].cmd)
  <2> DEFINE f == [cmd_list[p + 1] EXCEPT !.l42 = data_ptr, !.l54 = ehs_ptr]
  <2>1. cmd_list' = [cmd_list EXCEPT ![p + 1].l42 = data_ptr, ![p + 1].l54 = ehs_ptr]
    BY <1>6 DEF PushCmd, NextCommand
  <2>2. cmd_list' = [cmd_list EXCEPT ![p + 1] = f]
    BY <1>3, <1>4, <2>1
  <2>3. f.l42 = data_ptr /\ f.l54 = ehs_ptr
    BY <1>2, <1>4 DEF ListElementType
  <2> HIDE DEF f
  <2>4. cmd_list'[p + 1] = f /\ \A i \in 1 .. n : i # p + 1 => cmd_list'[i] = cmd_list[i]
    BY <2>2, <1>3, <1>4
  <2>5. \A i \in 1 .. p : i \in 1 .. n /\ i # p + 1
    BY <1>1
  <2> QED BY <2>3, <2>4, <2>5, <1>1, <1>4
<1> QED BY <1>5, <1>6

LEMMA PushPlace ==
  ASSUME TypeOK, FitInv, PlaceInv, PushCmd
  PROVE  PlaceInv'
<1>1. CASE PushResult(NextCommand) # "ok"
  BY <1>1, QuietPlace DEF PushCmd
<1>2. CASE PushResult(NextCommand) = "ok"
  <2> PICK p \in Nat, n \in Nat : p = opts.pushed /\ n = Len(cmd_list)
    BY DEF TypeOK, OptsType
  <2>1. /\ p + 1 \in 1 .. n /\ opts'.pushed = p + 1
        /\ \A i \in 1 .. p : cmd_list'[i] = cmd_list[i]
        /\ ~IsTester(cmd_list[p + 1].cmd) =>
             cmd_list'[p + 1].l42 = data_ptr /\ cmd_list'[p + 1].l54 = ehs_ptr
    BY <1>2, PushedPlaces
  <2>2. /\ Len(cmd_list') = n
        /\ \A i \in 1 .. n :
             /\ cmd_list'[i].cmd = cmd_list[i].cmd
             /\ cmd_list'[i].blocksBefore = cmd_list[i].blocksBefore
             /\ cmd_list'[i].ehsBefore = cmd_list[i].ehsBefore
    BY <1>2, PushedList
  <2>3. pc = "push" /\ UNCHANGED <<total_payload, total_ehs, data_begin>>
    BY DEF PushCmd
  <2>4. \A i \in 1 .. n + 1 : BlocksBefore(i)' = BlocksBefore(i) /\ EhsBefore(i)' = EhsBefore(i)
    BY <2>2, <2>3 DEF BlocksBefore, EhsBefore
  <2>5. /\ data_ptr = data_begin + BlocksBefore(p + 1) * BlockSize
        /\ ehs_ptr = EhsBefore(p + 1) * EhsUnit
    BY <2>3 DEF FitInv, PushInv
  <2>6. ASSUME NEW i \in 1 .. p + 1 PROVE Placed(i)'
    <3>1. i \in 1 .. n + 1 /\ i \in 1 .. n
      BY <2>1
    <3>2. CASE i = p + 1
      BY <3>1, <3>2, <2>1, <2>2, <2>3, <2>4, <2>5 DEF Placed, IsTester
    <3>3. CASE i \in 1 .. p
      <4>1. Placed(i)
        BY <3>3, <2>3 DEF PlaceInv
      <4>2. cmd_list'[i] = cmd_list[i]
        BY <3>3, <2>1
      <4> QED BY <3>1, <4>1, <4>2, <2>3, <2>4 DEF Placed, IsTester
    <3> QED BY <3>2, <3>3
  <2>7. \A i, j \in 1 .. n + 1 :
          i <= j => BlocksBefore(i)' <= BlocksBefore(j)' /\ EhsBefore(i)' <= EhsBefore(j)'
    BY <2>4 DEF PlaceInv
  <2>8. data_begin' = DataBegin(n + 1) /\ p + 1 <= n
    BY <2>1, <2>3 DEF PlaceInv
  <2> QED BY <2>1, <2>2, <2>6, <2>7, <2>8 DEF PlaceInv
<1> QED BY <1>1, <1>2

LEMMA PlaceNext == TypeOK /\ FitInv /\ PlaceInv /\ [AnyNext]_vars => PlaceInv'
<1> SUFFICES ASSUME TypeOK, FitInv, PlaceInv, [AnyNext]_vars PROVE PlaceInv'
  OBVIOUS
<1>1. CASE \E c \in AnyCommand : Enqueue(c)
  BY <1>1, EnqueuePlace
<1>2. ASSUME NEW qd, NEW hw, NEW clr, Send(qd, hw, clr) PROVE PlaceInv'
  <2>1. UNCHANGED <<cmd_list, total_payload, total_ehs>> /\ pc = "idle" /\ Len(cmd_list) \in Nat
    BY <1>2 DEF Send, enqueueVars, TypeOK
  <2>2. pc' = "idle" \/ (opts'.pushed = 0 /\ data_begin' = DataBegin(Len(cmd_list) + 1))
    BY <1>2, <2>1 DEF Send
  <2> QED BY <2>1, <2>2 DEF PlaceInv, BlocksBefore, EhsBefore
<1>3. CASE PushCmd
  BY <1>3, PushPlace
<1>4. CASE QuietNext
  <2>1. pc' # "idle" => pc # "idle" /\ opts'.pushed = opts.pushed
    BY <1>4 DEF QuietNext, Transmit, MonitorErrorWithInfo, MonitorError, TesterNext, TesterIssue,
                TesterFunction, TesterComplete, TesterAbort, hostUnchanged, SetQdLimit, TypeOK, OptsType
  <2> QED BY <1>4, <2>1, QuietSteps, QuietPlace
<1>5. CASE MonitorSuccess
  BY <1>5, SuccessSteps, QuietPlace, ResetPlace
<1>6. CASE Clear
  BY <1>6, ClearSteps, ResetPlace
<1>7. CASE UNCHANGED vars
  BY <1>7, QuietPlace DEF vars, enqueueVars, bufferVars
<1> QED BY <1>1, <1>2, <1>3, <1>4, <1>5, <1>6, <1>7, NextCases


LEMMA ProductNat == ASSUME NEW a \in Nat, NEW d \in Nat PROVE a * d \in Nat
  OBVIOUS

(* Offsets only, without the products they are.                            *)
LEMMA AtMost ==
  ASSUME NEW a \in Nat, NEW d \in Nat, NEW b \in Nat, NEW c \in Nat, a + d <= b, b <= c
  PROVE  a + d <= c
  OBVIOUS

(* The share of a command holds its payload and its EHS.                   *)
LEMMA ShareHolds ==
  ASSUME TypeOK, FitInv, NEW i \in 1 .. Len(cmd_list)
  PROVE  LET e == cmd_list[i]
         IN  /\ BlocksBefore(i) * BlockSize + e.dataLength <= BlocksBefore(i + 1) * BlockSize
             /\ EhsBefore(i) * EhsUnit + e.cmd.ehs <= EhsBefore(i + 1) * EhsUnit
<1> DEFINE e == cmd_list[i]
           b == BlocksBefore(i)
           k == Blocks(e)
           u == EhsBefore(i)
           w == Units(e)
<1>1. e \in ListElementType
  BY DEF TypeOK
<1>2. e.dataLength \in Nat /\ e.cmd.ehs \in Nat
  BY <1>1 DEF ListElementType, CommandType
<1>3. k \in Nat /\ w \in Nat /\ e.dataLength <= k * BlockSize /\ e.cmd.ehs <= w * EhsUnit
  BY <1>2, CeilDivFacts DEF AlignUp, Blocks, Units
<1>4. b + k = BlocksBefore(i + 1) /\ u + w = EhsBefore(i + 1)
  BY DEF FitInv, TotalsInv
<1>5. b \in Nat /\ u \in Nat
  <2>1. i \in 1 .. Len(cmd_list) + 1
    BY DEF TypeOK
  <2> QED BY <2>1, BeforeType
<1> HIDE DEF b, k, u, w, e
<1>6. (b + k) * BlockSize = b * BlockSize + k * BlockSize /\ (u + w) * EhsUnit = u * EhsUnit + w * EhsUnit
  BY <1>3, <1>5
<1>7. /\ b * BlockSize \in Nat /\ k * BlockSize \in Nat
      /\ u * EhsUnit \in Nat /\ w * EhsUnit \in Nat
  <2>1. BlockSize \in Nat /\ EhsUnit \in Nat
    OBVIOUS
  <2> QED BY <2>1, <1>3, <1>5, ProductNat
<1>8. b * BlockSize + e.dataLength <= (b + k) * BlockSize /\ u * EhsUnit + e.cmd.ehs <= (u + w) * EhsUnit
  <2> DEFINE x == b * BlockSize
             y == k * BlockSize
             z == u * EhsUnit
             t == w * EhsUnit
             d == e.dataLength
             h == e.cmd.ehs
  <2>1. x \in Nat /\ y \in Nat /\ z \in Nat /\ t \in Nat /\ d \in Nat /\ h \in Nat /\ d <= y /\ h <= t
    BY <1>2, <1>3, <1>7
  <2> HIDE DEF x, y, z, t, d, h
  <2>2. x + d <= x + y /\ z + h <= z + t
    BY <2>1
  <2> QED BY <1>6, <2>2 DEF x, y, z, t, d, h
<1> QED BY <1>4, <1>8 DEF b, u, e

LEMMA PlacesAreApart == TypeOK /\ FitInv /\ PlaceInv => RegionsDisjoint
<1> SUFFICES ASSUME TypeOK, FitInv, PlaceInv, pc \in {"push", "monitor"}
             PROVE  /\ EntryOffset(Len(cmd_list)) + EntrySize <= data_begin
                    /\ \A i \in 1 .. opts.pushed : ~IsTester(cmd_list[i].cmd) =>
                         LET e == cmd_list[i] IN
                           /\ data_begin <= e.l42 /\ e.l42 + e.dataLength <= BufSize
                           /\ e.l54 + e.cmd.ehs <= EhsBufSize
                           /\ \A j \in 1 .. i - 1 : ~IsTester(cmd_list[j].cmd) =>
                                /\ cmd_list[j].l42 + cmd_list[j].dataLength <= e.l42
                                /\ cmd_list[j].l54 + cmd_list[j].cmd.ehs <= e.l54
  BY DEF RegionsDisjoint
<1> PICK p \in Nat, n \in Nat : p = opts.pushed /\ n = Len(cmd_list)
  BY DEF TypeOK, OptsType
<1>1. /\ data_begin = DataBegin(n + 1) /\ p <= n /\ (\A i \in 1 .. p : Placed(i))
      /\ \A i, j \in 1 .. n + 1 : i <= j => BlocksBefore(i) <= BlocksBefore(j) /\ EhsBefore(i) <= EhsBefore(j)
  BY DEF PlaceInv
<1>2. data_begin \in Nat /\ EntryOffset(n) + EntrySize <= data_begin
  BY <1>1, EntriesBeforeData
<1>3. \A i \in 1 .. n + 1 : BlocksBefore(i) \in Nat /\ EhsBefore(i) \in Nat
  BY BeforeType
<1>4. BlocksBefore(n + 1) = total_payload /\ EhsBefore(n + 1) = total_ehs
  BY DEF BlocksBefore, EhsBefore
<1>5. \A i \in 1 .. n : cmd_list[i].dataLength \in Nat /\ cmd_list[i].cmd.ehs \in Nat
  <2>1. \A i \in 1 .. n : cmd_list[i] \in ListElementType
    BY DEF TypeOK
  <2> QED BY <2>1 DEF ListElementType, CommandType
(* Where the share of a command ends, another one's begins or the room ends. *)
<1>6. ASSUME NEW i \in 1 .. p, NEW j \in i + 1 .. n + 1
      PROVE  /\ BlocksBefore(i) * BlockSize + cmd_list[i].dataLength <= BlocksBefore(j) * BlockSize
             /\ EhsBefore(i) * EhsUnit + cmd_list[i].cmd.ehs <= EhsBefore(j) * EhsUnit
             /\ BlocksBefore(i) * BlockSize \in Nat /\ BlocksBefore(j) * BlockSize \in Nat
             /\ EhsBefore(i) * EhsUnit \in Nat /\ EhsBefore(j) * EhsUnit \in Nat
  <2>1. i \in 1 .. n /\ i \in 1 .. n + 1 /\ i + 1 \in 1 .. n + 1 /\ j \in 1 .. n + 1 /\ i + 1 <= j
    BY <1>1
  <2> DEFINE x == BlocksBefore(i)
             y == BlocksBefore(i + 1)
             z == BlocksBefore(j)
             u == EhsBefore(i)
             v == EhsBefore(i + 1)
             w == EhsBefore(j)
             d == cmd_list[i].dataLength
             e == cmd_list[i].cmd.ehs
  <2>2. /\ x \in Nat /\ y \in Nat /\ z \in Nat /\ u \in Nat /\ v \in Nat /\ w \in Nat
        /\ d \in Nat /\ e \in Nat /\ y <= z /\ v <= w
    BY <2>1, <1>1, <1>3, <1>5
  <2>3. x * BlockSize + d <= y * BlockSize /\ u * EhsUnit + e <= v * EhsUnit
    BY <2>1, ShareHolds
  <2> HIDE DEF x, y, z, u, v, w, d, e
  <2>4. BlockSize \in Nat /\ EhsUnit \in Nat
    OBVIOUS
  <2>5. y * BlockSize <= z * BlockSize /\ v * EhsUnit <= w * EhsUnit
    BY <2>2, <2>4, TimesMonotone
  <2>6. /\ x * BlockSize \in Nat /\ y * BlockSize \in Nat /\ z * BlockSize \in Nat
        /\ u * EhsUnit \in Nat /\ v * EhsUnit \in Nat /\ w * EhsUnit \in Nat
    BY <2>2, <2>4
  <2>7. x * BlockSize + d <= z * BlockSize /\ u * EhsUnit + e <= w * EhsUnit
    BY <2>2, <2>3, <2>5, <2>6, AtMost
  <2> QED BY <2>6, <2>7 DEF x, z, u, w, d, e
<1>7. p > 0 => /\ data_begin + BlocksBefore(n + 1) * BlockSize <= BufSize
               /\ EhsBefore(n + 1) * EhsUnit <= EhsBufSize
  <2> SUFFICES ASSUME p > 0 PROVE /\ data_begin + BlocksBefore(n + 1) * BlockSize <= BufSize
                                  /\ EhsBefore(n + 1) * EhsUnit <= EhsBufSize
    OBVIOUS
  <2>1. ~EarlyFull(n + 1, total_payload, total_ehs)
    BY <1>1 DEF FitInv, CapacityInv, TypeOK
  <2>2. total_payload \in Nat /\ total_ehs \in Nat /\ n + 1 \in Nat
    BY DEF TypeOK
  <2>3. /\ total_payload <= total_payload => DataBegin(n + 1) + total_payload * BlockSize <= BufSize
        /\ total_ehs <= total_ehs => total_ehs * EhsUnit <= EhsBufSize
    BY <2>1, <2>2, RoomForData
  <2> QED BY <1>1, <1>4, <2>2, <2>3
<1>8. ASSUME NEW i \in 1 .. p, ~IsTester(cmd_list[i].cmd)
      PROVE  /\ data_begin <= cmd_list[i].l42 /\ cmd_list[i].l42 + cmd_list[i].dataLength <= BufSize
             /\ cmd_list[i].l54 + cmd_list[i].cmd.ehs <= EhsBufSize
  <2>1. n + 1 \in i + 1 .. n + 1 /\ p > 0 /\ i \in 1 .. n
    BY <1>1
  <2>2. /\ BlocksBefore(i) * BlockSize + cmd_list[i].dataLength <= BlocksBefore(n + 1) * BlockSize
        /\ EhsBefore(i) * EhsUnit + cmd_list[i].cmd.ehs <= EhsBefore(n + 1) * EhsUnit
        /\ BlocksBefore(i) * BlockSize \in Nat /\ BlocksBefore(n + 1) * BlockSize \in Nat
        /\ EhsBefore(i) * EhsUnit \in Nat /\ EhsBefore(n + 1) * EhsUnit \in Nat
    BY <2>1, <1>6
  <2>3. /\ cmd_list[i].l42 = data_begin + BlocksBefore(i) * BlockSize
        /\ cmd_list[i].l54 = EhsBefore(i) * EhsUnit
    BY <1>1, <1>8 DEF Placed
  <2>4. BufSize \in Nat /\ EhsBufSize \in Nat /\ cmd_list[i].dataLength \in Nat /\ cmd_list[i].cmd.ehs \in Nat
    BY <1>5, <2>1
  <2>5. /\ data_begin + BlocksBefore(n + 1) * BlockSize <= BufSize
        /\ EhsBefore(n + 1) * EhsUnit <= EhsBufSize
    BY <1>7, <2>1
  <2> DEFINE x == BlocksBefore(i) * BlockSize
             y == BlocksBefore(n + 1) * BlockSize
             d == cmd_list[i].dataLength
             l == cmd_list[i].l42
  <2>6. /\ x \in Nat /\ y \in Nat /\ d \in Nat /\ x + d <= y
        /\ l = data_begin + x /\ data_begin + y <= BufSize
    BY <2>2, <2>3, <2>4, <2>5
  <2> HIDE DEF x, y, d, l
  <2>7. data_begin <= l /\ l + d <= BufSize
    BY ONLY <1>2, <2>4, <2>6
  <2>8. cmd_list[i].l54 + cmd_list[i].cmd.ehs <= EhsBufSize
    <3> DEFINE z == EhsBefore(i) * EhsUnit
               t == EhsBefore(n + 1) * EhsUnit
               h == cmd_list[i].cmd.ehs
    <3>1. /\ z \in Nat /\ t \in Nat /\ h \in Nat /\ z + h <= t
          /\ cmd_list[i].l54 = z /\ t <= EhsBufSize
      BY <2>2, <2>3, <2>4, <2>5
    <3> HIDE DEF z, t, h
    <3>2. z + h <= EhsBufSize
      BY ONLY <3>1, <2>4, AtMost
    <3> QED BY <3>1, <3>2 DEF h
  <2> QED BY <2>7, <2>8 DEF l, d
<1>9. ASSUME NEW i \in 1 .. p, ~IsTester(cmd_list[i].cmd),
             NEW j \in 1 .. i - 1, ~IsTester(cmd_list[j].cmd)
      PROVE  /\ cmd_list[j].l42 + cmd_list[j].dataLength <= cmd_list[i].l42
             /\ cmd_list[j].l54 + cmd_list[j].cmd.ehs <= cmd_list[i].l54
  <2>1. j \in 1 .. p /\ i \in j + 1 .. n + 1 /\ j \in 1 .. n
    BY <1>1
  <2>2. /\ BlocksBefore(j) * BlockSize + cmd_list[j].dataLength <= BlocksBefore(i) * BlockSize
        /\ EhsBefore(j) * EhsUnit + cmd_list[j].cmd.ehs <= EhsBefore(i) * EhsUnit
        /\ BlocksBefore(j) * BlockSize \in Nat /\ BlocksBefore(i) * BlockSize \in Nat
        /\ EhsBefore(j) * EhsUnit \in Nat /\ EhsBefore(i) * EhsUnit \in Nat
    BY <2>1, <1>6
  <2>3. /\ cmd_list[j].l42 = data_begin + BlocksBefore(j) * BlockSize
        /\ cmd_list[j].l54 = EhsBefore(j) * EhsUnit
        /\ cmd_list[i].l42 = data_begin + BlocksBefore(i) * BlockSize
        /\ cmd_list[i].l54 = EhsBefore(i) * EhsUnit
    BY <1>1, <1>9, <2>1 DEF Placed
  <2>4. cmd_list[j].dataLength \in Nat /\ cmd_list[j].cmd.ehs \in Nat
    BY <1>5, <2>1
  <2> DEFINE x == BlocksBefore(j) * BlockSize
             y == BlocksBefore(i) * BlockSize
             d == cmd_list[j].dataLength
             k == cmd_list[j].l42
             l == cmd_list[i].l42
  <2>5. /\ x \in Nat /\ y \in Nat /\ d \in Nat /\ x + d <= y
        /\ k = data_begin + x /\ l = data_begin + y
    BY <2>2, <2>3, <2>4
  <2> HIDE DEF x, y, d, k, l
  <2>6. k + d <= l
    BY ONLY <1>2, <2>5
  <2> QED BY <2>2, <2>3, <2>6 DEF k, d, l
<1> QED BY <1>2, <1>8, <1>9

(* Entries, payloads and EHS of a package never overlap and never leave    *)
(* their buffers, from the first push until the tester is through.         *)
THEOREM RegionsStayApart == Spec => []RegionsDisjoint
<1>1. Init => TypeOK /\ FitInv /\ PlaceInv
  <2> SUFFICES ASSUME Init PROVE TypeOK /\ FitInv /\ PlaceInv
    OBVIOUS
  <2>1. cmd_list = <<>> /\ total_payload = 0 /\ total_ehs = 0 /\ pc = "idle"
    BY DEF Init
  <2>2. \A i \in 1 .. 1 : BlocksBefore(i) = 0 /\ EhsBefore(i) = 0
    BY <2>1 DEF BlocksBefore, EhsBefore
  <2>3. PlaceInv
    BY <2>1, <2>2 DEF PlaceInv
  <2> QED BY <2>3, TypeInit, FitInit
<1>2. TypeOK /\ FitInv /\ PlaceInv /\ [Next]_vars => (TypeOK /\ FitInv /\ PlaceInv)'
  BY NextIsAny, TypeNext, FitNext, PlaceNext
<1>3. TypeOK /\ FitInv /\ PlaceInv => RegionsDisjoint
  BY PlacesAreApart
<1> QED BY <1>1, <1>2, <1>3, PTL DEF Spec

=============================================================================
