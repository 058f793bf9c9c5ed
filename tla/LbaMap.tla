-------------------------------- MODULE LbaMap --------------------------------
(* What a write record promises: a map from the blocks of a unit to the    *)
(* data last written there.  A save changes the map once, as the call is   *)
(* made; a lookup succeeds exactly when every block it asks for is known.  *)
EXTENDS Integers

CONSTANTS Lbas, Values, NONE

VARIABLES map, asked, reply, busy
vars == <<map, asked, reply, busy>>

Known == {l \in Lbas : map[l] # NONE}

Init == map = [l \in Lbas |-> NONE] /\ asked = {} /\ reply = NONE /\ busy = FALSE

Save(blocks, value) ==
  /\ ~busy /\ busy' = TRUE
  /\ map' = [l \in Lbas |-> IF l \in blocks THEN value ELSE map[l]]
  /\ UNCHANGED <<asked, reply>>

Lookup(blocks) ==
  /\ ~busy /\ busy' = TRUE
  /\ asked' = blocks
  /\ UNCHANGED <<map, reply>>

Reply ==
  /\ busy /\ asked # {} /\ reply = NONE
  /\ reply' = (asked \subseteq Known)
  /\ UNCHANGED <<map, asked, busy>>

Return ==
  /\ busy /\ (asked = {} \/ reply # NONE)
  /\ busy' = FALSE /\ asked' = {} /\ reply' = NONE
  /\ UNCHANGED map

Next ==
  \/ \E blocks \in SUBSET Lbas, value \in Values : Save(blocks, value)
  \/ \E blocks \in (SUBSET Lbas) \ {{}} : Lookup(blocks)
  \/ Reply
  \/ Return

Steps == Init /\ [][Next]_vars

Spec == Steps /\ WF_vars(Reply \/ Return)
===============================================================================
