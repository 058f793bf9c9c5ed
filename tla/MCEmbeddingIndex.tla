-------------------------- MODULE MCEmbeddingIndex --------------------------
(* Two contents of chunks.jsonl that differ in a text and have the same    *)
(* chunk ids.  The builders may trade places, and so may the contents.     *)
EXTENDS EmbeddingIndex, TLC

CONSTANTS text1, text2

Contents == {text1, text2}
Ids == [v \in Contents |-> <<"page1", "page2">>]

Symmetric == Permutations(Builders) \cup Permutations(Contents)
=============================================================================
