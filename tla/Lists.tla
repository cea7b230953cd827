-------------------------------- MODULE Lists --------------------------------
(* Operators on lists that the components share, written as the recursive functions
   that proofs can unfold. *)
EXTENDS Naturals, Sequences, SequencesExt

(* The items of a list that are in a set, in its order: SelectSeq as the recursive
   function that the proofs unfold. *)
Kept(items, set) ==
  LET kept[i \in 0 .. Len(items)] ==
        IF i = 0 THEN <<>>
        ELSE IF items[i] \in set THEN Append(kept[i - 1], items[i]) ELSE kept[i - 1]
  IN kept[Len(items)]
=============================================================================
