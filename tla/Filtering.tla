------------------------------- MODULE Filtering -------------------------------
(***************************************************************************)
(* The elements of a sequence that are in a set, in their order. This is   *)
(* what SelectSeq is for, but SelectSeq has no definition the provers know *)
(* and takes an operator, of which nothing could be proved in general.     *)
(***************************************************************************)
EXTENDS Integers, Sequences

Keep(s, T) ==
    LET kept[k \in 0..Len(s)] ==
            IF k = 0 THEN <<>>
            ELSE IF s[k] \in T THEN Append(kept[k - 1], s[k])
            ELSE kept[k - 1]
    IN  kept[Len(s)]

===============================================================================
