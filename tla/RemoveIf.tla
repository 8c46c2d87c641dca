------------------------------ MODULE RemoveIf ------------------------------
(***************************************************************************)
(* The C++ idiom erase(remove_if(first, last, predicate), last): a deque   *)
(* or vector without the elements that satisfy the predicate, the others   *)
(* in their order.  The predicate is given by the positions at which it    *)
(* holds.                                                                  *)
(***************************************************************************)
EXTENDS Naturals, Sequences

RemoveIf(seq, positions) ==
    LET kept[n \in 0 .. Len(seq)] ==
            IF n = 0 THEN <<>>
            ELSE IF n \in positions THEN kept[n - 1]
            ELSE Append(kept[n - 1], seq[n])
    IN  kept[Len(seq)]
=============================================================================
