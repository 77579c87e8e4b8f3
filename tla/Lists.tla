------------------------------- MODULE Lists -------------------------------
(***************************************************************************)
(* What a loop over a list leaves that erases some of its entries: the     *)
(* same as SelectSeq(list, LAMBDA x : x \notin gone), which the provers    *)
(* know nothing about.                                                     *)
(***************************************************************************)
EXTENDS Naturals, Sequences

Without(list, gone) ==
    LET kept[i \in 0 .. Len(list)] ==
            IF i = 0 THEN <<>>
            ELSE IF list[i] \in gone THEN kept[i - 1]
            ELSE Append(kept[i - 1], list[i])
    IN  kept[Len(list)]
=============================================================================
