------------------------------ MODULE Picking ------------------------------
(***************************************************************************)
(* A part of a sequence, by places.  SelectSeq takes a test, which is an   *)
(* operator; the places to keep are a set, and facts about sets need no    *)
(* operator parameter to be stated and cited.                              *)
(***************************************************************************)
EXTENDS Integers, Sequences

\* The entries of a sequence at the places in I, in their order.
Pick(s, I) ==
    LET upTo[i \in 0..Len(s)] ==
            IF i = 0 THEN <<>>
            ELSE IF i \in I THEN Append(upTo[i - 1], s[i]) ELSE upTo[i - 1]
    IN  upTo[Len(s)]
=============================================================================
