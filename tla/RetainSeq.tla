------------------------------ MODULE RetainSeq ------------------------------
(* Vec::retain, Iterator::filter: the elements of s that are in T, in the *)
(* order of s.                                                            *)
EXTENDS Naturals, Sequences

Retain(s, T) ==
    LET kept[n \in 0 .. Len(s)] ==
            IF n = 0 THEN <<>>
            ELSE IF s[n] \in T THEN Append(kept[n - 1], s[n]) ELSE kept[n - 1]
    IN  kept[Len(s)]
=============================================================================
