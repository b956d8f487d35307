----------------------------- MODULE MCForgeLoop -------------------------------
(* Every chain with at most one block in each of the slots 1 to 5: by this pool *)
(* in the second, by this or another one in the fourth, by another one in the   *)
(* rest. A block stands for the chain that ends in it.                          *)
EXTENDS ForgeLoop

Links == ({1, 3, 4, 5} \X {"other"}) \cup ({2, 4} \X {"pool"})
Chains == { S \in SUBSET Links : S # {} /\ \A x, y \in S : x[1] = y[1] => x = y }

MCBlocks == { SetToSortSeq(S, LAMBDA x, y : x[1] < y[1]) : S \in Chains }
MCParent == [b \in MCBlocks |-> SubSeq(b, 1, Len(b) - 1)]
MCSlot == [b \in MCBlocks |-> b[Len(b)][1]]
MCForgeable == { b \in MCBlocks : b[Len(b)][2] = "pool" }
MCOrigin == <<>>
================================================================================
