----------------------------- MODULE Pipelining -----------------------------
(***************************************************************************)
(* crates/consensus/src/diffusion_pipelining: which header may be          *)
(* announced before its body has been validated.  A criterion remembers    *)
(* the block number of the last trap, the header of a block whose body     *)
(* could not be validated, and the issuers that made one there.            *)
(***************************************************************************)
EXTENDS ChainTree

CONSTANT Issuer   \* Issuer[b]: the HotIdentity that made b

(* TentativeHeaderState::initial: no block has number 0. *)
NoTraps == [number |-> 0, bad |-> {}]

(* MUTANT: a header at the number of the last trap is always allowed. *)
MutAnyIdentity(criterion, b) == Height(b) >= criterion.number

(* apply_tentative_header_view: may the header be pipelined, and what the  *)
(* criterion becomes should it be a trap.                                  *)
MayPipeline(criterion, b) ==
    \/ Height(b) > criterion.number
    \/ Height(b) = criterion.number /\ Issuer[b] \notin criterion.bad

AsTrap(criterion, b) ==
    [number |-> Height(b),
     bad    |-> {Issuer[b]} \cup
                (IF Height(b) = criterion.number THEN criterion.bad ELSE {})]
=============================================================================
