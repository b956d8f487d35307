--------------------------------- MODULE MCMux ---------------------------------
(* Two protocols. "cs" sends two messages, the first one longer than a segment, *)
(* and receives two, which the peer may cut anywhere; "ka" sends one.           *)
EXTENDS Mux

MCProtocols == {"cs", "ka"}
MCSlots == <<"cs", "ka">>
MCOut == [p \in MCProtocols |-> IF p = "cs" THEN <<3, 4>> ELSE <<1>>]
MCIn == [p \in MCProtocols |-> IF p = "cs" THEN <<2, 3>> ELSE <<>>]
MCCuts == [p \in MCProtocols |-> {}]
MCHot == [p \in MCProtocols |-> IF p = "cs" THEN 1 ELSE 2]

(* "cs" receives a string of indefinite length: header, a chunk of two bytes, break. *)
MCStringIn == [p \in MCProtocols |-> IF p = "cs" THEN <<4>> ELSE <<>>]
MCStringCuts == [p \in MCProtocols |-> IF p = "cs" THEN {1, 3} ELSE {}]
================================================================================
