------------------------- MODULE ConnectionManager -------------------------
(***************************************************************************)
(* The connection manager's decision engine: `ConnectionManagerState` of   *)
(* crates/network/src/connection_manager.rs, as operators on the map from  *)
(* peer to entry.  An operation takes the map and returns the new map with *)
(* the outcome and the actions the runtime must carry out; the module      *)
(* Connections runs them under the lock the runtime takes around each.     *)
(*                                                                         *)
(* An entry is its age, its state and its deadline.  The code numbers the  *)
(* entries (`conn_state_id`) and only ever compares the numbers: the age   *)
(* is the rank of the number among the entries present.  The two deadlines *)
(* of the code never coexist, so one field names the one that is armed; it *)
(* is not a time: a tick may find any armed deadline passed or not.        *)
(***************************************************************************)
EXTENDS Naturals, FiniteSets, Functions

CONSTANTS
    Peers,      \* the remote addresses
    HardLimit   \* AcceptedConnectionsLimit::hard_limit

ASSUME CMAssumption == IsFiniteSet(Peers) /\ HardLimit \in Nat

(***************************************************************************)
(* `AbstractState`.  Uni and Dup are the negotiated data flow, T and E the *)
(* responder timeout still ticking or expired.                             *)
(***************************************************************************)
Flow == {"Uni", "Dup"}
States == {"reserved", "unnegIn", "unnegOut", "inIdleUni", "inIdleDup", "inUni", "inDup",
           "outUni", "outDupT", "outDupE", "outIdleUni", "outIdleDup", "duplex",
           "terminating", "terminated"}
Deadlines == {"none", "responder", "timeWait"}
Entries == [age : 1 .. Cardinality(Peers), st : States, deadline : Deadlines]

InIdle == {"inIdleUni", "inIdleDup"}

\* The states `is_inbound_conn` counts.
InboundStates == InIdle \cup {"inUni", "inDup", "duplex"}

AbstractStateOf(c, p) == IF p \in DOMAIN c THEN c[p].st ELSE "unknown"

InboundConnectionCount(c) == Cardinality({p \in DOMAIN c : c[p].st \in InboundStates})

\* MUTANT of Move: no deadline is armed.
MutMove(c, p, st) == [c EXCEPT ![p].st = st, ![p].deadline = "none"]

(***************************************************************************)
(* Every assignment to an entry's state sets both deadlines as well: the   *)
(* responder's when the remote side may still start, the TIME_WAIT one     *)
(* when the connection is going down, none otherwise.                      *)
(***************************************************************************)
Move(c, p, st) ==
    [c EXCEPT ![p].st = st,
              ![p].deadline = CASE st = "outDupT"     -> "responder"
                                [] st = "terminating" -> "timeWait"
                                [] OTHER              -> "none"]

\* `next_conn_state_id` and the insertion: the new entry is the youngest.
NewEntry(c, p, st) ==
    LET others == DOMAIN c \ {p}
        rank(q) == Cardinality({o \in others : c[o].age <= c[q].age})
    IN  [q \in others \cup {p} |->
            IF q = p THEN [age |-> Cardinality(others) + 1, st |-> st, deadline |-> "none"]
            ELSE [c[q] EXCEPT !.age = rank(q)]]

Drop(c, p) == Restrict(c, DOMAIN c \ {p})

-----------------------------------------------------------------------------
(* Pruning. *)

IdlePeers(c) == {p \in DOMAIN c : c[p].st \in InIdle}

\* The n youngest members of S.
Newest(c, S, n) == {p \in S : Cardinality({q \in S : c[q].age > c[p].age}) < n}

(***************************************************************************)
(* `maybe_prune`: above the hard limit, name as many idle connections as   *)
(* there are too many, the newest first.  The map itself is left alone.    *)
(***************************************************************************)
MaybePrune(c) ==
    IF InboundConnectionCount(c) <= HardLimit
    THEN {}
    ELSE Newest(c, IdlePeers(c), InboundConnectionCount(c) - HardLimit)

(***************************************************************************)
(* `prune_for_inbound(1)`, its only use: a terminated entry is preferred   *)
(* and removed, else the newest idle one goes to TerminatingState.         *)
(***************************************************************************)
PruneForInbound(c) ==
    LET done == {p \in DOMAIN c : c[p].st = "terminated"}
        pick == Newest(c, IF done # {} THEN done ELSE IdlePeers(c), 1)
    IN  IF done # {}
        THEN Restrict(c, DOMAIN c \ pick)
        ELSE [p \in DOMAIN c |-> IF p \in pick THEN Move(c, p, "terminating")[p] ELSE c[p]]

-----------------------------------------------------------------------------
(* The outbound side. *)

(***************************************************************************)
(* `acquire_outbound_connection`: a fresh entry, or the inbound connection *)
(* of a duplex peer put to use.  "dial" tells the runtime to connect.      *)
(***************************************************************************)
AcquireOutbound(c, p) ==
    LET st == AbstractStateOf(c, p)
        to == [unnegIn |-> "unnegOut", inIdleDup |-> "outDupT", inDup |-> "duplex"]
    IN  CASE st = "unknown" ->
                [conns |-> NewEntry(c, p, "reserved"), res |-> "dial", prune |-> {}]
          [] st \in DOMAIN to ->
                LET d == Move(c, p, to[st])
                IN  [conns |-> d,
                     res   |-> IF st = "unnegIn" THEN "dial" ELSE "reused",
                     prune |-> IF st = "inDup" THEN MaybePrune(d) ELSE {}]
          [] st \in {"terminating", "terminated"} ->
                [conns |-> c, res |-> "disconnected", prune |-> {}]
          [] OTHER -> [conns |-> c, res |-> "error", prune |-> {}]

\* `outbound_handshake_done`: the new map, the same one when it is refused.
OutboundHandshakeOk(c, p) == AbstractStateOf(c, p) \in {"reserved", "unnegOut"}

OutboundHandshakeDone(c, p, df) ==
    IF OutboundHandshakeOk(c, p)
    THEN Move(c, p, IF df = "Uni" THEN "outUni" ELSE "outDupT")
    ELSE c

\* MUTANT of OutboundConnectFailed: the reservation stays.
MutConnectFailed(c, p) == c

\* `outbound_connect_failed`.
OutboundConnectFailed(c, p) ==
    IF OutboundHandshakeOk(c, p) THEN Move(c, p, "terminated") ELSE c

(***************************************************************************)
(* `release_outbound_connection`: the local side stops using it.  With the *)
(* responder timeout still ticking the connection is kept as an inbound    *)
(* one; "terminate" tells the runtime to close it.                         *)
(***************************************************************************)
ReleaseOutbound(c, p) ==
    LET st == AbstractStateOf(c, p)
        to == [outUni  |-> "outIdleUni", outDupE |-> "outIdleDup",
               outDupT |-> "inIdleDup",  duplex  |-> "inDup"]
    IN  IF st \in DOMAIN to
        THEN LET d == Move(c, p, to[st])
             IN  [conns     |-> d,
                  terminate |-> st \in {"outUni", "outDupE"},
                  prune     |-> IF st = "outDupT" THEN MaybePrune(d) ELSE {},
                  error     |-> FALSE]
        ELSE [conns |-> c, terminate |-> FALSE, prune |-> {},
              error |-> st \in {"reserved", "unnegIn", "unnegOut", "inIdleUni", "inUni"}]

-----------------------------------------------------------------------------
(* The inbound side. *)

(***************************************************************************)
(* `include_inbound_connection`.  Making room comes before the entry is    *)
(* looked at, and is not undone when the connection is then refused.       *)
(***************************************************************************)
IncludeInbound(c, p) ==
    LET full == InboundConnectionCount(c) >= HardLimit
        d    == IF full THEN PruneForInbound(c) ELSE c
        room == InboundConnectionCount(d) < HardLimit
        ok   == room /\ AbstractStateOf(d, p) \in
                    {"unknown", "reserved", "unnegIn", "unnegOut", "terminating", "terminated"}
    IN  [conns |-> IF ok THEN NewEntry(d, p, "unnegIn") ELSE d,
         ok    |-> ok]

\* `inbound_handshake_done`: an outbound connection that won the race is kept.
InboundHandshakeOk(c, p) ==
    AbstractStateOf(c, p) \in {"unnegIn", "outUni", "outDupT", "outDupE", "outIdleUni", "outIdleDup"}

InboundHandshakeDone(c, p, df) ==
    IF AbstractStateOf(c, p) = "unnegIn"
    THEN Move(c, p, IF df = "Uni" THEN "inIdleUni" ELSE "inIdleDup")
    ELSE c

\* MUTANT of ReleaseInbound: local use of a duplex connection is not looked at.
MutReleaseInbound(c, p) ==
    IF AbstractStateOf(c, p) \in {"unknown", "terminating", "terminated"}
    THEN [conns |-> c, res |-> "commit", terminate |-> FALSE]
    ELSE [conns |-> Move(c, p, "terminating"), res |-> "commit", terminate |-> TRUE]

(***************************************************************************)
(* `release_inbound_connection`.  Commit: the connection goes down; keep:  *)
(* the outbound side still uses it.                                        *)
(***************************************************************************)
ReleaseInbound(c, p) ==
    LET st == AbstractStateOf(c, p)
        gone == InIdle \cup {"outIdleUni", "outIdleDup"}
        keep == [outDupT |-> "outDupE", outDupE |-> "outDupE", duplex |-> "outDupT"]
    IN  CASE st \in gone ->
                [conns |-> Move(c, p, "terminating"), res |-> "commit", terminate |-> TRUE]
          [] st \in DOMAIN keep ->
                [conns |-> Move(c, p, keep[st]), res |-> "keep", terminate |-> FALSE]
          [] st \in {"unknown", "terminating"} ->
                [conns |-> c, res |-> "commit", terminate |-> FALSE]
          [] OTHER -> [conns |-> c, res |-> "unsupported", terminate |-> FALSE]

\* `promoted_to_warm_remote`: the remote side started its protocols.
PromotedToWarmRemote(c, p) ==
    LET st == AbstractStateOf(c, p)
        to == [inIdleUni |-> "inUni", inIdleDup |-> "inDup", outDupT |-> "duplex",
               outDupE |-> "duplex", outIdleDup |-> "inDup"]
        d  == IF st \in DOMAIN to THEN Move(c, p, to[st]) ELSE c
    IN  [conns |-> d,
         prune |-> IF st \in DOMAIN to \ {"inIdleUni"} THEN MaybePrune(d) ELSE {}]

\* `demoted_to_cold_remote`: the remote side stopped its protocols.
DemotedToColdRemote(c, p) ==
    LET st == AbstractStateOf(c, p)
        to == [inUni |-> "inIdleUni", inDup |-> "inIdleDup", duplex |-> "outDupT"]
    IN  IF st \in DOMAIN to THEN Move(c, p, to[st]) ELSE c

-----------------------------------------------------------------------------
(* Timeouts and removal. *)

\* `mark_terminating`: without a connection to close the entry is done at once.
MarkTerminating(c, p) ==
    CASE AbstractStateOf(c, p) \in {"unknown", "terminating", "terminated"} -> c
      [] AbstractStateOf(c, p) = "reserved" -> Move(c, p, "terminated")
      [] OTHER -> Move(c, p, "terminating")

\* `time_wait_expired` and `remove_terminated`.
TimeWaitExpired(c, p) ==
    IF AbstractStateOf(c, p) = "terminating" THEN Move(c, p, "terminated") ELSE c
RemoveTerminated(c, p) ==
    IF AbstractStateOf(c, p) = "terminated" THEN Drop(c, p) ELSE c

\* MUTANT of Retire: the entry is not marked first.
MutRetire(c, p) == RemoveTerminated(TimeWaitExpired(c, p), p)

\* The three calls in a row, as the runtime makes them to forget a connection.
Retire(c, p) == RemoveTerminated(TimeWaitExpired(MarkTerminating(c, p), p), p)

(***************************************************************************)
(* `timeout_tick`, when the deadlines of the peers in X have passed: the   *)
(* responder timeouts expire, the connections in TIME_WAIT and all the     *)
(* terminated ones are removed.                                            *)
(***************************************************************************)
TimeoutTick(c, X) ==
    LET late(p, dl) == p \in X /\ c[p].deadline = dl
        left == {p \in DOMAIN c : /\ c[p].st # "terminated"
                                  /\ ~(c[p].st = "terminating" /\ late(p, "timeWait"))}
    IN  [p \in left |-> IF c[p].st = "outDupT" /\ late(p, "responder")
                        THEN Move(c, p, "outDupE")[p] ELSE c[p]]
=============================================================================
