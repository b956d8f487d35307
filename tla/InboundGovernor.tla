-------------------------- MODULE InboundGovernor --------------------------
(***************************************************************************)
(* The inbound governor's decision engine: `InboundGovernorState` of       *)
(* crates/network/src/inbound_governor.rs, as operators on the map from    *)
(* peer to entry.  An entry is the remote state and the last responder     *)
(* counters reported for the connection.  Times are left out: an idle      *)
(* connection may be past the idle timeout at any scan.  The maturation of *)
(* duplex peers, which only feeds peer sharing, is left out too.           *)
(***************************************************************************)
EXTENDS Naturals, Sequences, Functions

RemoteSt == {"idle", "cold", "warm", "hot"}
Counters == [hot : Nat, nonHot : Nat]

Total(n) == n.hot + n.nonHot
NoResponders == [hot |-> 0, nonHot |-> 0]

\* `new_connection_with_data_flow`: a peer that is already tracked is kept as it is.
NewConnection(g, p) ==
    IF p \in DOMAIN g THEN g
    ELSE [q \in DOMAIN g \cup {p} |->
             IF q = p THEN [st |-> "idle", counters |-> NoResponders] ELSE g[q]]

\* MUTANT of Unregister: the entry of a finished connection stays.
MutUnregister(g, p) == g

\* `handle_mux_finished`, and the CommitTr arm of `apply_commit_result`.
Unregister(g, p) == Restrict(g, DOMAIN g \ {p})

\* `apply_commit_result`.
ApplyCommit(g, p, res) ==
    CASE res = "commit" -> Unregister(g, p)
      [] res = "keep" /\ p \in DOMAIN g -> [g EXCEPT ![p].st = "cold"]
      [] OTHER -> g

(***************************************************************************)
(* `step` for the events of one connection: the new map and the calls to   *)
(* make on the connection manager.                                         *)
(***************************************************************************)
StepResult(g, p, st, calls) == [ig |-> [g EXCEPT ![p].st = st], calls |-> calls]

Step(g, p, ev) ==
    IF p \notin DOMAIN g THEN [ig |-> g, calls |-> <<>>]
    ELSE LET st == g[p].st
         IN  CASE ev = "awake" /\ st \in {"idle", "cold"} ->
                    StepResult(g, p, "warm", <<"promote">>)
               [] ev = "promotedToHot" /\ st = "warm" -> StepResult(g, p, "hot", <<>>)
               [] ev = "demotedToWarm" /\ st = "hot" -> StepResult(g, p, "warm", <<>>)
               [] ev = "waitIdle" /\ st \in {"warm", "hot"} ->
                    StepResult([g EXCEPT ![p].counters = NoResponders], p, "idle", <<"demote">>)
               [] OTHER -> [ig |-> g, calls |-> <<>>]

\* `process_inbound_governor_events`: the events in their order (at most two).
StepAll(g, p, evs) ==
    LET after[n \in 0 .. Len(evs)] ==
            IF n = 0 THEN [ig |-> g, calls |-> <<>>]
            ELSE LET s == Step(after[n - 1].ig, p, evs[n])
                 IN  [ig |-> s.ig, calls |-> after[n - 1].calls \o s.calls]
    IN  after[Len(evs)]

\* `handle_inactivity_timeout`: the idle connections among those past the timeout.
Expired(g, X) == {p \in X \cap DOMAIN g : g[p].st = "idle"}

\* `update_responder_counters`: the events a change of the counters gives rise to.
CounterEvents(g, p, n) ==
    LET o == g[p].counters
        on(cond, ev) == IF cond THEN <<ev>> ELSE <<>>
    IN  IF p \notin DOMAIN g THEN <<>>
        ELSE on(Total(o) = 0 /\ Total(n) > 0, "awake")
             \o on(o.hot = 0 /\ n.hot > 0, "promotedToHot")
             \o on(o.hot > 0 /\ n.hot = 0 /\ Total(n) > 0, "demotedToWarm")
             \o on(Total(o) > 0 /\ Total(n) = 0, "waitIdle")

\* `set_responder_counters`.
SetCounters(g, p, n) == IF p \in DOMAIN g THEN [g EXCEPT ![p].counters = n] ELSE g
=============================================================================
