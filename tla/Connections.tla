---------------------------- MODULE Connections ----------------------------
(***************************************************************************)
(* The connections of a node: the inbound accept loop and its sessions     *)
(* (`run_inbound_accept_loop` of crates/node/ntn-server), the governor     *)
(* loop with its outbound sessions (`run_governor_loop`, crates/node/      *)
(* runtime), and the connection manager and the inbound governor both      *)
(* share behind locks.  An action is what a task does under one lock, or   *)
(* between two awaits when nothing it touches is shared.                   *)
(*                                                                         *)
(* A remote peer closes a connection whenever it likes and opens one when  *)
(* it has none open (one TCP connection per pair of addresses).            *)
(***************************************************************************)
EXTENDS ConnectionManager, InboundGovernor

CONSTANTS
    MaxSessions,    \* bound: inbound connections that complete the handshake
    MaxDials,       \* bound: outbound connects the governor starts
    Responders      \* the responder tasks of a session; only KeepAlive is not hot

ASSUME ConnectionsAssumption ==
    /\ MaxSessions \in Nat /\ MaxDials \in Nat
    /\ IsFiniteSet(Responders) /\ "keepAlive" \in Responders

Sessions == 1 .. MaxSessions

VARIABLES
    conns,      \* ConnectionManagerState::connections
    ig,         \* InboundGovernorState::connections
    aborts,     \* InboundSessionAborts: peer -> session, 0 for none
    sess,       \* the session tasks of the accept loop
    warm,       \* OutboundPeerManager::warm_peers
    reg,        \* PeerRegistry: the peer's status, cold or warm (hot included)
    acc,        \* the accept loop
    gov,        \* the governor loop
    dials       \* outbound connects so far

vars == <<conns, ig, aborts, sess, warm, reg, acc, gov, dials>>
outbound == <<warm, reg, gov, dials>>

(***************************************************************************)
(* A session task: its peer, how far its end has come, whether its TCP     *)
(* connection is open, the responder counters its tasks share, and per     *)
(* responder task whether it runs and what is left of its synchronous      *)
(* reporting: counter updates, inbound governor events, CM calls.          *)
(***************************************************************************)
IdleTask == [pc |-> "new", todo |-> <<>>]
NoSession == [peer |-> CHOOSE p \in Peers : TRUE, pc |-> "none", open |-> FALSE,
              counters |-> NoResponders, task |-> [r \in Responders |-> IdleTask]]

Init ==
    /\ conns = [p \in {} |-> 0]
    /\ ig = [p \in {} |-> 0]
    /\ aborts = [p \in Peers |-> 0]
    /\ sess = [k \in Sessions |-> NoSession]
    /\ warm = {}
    /\ reg = [p \in Peers |-> "cold"]
    /\ acc = [pc |-> "idle"]
    /\ gov = [pc |-> "idle"]
    /\ dials = 0

(***************************************************************************)
(* `InboundSessionAborts::abort`, and the accept loop's                    *)
(* `execute_cm_actions`: the sessions on record for the peers are closed.  *)
(***************************************************************************)
AbortsWithout(S) == [p \in Peers |-> IF p \in S THEN 0 ELSE aborts[p]]
ClosedSessions(S) ==
    [k \in Sessions |-> [sess[k] EXCEPT !.open = @ /\ \A p \in S : aborts[p] # k]]
AbortSessions(S) == aborts' = AbortsWithout(S) /\ sess' = ClosedSessions(S)

-----------------------------------------------------------------------------
(* The accept loop. *)

Established(p) == \E k \in Sessions : sess[k].peer = p /\ sess[k].open

(***************************************************************************)
(* A connection is accepted and passes `rate_limit_decision`; at the hard  *)
(* limit it is dropped at once and nothing changes.  The delay and the     *)
(* handshake are awaited before the connection manager hears of it.        *)
(***************************************************************************)
Accept(p, df) ==
    /\ acc.pc = "idle"
    /\ ~Established(p)
    /\ \E k \in Sessions : sess[k].pc = "none"
    /\ InboundConnectionCount(conns) < HardLimit
    /\ acc' = [pc |-> "handshake", peer |-> p, flow |-> df]
    /\ UNCHANGED <<conns, ig, aborts, sess, outbound>>

HandshakeFails ==
    /\ acc.pc = "handshake"
    /\ acc' = [pc |-> "idle"]
    /\ UNCHANGED <<conns, ig, aborts, sess, outbound>>

\* The peers `include_inbound_connection` pruned are not acted upon.
Include ==
    /\ acc.pc = "handshake"
    /\ LET r == IncludeInbound(conns, acc.peer)
       IN  /\ conns' = r.conns
           /\ acc' = IF r.ok THEN [acc EXCEPT !.pc = "included"] ELSE [pc |-> "idle"]
    /\ UNCHANGED <<ig, aborts, sess, outbound>>

Negotiated ==
    /\ acc.pc = "included"
    /\ conns' = InboundHandshakeDone(conns, acc.peer, acc.flow)
    /\ acc' = IF InboundHandshakeOk(conns, acc.peer)
              THEN [acc EXCEPT !.pc = "negotiated"] ELSE [pc |-> "idle"]
    /\ UNCHANGED <<ig, aborts, sess, outbound>>

\* The inbound governor learns of the connection and the session is started.
StartSession ==
    /\ acc.pc = "negotiated"
    /\ ig' = NewConnection(ig, acc.peer)
    /\ \E k \in Sessions :
        /\ sess[k].pc = "none"
        /\ \A j \in 1 .. (k - 1) : sess[j].pc # "none"
        /\ sess' = [sess EXCEPT ![k] = [NoSession EXCEPT !.peer = acc.peer,
                                                         !.pc = "run", !.open = TRUE]]
        /\ aborts' = [aborts EXCEPT ![acc.peer] = k]
    /\ acc' = [pc |-> "idle"]
    /\ UNCHANGED <<conns, outbound>>

\* `process_connection_manager_timeouts`, once a second.
InboundTick(X) ==
    /\ acc.pc = "idle"
    /\ conns' = TimeoutTick(conns, X)
    /\ AbortSessions(MaybePrune(conns'))
    /\ UNCHANGED <<ig, acc, outbound>>

\* The inactivity tick: the connections idle for too long are released one by one.
InactivityTick(X) ==
    /\ acc.pc = "idle"
    /\ Expired(ig, X) # {}
    /\ acc' = [pc |-> "release", peers |-> Expired(ig, X)]
    /\ UNCHANGED <<conns, ig, aborts, sess, outbound>>

ReleaseIdle(p) ==
    /\ acc.pc = "release"
    /\ p \in acc.peers
    /\ LET r == ReleaseInbound(conns, p)
       IN  /\ conns' = r.conns
           /\ AbortSessions(IF r.terminate THEN {p} ELSE {})
           /\ acc' = [pc |-> "commit", peer |-> p, res |-> r.res, peers |-> acc.peers \ {p}]
    /\ UNCHANGED <<ig, outbound>>

CommitIdle ==
    /\ acc.pc = "commit"
    /\ ig' = ApplyCommit(ig, acc.peer, acc.res)
    /\ acc' = IF acc.peers = {} THEN [pc |-> "idle"]
              ELSE [pc |-> "release", peers |-> acc.peers]
    /\ UNCHANGED <<conns, aborts, sess, outbound>>

-----------------------------------------------------------------------------
(* A session task and its responder tasks. *)

\* The counter of r goes up or down; the task reports the counters it saw.
Count(k, r, d) ==
    LET n == sess[k].counters
        v == IF r = "keepAlive" THEN [n EXCEPT !.nonHot = @ + d] ELSE [n EXCEPT !.hot = @ + d]
    IN  sess' = [sess EXCEPT ![k].counters = v,
                             ![k].task[r] = [pc |-> IF d = 1 THEN "run" ELSE "end",
                                             todo |-> <<[call |-> "update", n |-> v]>>]]

Start(k, r) ==
    /\ sess[k].pc = "run"
    /\ sess[k].task[r].pc = "new"
    /\ Count(k, r, 1)
    /\ UNCHANGED <<conns, ig, aborts, acc, outbound>>

\* A responder ends with its connection; BlockFetch also on an error of its own.
End(k, r) ==
    /\ sess[k].pc = "run"
    /\ sess[k].task[r] = [pc |-> "run", todo |-> <<>>]
    /\ r = "keepAlive" => ~sess[k].open
    /\ Count(k, r, 0 - 1)
    /\ UNCHANGED <<conns, ig, aborts, acc, outbound>>

(***************************************************************************)
(* `update_inbound_responder_counters`: the events are derived, the        *)
(* counters stored and each event put to the inbound governor (its locks,  *)
(* taken back to back, are one step here); the calls the governor asks for *)
(* are then made on the connection manager.                                *)
(***************************************************************************)
Report(k, r) ==
    LET p == sess[k].peer
        t == sess[k].task[r].todo
        do == Head(t)
        res == StepAll(SetCounters(ig, p, do.n), p, CounterEvents(ig, p, do.n))
        c == PromotedToWarmRemote(conns, p)
        done(s, more) == [s EXCEPT ![k].task[r].todo = more \o Tail(t)]
    IN  /\ t # <<>>
        /\ \/ /\ do.call = "update"
              /\ ig' = res.ig
              /\ sess' = done(sess, [i \in DOMAIN res.calls |-> [call |-> res.calls[i]]])
              /\ UNCHANGED <<conns, aborts>>
           \/ /\ do.call = "promote"
              /\ conns' = c.conns
              /\ aborts' = AbortsWithout(c.prune)
              /\ sess' = done(ClosedSessions(c.prune), <<>>)
              /\ UNCHANGED ig
           \/ /\ do.call = "demote"
              /\ conns' = DemotedToColdRemote(conns, p)
              /\ sess' = done(sess, <<>>)
              /\ UNCHANGED <<ig, aborts>>
        /\ UNCHANGED <<acc, outbound>>

\* MUTANT of MuxFinished: the session first waits for its responders.
MutMuxFinished(k) ==
    /\ sess[k].pc = "run"
    /\ \A r \in Responders : sess[k].task[r] = [pc |-> "end", todo |-> <<>>]
    /\ ig' = Unregister(ig, sess[k].peer)
    /\ sess' = [sess EXCEPT ![k].pc = "mux", ![k].open = FALSE]
    /\ UNCHANGED <<conns, aborts, acc, outbound>>

\* KeepAlive is over: the other tasks are aborted at their next await, then MuxFinished.
MuxFinished(k) ==
    /\ sess[k].pc = "run"
    /\ sess[k].task["keepAlive"] = [pc |-> "end", todo |-> <<>>]
    /\ ig' = Unregister(ig, sess[k].peer)
    /\ sess' = [sess EXCEPT ![k].pc = "mux", ![k].open = FALSE]
    /\ UNCHANGED <<conns, aborts, acc, outbound>>

\* Under one lock the entry of the peer, whosever it is by now, is taken down and removed.
Cleanup(k) ==
    /\ sess[k].pc = "mux"
    /\ LET p == sess[k].peer
           r == ReleaseInbound(conns, p)
           S == IF r.terminate THEN {p} ELSE {}
       IN  /\ conns' = Retire(r.conns, p)
           /\ aborts' = AbortsWithout(S)
           /\ sess' = [ClosedSessions(S) EXCEPT ![k].pc = "cleaned"]
    /\ UNCHANGED <<ig, acc, outbound>>

\* `session_aborts.remove`, the last thing the task does; its responders have stopped.
Finish(k) ==
    /\ sess[k].pc = "cleaned"
    /\ \A r \in Responders : sess[k].task[r].todo = <<>>
    /\ aborts' = [aborts EXCEPT ![sess[k].peer] = 0]
    /\ sess' = [sess EXCEPT ![k] = [NoSession EXCEPT !.pc = "done"]]
    /\ UNCHANGED <<conns, ig, acc, outbound>>

\* external: the remote peer closes the connection, or it breaks.
RemoteCloses(k) ==
    /\ sess[k].open
    /\ sess' = [sess EXCEPT ![k].open = FALSE]
    /\ UNCHANGED <<conns, ig, aborts, acc, outbound>>

-----------------------------------------------------------------------------
(* The governor loop. *)

(***************************************************************************)
(* `demote_to_cold` and the registry update of the peers it is told to     *)
(* prune.  Both follow the call of the connection manager, after an await; *)
(* nobody but the governor reads them, so they are one step with the call. *)
(***************************************************************************)
CloseOutbound(S) ==
    /\ warm' = warm \ S
    /\ reg' = [p \in Peers |-> IF p \in S THEN "cold" ELSE reg[p]]

\* `peer_status_from_cm_state`.
StatusFromCm(st) ==
    IF st \in {"outUni", "outDupT", "outDupE", "inUni", "inDup", "duplex"} THEN "warm" ELSE "cold"

\* EstablishConnection of a cold peer.
Establish(p) ==
    /\ gov.pc = "idle"
    /\ reg[p] = "cold"
    /\ dials < MaxDials
    /\ dials' = dials + 1
    /\ LET r == AcquireOutbound(conns, p)
       IN  /\ conns' = r.conns
           /\ CloseOutbound(r.prune)
           /\ gov' = CASE r.res = "dial"   -> [pc |-> "dial", peer |-> p]
                       [] r.res = "reused" -> [pc |-> "status", peer |-> p]
                       [] OTHER            -> [pc |-> "idle"]
    /\ UNCHANGED <<ig, aborts, sess, acc>>

(***************************************************************************)
(* `promote_to_warm` fails, also when a session with the peer is still     *)
(* there, or the connection it made was dropped again.                     *)
(***************************************************************************)
DialFails ==
    /\ gov.pc \in {"dial", "dropped"}
    /\ conns' = OutboundConnectFailed(conns, gov.peer)
    /\ gov' = [pc |-> "idle"]
    /\ UNCHANGED <<ig, aborts, sess, warm, reg, dials, acc>>

DialSucceeds(df) ==
    /\ gov.pc = "dial"
    /\ gov.peer \notin warm
    /\ warm' = warm \cup {gov.peer}
    /\ gov' = [pc |-> "dialled", peer |-> gov.peer, flow |-> df]
    /\ UNCHANGED <<conns, ig, aborts, sess, reg, dials, acc>>

\* When an inbound connection took the entry meanwhile, the outbound one is dropped:
\* the peer manager lets it go and waits for the pool, the entry is looked at after that.
DialNegotiated ==
    /\ gov.pc = "dialled"
    /\ LET p == gov.peer
       IN  IF OutboundHandshakeOk(conns, p)
           THEN /\ conns' = OutboundHandshakeDone(conns, p, gov.flow)
                /\ gov' = [pc |-> "status", peer |-> p]
                /\ UNCHANGED warm
           ELSE /\ warm' = warm \ {p}
                /\ gov' = [pc |-> "dropped", peer |-> p]
                /\ UNCHANGED conns
    /\ UNCHANGED <<ig, aborts, sess, reg, dials, acc>>

\* `update_registry_status_from_cm`.
UpdateStatus ==
    /\ gov.pc = "status"
    /\ reg' = [reg EXCEPT ![gov.peer] = StatusFromCm(AbstractStateOf(conns, gov.peer))]
    /\ gov' = [pc |-> "idle"]
    /\ UNCHANGED <<conns, ig, aborts, sess, warm, dials, acc>>

\* CloseConnection of a warm peer.
Close(p) ==
    /\ gov.pc = "idle"
    /\ reg[p] = "warm"
    /\ LET r == ReleaseOutbound(conns, p)
       IN  /\ conns' = r.conns
           /\ CloseOutbound(r.prune \cup (IF r.terminate THEN {p} ELSE {}))
           /\ gov' = IF r.error THEN [pc |-> "idle"] ELSE [pc |-> "status", peer |-> p]
    /\ UNCHANGED <<ig, aborts, sess, dials, acc>>

(***************************************************************************)
(* A peer is given up in two steps.  `demote_to_cold` takes it from the    *)
(* peer manager and then waits for the lock of the fetch worker pool; only *)
(* after that is the entry of the connection manager, whatever became of   *)
(* it meanwhile, taken down and the registry updated.                      *)
(***************************************************************************)
LetGo(S) ==
    /\ gov.pc = "idle"
    /\ warm' = warm \ S
    /\ gov' = [pc |-> "retire", peers |-> S]
    /\ UNCHANGED <<conns, ig, aborts, sess, reg, dials, acc>>

\* ForgetPeer of a cold peer; topology or peer sharing may bring it back, cold.
Forget(p) == reg[p] = "cold" /\ LetGo({p})

\* Keep-alives failed, for several peers in one round, or a tip query did.
RetireFailed(S) == S # {} /\ S \subseteq warm /\ LetGo(S)

\* The rest of ForgetPeer and of `retire_failed_outbound_peer`, which leaves the status
\* of a bootstrap peer alone when the sync service has it hot ("warm" here).
RetireEntry(p) ==
    /\ gov.pc = "retire"
    /\ p \in gov.peers
    /\ conns' = Retire(conns, p)
    /\ \/ reg' = [reg EXCEPT ![p] = "cold"]
       \/ UNCHANGED reg
    /\ gov' = IF gov.peers = {p} THEN [pc |-> "idle"]
              ELSE [gov EXCEPT !.peers = @ \ {p}]
    /\ UNCHANGED <<ig, aborts, sess, warm, dials, acc>>

\* The governor's own timeout tick; what it should prune is left to the accept loop.
GovernorTick(X) ==
    /\ gov.pc = "idle"
    /\ conns' = TimeoutTick(conns, X)
    /\ UNCHANGED <<ig, aborts, sess, outbound, acc>>

-----------------------------------------------------------------------------
AcceptStep == Include \/ Negotiated \/ StartSession \/ CommitIdle
              \/ \E p \in Peers : ReleaseIdle(p)
SessionStep(k) == MuxFinished(k) \/ Cleanup(k) \/ Finish(k)
                  \/ \E r \in Responders : Start(k, r) \/ Report(k, r)
GovernorStep == DialFails \/ DialNegotiated \/ UpdateStatus
                \/ \E p \in Peers : RetireEntry(p)

Next ==
    \/ \E p \in Peers, df \in Flow : Accept(p, df)
    \/ HandshakeFails
    \/ AcceptStep
    \/ \E X \in SUBSET Peers : InboundTick(X) \/ InactivityTick(X) \/ GovernorTick(X)
    \/ \E k \in Sessions : SessionStep(k) \/ RemoteCloses(k) \/ \E r \in Responders : End(k, r)
    \/ GovernorStep
    \/ \E df \in Flow : DialSucceeds(df)
    \/ \E p \in Peers : Establish(p) \/ Close(p) \/ Forget(p)
    \/ \E S \in SUBSET Peers : RetireFailed(S)

Spec == Init /\ [][Next]_vars

(***************************************************************************)
(* Fairness.  A task that can run is eventually run (the tokio scheduler), *)
(* and the handshake and the report it is in the middle of end, if only by *)
(* a timeout.  Of the governor only the step without an await is fair: its *)
(* others wait for the lock of the fetch worker pool, which a slow peer    *)
(* may hold.  The accept loop's select is biased: a tick that is due is    *)
(* taken before another connection is accepted, so a stream of connection  *)
(* attempts cannot hold the tick back (strong fairness).  The ticks go on, *)
(* so every deadline passes.  Nothing is assumed of the                    *)
(* remote peers or of what the governor decides.                           *)
(***************************************************************************)
LiveSpec ==
    /\ Spec
    /\ WF_vars(AcceptStep)
    /\ WF_vars(UpdateStatus)
    /\ SF_vars(InboundTick(Peers))
    /\ \A k \in Sessions : WF_vars(SessionStep(k) \/ End(k, "keepAlive"))

-----------------------------------------------------------------------------
(* Properties *)

Events == [call : {"update"}, n : Counters] \cup [call : {"promote", "demote"}]
Tasks == [pc : {"new", "run", "end"}, todo : Seq(Events)]
SessionTypes == [peer : Peers \cup {NoSession.peer}, open : BOOLEAN,
                 pc : {"none", "run", "mux", "cleaned", "done"},
                 counters : Counters, task : [Responders -> Tasks]]
AccStates == [pc : {"idle"}]
             \cup [pc : {"handshake", "included", "negotiated"}, peer : Peers, flow : Flow]
             \cup [pc : {"release"}, peers : SUBSET Peers]
             \cup [pc : {"commit"}, peer : Peers, peers : SUBSET Peers,
                   res : {"commit", "keep", "unsupported"}]
GovStates == [pc : {"idle"}]
             \cup [pc : {"dial", "dropped", "status"}, peer : Peers]
             \cup [pc : {"retire"}, peers : SUBSET Peers]
             \cup [pc : {"dialled"}, peer : Peers, flow : Flow]

\* Every variable keeps its type; the ages are ranks and no responder counter goes below 0.
TypeOK ==
    /\ DOMAIN conns \subseteq Peers
    /\ conns \in [DOMAIN conns -> Entries]
    /\ DOMAIN ig \subseteq Peers
    /\ ig \in [DOMAIN ig -> [st : RemoteSt, counters : Counters]]
    /\ aborts \in [Peers -> Sessions \cup {0}]
    /\ sess \in [Sessions -> SessionTypes]
    /\ warm \subseteq Peers
    /\ reg \in [Peers -> {"cold", "warm"}]
    /\ acc \in AccStates
    /\ gov \in GovStates
    /\ dials \in 0 .. MaxDials

(***************************************************************************)
(* An entry that is waiting for a connect or a handshake belongs to a task *)
(* that is still at it.  No deadline is armed in these states and both     *)
(* sides refuse a peer that has such an entry, so one that its task left   *)
(* behind, after a failed dial or after the other side overwrote the       *)
(* entry, would shut the peer out for good.                                *)
(***************************************************************************)
NoStuckHandshake ==
    \A p \in Peers :
        /\ AbstractStateOf(conns, p) \in {"reserved", "unnegOut"} =>
              gov.pc \in {"dial", "dialled"} /\ gov.peer = p
        /\ AbstractStateOf(conns, p) = "unnegIn" => acc.pc = "included" /\ acc.peer = p

GivenUp(p) == gov.pc = "retire" /\ p \in gov.peers
Served(p) == \E k \in Sessions : sess[k].peer = p /\ sess[k].pc \in {"run", "mux"}
Admitting(p) == acc.pc \in {"included", "negotiated"} /\ acc.peer = p

(***************************************************************************)
(* A connection the manager counts as inbound and unidirectional, in use   *)
(* or not, or as outbound and unidirectional, exists: its session has not  *)
(* ended, or it is being admitted, or the peer manager holds it, or the    *)
(* governor let go of it and is about to take the entry down.  (A duplex   *)
(* entry need not be: pruning takes the session of a released outbound     *)
(* connection and leaves its entry, and the report of a responder that was *)
(* aborted makes the peer's next duplex connection count as in use by the  *)
(* remote side.)                                                           *)
(***************************************************************************)
InUseIsBacked ==
    \A p \in Peers :
        /\ AbstractStateOf(conns, p) \in {"inIdleUni", "inUni"} => Served(p) \/ Admitting(p)
        /\ AbstractStateOf(conns, p) = "outUni" => p \in warm \/ GivenUp(p)

(***************************************************************************)
(* The inbound governor follows no connection that is gone: whatever order *)
(* the reports of the responders, the idle timeout and the end of the      *)
(* session come in, an entry is never left or put back after its session.  *)
(***************************************************************************)
GovernorForgets == \A p \in DOMAIN ig : Served(p)

LocalUse(p) == AbstractStateOf(conns, p) \in {"outUni", "outDupT", "outDupE", "duplex"}
RemoteSideStep ==
    \/ Include \/ Negotiated
    \/ \E p \in Peers : ReleaseIdle(p)
    \/ \E X \in SUBSET Peers : InboundTick(X)
    \/ \E k \in Sessions, r \in Responders : Report(k, r)

(***************************************************************************)
(* A connection the local side is using is not taken from it by the accept *)
(* loop: an idle timeout found before the governor reused the connection   *)
(* and acted upon after it, a tick, a new connection or a responder's      *)
(* report leave it in use, so no step that ends the use is one of them.    *)
(***************************************************************************)
LocalUseKept ==
    [][\A p \in Peers : LocalUse(p) /\ ~LocalUse(p)' => ~RemoteSideStep]_vars

(***************************************************************************)
(* A connection going down leaves the manager: no peer stays in TIME_WAIT. *)
(***************************************************************************)
TerminatingEnds ==
    \A p \in Peers : AbstractStateOf(conns, p) = "terminating"
                        ~> AbstractStateOf(conns, p) # "terminating"

(***************************************************************************)
(* A session whose connection was closed, by the peer or by an abort, is   *)
(* cleaned up to the end, whatever its responders were doing.              *)
(***************************************************************************)
SessionEnds ==
    \A k \in Sessions : sess[k].pc = "run" /\ ~sess[k].open ~> sess[k].pc = "done"

(***************************************************************************)
(* What the comments of `release_outbound_connection` say: OutboundIdle is *)
(* on the way to Terminate.  The runtime closes the session but no call    *)
(* moves the entry on.                                                     *)
(***************************************************************************)
OutboundIdleEnds ==
    \A p \in Peers : AbstractStateOf(conns, p) \in {"outIdleUni", "outIdleDup"}
                        ~> AbstractStateOf(conns, p) \notin {"outIdleUni", "outIdleDup"}
=============================================================================
