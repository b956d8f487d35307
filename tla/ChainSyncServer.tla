--------------------------- MODULE ChainSyncServer ---------------------------
(***************************************************************************)
(* One downstream peer served by run_chainsync_server and                  *)
(* run_blockfetch_server of crates/node/ntn-server/src/lib.rs, while the   *)
(* sync service changes the stores and the tentative header they are       *)
(* served from.                                                            *)
(*                                                                         *)
(* Every call of the provider takes its own read lock, so each is a step   *)
(* of its own.  The sync service holds the write lock while a batch is     *)
(* applied, which is therefore one step, and fires notify_waiters after    *)
(* the lock is released; only a server that already awaits it is woken.    *)
(***************************************************************************)
EXTENDS ChainDb, ChainState, Pipelining, RetainSeq

CONSTANTS
    BatchSize,   \* VerifiedSyncServiceConfig::batch_size
    MaxTraps,    \* bound: fetches that fail
    MaxKills     \* bound: process kills in the middle of a promotion

None == "none"

ASSUME ChainSyncServerAssumption ==
    /\ BatchSize \in Nat \ {0}
    /\ MaxTraps \in Nat /\ MaxKills \in Nat
    /\ None \notin Blocks

VARIABLES
    imm, vol,    \* the stores (see ChainDb)
    window,      \* chain_state of the sync service
    tentative,   \* TentativeState::tentative_header
    criterion,   \* TentativeState::criterion_state
    sync,        \* the batch of the sync service: its step and its last block
    traps,       \* history: the headers announced and then trapped
    kills,
    phase,       \* where the server's loop is
    cursor,      \* last point sent
    servedTentative,
    sent         \* history: the last message to the client

chainDb == <<imm, vol, window>>
service == <<chainDb, tentative, criterion, sync, traps, kills>>
server  == <<phase, cursor, servedTentative, sent>>
vars    == <<service, server>>

SyncSteps == {"idle", "fetch", "apply", "notify"}

ServerPhases ==
    {"client", "reconcile", "reconcileTentative", "rollback", "next",
     "tentative", "await", "wait", "wakeNext", "wakeTentative"}

Messages ==
    [kind : {"forward", "backward", "found"}, point : Points]
        \cup {[kind |-> "start"], [kind |-> "notFound"], [kind |-> "awaitReply"]}

(* The values the variables take.                                          *)
TypeOK ==
    /\ {imm, vol, window, traps} \subseteq Seq(Blocks)
    /\ tentative \in Blocks \cup {None}
    /\ criterion \in [number : Nat, bad : SUBSET {Issuer[b] : b \in Blocks}]
    /\ sync \in [step : SyncSteps, target : Points]
    /\ kills \in 0 .. MaxKills
    /\ phase \in ServerPhases
    /\ cursor \in Points
    /\ servedTentative \in BOOLEAN
    /\ sent \in Messages

SyncIdle == [step |-> "idle", target |-> Origin]

Init ==
    /\ imm = <<>> /\ vol = <<>> /\ window = <<>>
    /\ tentative = None /\ criterion = NoTraps
    /\ sync = SyncIdle /\ traps = <<>> /\ kills = 0
    /\ phase = "client" /\ cursor = Origin /\ servedTentative = FALSE
    /\ sent = [kind |-> "start"]

-----------------------------------------------------------------------------
(* The sync service. *)

ChainTip == BestTip(imm, vol)

(* The blocks of a batch that extends the chain to t. *)
BatchTo(t) == SubSeq(PathTo[t], Height(ChainTip) + 1, Height(t))

(* The headers of a batch have arrived: the last one is announced, before  *)
(* any of the blocks is fetched.                                           *)
BeginFetch(t) ==
    /\ sync.step = "idle"
    /\ OnChain(ChainTip, t)
    /\ Height(t) - Height(ChainTip) \in 1 .. BatchSize
    /\ sync' = [step |-> "fetch", target |-> t]
    /\ tentative' = IF MayPipeline(criterion, t) THEN t ELSE tentative
    /\ UNCHANGED <<chainDb, criterion, traps, kills, server>>

(* Whatever goes wrong with the fetch or the verification, the connection  *)
(* included, an announced header is recorded as a trap (clear_trap).       *)
FetchFails ==
    /\ sync.step = "fetch"
    /\ Len(traps) < MaxTraps
    /\ IF tentative = sync.target
       THEN /\ criterion' = AsTrap(criterion, tentative)
            /\ traps' = Append(traps, tentative)
            /\ tentative' = None
       ELSE UNCHANGED <<criterion, traps, tentative>>
    /\ sync' = SyncIdle
    /\ UNCHANGED <<chainDb, kills, server>>

(* clear_adopted comes before the blocks are stored. *)
FetchEnds ==
    /\ sync.step = "fetch"
    /\ tentative' = IF tentative = sync.target THEN None ELSE tentative
    /\ sync' = [sync EXCEPT !.step = "apply"]
    /\ UNCHANGED <<chainDb, criterion, traps, kills, server>>

(* The stores after apply_verified_progress_to_chaindb: the batch is added *)
(* to the volatile store and what the window drains is promoted.           *)
Grown   == vol \o BatchTo(sync.target)
Stable  == StableEntries(window \o BatchTo(sync.target))
Doomed  == IF Stable = <<>> THEN <<>> ELSE UpTo(Grown, TipOf(Stable))
Promoted == imm \o Retain(Doomed, Blocks \ ToSet(imm))

ApplyBatch ==
    /\ sync.step = "apply"
    /\ imm' = Promoted
    /\ vol' = SubSeq(Grown, Len(Doomed) + 1, Len(Grown))
    /\ window' = Drained(window \o BatchTo(sync.target))
    /\ sync' = [sync EXCEPT !.step = "notify"]
    /\ UNCHANGED <<tentative, criterion, traps, kills, server>>

(* A batch that is a rollback of the volatile chain. *)
ApplyRollback(p) ==
    /\ sync.step = "idle"
    /\ p # ChainTip
    /\ p # Origin /\ CanRollBackward(window, p)
    /\ vol' = UpTo(vol, p)
    /\ window' = RollBackward(window, p)
    /\ sync' = [step |-> "notify", target |-> p]
    /\ UNCHANGED <<imm, tentative, criterion, traps, kills, server>>

Notify ==
    /\ sync.step = "notify"
    /\ sync' = SyncIdle
    /\ phase' = IF phase = "wait" THEN "wakeNext" ELSE phase
    /\ UNCHANGED <<chainDb, tentative, criterion, traps, kills,
                   cursor, servedTentative, sent>>

(* The process is killed while promote_volatile_prefix appends, before it  *)
(* has pruned, and started again.                                          *)
KillInPromotion ==
    /\ sync.step = "apply"
    /\ kills < MaxKills
    /\ kills' = kills + 1
    /\ \E n \in Len(imm) .. Len(Promoted) : imm' = SubSeq(Promoted, 1, n)
    /\ vol' = Grown
    /\ window' = SeedFromEntries(Grown)
    /\ tentative' = None /\ criterion' = NoTraps /\ sync' = SyncIdle /\ traps' = <<>>
    /\ phase' = "client" /\ cursor' = Origin /\ servedTentative' = FALSE
    /\ sent' = [kind |-> "start"]

-----------------------------------------------------------------------------
(* SharedChainDb: what a provider call returns, as a set of at most one.   *)

FirstOf(s) == IF s = <<>> THEN {} ELSE {s[1]}

(* MUTANT: the suffix begins with the cursor itself. *)
MutNotStrictlyAfter(p) ==
    IF p \in ToSet(imm) THEN {p} ELSE FirstOf(imm \o vol)

(* find_next_block *)
FindNextBlock(p) ==
    IF p = Origin THEN FirstOf(imm \o vol)
    ELSE IF SuffixFound(imm, p) THEN FirstOf(ImmutableSuffixAfter(imm, p) \o vol)
    ELSE IF p \in ToSet(vol) THEN FirstOf(After(vol, p))
    ELSE {}

NextHeader(p) == IF p = ChainTip THEN {} ELSE FindNextBlock(p)

(* MUTANT: the volatile prefix is taken whole when the range begins in the *)
(* immutable store.                                                        *)
MutSkipNothing(p, q) ==
    LET older == ImmutableSuffixAfter(imm, p)
    IN  IF q \in ToSet(older) THEN UpTo(older, q)
        ELSE IF q \in ToSet(vol) THEN older \o UpTo(vol, q) ELSE <<>>

(* get_block_range: the blocks after p, up to q.  The volatile part starts *)
(* after p, or above the slot of the last immutable block, or at the start.*)
BlockRange(p, q) ==
    LET older   == IF SuffixFound(imm, p) THEN ImmutableSuffixAfter(imm, p) ELSE <<>>
        newer   == UpTo(vol, q)
        above   == Retain(newer, {b \in Blocks : Slot[b] > SlotOf(TipOf(older))})
        skipped == IF p \in ToSet(newer) THEN After(newer, p)
                   ELSE IF older # <<>> /\ above # <<>> THEN above ELSE newer
    IN  IF q \in ToSet(older) THEN UpTo(older, q)
        ELSE IF q \in ToSet(vol) THEN older \o skipped ELSE <<>>

-----------------------------------------------------------------------------
(* run_chainsync_server. *)

RollForward(b, isTentative) ==
    /\ cursor' = b
    /\ servedTentative' = isTentative
    /\ sent' = [kind |-> "forward", point |-> b]
    /\ phase' = "client"

GoTo(next) == phase' = next /\ UNCHANGED <<cursor, servedTentative, sent>>

RecvRequestNext ==
    /\ phase = "client"
    /\ GoTo(IF servedTentative THEN "reconcile" ELSE "next")
    /\ UNCHANGED service

(* The header served last was tentative: was it adopted? *)
Reconcile ==
    /\ phase = "reconcile"
    /\ GoTo(IF NextHeader(cursor) # {} THEN "next" ELSE "reconcileTentative")
    /\ UNCHANGED service

ReconcileTentative ==
    /\ phase = "reconcileTentative"
    /\ GoTo(IF tentative # None THEN "next" ELSE "rollback")
    /\ UNCHANGED service

(* It was trapped: the client is rolled back to the confirmed tip, read    *)
(* under a lock of its own.                                                *)
RollBackToTip ==
    /\ phase = "rollback"
    /\ servedTentative' = FALSE
    /\ cursor' = ChainTip
    /\ sent' = [kind |-> "backward", point |-> ChainTip]
    /\ phase' = "client"
    /\ UNCHANGED service

(* The confirmed chain first, then the tentative header; the same two      *)
(* calls before the wait and each time it ends.                            *)
ServeNextHeader ==
    /\ phase \in {"next", "wakeNext"}
    /\ \/ \E b \in NextHeader(cursor) : RollForward(b, FALSE)
       \/ /\ NextHeader(cursor) = {}
          /\ GoTo(IF phase = "next" THEN "tentative" ELSE "wakeTentative")
    /\ UNCHANGED service

ServeTentative ==
    /\ phase \in {"tentative", "wakeTentative"}
    /\ \/ /\ tentative # None
          /\ RollForward(tentative, TRUE)
       \/ /\ tentative = None
          /\ GoTo(IF phase = "tentative" THEN "await" ELSE "wait")
    /\ UNCHANGED service

(* MsgAwaitReply is sent; then the server begins to listen for the next    *)
(* notification.                                                           *)
AwaitReply ==
    /\ phase = "await"
    /\ sent' = [kind |-> "awaitReply"]
    /\ phase' = "wait"
    /\ UNCHANGED <<cursor, servedTentative, service>>

(* MsgFindIntersect with one candidate; a stored block is an intersection. *)
RecvFindIntersect(p) ==
    /\ phase = "client"
    /\ servedTentative' = FALSE
    /\ IF p \in {Origin} \cup ToSet(imm) \cup ToSet(vol)
       THEN cursor' = p /\ sent' = [kind |-> "found", point |-> p]
       ELSE sent' = [kind |-> "notFound"] /\ UNCHANGED cursor
    /\ UNCHANGED <<phase, service>>

-----------------------------------------------------------------------------
ServerStep ==
    \/ Reconcile \/ ReconcileTentative \/ RollBackToTip
    \/ ServeNextHeader \/ ServeTentative \/ AwaitReply

Next ==
    \/ \E t \in Blocks : BeginFetch(t)
    \/ FetchFails \/ FetchEnds \/ ApplyBatch \/ Notify \/ KillInPromotion
    \/ \E p \in Blocks : ApplyRollback(p)
    \/ RecvRequestNext \/ ServerStep
    \/ \E p \in Points : RecvFindIntersect(p)

Spec == Init /\ [][Next]_vars

(* The server task and the sync service are scheduled; the client, the     *)
(* upstream peer and failures are not obliged to anything.                 *)
FairSpec ==
    Spec /\ WF_vars(ServerStep) /\ WF_vars(FetchEnds) /\ WF_vars(ApplyBatch) /\ WF_vars(Notify)

-----------------------------------------------------------------------------
Stored == ToSet(imm) \cup ToSet(vol)

(* A client that reads the immutable part of the chain is sent it block by *)
(* block, and then the first volatile block: find_next_block never skips   *)
(* or repeats one there, whatever the sync service does meanwhile.  Only   *)
(* the step to the volatile store needs the two stores to be disjoint.     *)
ImmutableServedInOrder ==
    [][ /\ phase # "client" /\ phase' = "client" /\ sent'.kind = "forward"
        /\ ~servedTentative'
        /\ cursor \in {Origin} \cup ToSet(imm)
        /\ cursor = TipOf(imm) => ToSet(imm) \cap ToSet(vol) = {}
        => Parent[cursor'] = cursor ]_vars

(* get_block_range returns exactly the blocks between two stored points,   *)
(* wherever the boundary between the stores is, as long as no kill in the  *)
(* middle of a promotion has left the same block in both.                  *)
RangeIsExact ==
    ToSet(imm) \cap ToSet(vol) = {} =>
        \A q \in Stored : \A p \in ToSet(PathTo[q]) \cup {Origin} :
            p \in (Stored \cup {Origin}) \ {q} =>
                BlockRange(p, q) = SubSeq(PathTo[q], Height(p) + 1, Height(q))

(* The criterion of diffusion pipelining: an issuer gets at most one trap  *)
(* announced for each block number.                                        *)
OneTrapPerIssuer ==
    \A i, j \in 1 .. Len(traps) :
        /\ i # j
        /\ Height(traps[i]) = Height(traps[j])
        => Issuer[traps[i]] # Issuer[traps[j]]

(* find_next_block is "the first block strictly after `cursor`".           *)
NextIsStrictlyAfter ==
    \A p \in Stored : \A b \in NextHeader(p) : Parent[b] = p

(* A server that waits is woken when the chain moves past its cursor.      *)
WaitingServerIsWoken ==
    (phase = "wait" /\ NextHeader(cursor) # {}) ~> phase # "wait"
=============================================================================
