---------------------------------- MODULE Mux ----------------------------------
(* One end of a multiplexed connection (network/src/mux.rs): the drivers of the *)
(* mini-protocols, the writer task (mux_loop) and the reader task (demux_loop). *)
(* The peer and the bearer between the two are external.                        *)
(*                                                                              *)
(* A protocol carries a stream of bytes in each direction, numbered 1, 2, ...;  *)
(* Out[p] and In[p] list the last byte of each message of the streams. A        *)
(* message of In may end with a CBOR string of indefinite length, a header and  *)
(* chunks up to a break byte: Cuts[p] holds the last byte of that header and of *)
(* each of the chunks.                                                          *)
EXTENDS Naturals, Sequences, FiniteSets, SequencesExt

CONSTANTS
    Protocols,      \* the registered mini-protocols
    Slots,          \* the order in which the writer visits them
    Out,            \* messages the local drivers send
    In,             \* messages the peer sends
    Cuts,           \* where an indefinite-length string at the end of one may be cut
    MaxSegment,     \* MAX_SEGMENT_SIZE
    Buffer,         \* buffer_size, the capacity of each channel
    EgressLimit,    \* EGRESS_SOFT_LIMIT
    IngressLimit,   \* ingress_limit
    Hot,            \* the weight of each protocol while the peer is hot
    WireCapacity,   \* SDUs the bearer holds in each direction
    Modulus         \* AtomicUsize counts modulo this power of two

ASSUME MuxAssumption ==
    /\ IsFiniteSet(Protocols) /\ Protocols # {}
    /\ Slots \in Seq(Protocols) /\ IsInjective(Slots) /\ ToSet(Slots) = Protocols
    /\ \A s \in {Out, In} : \A p \in Protocols :
          /\ s[p] \in Seq(Nat \ {0})
          /\ \A i, j \in 1 .. Len(s[p]) : i < j => s[p][i] < s[p][j]
    /\ Cuts \in [Protocols -> SUBSET (Nat \ {0})]
    /\ \A p \in Protocols : \A x \in Cuts[p] :
          \E y \in Cuts[p] : /\ x <= y /\ y + 1 \in ToSet(In[p])
                            /\ \A e \in ToSet(In[p]) : e < x \/ y < e
    /\ {MaxSegment, Buffer, WireCapacity, Modulus} \subseteq Nat \ {0}
    /\ {EgressLimit, IngressLimit} \subseteq Nat
    /\ Hot \in [Protocols -> Nat \ {0}]

VARIABLES
    open,        \* the driver still holds the ProtocolHandle
    sender,      \* the driver's call of send
    accepted,    \* messages the egress channel has taken
    egress,      \* EgressSlot::receiver: numbers of the messages queued
    pending,     \* egress_bytes / pending_bytes
    weight,      \* EgressSlot::weight
    permit,      \* the permit notify_one leaves in Notify
    writer,      \* mux_loop
    closed,      \* EgressSlot::closed
    written,     \* bytes of each protocol put on the bearer
    overtaken,   \* [p][q]: bytes of q written while a payload of p waited
    transit,     \* SDUs the peer has yet to read
    arriving,    \* SDUs from the peer
    peerAt,      \* bytes of In the peer has sent
    reader,      \* demux_loop
    ingress,     \* ingress channels
    held,        \* ingress_bytes
    readBuf,     \* MessageChannel::read_buf
    received,    \* messages recv has returned
    cancel       \* the watch channel between the two tasks

egressVars == <<sender, accepted, egress, pending, permit>>
writerVars == <<writer, closed, written, overtaken, transit>>
bearerVars == <<arriving, peerAt>>
ingressVars == <<ingress, held, readBuf, received>>
vars == <<open, egressVars, weight, writerVars, bearerVars, reader, ingressVars, cancel>>

----------------------------------------------------------------------------
(* Messages and streams *)

Before(ends, i) == IF i = 1 THEN 0 ELSE ends[i - 1]
Size(ends, i) == ends[i] - Before(ends, i)
Bytes(ends, i) == [j \in 1 .. Size(ends, i) |-> Before(ends, i) + j]

(* cbor_item_length on a buffer that holds a whole message. *)
WholeItem(ends, buf) ==
    { Size(ends, i) : i \in { i \in 1 .. Len(ends) :
        Head(buf) = Before(ends, i) + 1 /\ Len(buf) >= Size(ends, i) } }

(* A string of indefinite length that the buffer ends in, after its header or *)
(* a chunk: the loop over the chunks ends with the buffer, as with the break. *)
CutItem(ends, cuts, buf) ==
    { Len(buf) : i \in { i \in 1 .. Len(ends) :
        /\ Head(buf) = Before(ends, i) + 1 /\ Len(buf) < Size(ends, i)
        /\ Last(buf) \in cuts } }

(* What follows such a cut: each chunk is an item, the break byte is none. *)
ChunkItem(ends, cuts, buf) ==
    LET h == Head(buf)
    IN { x - h + 1 : x \in { x \in cuts :
           /\ h - 1 \in cuts /\ h <= x /\ Len(buf) >= x - h + 1
           /\ \A y \in cuts \cup ToSet(ends) : y < h \/ x <= y } }

(* cbor_item_length: the length of the item the buffer begins with, if any. *)
ItemLength(ends, cuts, buf) ==
    IF buf = <<>> THEN {}
    ELSE WholeItem(ends, buf) \cup CutItem(ends, cuts, buf) \cup ChunkItem(ends, cuts, buf)

Plus(n, d) == (n + d) % Modulus
Minus(n, d) == (n + Modulus - d) % Modulus

NewRound(w) == [at |-> "round", turn |-> 1, count |-> 0, wrote |-> w, msg |-> 0, rest |-> <<>>]

Init ==
    /\ open = [p \in Protocols |-> TRUE]
    /\ sender = [p \in Protocols |-> "idle"]
    /\ accepted = [p \in Protocols |-> 0]
    /\ egress = [p \in Protocols |-> <<>>]
    /\ pending = [p \in Protocols |-> 0]
    /\ weight = [p \in Protocols |-> 1]
    /\ permit = FALSE
    /\ writer = NewRound(FALSE)
    /\ closed = [p \in Protocols |-> FALSE]
    /\ written = [p \in Protocols |-> <<>>]
    /\ overtaken = [p \in Protocols |-> [q \in Protocols |-> 0]]
    /\ transit = 0
    /\ arriving = <<>>
    /\ peerAt = [p \in Protocols |-> 0]
    /\ reader = [at |-> "header", sdu |-> <<>>]
    /\ ingress = [p \in Protocols |-> <<>>]
    /\ held = [p \in Protocols |-> 0]
    /\ readBuf = [p \in Protocols |-> <<>>]
    /\ received = [p \in Protocols |-> <<>>]
    /\ cancel = FALSE

WriterRuns == writer.at \in {"round", "write", "wait"}
ReaderRuns == reader.at \in {"header", "payload", "deliver"}

----------------------------------------------------------------------------
(* ProtocolHandle::send *)

(* MUTANT: the check counts the message itself, as it did before R213. *)
MutSendChecksMessage(p) ==
    /\ open[p] /\ sender[p] = "idle" /\ accepted[p] < Len(Out[p])
    /\ sender' = [sender EXCEPT ![p] =
                    IF pending[p] + Size(Out[p], accepted[p] + 1) > EgressLimit
                    THEN "overflow" ELSE "waiting"]
    /\ UNCHANGED <<open, accepted, egress, pending, permit, weight, writerVars, bearerVars,
                   reader, ingressVars, cancel>>

(* The one check; the message itself may be of any size. *)
Send(p) ==
    /\ open[p] /\ sender[p] = "idle" /\ accepted[p] < Len(Out[p])
    /\ sender' = [sender EXCEPT ![p] =
                    IF pending[p] > EgressLimit THEN "overflow" ELSE "waiting"]
    /\ UNCHANGED <<open, accepted, egress, pending, permit, weight, writerVars, bearerVars,
                   reader, ingressVars, cancel>>

(* The channel has room, or its receiver is gone (EgressClosed). *)
Enqueue(p) ==
    /\ sender[p] = "waiting"
    /\ \/ /\ WriterRuns /\ Len(egress[p]) < Buffer
          /\ accepted' = [accepted EXCEPT ![p] = @ + 1]
          /\ egress' = [egress EXCEPT ![p] = Append(@, accepted[p] + 1)]
          /\ sender' = [sender EXCEPT ![p] = "queued"]
       \/ /\ ~WriterRuns
          /\ sender' = [sender EXCEPT ![p] = "closed"]
          /\ UNCHANGED <<accepted, egress>>
    /\ UNCHANGED <<open, pending, permit, weight, writerVars, bearerVars, reader, ingressVars, cancel>>

(* MUTANT: notify_waiters, which leaves no permit for a writer that is not waiting. *)
MutNotifyWaiters(p) ==
    /\ sender[p] = "queued"
    /\ pending' = [pending EXCEPT ![p] = Plus(@, Size(Out[p], accepted[p]))]
    /\ permit' = (writer.at = "wait")
    /\ sender' = [sender EXCEPT ![p] = "idle"]
    /\ UNCHANGED <<open, accepted, egress, weight, writerVars, bearerVars, reader, ingressVars, cancel>>

(* The bytes are counted after the message is in the channel. *)
Count(p) ==
    /\ sender[p] = "queued"
    /\ pending' = [pending EXCEPT ![p] = Plus(@, Size(Out[p], accepted[p]))]
    /\ permit' = TRUE
    /\ sender' = [sender EXCEPT ![p] = "idle"]
    /\ UNCHANGED <<open, accepted, egress, weight, writerVars, bearerVars, reader, ingressVars, cancel>>

(* WeightHandle::set: the governor changes the weights of a session between *)
(* DEFAULT_PROTOCOL_WEIGHT and the hot ones, protocol by protocol.          *)
SetWeight(p) ==
    /\ WriterRuns
    /\ \E w \in {1, Hot[p]} \ {weight[p]} : weight' = [weight EXCEPT ![p] = w]
    /\ UNCHANGED <<open, egressVars, writerVars, bearerVars, reader, ingressVars, cancel>>

(* The driver ends: it drops its channel with whatever is queued for it. *)
DropHandle(p) ==
    /\ open[p] /\ sender[p] # "queued"
    /\ open' = [open EXCEPT ![p] = FALSE]
    /\ sender' = [sender EXCEPT ![p] = "idle"]
    /\ ingress' = [ingress EXCEPT ![p] = <<>>]
    /\ readBuf' = [readBuf EXCEPT ![p] = <<>>]
    /\ UNCHANGED <<accepted, egress, pending, permit, weight, writerVars, bearerVars, reader,
                   held, received, cancel>>

----------------------------------------------------------------------------
(* mux_loop: weighted round robin over the slots *)

Turn == Slots[writer.turn]

(* The visit of a slot ends; after the last one a round that wrote nothing *)
(* waits, unless every slot is closed.                                     *)
Advance(isClosed) ==
    writer' = IF writer.turn < Len(Slots)
              THEN [writer EXCEPT !.turn = @ + 1, !.count = 0]
              ELSE IF \A p \in Protocols : isClosed[p]
              THEN [writer EXCEPT !.at = "done"]
              ELSE IF writer.wrote THEN NewRound(FALSE)
              ELSE [NewRound(FALSE) EXCEPT !.at = "wait"]

(* MUTANT: the number of payloads written in this visit is not counted. *)
MutUnweighted ==
    /\ writer.at = "round" /\ egress[Turn] # <<>>
    /\ egress' = [egress EXCEPT ![Turn] = Tail(@)]
    /\ writer' = [writer EXCEPT !.at = "write", !.msg = Head(egress[Turn]),
                                !.rest = Bytes(Out[Turn], Head(egress[Turn]))]
    /\ UNCHANGED <<open, sender, accepted, pending, permit, weight, closed, written, overtaken,
                   transit, bearerVars, reader, ingressVars, cancel>>

(* try_recv returns a payload. *)
TakePayload ==
    /\ writer.at = "round" /\ writer.count < weight[Turn] /\ egress[Turn] # <<>>
    /\ egress' = [egress EXCEPT ![Turn] = Tail(@)]
    /\ writer' = [writer EXCEPT !.at = "write", !.msg = Head(egress[Turn]),
                                !.rest = Bytes(Out[Turn], Head(egress[Turn]))]
    /\ UNCHANGED <<open, sender, accepted, pending, permit, weight, closed, written, overtaken,
                   transit, bearerVars, reader, ingressVars, cancel>>

(* The weight is used up, or try_recv returns Empty or Disconnected. *)
LeaveSlot ==
    /\ writer.at = "round"
    /\ writer.count >= weight[Turn] \/ egress[Turn] = <<>>
    /\ closed' = [closed EXCEPT ![Turn] =
                    @ \/ (writer.count < weight[Turn] /\ ~open[Turn])]
    /\ Advance(closed')
    /\ UNCHANGED <<open, egressVars, weight, written, overtaken, transit, bearerVars, reader,
                   ingressVars, cancel>>

(* n bytes of q have been written: the protocols with queued payloads count them. *)
Overtaking(q, n) ==
    [p \in Protocols |-> IF p = q \/ egress[p] = <<>> THEN [r \in Protocols |-> 0]
                         ELSE [overtaken[p] EXCEPT ![q] = @ + n]]

(* write_sdu: a payload is written segment by segment, without a look at the *)
(* other slots; after the last one its bytes are no longer pending.          *)
WriteSegment ==
    /\ writer.at = "write" /\ transit < WireCapacity
    /\ transit' = transit + 1
    /\ LET n == IF Len(writer.rest) < MaxSegment THEN Len(writer.rest) ELSE MaxSegment
           left == SubSeq(writer.rest, n + 1, Len(writer.rest))
       IN /\ written' = [written EXCEPT ![Turn] = @ \o SubSeq(writer.rest, 1, n)]
          /\ writer' = IF left # <<>> THEN [writer EXCEPT !.rest = left]
                       ELSE [writer EXCEPT !.at = "round", !.count = @ + 1, !.wrote = TRUE,
                                           !.msg = 0, !.rest = <<>>]
          /\ pending' = IF left # <<>> THEN pending
                        ELSE [pending EXCEPT ![Turn] = Minus(@, Size(Out[Turn], writer.msg))]
          /\ overtaken' = Overtaking(Turn, n)
    /\ UNCHANGED <<open, sender, accepted, egress, permit, weight, closed, bearerVars, reader,
                   ingressVars, cancel>>

(* An error of the bearer ends the task and signals the reader. *)
WriteFails ==
    /\ writer.at = "write"
    /\ writer' = [writer EXCEPT !.at = "failed"]
    /\ cancel' = TRUE
    /\ UNCHANGED <<open, egressVars, weight, closed, written, overtaken, transit, bearerVars,
                   reader, ingressVars>>

(* MUTANT: the wait listens to the senders only. *)
MutWaitIgnoresCancel ==
    /\ writer.at = "wait" /\ permit
    /\ permit' = FALSE
    /\ writer' = NewRound(FALSE)
    /\ UNCHANGED <<open, sender, accepted, egress, pending, weight, closed, written, overtaken,
                   transit, bearerVars, reader, ingressVars, cancel>>

(* The select at the end of a round in which nothing was written. *)
Wait ==
    /\ writer.at = "wait"
    /\ \/ /\ cancel
          /\ writer' = [writer EXCEPT !.at = "failed"]
          /\ UNCHANGED permit
       \/ /\ ~cancel /\ permit
          /\ permit' = FALSE
          /\ writer' = NewRound(FALSE)
    /\ UNCHANGED <<open, sender, accepted, egress, pending, weight, closed, written, overtaken,
                   transit, bearerVars, reader, ingressVars, cancel>>

----------------------------------------------------------------------------
(* demux_loop *)

Fail ==
    /\ reader' = [at |-> "failed", sdu |-> <<>>]
    /\ cancel' = TRUE

(* The header of an SDU and the limit check; the payload counts as held. *)
ReadHeader ==
    /\ reader.at = "header" /\ ~cancel /\ arriving # <<>>
    /\ arriving' = Tail(arriving)
    /\ LET sdu == Head(arriving)
           p == sdu.protocol
       IN IF held[p] + Len(sdu.payload) > IngressLimit
          THEN Fail /\ UNCHANGED held
          ELSE /\ held' = [held EXCEPT ![p] = @ + Len(sdu.payload)]
               /\ reader' = [at |-> "payload", sdu |-> sdu]
               /\ UNCHANGED cancel
    /\ UNCHANGED <<open, egressVars, weight, writerVars, peerAt, ingress, readBuf, received>>

(* The last byte of the payload arrives, which may be never: read_exact has *)
(* no time limit here and does not look at the signal of the writer.        *)
ReadPayload ==
    /\ reader.at = "payload"
    /\ reader' = [reader EXCEPT !.at = "deliver"]
    /\ UNCHANGED <<open, egressVars, weight, writerVars, bearerVars, ingressVars, cancel>>

(* The bearer is closed or fails within a payload. *)
PayloadFails ==
    /\ reader.at = "payload"
    /\ Fail
    /\ UNCHANGED <<open, egressVars, weight, writerVars, bearerVars, ingressVars>>

(* Dispatch waits for room in the channel of this protocol, and with it every *)
(* other protocol waits; for a dropped handle the payload is discarded.        *)
Deliver ==
    /\ reader.at = "deliver"
    /\ LET p == reader.sdu.protocol
       IN \/ /\ open[p] /\ Len(ingress[p]) < Buffer
             /\ ingress' = [ingress EXCEPT ![p] = Append(@, reader.sdu.payload)]
             /\ UNCHANGED held
          \/ /\ ~open[p]
             /\ held' = [held EXCEPT ![p] = @ - Len(reader.sdu.payload)]
             /\ UNCHANGED ingress
    /\ reader' = [at |-> "header", sdu |-> <<>>]
    /\ UNCHANGED <<open, egressVars, weight, writerVars, bearerVars, readBuf, received, cancel>>

(* The signal of the writer, an error of the bearer, or SDU_READ_TIMEOUT. *)
ReadFails ==
    /\ reader.at = "header"
    /\ Fail
    /\ UNCHANGED <<open, egressVars, weight, writerVars, bearerVars, ingressVars>>

----------------------------------------------------------------------------
(* MessageChannel::recv *)

(* The buffer after a payload was taken, if no message was complete before. *)
Refilled(p) ==
    IF ItemLength(In[p], Cuts[p], readBuf[p]) # {} THEN readBuf[p] ELSE readBuf[p] \o Head(ingress[p])

(* MUTANT: the buffer is cleared when a message is returned. *)
MutBufferCleared(p, buf) ==
    IF ItemLength(In[p], Cuts[p], buf) = {}
    THEN /\ readBuf' = [readBuf EXCEPT ![p] = buf]
         /\ UNCHANGED received
    ELSE \E n \in ItemLength(In[p], Cuts[p], buf) :
         /\ received' = [received EXCEPT ![p] = Append(@, SubSeq(buf, 1, n))]
         /\ readBuf' = [readBuf EXCEPT ![p] = <<>>]

(* A complete message leaves the buffer; what follows it stays. *)
Extract(p, buf) ==
    IF ItemLength(In[p], Cuts[p], buf) = {}
    THEN /\ readBuf' = [readBuf EXCEPT ![p] = buf]
         /\ UNCHANGED received
    ELSE \E n \in ItemLength(In[p], Cuts[p], buf) :
         /\ received' = [received EXCEPT ![p] = Append(@, SubSeq(buf, 1, n))]
         /\ readBuf' = [readBuf EXCEPT ![p] = SubSeq(buf, n + 1, Len(buf))]

(* One turn of the loop of recv. *)
Recv(p) ==
    /\ open[p]
    /\ \/ /\ ItemLength(In[p], Cuts[p], readBuf[p]) # {}
          /\ UNCHANGED <<ingress, held>>
       \/ /\ ItemLength(In[p], Cuts[p], readBuf[p]) = {} /\ ingress[p] # <<>>
          /\ held' = [held EXCEPT ![p] = @ - Len(Head(ingress[p]))]
          /\ ingress' = [ingress EXCEPT ![p] = Tail(@)]
    /\ Extract(p, Refilled(p))
    /\ UNCHANGED <<open, egressVars, weight, writerVars, bearerVars, reader, cancel>>

----------------------------------------------------------------------------
(* The peer and the bearer, as long as the task that would notice runs *)

PeerReads ==
    /\ transit > 0 /\ WriterRuns
    /\ transit' = transit - 1
    /\ UNCHANGED <<open, egressVars, weight, writer, closed, written, overtaken, bearerVars,
                   reader, ingressVars, cancel>>

(* An SDU holds any bytes of the stream that come next, of one message or more. *)
PeerSends(p, n) ==
    /\ Len(arriving) < WireCapacity /\ ReaderRuns
    /\ In[p] # <<>> /\ peerAt[p] + n <= Last(In[p])
    /\ arriving' = Append(arriving, [protocol |-> p, payload |-> [j \in 1 .. n |-> peerAt[p] + j]])
    /\ peerAt' = [peerAt EXCEPT ![p] = @ + n]
    /\ UNCHANGED <<open, egressVars, weight, writerVars, reader, ingressVars, cancel>>

----------------------------------------------------------------------------
Writer == TakePayload \/ LeaveSlot \/ WriteSegment \/ Wait
Reader == ReadHeader \/ Deliver \/ ReadFails
Driver(p) == Send(p) \/ Enqueue(p) \/ Count(p) \/ DropHandle(p) \/ Recv(p)

Next ==
    \/ Writer \/ WriteFails
    \/ Reader \/ ReadPayload \/ PayloadFails
    \/ \E p \in Protocols : Driver(p)
    \/ \E p \in Protocols : SetWeight(p)
    \/ PeerReads
    \/ \E p \in Protocols, n \in 1 .. MaxSegment : PeerSends(p, n)

Spec == Init /\ [][Next]_vars

(* tokio polls both tasks, and a reader that waits for a header runs into its    *)
(* time limit. Nothing obliges the drivers or the peer to act, the payload that  *)
(* a header announces to arrive, or a blocked write to fail.                     *)
FairSpec == Spec /\ WF_vars(Writer) /\ WF_vars(Reader)

----------------------------------------------------------------------------
(* Properties *)

WriterType == [at : {"round", "write", "wait", "done", "failed"}, turn : 1 .. Len(Slots),
               count : Nat, wrote : BOOLEAN, msg : Nat, rest : Seq(Nat)]
Sdus == [protocol : Protocols, payload : Seq(Nat)]
ReaderType == [at : {"header", "failed"}, sdu : {<<>>}]
              \cup [at : {"payload", "deliver"}, sdu : Sdus]

(* The variables keep their types, channels and counters their limits. *)
TypeOK ==
    /\ open \in [Protocols -> BOOLEAN]
    /\ sender \in [Protocols -> {"idle", "waiting", "queued", "overflow", "closed"}]
    /\ accepted \in [Protocols -> Nat] /\ egress \in [Protocols -> Seq(Nat)]
    /\ \A p \in Protocols :
          /\ accepted[p] <= Len(Out[p])
          /\ egress[p] \in Seq(1 .. Len(Out[p])) /\ Len(egress[p]) <= Buffer
          /\ Len(ingress[p]) <= Buffer
          /\ weight[p] \in {1, Hot[p]}
    /\ pending \in [Protocols -> 0 .. Modulus - 1]
    /\ weight \in [Protocols -> Nat] /\ closed \in [Protocols -> BOOLEAN]
    /\ permit \in BOOLEAN /\ cancel \in BOOLEAN
    /\ writer \in WriterType /\ reader \in ReaderType
    /\ written \in [Protocols -> Seq(Nat)] /\ overtaken \in [Protocols -> [Protocols -> Nat]]
    /\ transit \in 0 .. WireCapacity
    /\ arriving \in Seq(Sdus) /\ Len(arriving) <= WireCapacity
    /\ peerAt \in [Protocols -> Nat]
    /\ ingress \in [Protocols -> Seq(Seq(Nat))] /\ received \in [Protocols -> Seq(Seq(Nat))]
    /\ readBuf \in [Protocols -> Seq(Nat)]
    /\ held \in [Protocols -> 0 .. IngressLimit]

Prefix(n) == [j \in 1 .. n |-> j]

BeingWritten(p) == IF Turn = p THEN writer.rest ELSE <<>>
Queued(p) == FlattenSeq([i \in 1 .. Len(egress[p]) |-> Bytes(Out[p], egress[p][i])])

(* write_sdu and mux_loop: what a protocol has put on the bearer, followed by  *)
(* the rest of the payload in hand and the payloads in its channel, is exactly *)
(* what its driver has sent: segmentation and the interleaving with other      *)
(* protocols lose, repeat and reorder nothing.                                 *)
WrittenIsSent ==
    \A p \in Protocols :
        written[p] \o BeingWritten(p) \o Queued(p)
            = Prefix(IF accepted[p] = 0 THEN 0 ELSE Out[p][accepted[p]])

InHand(p) ==
    IF reader.at \in {"payload", "deliver"} /\ reader.sdu.protocol = p THEN reader.sdu.payload ELSE <<>>
ArrivingFor(p) ==
    FlattenSeq([i \in 1 .. Len(arriving) |->
                  IF arriving[i].protocol = p THEN arriving[i].payload ELSE <<>>])

(* demux_loop and MessageChannel::recv: however the peer cuts its stream into *)
(* SDUs, nothing that has arrived for a driver is dropped or reordered on the *)
(* way, and recv returns the messages whole, as long as none of them ends     *)
(* with a string of indefinite length.                                        *)
ReceivedIsSent ==
    \A p \in Protocols :
        /\ Cuts[p] = {} =>
             /\ Len(received[p]) <= Len(In[p])
             /\ \A i \in 1 .. Len(received[p]) : received[p][i] = Bytes(In[p], i)
        /\ open[p] /\ ReaderRuns =>
             FlattenSeq(received[p]) \o readBuf[p] \o FlattenSeq(ingress[p]) \o InHand(p) \o ArrivingFor(p)
                 = Prefix(peerAt[p])

(* What the doc of cbor_item_length says: recv returns complete messages only, *)
(* those with strings of indefinite length included.                           *)
MessagesAreWhole ==
    \A p \in Protocols : \A i \in 1 .. Len(received[p]) : received[p][i] = Bytes(In[p], i)

(* ingress_bytes: the counter is the number of bytes held for the driver, so *)
(* the limit bounds what a peer can make this end store in the channel.      *)
IngressAccounted ==
    \A p \in Protocols : open[p] /\ ReaderRuns =>
        held[p] = Len(FlattenSeq(ingress[p])) + Len(InHand(p))

(* In both directions the streams come through whole and in order, however   *)
(* they are cut and interleaved, and what is held for a driver is counted.   *)
StreamsIntact == TypeOK /\ WrittenIsSent /\ ReceivedIsSent /\ IngressAccounted

(* notify_one: the writer never sleeps over a message whose sender has *)
(* finished its call.                                                  *)
NoLostWakeup ==
    writer.at = "wait" /\ ~permit =>
        \A p \in Protocols : egress[p] = <<>> \/ sender[p] = "queued"

Longest(q) == Max({0} \cup { Size(Out[q], i) : i \in 1 .. Len(Out[q]) })

(* The weighted round robin: while a payload of p waits, another protocol q gets *)
(* at most its weight in payloads, however many segments each of them takes, and *)
(* also when weights change in the middle of a visit. Overtaking counts the      *)
(* bytes, segment by segment.                                                    *)
BoundedOvertaking ==
    \A p, q \in Protocols : p # q => overtaken[p][q] <= Hot[q] * Longest(q)

(* What the doc of the module and of mux_loop says: the weight is the number of *)
(* segments a protocol gets before the scheduler advances.                      *)
WeightIsSegments ==
    \A p, q \in Protocols : p # q => overtaken[p][q] <= Hot[q] * MaxSegment

(* EgressBufferOverflow is returned only when more than the limit is really   *)
(* queued or being written, although the writer may subtract a message before *)
(* its sender has added it and the counter wraps below zero.                  *)
OverflowIsReal ==
    [][\A p \in Protocols : sender[p] = "idle" /\ sender'[p] = "overflow" =>
          Len(Queued(p))
            + (IF writer.msg # 0 /\ Turn = p THEN Size(Out[p], writer.msg) ELSE 0)
            > EgressLimit]_vars

(* The cancel channel: when one task has failed the other one ends too, unless *)
(* it is blocked where it does not look: the writer on a bearer the peer does   *)
(* not drain, the reader on a payload the peer does not complete or on the full *)
(* channel of a driver that does not receive.                                   *)
TeardownSpreads ==
    /\ reader.at = "failed" ~> ~WriterRuns \/ transit = WireCapacity
    /\ writer.at = "failed" ~> ~ReaderRuns \/ reader.at \in {"payload", "deliver"}
================================================================================
