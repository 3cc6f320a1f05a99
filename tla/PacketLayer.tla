---------------------------- MODULE PacketLayer ----------------------------
(***************************************************************************)
(* Sequence numbers, acknowledgements, reliable packets and extras of an   *)
(* established call between two peers, both running                        *)
(* submodules/libtgvoip/VoIPController.cpp, over a network that loses,     *)
(* repeats and reorders packets.                                           *)
(*                                                                         *)
(* A packet carries the highest number received and a mask of the Window   *)
(* numbers below it.  A peer older than protocol 6 is told of changes by   *)
(* packets that the tick thread repeats until they are acknowledged        *)
(* (queuedPackets), a newer one by extras that ride in every header until  *)
(* they are acknowledged (currentExtras).                                  *)
(*                                                                         *)
(* A number is drawn when a packet is made, the header is written when it  *)
(* is sent.  Audio, the receive thread and the tick thread all make        *)
(* packets and may overtake each other in between: pending holds one       *)
(* packet for each of Producers threads, and overtaken the numbers whose   *)
(* headers were not written first.  The send thread reads recvPacketTimes  *)
(* and lastRemoteSeq without a lock while the receive thread changes them, *)
(* so both threads take several steps here; the Window reads of            *)
(* recvPacketTimes are one of them (CollectAcks).                          *)
(*                                                                         *)
(* seqgt (PrivateDefines.h:105) is > on numbers less than 2^31 apart; a    *)
(* call that draws 2^32 of them lasts years, so numbers are naturals.      *)
(* When audio is held back (waitingForAcks, dontSendPackets) is not        *)
(* modelled: any peer may make a packet at any time.  Times are left out:  *)
(* a retry or a timeout may come at any tick.                              *)
(***************************************************************************)
EXTENDS Naturals, Sequences, FiniteSets

CONSTANTS
    Peers,       \* the two ends of the call
    Window,      \* entries of recvPacketTimes, bits of the mask: 32
    MaxRecent,   \* MAX_RECENT_PACKETS: 64
    MaxSeqs,     \* numbers a queued packet remembers: 10
    Producers,   \* bound on the threads that hold a packet not yet sent
    Reliables,   \* packets given to SendPacketReliably
    Types,       \* types of extras
    MaxVersion,  \* bound on the values an extra takes
    Versions,    \* protocol versions the peers may both have
    Senders,     \* peers that have something to tell
    MaxSent,     \* bound on the numbers each peer draws
    MaxTotal,    \* bound on the numbers both draw together
    None

ASSUME LayerAssumption ==
    /\ \E a, b \in Peers : a # b /\ Peers = {a, b}
    /\ Senders \subseteq Peers
    /\ Window \in Nat \ {0, 1} /\ MaxRecent \in Nat \ {0}
    /\ MaxSeqs \in Nat \ {0} /\ Producers \in Nat \ {0}
    /\ MaxVersion \in Nat /\ Versions \subseteq Nat
    /\ MaxSent \in [Peers -> Nat] /\ MaxTotal \in Nat
    /\ None \notin Reliables

VARIABLES
    peerVersion,       \* as the init packets told, the same at both ends
    seq,               \* the next number
    pending,           \* packets made and not yet sent
    tx,                \* the packet whose header is being written
    recent,            \* recentOutgoingPackets
    queued,            \* queuedPackets, one per load
    extras,            \* currentExtras, one per type
    version,           \* the last value given to SendExtra, per type
    lastRemoteSeq,     \* the highest number received
    recv,              \* indices of recvPacketTimes that are not 0
    rx,                \* the packet the receive thread works on
    lastRemoteAckSeq,  \* the highest number the peer acknowledged
    applied,           \* lastReceivedExtrasByType
    net,               \* every packet ever sent
    accepted,          \* history: numbers that passed the window
    again,             \* history: numbers that passed it twice
    jumped,            \* history: numbers that emptied the window
    removed,           \* history: reliable packets taken for acknowledged
    confirmed,         \* history: extras taken for acknowledged
    seen,              \* history: extras read from a header
    overtaken          \* history: numbers written after one not below them

sending == <<seq, pending, tx, recent, queued, extras, version>>
receiving == <<lastRemoteSeq, recv, rx, lastRemoteAckSeq, applied>>
history == <<accepted, again, jumped, removed, confirmed, seen, overtaken>>
vars == <<peerVersion, sending, receiving, net, history>>

(* Extras are understood since protocol 6.                                 *)
ExtrasKnown == peerVersion >= 6

Other(p) == CHOOSE q \in Peers : q # p
Seqs == UNION {1..MaxSent[p] : p \in Peers}
Drawn == [seq : Seqs, load : Reliables \cup {None}]
Mask == SUBSET (0..(Window - 1))
Extra == [type : Types, data : 1..MaxVersion]
Waiting == [type : Types, data : 1..MaxVersion, first : Seqs \cup {0}]
Packet == [to : Peers, seq : Seqs, ack : Seqs \cup {0}, acks : Mask,
           load : Reliables \cup {None}, extras : SUBSET Extra]
Outgoing == [pkt : Drawn, acks : Mask]
Incoming == [pkt : Packet, stage : {"window", "acks"}]
Queued == [load : Reliables, seqs : Seq(Seqs)]

ASSUME NoneAssumption == None \notin Outgoing /\ None \notin Incoming

TypeOK ==
    /\ peerVersion \in Versions
    /\ seq \in [Peers -> Nat \ {0}]
    /\ pending \in [Peers -> SUBSET Drawn]
    /\ tx \in [Peers -> Outgoing \cup {None}]
    /\ recent \in [Peers -> Seq([seq : Seqs, acked : BOOLEAN])]
    /\ \A p \in Peers : Len(recent[p]) <= MaxRecent
    /\ queued \in [Peers -> SUBSET Queued]
    /\ \A p \in Peers : \A q \in queued[p] : Len(q.seqs) <= MaxSeqs
    /\ extras \in [Peers -> SUBSET Waiting]
    /\ version \in [Peers -> [Types -> 0..MaxVersion]]
    /\ lastRemoteSeq \in [Peers -> Seqs \cup {0}]
    /\ recv \in [Peers -> Mask]
    /\ rx \in [Peers -> Incoming \cup {None}]
    /\ lastRemoteAckSeq \in [Peers -> Seqs \cup {0}]
    /\ applied \in [Peers -> [Types -> 0..MaxVersion]]
    /\ net \subseteq Packet
    /\ accepted \in [Peers -> SUBSET Seqs]
    /\ again \in [Peers -> SUBSET Seqs]
    /\ jumped \in [Peers -> SUBSET Seqs]
    /\ removed \in [Peers -> SUBSET Queued]
    /\ confirmed \in [Peers -> SUBSET Waiting]
    /\ seen \in [Peers -> SUBSET Extra]
    /\ overtaken \in [Peers -> SUBSET Seqs]

Init ==
    /\ peerVersion \in Versions
    /\ seq = [p \in Peers |-> 1]
    /\ pending = [p \in Peers |-> {}]
    /\ tx = [p \in Peers |-> None]
    /\ recent = [p \in Peers |-> <<>>]
    /\ queued = [p \in Peers |-> {}]
    /\ extras = [p \in Peers |-> {}]
    /\ version = [p \in Peers |-> [t \in Types |-> 0]]
    /\ lastRemoteSeq = [p \in Peers |-> 0]
    /\ recv = [p \in Peers |-> {}]
    /\ rx = [p \in Peers |-> None]
    /\ lastRemoteAckSeq = [p \in Peers |-> 0]
    /\ applied = [p \in Peers |-> [t \in Types |-> 0]]
    /\ net = {}
    /\ accepted = [p \in Peers |-> {}]
    /\ again = [p \in Peers |-> {}]
    /\ jumped = [p \in Peers |-> {}]
    /\ removed = [p \in Peers |-> {}]
    /\ confirmed = [p \in Peers |-> {}]
    /\ seen = [p \in Peers |-> {}]
    /\ overtaken = [p \in Peers |-> {}]

-----------------------------------------------------------------------------
(* Making packets                                                          *)

(* A thread draws a number for a packet that carries load.                 *)
GenerateOutSeq(p, load) ==
    /\ seq[p] <= MaxSent[p] /\ seq[p] + seq[Other(p)] < MaxTotal + 2
    /\ Cardinality(pending[p]) < Producers
    /\ seq' = [seq EXCEPT ![p] = @ + 1]
    /\ pending' = [pending EXCEPT ![p] = @ \cup {[seq |-> seq[p], load |-> load]}]

(* Audio, a ping answer or the tick thread's PKT_NOP.                      *)
MakePacket(p) ==
    /\ GenerateOutSeq(p, None)
    /\ UNCHANGED <<peerVersion, tx, recent, queued, extras, version, receiving,
                   net, history>>

SendPacketReliably(p, r) ==
    /\ p \in Senders /\ ~ExtrasKnown
    /\ r \notin {x.load : x \in queued[p] \cup removed[p]}
    /\ queued' = [queued EXCEPT ![p] = @ \cup {[load |-> r, seqs |-> <<>>]}]
    /\ UNCHANGED <<peerVersion, seq, pending, tx, recent, extras, version,
                   receiving, net, history>>

(* The numbers a queued packet was sent under, the newest first.           *)
Remembered(s, seqs) == SubSeq(<<s>> \o seqs, 1,
                              IF Len(seqs) < MaxSeqs THEN Len(seqs) + 1 ELSE MaxSeqs)

(* The tick thread sends a queued packet, for the first time or again.     *)
Retry(p, q) ==
    /\ GenerateOutSeq(p, q.load)
    /\ queued' = [queued EXCEPT ![p] =
                     (@ \ {q}) \cup {[q EXCEPT !.seqs = Remembered(seq[p], @)]}]
    /\ UNCHANGED <<peerVersion, tx, recent, extras, version, receiving, net,
                   history>>

(* The tick thread drops a queued packet after its timeout.                *)
GiveUp(p, q) ==
    /\ q.seqs # <<>>
    /\ queued' = [queued EXCEPT ![p] = @ \ {q}]
    /\ removed' = [removed EXCEPT ![p] = @ \cup {[load |-> q.load, seqs |-> <<>>]}]
    /\ UNCHANGED <<peerVersion, seq, pending, tx, recent, extras, version,
                   receiving, net,
                   accepted, again, jumped, confirmed, seen, overtaken>>

(* Mutant: an extra that is still waiting is not replaced.                 *)
WithExtraOnce(xs, t, d) ==
    IF \E x \in xs : x.type = t THEN xs
    ELSE xs \cup {[type |-> t, data |-> d, first |-> 0]}

(* currentExtras with a new value of an extra, to be numbered by the next  *)
(* header.                                                                 *)
WithExtra(xs, t, d) ==
    {x \in xs : x.type # t} \cup {[type |-> t, data |-> d, first |-> 0]}

SendExtra(p, t) ==
    /\ p \in Senders /\ ExtrasKnown /\ version[p][t] < MaxVersion
    /\ version' = [version EXCEPT ![p][t] = @ + 1]
    /\ extras' = [extras EXCEPT ![p] = WithExtra(@, t, version[p][t] + 1)]
    /\ UNCHANGED <<peerVersion, seq, pending, tx, recent, queued, receiving, net,
                   history>>

-----------------------------------------------------------------------------
(* The send thread                                                         *)

(* It takes a packet and collects the mask from recvPacketTimes.  That     *)
(* Receive may move the entries between two of its reads is left out: no   *)
(* property here depends on the mask's bits belonging together.            *)
CollectAcks(p) ==
    /\ tx[p] = None
    /\ \E d \in pending[p] :
        /\ tx' = [tx EXCEPT ![p] = [pkt |-> d, acks |-> recv[p]]]
        /\ pending' = [pending EXCEPT ![p] = @ \ {d}]
    /\ UNCHANGED <<peerVersion, seq, recent, queued, extras, version, receiving,
                   net, history>>

(* Extras get the number of the first header that contains them.           *)
Numbered(xs, s) ==
    {[x EXCEPT !.first = IF @ = 0 THEN s ELSE @] : x \in xs}

(* What a header carries of an extra.                                      *)
Value(x) == [type |-> x.type, data |-> x.data]

(* recentOutgoingPackets keeps the last MaxRecent packets.                 *)
Recently(rs, s) ==
    LET all == Append(rs, [seq |-> s, acked |-> FALSE]) IN
    IF Len(all) > MaxRecent THEN Tail(all) ELSE all

(* It writes lastRemoteSeq, the mask and the extras and sends the packet.  *)
WritePacketHeader(p) ==
    LET d == tx[p].pkt
        carried == IF ExtrasKnown THEN extras[p] ELSE {} IN
    /\ tx[p] # None
    /\ net' = net \cup
          {[to |-> Other(p), seq |-> d.seq, ack |-> lastRemoteSeq[p],
            acks |-> tx[p].acks, load |-> d.load,
            extras |-> {Value(x) : x \in carried}]}
    /\ extras' = [extras EXCEPT ![p] =
                     IF ExtrasKnown THEN Numbered(@, d.seq) ELSE @]
    /\ recent' = [recent EXCEPT ![p] = Recently(@, d.seq)]
    /\ tx' = [tx EXCEPT ![p] = None]
    /\ overtaken' = [overtaken EXCEPT ![p] =
          IF \E m \in net : m.to = Other(p) /\ m.seq >= d.seq THEN @ \cup {d.seq} ELSE @]
    /\ UNCHANGED <<peerVersion, seq, pending, queued, version, receiving,
                   accepted, again, jumped, removed, confirmed, seen>>

-----------------------------------------------------------------------------
(* The receive thread                                                      *)

(* Mutants: the entries are not moved; the newest one is not set.          *)
ShiftedNot(w, diff) == IF diff > Window - 1 THEN {} ELSE w \cup {0}
ShiftedUnset(w, diff) ==
    IF diff > Window - 1 THEN {} ELSE {i \in diff..(Window - 1) : i - diff \in w}

(* recvPacketTimes moved on by diff with the newest entry set.             *)
Shifted(w, diff) ==
    IF diff > Window - 1 THEN {}
    ELSE {i \in diff..(Window - 1) : i - diff \in w} \cup {0}

(* recvPacketTimes after packet s, and whether the packet goes further: a  *)
(* repeated packet and one that is too late do not.                        *)
Marked(w, last, s) ==
    IF s > last THEN Shifted(w, s - last) ELSE w \cup {last - s}
Fresh(w, last, s) ==
    s > last \/ (last - s < Window /\ last - s \notin w)

(* A packet arrives and is entered into the window.                        *)
Receive(p) ==
    /\ rx[p] = None
    /\ \E m \in net :
        /\ m.to = p /\ Fresh(recv[p], lastRemoteSeq[p], m.seq)
        /\ recv' = [recv EXCEPT ![p] = Marked(@, lastRemoteSeq[p], m.seq)]
        /\ rx' = [rx EXCEPT ![p] = [pkt |-> m, stage |-> "window"]]
        /\ again' = [again EXCEPT ![p] = IF m.seq \in accepted[p] THEN @ \cup {m.seq} ELSE @]
        /\ jumped' = [jumped EXCEPT ![p] =
              IF m.seq > lastRemoteSeq[p] /\ m.seq - lastRemoteSeq[p] > Window - 1
              THEN @ \cup {m.seq} ELSE @]
        /\ accepted' = [accepted EXCEPT ![p] = @ \cup {m.seq}]
    /\ UNCHANGED <<peerVersion, sending, lastRemoteSeq, lastRemoteAckSeq, applied,
                   net, removed, confirmed, seen, overtaken>>

(* Mutant: packets are counted.                                            *)
LastAfterCounted(last, s) == last + 1

LastAfter(last, s) == IF s > last THEN s ELSE last

UpdateLastRemoteSeq(p) ==
    LET s == rx[p].pkt.seq IN
    /\ rx[p] # None /\ rx[p].stage = "window"
    /\ lastRemoteSeq' = [lastRemoteSeq EXCEPT ![p] = LastAfter(@, s)]
    /\ rx' = [rx EXCEPT ![p].stage = "acks"]
    /\ UNCHANGED <<peerVersion, sending, recv, lastRemoteAckSeq, applied, net,
                   history>>

(* The numbers a mask acknowledges: bit 31 - i is read as ackId - (i + 1). *)
MaskedSeqs(ack, acks) ==
    {s \in Seqs : \E i \in acks : i < Window - 1 /\ s + i + 1 = ack}

(* recentOutgoingPackets with what a header acknowledges marked.           *)
WithAcks(rs, ack, acks) ==
    [k \in DOMAIN rs |->
        [rs[k] EXCEPT !.acked = @ \/ rs[k].seq \in MaskedSeqs(ack, acks)]]

(* Mutant: any packet near the acknowledged one counts.                    *)
DidAckNear(q, rs, ack) == \E j \in DOMAIN q.seqs : ack < q.seqs[j] + Window

(* Whether a queued packet counts as acknowledged.                         *)
DidAck(q, rs, ack) ==
    \E j \in DOMAIN q.seqs :
        /\ ack > q.seqs[j] /\ ack - q.seqs[j] < Window
        /\ \E k \in DOMAIN rs : rs[k].seq = q.seqs[j] /\ rs[k].acked

(* Mutant: an extra that no header contains yet counts.                    *)
ExtraAckedUnsent(x, ack) == ack >= x.first

(* Whether an extra counts as acknowledged.                                *)
ExtraAcked(x, ack) == x.first # 0 /\ ack >= x.first

(* A header whose ackId is new acknowledges packets and extras.            *)
ProcessAcks(p, m) ==
    LET rs == WithAcks(recent[p], m.ack, m.acks)
        gone == {q \in queued[p] : DidAck(q, rs, m.ack)}
        read == {x \in extras[p] : ExtraAcked(x, m.ack)} IN
    IF m.ack > lastRemoteAckSeq[p]
    THEN /\ lastRemoteAckSeq' = [lastRemoteAckSeq EXCEPT ![p] = m.ack]
         /\ recent' = [recent EXCEPT ![p] = rs]
         /\ queued' = [queued EXCEPT ![p] = @ \ gone]
         /\ removed' = [removed EXCEPT ![p] = @ \cup gone]
         /\ extras' = [extras EXCEPT ![p] = @ \ read]
         /\ confirmed' = [confirmed EXCEPT ![p] = @ \cup read]
    ELSE UNCHANGED <<lastRemoteAckSeq, recent, queued, removed, extras, confirmed>>

(* Mutant: an extra that is missing from a header is forgotten.            *)
AfterExtrasAbsent(known, xs) ==
    [t \in Types |->
        IF \E x \in xs : x.type = t THEN (CHOOSE x \in xs : x.type = t).data ELSE 0]

(* What a header's extras leave in lastReceivedExtrasByType.               *)
AfterExtras(known, xs) ==
    [t \in Types |->
        IF \E x \in xs : x.type = t THEN (CHOOSE x \in xs : x.type = t).data
        ELSE known[t]]

(* The rest of ProcessIncomingPacket.                                      *)
ProcessIncomingPacket(p) ==
    LET m == rx[p].pkt IN
    /\ rx[p] # None /\ rx[p].stage = "acks"
    /\ ProcessAcks(p, m)
    /\ applied' = [applied EXCEPT ![p] = AfterExtras(@, m.extras)]
    /\ seen' = [seen EXCEPT ![p] = @ \cup m.extras]
    /\ rx' = [rx EXCEPT ![p] = None]
    /\ UNCHANGED <<peerVersion, seq, pending, tx, version, lastRemoteSeq, recv,
                   net, accepted, again, jumped, overtaken>>

-----------------------------------------------------------------------------
Next ==
    \E p \in Peers :
        \/ MakePacket(p)
        \/ \E r \in Reliables : SendPacketReliably(p, r)
        \/ \E q \in queued[p] : Retry(p, q)
        \/ \E q \in queued[p] : GiveUp(p, q)
        \/ \E t \in Types : SendExtra(p, t)
        \/ CollectAcks(p)
        \/ WritePacketHeader(p)
        \/ Receive(p)
        \/ UpdateLastRemoteSeq(p)
        \/ ProcessIncomingPacket(p)

Spec == Init /\ [][Next]_vars

-----------------------------------------------------------------------------
(* Properties                                                              *)

(* The highest number a peer believes acknowledged has arrived at the      *)
(* other end, whatever was lost and however the headers raced with the     *)
(* window (VoIPController.cpp:1203).                                       *)
AckIsAccepted ==
    \A p \in Peers :
        lastRemoteAckSeq[p] = 0 \/ lastRemoteAckSeq[p] \in accepted[Other(p)]

(* Between packets the window tells the truth: an entry is set only for a  *)
(* number that arrived, and a number that arrived and still fits is set,   *)
(* unless it was the one that emptied the window (1163-1175).              *)
WindowIsTrue ==
    \A p \in Peers : rx[p] = None =>
        /\ \A i \in recv[p] : i < lastRemoteSeq[p]
                              /\ lastRemoteSeq[p] - i \in accepted[p]
        /\ \A s \in accepted[p] :
            lastRemoteSeq[p] - s < Window /\ lastRemoteSeq[p] - s \notin recv[p]
                => s \in jumped[p]

(* A repeated packet is processed again only when it is the one that       *)
(* emptied the window (1165-1167, 1176-1180).                              *)
TwiceOnlyAfterJump == \A p \in Peers : again[p] \subseteq jumped[p]

(* A reliable packet leaves the queue as acknowledged only after a packet  *)
(* with a number that it, or a later packet, was sent under has arrived at *)
(* the peer (1224-1251).  RemovedIsAccepted is what it should say.         *)
RemovedIsReached ==
    \A p \in Peers : \A q \in removed[p] : q.seqs # <<>> =>
        \E s \in accepted[Other(p)] : \E j \in DOMAIN q.seqs : s >= q.seqs[j]

(* Violated.  A reliable packet that is removed as acknowledged has        *)
(* arrived at the peer, which is what the log line at 1237 says.           *)
RemovedIsAccepted ==
    \A p \in Peers : \A q \in removed[p] : q.seqs # <<>> =>
        \E s \in accepted[Other(p)] : \E j \in DOMAIN q.seqs : s = q.seqs[j]

(* Violated.  No packet is processed twice: 1177 reports a duplicate and   *)
(* returns.                                                                *)
NeverTwice == \A p \in Peers : again[p] = {}

(* What of the extras has been read by a peer or is about to be.           *)
Known(p) == seen[p] \cup (IF rx[p] # None THEN rx[p].pkt.extras ELSE {})

(* Violated.  An extra that is taken for acknowledged has been read by the *)
(* peer or is about to be: a group call key is reported to the application *)
(* as sent then (1252-1260, 1695), and groupCallKeySent                    *)
(* (VoIPController.h:349) says that it was delivered.                      *)
ConfirmedIsSeen ==
    \A p \in Peers : \A x \in confirmed[p] : Value(x) \in Known(Other(p))

(* That fails only for an extra whose first header was overtaken by a      *)
(* header with a higher number, which does not have the extra and whose    *)
(* acknowledgement is taken for the extra's (621-627, 1252-1260).          *)
ConfirmedIsSeenOrOvertaken ==
    \A p \in Peers : \A x \in confirmed[p] :
        x.first \in overtaken[p] \/ Value(x) \in Known(Other(p))

(* An extra that is neither confirmed nor replaced keeps riding in the     *)
(* headers: the newest value of each type is waiting or was confirmed.     *)
NewestIsKept ==
    \A p \in Peers : \A t \in Types : version[p][t] > 0 =>
        \E x \in extras[p] \cup confirmed[p] : x.type = t /\ x.data = version[p][t]

(* Violated.  A peer goes back to an older value of an extra only when a   *)
(* packet arrives late.                                                    *)
BackOnlyWhenLate ==
    [][\A p \in Peers : \A t \in Types :
          applied'[p][t] < applied[p][t] => rx[p].pkt.seq < lastRemoteSeq[p]]_vars

(* The value a peer has of an extra came in a header that was overtaken,   *)
(* with a number up to s.                                                  *)
CameOvertaken(p, t, s) ==
    \E m \in net :
        /\ m.to = p /\ m.seq <= s /\ m.seq \in accepted[p] \cap overtaken[Other(p)]
        /\ [type |-> t, data |-> applied[p][t]] \in m.extras

(* A peer goes back to an older value of an extra only for two reasons:    *)
(* the packet arrives late, or it arrives in time and the value before it  *)
(* came in a header that was written after one with a higher number.       *)
(* ProcessExtraData compares a value with the last one received, not with  *)
(* its age (1583-1592).                                                    *)
BackOnlyWhenLateOrOvertaken ==
    [][\A p \in Peers : \A t \in Types : applied'[p][t] < applied[p][t] =>
          \/ rx[p].pkt.seq < lastRemoteSeq[p]
          \/ CameOvertaken(p, t, rx[p].pkt.seq)]_vars

=============================================================================
