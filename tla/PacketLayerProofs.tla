------------------------- MODULE PacketLayerProofs -------------------------
(***************************************************************************)
(* Proofs about packets and acknowledgements, for every window, every      *)
(* number of threads that hold a packet and every set of reliable packets  *)
(* and extras.  What depends on the order of headers, that an extra taken  *)
(* for acknowledged was read and that only a late packet brings an older   *)
(* value, is proved for every behaviour in which the send thread writes    *)
(* headers in the order of their numbers, and that order for one thread.   *)
(***************************************************************************)
EXTENDS PacketLayer, SequenceTheorems, FiniteSetTheorems, TLAPS

Recent == [seq : Seqs, acked : BOOLEAN]

(* A peer has one other end, whose other end it is.                        *)
LEMMA OtherEnd ==
    ASSUME NEW p \in Peers
    PROVE  Other(p) \in Peers /\ Other(p) # p /\ Other(Other(p)) = p
<1>1. PICK a \in Peers, b \in Peers : a # b /\ Peers = {a, b}
    BY LayerAssumption
<1>2. ASSUME NEW q \in Peers PROVE Other(q) \in Peers /\ Other(q) # q
    <2>1. \E r \in Peers : r # q
        BY <1>1
    <2> QED BY <2>1 DEF Other
<1> QED BY <1>1, <1>2

(* Numbers are naturals, and none is 0.                                    *)
LEMMA Numbers == Seqs \subseteq Nat \ {0}
BY LayerAssumption DEF Seqs

(* A number that may be drawn is a number.                                 *)
LEMMA DrawnSeq ==
    ASSUME NEW p \in Peers, NEW s \in Nat \ {0}, s <= MaxSent[p]
    PROVE  s \in Seqs
<1>1. s \in 1..MaxSent[p]
    BY LayerAssumption
<1> QED BY <1>1 DEF Seqs

(* A queued packet remembers at most MaxSeqs numbers.                      *)
LEMMA RememberedType ==
    ASSUME NEW s \in Seqs, NEW seqs \in Seq(Seqs), Len(seqs) <= MaxSeqs
    PROVE  /\ Remembered(s, seqs) \in Seq(Seqs)
           /\ Len(Remembered(s, seqs)) <= MaxSeqs
<1> DEFINE all == <<s>> \o seqs
           n == IF Len(seqs) < MaxSeqs THEN Len(seqs) + 1 ELSE MaxSeqs
<1>1. <<s>> \in Seq(Seqs) /\ Len(<<s>>) = 1 /\ Len(seqs) \in Nat
    OBVIOUS
<1>2. all \in Seq(Seqs) /\ Len(all) = 1 + Len(seqs)
    BY <1>1, ConcatProperties
<1>3. n \in Nat /\ n <= MaxSeqs /\ n <= Len(all)
    BY <1>1, <1>2, LayerAssumption
<1> HIDE DEF all, n
<1>4. \A i \in 1..n : all[i] \in Seqs
    BY <1>2, <1>3, ElementOfSeq
<1>5. SubSeq(all, 1, n) \in Seq(Seqs)
      /\ Len(SubSeq(all, 1, n)) = IF 1 <= n THEN n - 1 + 1 ELSE 0
    BY <1>3, <1>4, SubSeqProperties
<1> QED BY <1>3, <1>5, LayerAssumption DEF Remembered, all, n

(* recentOutgoingPackets stays within MaxRecent.                           *)
LEMMA RecentlyType ==
    ASSUME NEW rs \in Seq(Recent), Len(rs) <= MaxRecent, NEW s \in Seqs
    PROVE  Recently(rs, s) \in Seq(Recent) /\ Len(Recently(rs, s)) <= MaxRecent
<1> DEFINE r == [seq |-> s, acked |-> FALSE]
           all == Append(rs, r)
<1>1. r \in Recent
    BY DEF Recent
<1> HIDE DEF r
<1>2. all \in Seq(Recent) /\ all # <<>> /\ Len(all) = Len(rs) + 1
    BY <1>1, AppendProperties
<1>3. Tail(all) \in Seq(Recent) /\ Len(Tail(all)) = Len(all) - 1
    BY <1>2, HeadTailProperties
<1>4. Len(rs) \in Nat
    OBVIOUS
<1> HIDE DEF all
<1>5. Recently(rs, s) = IF Len(all) > MaxRecent THEN Tail(all) ELSE all
    BY DEF Recently, all, r
<1> QED BY <1>2, <1>3, <1>4, <1>5, LayerAssumption

LEMMA WithAcksType ==
    ASSUME NEW rs \in Seq(Recent), NEW ack, NEW acks
    PROVE  /\ WithAcks(rs, ack, acks) \in Seq(Recent)
           /\ Len(WithAcks(rs, ack, acks)) = Len(rs)
<1>1. Len(rs) \in Nat /\ DOMAIN rs = 1..Len(rs) /\ \A k \in 1..Len(rs) : rs[k] \in Recent
    OBVIOUS
<1>2. \A r \in Recent : \A b \in BOOLEAN : [r EXCEPT !.acked = b] \in Recent
    BY DEF Recent
<1> DEFINE ws == WithAcks(rs, ack, acks)
<1>3. ws = [k \in 1..Len(rs) |-> [rs[k] EXCEPT !.acked =
                rs[k].acked \/ rs[k].seq \in MaskedSeqs(ack, acks)]]
    BY <1>1 DEF WithAcks
<1>4. \A k \in 1..Len(rs) : ws[k] \in Recent
    BY <1>1, <1>2, <1>3
<1>5. DOMAIN ws = 1..Len(rs)
    BY <1>3
<1>6. ws \in [1..Len(rs) -> Recent]
    <2> HIDE DEF ws
    <2>1. ws = [k \in 1..Len(rs) |-> ws[k]]
        BY <1>3
    <2> QED BY <1>4, <2>1
<1> HIDE DEF ws
<1> QED BY <1>1, <1>5, <1>6, IsASeq, LenProperties DEF ws

(* The window keeps indices below Window.                                  *)
LEMMA MarkedType ==
    ASSUME NEW w \in Mask, NEW last \in Nat, NEW s \in Nat, Fresh(w, last, s)
    PROVE  Marked(w, last, s) \in Mask
<1>1. Window \in Nat /\ Window >= 2
    BY LayerAssumption
<1>2. CASE s > last
    BY <1>1, <1>2 DEF Marked, Shifted, Mask
<1>3. CASE ~(s > last)
    <2>1. last - s \in 0..(Window - 1)
        BY <1>1, <1>3 DEF Fresh
    <2> QED BY <1>3, <2>1 DEF Marked, Mask
<1> QED BY <1>2, <1>3

(***************************************************************************)
(* Types                                                                   *)
(***************************************************************************)
LEMMA InitType == Init => TypeOK
BY LayerAssumption DEF Init, TypeOK, Mask

(* Drawing a number.                                                       *)
LEMMA GenerateType ==
    ASSUME TypeOK, NEW p \in Peers, NEW load \in Reliables \cup {None},
           GenerateOutSeq(p, load)
    PROVE  /\ seq' \in [Peers -> Nat \ {0}]
           /\ pending' \in [Peers -> SUBSET Drawn]
           /\ seq[p] \in Seqs
<1>1. seq[p] \in Seqs
    BY DrawnSeq DEF GenerateOutSeq, TypeOK
<1>2. [seq |-> seq[p], load |-> load] \in Drawn
    BY <1>1 DEF Drawn
<1> QED BY <1>1, <1>2 DEF GenerateOutSeq, TypeOK

LEMMA MakePacketType ==
    ASSUME TypeOK, NEW p \in Peers, MakePacket(p) PROVE TypeOK'
<1>1. seq' \in [Peers -> Nat \ {0}] /\ pending' \in [Peers -> SUBSET Drawn]
    BY GenerateType DEF MakePacket
<1> QED BY <1>1 DEF TypeOK, MakePacket, receiving, history

LEMMA SendPacketReliablyType ==
    ASSUME TypeOK, NEW p \in Peers, NEW r \in Reliables, SendPacketReliably(p, r)
    PROVE  TypeOK'
<1>1. [load |-> r, seqs |-> <<>>] \in Queued /\ Len(<<>>) <= MaxSeqs
    BY LayerAssumption DEF Queued
<1>2. queued' \in [Peers -> SUBSET Queued]
    BY <1>1 DEF TypeOK, SendPacketReliably
<1>3. \A o \in Peers : \A q \in queued'[o] : Len(q.seqs) <= MaxSeqs
    BY <1>1 DEF TypeOK, SendPacketReliably
<1> QED BY <1>2, <1>3 DEF TypeOK, SendPacketReliably, receiving, history

LEMMA RetryType ==
    ASSUME TypeOK, NEW p \in Peers, NEW q \in queued[p], Retry(p, q)
    PROVE  TypeOK'
<1> DEFINE r == [q EXCEPT !.seqs = Remembered(seq[p], @)]
<1>1. q \in Queued /\ Len(q.seqs) <= MaxSeqs
    BY DEF TypeOK
<1>2. q.load \in Reliables /\ q.seqs \in Seq(Seqs)
    BY <1>1 DEF Queued
<1>3. /\ seq' \in [Peers -> Nat \ {0}] /\ pending' \in [Peers -> SUBSET Drawn]
      /\ seq[p] \in Seqs
    BY <1>2, GenerateType DEF Retry
<1>4. Remembered(seq[p], q.seqs) \in Seq(Seqs) /\ Len(Remembered(seq[p], q.seqs)) <= MaxSeqs
    BY <1>1, <1>2, <1>3, RememberedType
<1>5. r \in Queued /\ Len(r.seqs) <= MaxSeqs
    BY <1>1, <1>4 DEF Queued
<1>6. queued' = [queued EXCEPT ![p] = (queued[p] \ {q}) \cup {r}]
    BY DEF Retry
<1> HIDE DEF r
<1>7. queued' \in [Peers -> SUBSET Queued]
    BY <1>5, <1>6 DEF TypeOK
<1>8. \A o \in Peers : \A x \in queued'[o] : Len(x.seqs) <= MaxSeqs
    BY <1>5, <1>6 DEF TypeOK
<1> QED BY <1>3, <1>7, <1>8 DEF TypeOK, Retry, receiving, history

LEMMA GiveUpType ==
    ASSUME TypeOK, NEW p \in Peers, NEW q \in queued[p], GiveUp(p, q)
    PROVE  TypeOK'
<1>1. [load |-> q.load, seqs |-> <<>>] \in Queued
    BY DEF TypeOK, Queued
<1>2. removed' \in [Peers -> SUBSET Queued]
    BY <1>1 DEF TypeOK, GiveUp
<1>3. queued' \in [Peers -> SUBSET Queued]
      /\ \A o \in Peers : \A x \in queued'[o] : Len(x.seqs) <= MaxSeqs
    BY DEF TypeOK, GiveUp
<1> QED BY <1>2, <1>3 DEF TypeOK, GiveUp, receiving

LEMMA SendExtraType ==
    ASSUME TypeOK, NEW p \in Peers, NEW t \in Types, SendExtra(p, t)
    PROVE  TypeOK'
<1>1. version[p][t] \in 0..MaxVersion /\ version[p][t] < MaxVersion
    BY DEF TypeOK, SendExtra
<1>2. version[p][t] + 1 \in 1..MaxVersion /\ version[p][t] + 1 \in 0..MaxVersion
    BY <1>1, LayerAssumption
<1>3. [type |-> t, data |-> version[p][t] + 1, first |-> 0] \in Waiting
    BY <1>2 DEF Waiting
<1>4. extras' \in [Peers -> SUBSET Waiting]
    BY <1>3 DEF TypeOK, SendExtra, WithExtra, Waiting
<1>5. version' \in [Peers -> [Types -> 0..MaxVersion]]
    BY <1>2 DEF TypeOK, SendExtra
<1> QED BY <1>4, <1>5 DEF TypeOK, SendExtra, receiving, history, Waiting

LEMMA CollectAcksType ==
    ASSUME TypeOK, NEW p \in Peers, CollectAcks(p)
    PROVE  TypeOK'
<1>1. PICK d \in pending[p] :
        /\ tx' = [tx EXCEPT ![p] = [pkt |-> d, acks |-> recv[p]]]
        /\ pending' = [pending EXCEPT ![p] = @ \ {d}]
    BY DEF CollectAcks
<1>2. [pkt |-> d, acks |-> recv[p]] \in Outgoing
    BY DEF TypeOK, Outgoing
<1>3. tx' \in [Peers -> Outgoing \cup {None}] /\ pending' \in [Peers -> SUBSET Drawn]
    BY <1>1, <1>2 DEF TypeOK
<1> QED BY <1>3 DEF TypeOK, CollectAcks, receiving, history

(* The packet that WritePacketHeader sends.                                *)
Header(p) ==
    [to |-> Other(p), seq |-> tx[p].pkt.seq, ack |-> lastRemoteSeq[p],
     acks |-> tx[p].acks, load |-> tx[p].pkt.load,
     extras |-> {Value(x) : x \in IF ExtrasKnown THEN extras[p] ELSE {}}]

LEMMA HeaderType ==
    ASSUME TypeOK, NEW p \in Peers, WritePacketHeader(p)
    PROVE  Header(p) \in Packet /\ net' = net \cup {Header(p)} /\ tx[p].pkt \in Drawn
<1>1. tx[p] \in Outgoing
    BY DEF TypeOK, WritePacketHeader
<1>2. tx[p].pkt \in Drawn /\ tx[p].acks \in Mask
    BY <1>1 DEF Outgoing
<1>3. {Value(x) : x \in extras[p]} \subseteq Extra
    BY DEF TypeOK, Waiting, Extra, Value
<1>4. lastRemoteSeq[p] \in Seqs \cup {0}
    BY DEF TypeOK
<1>5. {Value(x) : x \in IF ExtrasKnown THEN extras[p] ELSE {}} \in SUBSET Extra
    BY <1>3
<1>6. Header(p) \in Packet
    BY <1>2, <1>4, <1>5, OtherEnd DEF Header, Packet, Drawn
<1> QED BY <1>2, <1>6 DEF WritePacketHeader, Header

LEMMA WritePacketHeaderType ==
    ASSUME TypeOK, NEW p \in Peers, WritePacketHeader(p)
    PROVE  TypeOK'
<1> DEFINE s == tx[p].pkt.seq
<1>1. s \in Seqs /\ net' \subseteq Packet
    BY HeaderType DEF TypeOK, Drawn
<1>2. tx' \in [Peers -> Outgoing \cup {None}]
    BY DEF TypeOK, WritePacketHeader
<1>3. recent[p] \in Seq(Recent) /\ Len(recent[p]) <= MaxRecent
    BY DEF TypeOK, Recent
<1>4. Recently(recent[p], s) \in Seq(Recent) /\ Len(Recently(recent[p], s)) <= MaxRecent
    BY <1>1, <1>3, RecentlyType
<1>5. recent' = [recent EXCEPT ![p] = Recently(recent[p], s)]
    BY DEF WritePacketHeader
<1> HIDE DEF s
<1>6. recent' \in [Peers -> Seq([seq : Seqs, acked : BOOLEAN])]
      /\ \A o \in Peers : Len(recent'[o]) <= MaxRecent
    BY <1>4, <1>5 DEF TypeOK, Recent
<1>7. \A x \in Waiting : [x EXCEPT !.first = IF @ = 0 THEN s ELSE @] \in Waiting
    BY <1>1 DEF Waiting
<1>8. Numbered(extras[p], s) \subseteq Waiting
    BY <1>7 DEF Numbered, TypeOK, Waiting
<1>9. extras' \in [Peers -> SUBSET Waiting]
    BY <1>8 DEF TypeOK, WritePacketHeader, Waiting, s
<1>10. overtaken' \in [Peers -> SUBSET Seqs]
    BY <1>1 DEF TypeOK, WritePacketHeader, s
<1> QED BY <1>1, <1>2, <1>6, <1>9, <1>10 DEF TypeOK, WritePacketHeader, receiving

(* What the receive thread does with the packet m it takes.                *)
Takes(p, m) ==
    /\ m.to = p /\ Fresh(recv[p], lastRemoteSeq[p], m.seq)
    /\ recv' = [recv EXCEPT ![p] = Marked(@, lastRemoteSeq[p], m.seq)]
    /\ rx' = [rx EXCEPT ![p] = [pkt |-> m, stage |-> "window"]]
    /\ again' = [again EXCEPT ![p] = IF m.seq \in accepted[p] THEN @ \cup {m.seq} ELSE @]
    /\ jumped' = [jumped EXCEPT ![p] =
          IF m.seq > lastRemoteSeq[p] /\ m.seq - lastRemoteSeq[p] > Window - 1
          THEN @ \cup {m.seq} ELSE @]
    /\ accepted' = [accepted EXCEPT ![p] = @ \cup {m.seq}]

LEMMA ReceiveType ==
    ASSUME TypeOK, NEW p \in Peers, Receive(p)
    PROVE  TypeOK'
<1>1. PICK m \in net : Takes(p, m)
    BY DEF Receive, Takes
<1>2. m \in Packet /\ m.seq \in Seqs
    BY DEF TypeOK, Packet
<1>3. [pkt |-> m, stage |-> "window"] \in Incoming
    BY <1>2 DEF Incoming
<1>4. rx' \in [Peers -> Incoming \cup {None}]
    BY <1>1, <1>3 DEF TypeOK, Takes
<1>5. recv[p] \in Mask /\ lastRemoteSeq[p] \in Nat /\ m.seq \in Nat
    <2>1. recv[p] \in Mask /\ lastRemoteSeq[p] \in Seqs \cup {0}
        BY DEF TypeOK
    <2>2. \A s \in Seqs \cup {0} : s \in Nat
        BY Numbers
    <2> QED BY <1>2, <2>1, <2>2
<1>6. Marked(recv[p], lastRemoteSeq[p], m.seq) \in Mask
    BY <1>1, <1>5, MarkedType DEF Takes
<1>7. recv' \in [Peers -> Mask]
    BY <1>1, <1>6 DEF TypeOK, Takes
<1>8. /\ accepted' \in [Peers -> SUBSET Seqs] /\ again' \in [Peers -> SUBSET Seqs]
      /\ jumped' \in [Peers -> SUBSET Seqs]
    BY <1>1, <1>2 DEF TypeOK, Takes
<1> QED BY <1>4, <1>7, <1>8 DEF TypeOK, Receive, sending

(* A packet at the receive thread.                                         *)
LEMMA IncomingType ==
    ASSUME TypeOK, NEW p \in Peers, rx[p] # None
    PROVE  /\ rx[p] \in Incoming /\ rx[p].pkt \in Packet
           /\ rx[p].pkt.seq \in Seqs /\ rx[p].pkt.ack \in Seqs \cup {0}
           /\ rx[p].pkt.extras \subseteq Extra
<1>1. rx[p] \in Incoming
    BY DEF TypeOK
<1>2. rx[p].pkt \in Packet
    BY <1>1 DEF Incoming
<1> QED BY <1>1, <1>2 DEF Packet

LEMMA UpdateType ==
    ASSUME TypeOK, NEW p \in Peers, UpdateLastRemoteSeq(p)
    PROVE  TypeOK'
<1>1. rx[p] \in Incoming /\ rx[p].pkt.seq \in Seqs
    BY IncomingType DEF UpdateLastRemoteSeq
<1>2. [rx[p] EXCEPT !.stage = "acks"] \in Incoming
    BY <1>1 DEF Incoming
<1>3. rx' \in [Peers -> Incoming \cup {None}]
    BY <1>2 DEF TypeOK, UpdateLastRemoteSeq
<1>4. lastRemoteSeq' \in [Peers -> Seqs \cup {0}]
    BY <1>1 DEF TypeOK, UpdateLastRemoteSeq, LastAfter
<1> QED BY <1>3, <1>4 DEF TypeOK, UpdateLastRemoteSeq, sending, history

(* What a header acknowledges.                                             *)
Gone(p, m) ==
    {q \in queued[p] : DidAck(q, WithAcks(recent[p], m.ack, m.acks), m.ack)}
Read(p, m) == {x \in extras[p] : ExtraAcked(x, m.ack)}
Acknowledges(p, m) ==
    /\ lastRemoteAckSeq' = [lastRemoteAckSeq EXCEPT ![p] = m.ack]
    /\ recent' = [recent EXCEPT ![p] = WithAcks(@, m.ack, m.acks)]
    /\ queued' = [queued EXCEPT ![p] = @ \ Gone(p, m)]
    /\ removed' = [removed EXCEPT ![p] = @ \cup Gone(p, m)]
    /\ extras' = [extras EXCEPT ![p] = @ \ Read(p, m)]
    /\ confirmed' = [confirmed EXCEPT ![p] = @ \cup Read(p, m)]

LEMMA AcksAreNewOrIgnored ==
    ASSUME NEW p \in Peers, NEW m, ProcessAcks(p, m)
    PROVE  \/ Acknowledges(p, m)
           \/ UNCHANGED <<lastRemoteAckSeq, recent, queued, removed, extras, confirmed>>
<1>1. CASE m.ack > lastRemoteAckSeq[p]
    BY <1>1 DEF ProcessAcks, Acknowledges, Gone, Read
<1>2. CASE ~(m.ack > lastRemoteAckSeq[p])
    BY <1>2 DEF ProcessAcks
<1> QED BY <1>1, <1>2

LEMMA AcknowledgesType ==
    ASSUME TypeOK, NEW p \in Peers, NEW m, m.ack \in Seqs \cup {0}, Acknowledges(p, m)
    PROVE  /\ recent' \in [Peers -> Seq([seq : Seqs, acked : BOOLEAN])]
           /\ \A o \in Peers : Len(recent'[o]) <= MaxRecent
           /\ queued' \in [Peers -> SUBSET Queued]
           /\ \A o \in Peers : \A q \in queued'[o] : Len(q.seqs) <= MaxSeqs
           /\ extras' \in [Peers -> SUBSET Waiting]
           /\ lastRemoteAckSeq' \in [Peers -> Seqs \cup {0}]
           /\ removed' \in [Peers -> SUBSET Queued]
           /\ confirmed' \in [Peers -> SUBSET Waiting]
<1> DEFINE rs == WithAcks(recent[p], m.ack, m.acks)
<1>1. recent[p] \in Seq(Recent) /\ Len(recent[p]) <= MaxRecent
    BY DEF TypeOK, Recent
<1>2. rs \in Seq(Recent) /\ Len(rs) = Len(recent[p])
    BY <1>1, WithAcksType
<1>3. recent' = [recent EXCEPT ![p] = rs]
    BY DEF Acknowledges
<1> HIDE DEF rs
<1>4. recent' \in [Peers -> Seq([seq : Seqs, acked : BOOLEAN])]
      /\ \A o \in Peers : Len(recent'[o]) <= MaxRecent
    BY <1>1, <1>2, <1>3 DEF TypeOK, Recent
<1>5. Gone(p, m) \subseteq queued[p] /\ Read(p, m) \subseteq extras[p]
    BY DEF Gone, Read
<1>6. Read(p, m) \subseteq Waiting
    BY <1>5 DEF TypeOK
<1>7. queued' \in [Peers -> SUBSET Queued] /\ removed' \in [Peers -> SUBSET Queued]
    BY <1>5 DEF TypeOK, Acknowledges
<1>8. \A o \in Peers : \A q \in queued'[o] : Len(q.seqs) <= MaxSeqs
    BY DEF TypeOK, Acknowledges
<1>9. extras' \in [Peers -> SUBSET Waiting]
    BY DEF TypeOK, Acknowledges
<1>10. lastRemoteAckSeq' \in [Peers -> Seqs \cup {0}]
    BY DEF TypeOK, Acknowledges
<1>11. confirmed' \in [Peers -> SUBSET Waiting]
    BY <1>6 DEF TypeOK, Acknowledges
<1> QED BY <1>4, <1>7, <1>8, <1>9, <1>10, <1>11

LEMMA ProcessType ==
    ASSUME TypeOK, NEW p \in Peers, ProcessIncomingPacket(p)
    PROVE  TypeOK'
<1> DEFINE m == rx[p].pkt
<1>1. m.ack \in Seqs \cup {0} /\ m.extras \subseteq Extra
    BY IncomingType DEF ProcessIncomingPacket
<1>2. rx' \in [Peers -> Incoming \cup {None}]
    BY DEF TypeOK, ProcessIncomingPacket
<1>3. seen' \in [Peers -> SUBSET Extra]
    BY <1>1 DEF TypeOK, ProcessIncomingPacket
<1>4. applied' \in [Peers -> [Types -> 0..MaxVersion]]
    <2>1. AfterExtras(applied[p], m.extras) \in [Types -> 0..MaxVersion]
        <3> SUFFICES ASSUME NEW t \in Types
                     PROVE  (IF \E x \in m.extras : x.type = t
                             THEN (CHOOSE x \in m.extras : x.type = t).data
                             ELSE applied[p][t]) \in 0..MaxVersion
            BY DEF AfterExtras
        <3>1. CASE \E x \in m.extras : x.type = t
            <4>1. (CHOOSE x \in m.extras : x.type = t) \in Extra
                BY <1>1, <3>1
            <4> QED BY <3>1, <4>1, LayerAssumption DEF Extra
        <3>2. CASE ~(\E x \in m.extras : x.type = t)
            BY <3>2 DEF TypeOK
        <3> QED BY <3>1, <3>2
    <2> QED BY <2>1 DEF TypeOK, ProcessIncomingPacket
<1>5. ProcessAcks(p, m)
    BY DEF ProcessIncomingPacket
<1>6. CASE Acknowledges(p, m)
    <2> HIDE DEF m
    <2>1. /\ recent' \in [Peers -> Seq([seq : Seqs, acked : BOOLEAN])]
          /\ \A o \in Peers : Len(recent'[o]) <= MaxRecent
          /\ queued' \in [Peers -> SUBSET Queued]
          /\ \A o \in Peers : \A q \in queued'[o] : Len(q.seqs) <= MaxSeqs
          /\ extras' \in [Peers -> SUBSET Waiting]
          /\ lastRemoteAckSeq' \in [Peers -> Seqs \cup {0}]
          /\ removed' \in [Peers -> SUBSET Queued]
          /\ confirmed' \in [Peers -> SUBSET Waiting]
        BY <1>1, <1>6, AcknowledgesType
    <2> QED BY <1>2, <1>3, <1>4, <2>1 DEF TypeOK, ProcessIncomingPacket
<1>7. CASE UNCHANGED <<lastRemoteAckSeq, recent, queued, removed, extras, confirmed>>
    BY <1>2, <1>3, <1>4, <1>7 DEF TypeOK, ProcessIncomingPacket
<1> HIDE DEF m
<1> QED BY <1>5, <1>6, <1>7, AcksAreNewOrIgnored

LEMMA NextType == TypeOK /\ [Next]_vars => TypeOK'
<1> SUFFICES ASSUME TypeOK, [Next]_vars PROVE TypeOK'
    OBVIOUS
<1>1. ASSUME NEW p \in Peers, MakePacket(p) PROVE TypeOK'
    BY <1>1, MakePacketType
<1>2. ASSUME NEW p \in Peers, NEW r \in Reliables, SendPacketReliably(p, r) PROVE TypeOK'
    BY <1>2, SendPacketReliablyType
<1>3. ASSUME NEW p \in Peers, NEW q \in queued[p], Retry(p, q) PROVE TypeOK'
    BY <1>3, RetryType
<1>4. ASSUME NEW p \in Peers, NEW q \in queued[p], GiveUp(p, q) PROVE TypeOK'
    BY <1>4, GiveUpType
<1>5. ASSUME NEW p \in Peers, NEW t \in Types, SendExtra(p, t) PROVE TypeOK'
    BY <1>5, SendExtraType
<1>6. ASSUME NEW p \in Peers, CollectAcks(p) PROVE TypeOK'
    BY <1>6, CollectAcksType
<1>7. ASSUME NEW p \in Peers, WritePacketHeader(p) PROVE TypeOK'
    BY <1>7, WritePacketHeaderType
<1>8. ASSUME NEW p \in Peers, Receive(p) PROVE TypeOK'
    BY <1>8, ReceiveType
<1>9. ASSUME NEW p \in Peers, UpdateLastRemoteSeq(p) PROVE TypeOK'
    BY <1>9, UpdateType
<1>10. ASSUME NEW p \in Peers, ProcessIncomingPacket(p) PROVE TypeOK'
    BY <1>10, ProcessType
<1>11. CASE UNCHANGED vars
    BY <1>11 DEF TypeOK, vars, sending, receiving, history
<1> QED BY <1>1, <1>2, <1>3, <1>4, <1>5, <1>6, <1>7, <1>8, <1>9, <1>10, <1>11 DEF Next

(***************************************************************************)
(* The invariant                                                           *)
(*                                                                         *)
(* Between the two steps of the receive thread recvPacketTimes is already  *)
(* that of the new lastRemoteSeq: Last is the number that the window       *)
(* counts from.                                                            *)
(***************************************************************************)
Last(p) ==
    IF rx[p] # None /\ rx[p].stage = "window"
    THEN LastAfter(lastRemoteSeq[p], rx[p].pkt.seq) ELSE lastRemoteSeq[p]

(* A window w that counts from last, the numbers that arrived and the ones *)
(* that emptied the window.                                                *)
True(w, last, arrived, jumps) ==
    /\ \A i \in w : i < last /\ last - i \in arrived
    /\ \A s \in arrived :
        /\ s <= last
        /\ last - s < Window /\ last - s \notin w => s \in jumps

WindowInv == \A p \in Peers : True(recv[p], Last(p), accepted[p], jumped[p])

(* What a header may acknowledge.                                          *)
Arrived(p) == accepted[p] \cup {0}
LastInv == \A p \in Peers : lastRemoteSeq[p] \in Arrived(p)
NetInv == \A m \in net : m.ack \in Arrived(Other(m.to))
RxInv == \A p \in Peers : rx[p] # None =>
            rx[p].pkt \in net /\ rx[p].pkt.to = p /\ rx[p].pkt.seq \in accepted[p]

Inv ==
    /\ TypeOK /\ WindowInv /\ LastInv /\ NetInv /\ RxInv
    /\ AckIsAccepted /\ TwiceOnlyAfterJump /\ RemovedIsReached /\ NewestIsKept

LEMMA InitInv == Init => Inv
<1> SUFFICES ASSUME Init PROVE Inv
    OBVIOUS
<1>1. TypeOK
    BY InitType
<1>2. WindowInv
    BY DEF Init, WindowInv, True
<1>3. LastInv /\ NetInv /\ RxInv
    BY DEF Init, LastInv, NetInv, RxInv, Arrived
<1>4. AckIsAccepted /\ TwiceOnlyAfterJump /\ RemovedIsReached /\ NewestIsKept
    BY DEF Init, AckIsAccepted, TwiceOnlyAfterJump, RemovedIsReached, NewestIsKept
<1> QED BY <1>1, <1>2, <1>3, <1>4 DEF Inv

(* Entering a packet keeps the window true, and a packet that arrived      *)
(* before gets past it only if it emptied the window.                      *)
LEMMA MarkedTrue ==
    ASSUME NEW w \in Mask, NEW last \in Nat, NEW arrived \in SUBSET Seqs,
           NEW jumps \in SUBSET Seqs, True(w, last, arrived, jumps),
           NEW s \in Seqs, Fresh(w, last, s)
    PROVE  /\ True(Marked(w, last, s), LastAfter(last, s), arrived \cup {s},
                   IF s > last /\ s - last > Window - 1 THEN jumps \cup {s} ELSE jumps)
           /\ s \in arrived => s \in jumps
<1>1. Window \in Nat /\ Window >= 2 /\ s \in Nat \ {0}
    BY LayerAssumption, Numbers
<1>2. arrived \subseteq Nat /\ \A i \in w : i \in 0..(Window - 1)
    BY Numbers DEF Mask
<1>3. CASE s > last /\ s - last > Window - 1
    <2>1. Marked(w, last, s) = {} /\ LastAfter(last, s) = s
        BY <1>3 DEF Marked, Shifted, LastAfter
    <2>2. \A a \in arrived : a <= s /\ ~(s - a < Window)
        BY <1>1, <1>2, <1>3 DEF True
    <2>3. s \notin arrived
        BY <1>1, <2>2
    <2>4. True({}, s, arrived \cup {s}, jumps \cup {s})
        BY <1>1, <2>2 DEF True
    <2> QED BY <1>3, <2>1, <2>3, <2>4
<1>4. CASE s > last /\ ~(s - last > Window - 1)
    <2> DEFINE d == s - last
               v == {i \in d..(Window - 1) : i - d \in w} \cup {0}
    <2>1. Marked(w, last, s) = v /\ LastAfter(last, s) = s
        BY <1>4 DEF Marked, Shifted, LastAfter
    <2>2. s \notin arrived
        BY <1>1, <1>2, <1>4 DEF True
    <2>3. d \in Nat /\ s = last + d /\ d > 0
        BY <1>1, <1>4
    <2>4. \A i \in v : i = 0 \/ (i \in d..(Window - 1) /\ i - d \in w)
        OBVIOUS
    <2>5. \A i \in d..(Window - 1) : i - d \in w => i \in v
        OBVIOUS
    <2>6. 0 \in v
        OBVIOUS
    <2> HIDE DEF d, v
    <2>7. ASSUME NEW i \in v PROVE i < s /\ s - i \in arrived \cup {s}
        <3>1. CASE i = 0
            BY <1>1, <3>1
        <3>2. CASE i \in d..(Window - 1) /\ i - d \in w
            <4>1. i - d < last /\ last - (i - d) \in arrived
                BY <3>2 DEF True
            <4>2. last - (i - d) = s - i /\ i \in Int
                BY <1>1, <2>3, <3>2
            <4> QED BY <1>1, <2>3, <4>1, <4>2
        <3> QED BY <2>4, <3>1, <3>2
    <2>8. ASSUME NEW a \in arrived \cup {s}
          PROVE  a <= s /\ (s - a < Window /\ s - a \notin v => a \in jumps)
        <3>1. CASE a = s
            BY <1>1, <2>6, <3>1
        <3>2. CASE a \in arrived
            <4>1. a \in Nat /\ a <= last
                  /\ (last - a < Window /\ last - a \notin w => a \in jumps)
                BY <1>2, <3>2 DEF True
            <4>2. a <= s
                BY <1>1, <2>3, <4>1
            <4>3. ASSUME s - a < Window, s - a \notin v PROVE a \in jumps
                <5>1. s - a \in d..(Window - 1) /\ (s - a) - d = last - a
                    BY <1>1, <2>3, <4>1, <4>3
                <5>2. last - a \notin w
                    BY <2>5, <4>3, <5>1
                <5> QED BY <1>1, <2>3, <4>1, <4>3, <5>2
            <4> QED BY <4>2, <4>3
        <3> QED BY <2>8, <3>1, <3>2
    <2>9. True(v, s, arrived \cup {s}, jumps)
        BY <2>7, <2>8 DEF True
    <2> QED BY <1>4, <2>1, <2>2, <2>9
<1>5. CASE ~(s > last)
    <2>1. Marked(w, last, s) = w \cup {last - s} /\ LastAfter(last, s) = last
        BY <1>5 DEF Marked, LastAfter
    <2>2. last - s < Window /\ last - s \notin w
        BY <1>5 DEF Fresh
    <2>3. s \in arrived => s \in jumps
        BY <2>2 DEF True
    <2>4. s <= last /\ last - s < last /\ last - (last - s) = s
        BY <1>1, <1>5
    <2>5. True(w \cup {last - s}, last, arrived \cup {s}, jumps)
        BY <2>4 DEF True
    <2> QED BY <1>5, <2>1, <2>3, <2>5
<1> QED BY <1>3, <1>4, <1>5

(***************************************************************************)
(* One lemma per action.  Most actions leave alone what an invariant is    *)
(* about.                                                                  *)
(***************************************************************************)
LEMMA WindowKept ==
    ASSUME WindowInv, TwiceOnlyAfterJump,
           UNCHANGED <<recv, rx, lastRemoteSeq, accepted, again, jumped>>
    PROVE  WindowInv' /\ TwiceOnlyAfterJump'
BY DEF WindowInv, TwiceOnlyAfterJump, True, Last

LEMMA AcksKept ==
    ASSUME LastInv, NetInv, RxInv, AckIsAccepted,
           UNCHANGED <<lastRemoteSeq, net, rx, accepted, lastRemoteAckSeq>>
    PROVE  LastInv' /\ NetInv' /\ RxInv' /\ AckIsAccepted'
BY DEF LastInv, NetInv, RxInv, AckIsAccepted, Arrived

LEMMA RemovedKept ==
    ASSUME RemovedIsReached, UNCHANGED <<removed, accepted>>
    PROVE  RemovedIsReached'
BY DEF RemovedIsReached

LEMMA NewestKept ==
    ASSUME NewestIsKept, UNCHANGED <<version, extras, confirmed>>
    PROVE  NewestIsKept'
BY DEF NewestIsKept

(* Steps that touch neither the window, the headers nor the extras.        *)
LEMMA MakingInv ==
    ASSUME Inv, UNCHANGED <<version, extras, receiving, net, history>>, TypeOK'
    PROVE  Inv'
BY WindowKept, AcksKept, RemovedKept, NewestKept DEF Inv, receiving, history

LEMMA GiveUpInv ==
    ASSUME Inv, NEW p \in Peers, NEW q \in queued[p], GiveUp(p, q)
    PROVE  Inv'
<1>1. TypeOK'
    BY GiveUpType DEF Inv
<1>2. /\ UNCHANGED <<version, extras, receiving, net, accepted, again, jumped, confirmed>>
      /\ removed' = [removed EXCEPT ![p] = @ \cup {[load |-> q.load, seqs |-> <<>>]}]
    BY DEF GiveUp
<1>3. RemovedIsReached'
    <2> SUFFICES ASSUME NEW o \in Peers, NEW x \in removed'[o], x.seqs # <<>>
                 PROVE  x \in removed[o]
        BY <1>2 DEF Inv, RemovedIsReached
    <2>1. [load |-> q.load, seqs |-> <<>>].seqs = <<>> /\ DOMAIN removed = Peers
        BY DEF Inv, TypeOK
    <2> QED BY <1>2, <2>1
<1> QED BY <1>1, <1>2, <1>3, WindowKept, AcksKept, NewestKept DEF Inv, receiving

(* A new value replaces the one that waits.                                *)
LEMMA SendExtraInv ==
    ASSUME Inv, NEW p \in Peers, NEW t \in Types, SendExtra(p, t)
    PROVE  Inv'
<1>1. TypeOK'
    BY SendExtraType DEF Inv
<1>2. UNCHANGED <<receiving, net, history>>
    BY DEF SendExtra
<1>3. version \in [Peers -> [Types -> 0..MaxVersion]] /\ DOMAIN extras = Peers
    BY DEF Inv, TypeOK
<1>4. NewestIsKept'
    <2> SUFFICES ASSUME NEW o \in Peers, NEW u \in Types, version'[o][u] > 0
                 PROVE  \E x \in extras'[o] \cup confirmed'[o] :
                            x.type = u /\ x.data = version'[o][u]
        BY DEF NewestIsKept
    <2> DEFINE x == [type |-> t, data |-> version[p][t] + 1, first |-> 0]
    <2>1. CASE o = p /\ u = t
        <3>1. x \in extras'[p] /\ version'[p][t] = version[p][t] + 1
            BY <1>3 DEF SendExtra, WithExtra
        <3>2. x.type = t /\ x.data = version[p][t] + 1
            OBVIOUS
        <3> QED BY <2>1, <3>1, <3>2
    <2>2. CASE o # p \/ u # t
        <3>1. version'[o][u] = version[o][u] /\ confirmed'[o] = confirmed[o]
            BY <1>2, <1>3, <2>2 DEF SendExtra, history
        <3>2. \A y \in extras[o] : y.type = u => y \in extras'[o]
            BY <1>3, <2>2 DEF SendExtra, WithExtra
        <3>3. PICK y \in extras[o] \cup confirmed[o] : y.type = u /\ y.data = version[o][u]
            BY <2>2, <3>1 DEF Inv, NewestIsKept
        <3>4. y \in extras'[o] \cup confirmed'[o]
            BY <3>1, <3>2, <3>3
        <3> QED BY <3>1, <3>3, <3>4
    <2> QED BY <2>1, <2>2
<1> QED BY <1>1, <1>2, <1>4, WindowKept, AcksKept, RemovedKept DEF Inv, receiving,
    history

(* A header says what has arrived, and numbering an extra does not change  *)
(* its value.                                                              *)
LEMMA WritePacketHeaderInv ==
    ASSUME Inv, NEW p \in Peers, WritePacketHeader(p)
    PROVE  Inv'
<1>1. TypeOK /\ TypeOK'
    BY WritePacketHeaderType DEF Inv
<1>2. UNCHANGED <<receiving, version, accepted, again, jumped, removed, confirmed>>
    BY DEF WritePacketHeader
<1>3. net' = net \cup {Header(p)}
    BY <1>1, HeaderType
<1>4. Header(p).to = Other(p) /\ Header(p).ack = lastRemoteSeq[p]
    BY DEF Header
<1>5. Arrived(Other(Header(p).to)) = Arrived(p)
    BY <1>4, OtherEnd
<1>6. NetInv'
    <2>1. Header(p).ack \in Arrived(Other(Header(p).to))
        BY <1>4, <1>5 DEF Inv, LastInv
    <2> QED BY <1>2, <1>3, <2>1 DEF Inv, NetInv, Arrived
<1>7. RxInv'
    BY <1>2, <1>3 DEF Inv, RxInv, receiving
<1>8. LastInv' /\ AckIsAccepted'
    BY <1>2 DEF Inv, LastInv, AckIsAccepted, Arrived, receiving
<1>9. NewestIsKept'
    <2> DEFINE n(x) == [x EXCEPT !.first = IF @ = 0 THEN tx[p].pkt.seq ELSE @]
    <2>1. \A x \in extras[p] : n(x).type = x.type /\ n(x).data = x.data
        BY <1>1 DEF TypeOK
    <2>2. extras' = [extras EXCEPT ![p] = IF ExtrasKnown THEN Numbered(extras[p], tx[p].pkt.seq)
                                          ELSE extras[p]]
        BY DEF WritePacketHeader
    <2>3. Numbered(extras[p], tx[p].pkt.seq) = {n(x) : x \in extras[p]}
        BY DEF Numbered
    <2> HIDE DEF n
    <2>4. ASSUME NEW o \in Peers, NEW x \in extras[o]
          PROVE  \E y \in extras'[o] : y.type = x.type /\ y.data = x.data
        <3>1. CASE o = p /\ ExtrasKnown
            <4>1. extras'[p] = {n(z) : z \in extras[p]}
                BY <1>1, <2>2, <2>3, <3>1 DEF TypeOK
            <4> QED BY <2>1, <2>4, <3>1, <4>1
        <3>2. CASE ~(o = p /\ ExtrasKnown)
            <4>1. extras'[o] = extras[o]
                BY <1>1, <2>2, <3>2 DEF TypeOK
            <4> QED BY <4>1
        <3> QED BY <3>1, <3>2
    <2> QED BY <1>2, <2>4 DEF Inv, NewestIsKept
<1> QED BY <1>1, <1>2, <1>6, <1>7, <1>8, <1>9, WindowKept, RemovedKept
        DEF Inv, receiving

(* A packet is entered into the window: lastRemoteSeq is still the old one.*)
LEMMA ReceiveInv ==
    ASSUME Inv, NEW p \in Peers, Receive(p)
    PROVE  Inv'
<1>1. TypeOK /\ TypeOK' /\ rx[p] = None
    BY ReceiveType DEF Inv, Receive
<1>2. PICK m \in net : Takes(p, m)
    BY DEF Receive, Takes
<1>3. /\ UNCHANGED <<lastRemoteSeq, lastRemoteAckSeq, net, removed, confirmed>>
      /\ UNCHANGED <<version, extras>>
    BY DEF Receive, sending
<1> DEFINE s == m.seq
           last == lastRemoteSeq[p]
           r == [pkt |-> m, stage |-> "window"]
<1>4. m \in Packet /\ s \in Seqs /\ r \in Incoming
    BY <1>1 DEF TypeOK, Packet, Incoming
<1>5. r # None /\ r.pkt = m /\ r.stage = "window"
    BY <1>4, NoneAssumption
<1>6. /\ recv' = [recv EXCEPT ![p] = Marked(recv[p], last, s)]
      /\ rx' = [rx EXCEPT ![p] = r]
      /\ again' = [again EXCEPT ![p] = IF s \in accepted[p] THEN @ \cup {s} ELSE @]
      /\ jumped' = [jumped EXCEPT ![p] =
            IF s > last /\ s - last > Window - 1 THEN jumped[p] \cup {s} ELSE jumped[p]]
      /\ accepted' = [accepted EXCEPT ![p] = @ \cup {s}]
      /\ m.to = p /\ Fresh(recv[p], last, s)
    BY <1>2 DEF Takes
<1>7. /\ recv \in [Peers -> Mask] /\ DOMAIN rx = Peers
      /\ accepted \in [Peers -> SUBSET Seqs] /\ jumped \in [Peers -> SUBSET Seqs]
      /\ DOMAIN again = Peers
    BY <1>1 DEF TypeOK
<1>8. last \in Nat
    <2>1. last \in Seqs \cup {0}
        BY <1>1 DEF TypeOK
    <2>2. \A n \in Seqs \cup {0} : n \in Nat
        BY Numbers
    <2> QED BY <2>1, <2>2
<1>9. True(recv[p], last, accepted[p], jumped[p])
    BY <1>1 DEF Inv, WindowInv, Last
<1> HIDE DEF s, last, r
<1>10. /\ True(Marked(recv[p], last, s), LastAfter(last, s), accepted[p] \cup {s},
               IF s > last /\ s - last > Window - 1 THEN jumped[p] \cup {s} ELSE jumped[p])
       /\ s \in accepted[p] => s \in jumped[p]
    <2>1. recv[p] \in Mask /\ accepted[p] \in SUBSET Seqs /\ jumped[p] \in SUBSET Seqs
        BY <1>7
    <2>2. Fresh(recv[p], last, s)
        BY <1>6
    <2>3. s \in Seqs
        BY <1>4
    <2> QED BY <1>8, <1>9, <2>1, <2>2, <2>3, MarkedTrue
<1>11. \A o \in Peers : accepted[o] \subseteq accepted'[o] /\ jumped[o] \subseteq jumped'[o]
    BY <1>6, <1>7
<1>12. WindowInv'
    <2> SUFFICES ASSUME NEW o \in Peers
                 PROVE  True(recv'[o], Last(o)', accepted'[o], jumped'[o])
        BY DEF WindowInv, True
    <2>1. CASE o = p
        <3>1. rx'[p] = r /\ lastRemoteSeq'[p] = last /\ rx'[p].pkt.seq = s
            BY <1>3, <1>5, <1>6, <1>7 DEF last, s
        <3>2. Last(p)' = LastAfter(last, s)
            BY <1>5, <3>1 DEF Last
        <3>3. /\ recv'[p] = Marked(recv[p], last, s) /\ accepted'[p] = accepted[p] \cup {s}
              /\ jumped'[p] = IF s > last /\ s - last > Window - 1
                              THEN jumped[p] \cup {s} ELSE jumped[p]
            BY <1>6, <1>7
        <3> QED BY <1>10, <2>1, <3>2, <3>3
    <2>2. CASE o # p
        <3>1. /\ recv'[o] = recv[o] /\ rx'[o] = rx[o] /\ accepted'[o] = accepted[o]
              /\ jumped'[o] = jumped[o]
            BY <1>6, <1>7, <2>2
        <3>2. Last(o)' = Last(o)
            BY <1>3, <3>1 DEF Last
        <3> QED BY <3>1, <3>2 DEF Inv, WindowInv
    <2> QED BY <2>1, <2>2
<1>13. TwiceOnlyAfterJump'
    <2> SUFFICES ASSUME NEW o \in Peers, NEW a \in again'[o] PROVE a \in jumped'[o]
        BY DEF TwiceOnlyAfterJump
    <2>1. a \in again[o] \/ (o = p /\ a = s /\ s \in accepted[p])
        BY <1>6, <1>7
    <2> QED BY <1>10, <1>11, <2>1 DEF Inv, TwiceOnlyAfterJump
<1>14. LastInv' /\ AckIsAccepted'
    BY <1>3, <1>11, OtherEnd DEF Inv, LastInv, AckIsAccepted, Arrived
<1>15. NetInv'
    <2>1. \A n \in net : n.to \in Peers
        BY <1>1 DEF TypeOK, Packet
    <2> QED BY <1>3, <1>11, <2>1, OtherEnd DEF Inv, NetInv, Arrived
<1>16. RxInv'
    <2> SUFFICES ASSUME NEW o \in Peers, rx'[o] # None
                 PROVE  rx'[o].pkt \in net /\ rx'[o].pkt.to = o
                        /\ rx'[o].pkt.seq \in accepted'[o]
        BY <1>3 DEF RxInv
    <2>1. CASE o = p
        <3>1. rx'[p].pkt = m /\ s \in accepted'[p]
            BY <1>5, <1>6, <1>7
        <3> QED BY <1>6, <2>1, <3>1 DEF s
    <2>2. CASE o # p
        <3>1. rx'[o] = rx[o]
            BY <1>6, <1>7, <2>2
        <3> QED BY <1>11, <2>2, <3>1 DEF Inv, RxInv
    <2> QED BY <2>1, <2>2
<1>17. RemovedIsReached'
    BY <1>3, <1>11, OtherEnd DEF Inv, RemovedIsReached
<1> QED BY <1>1, <1>3, <1>12, <1>13, <1>14, <1>15, <1>16, <1>17, NewestKept DEF Inv

(* lastRemoteSeq catches up with the window.                               *)
LEMMA UpdateInv ==
    ASSUME Inv, NEW p \in Peers, UpdateLastRemoteSeq(p)
    PROVE  Inv'
<1>1. TypeOK /\ TypeOK' /\ rx[p] # None /\ rx[p].stage = "window"
    BY UpdateType DEF Inv, UpdateLastRemoteSeq
<1>2. UNCHANGED <<sending, recv, lastRemoteAckSeq, net, history>>
    BY DEF UpdateLastRemoteSeq
<1>3. /\ lastRemoteSeq' = [lastRemoteSeq EXCEPT ![p] =
                              LastAfter(lastRemoteSeq[p], rx[p].pkt.seq)]
      /\ rx' = [rx EXCEPT ![p] = [rx[p] EXCEPT !.stage = "acks"]]
      /\ DOMAIN rx = Peers /\ DOMAIN lastRemoteSeq = Peers
    BY <1>1 DEF UpdateLastRemoteSeq, TypeOK
<1>4. rx[p] \in Incoming
    BY <1>1, IncomingType
<1>5. rx'[p].stage = "acks" /\ rx'[p].pkt = rx[p].pkt
    BY <1>3, <1>4 DEF Incoming
<1>6. \A o \in Peers : o # p => rx'[o] = rx[o] /\ lastRemoteSeq'[o] = lastRemoteSeq[o]
    BY <1>3
<1>7. \A o \in Peers : Last(o)' = Last(o)
    <2>1. Last(p)' = Last(p)
        BY <1>1, <1>3, <1>5 DEF Last
    <2> QED BY <1>6, <2>1 DEF Last
<1>8. WindowInv' /\ TwiceOnlyAfterJump'
    BY <1>2, <1>7 DEF Inv, WindowInv, TwiceOnlyAfterJump, True, history
<1>9. LastInv'
    <2>1. rx[p].pkt.seq \in accepted[p] /\ lastRemoteSeq[p] \in Arrived(p)
        BY <1>1 DEF Inv, RxInv, LastInv
    <2>2. LastAfter(lastRemoteSeq[p], rx[p].pkt.seq) \in Arrived(p)
        BY <2>1 DEF LastAfter, Arrived
    <2>3. \A o \in Peers : lastRemoteSeq'[o] \in Arrived(o)
        BY <1>3, <1>6, <2>2 DEF Inv, LastInv
    <2> QED BY <1>2, <2>3 DEF LastInv, Arrived, history
<1>10. NetInv' /\ AckIsAccepted'
    BY <1>2 DEF Inv, NetInv, AckIsAccepted, Arrived, history
<1>11. RxInv'
    <2>1. \A o \in Peers : rx'[o] # None => rx[o] # None /\ rx'[o].pkt = rx[o].pkt
        BY <1>1, <1>5, <1>6
    <2> QED BY <1>2, <2>1 DEF Inv, RxInv, history
<1> QED BY <1>1, <1>2, <1>8, <1>9, <1>10, <1>11, RemovedKept, NewestKept
        DEF Inv, sending, history

(* A header acknowledges what its sender has, and a queued packet or an    *)
(* extra leaves only for an acknowledgement of its number or a later one.  *)
LEMMA ProcessInv ==
    ASSUME Inv, NEW p \in Peers, ProcessIncomingPacket(p)
    PROVE  Inv'
<1> DEFINE m == rx[p].pkt
<1>1. TypeOK /\ TypeOK' /\ rx[p] # None /\ rx[p].stage = "acks"
    BY ProcessType DEF Inv, ProcessIncomingPacket
<1>2. UNCHANGED <<version, lastRemoteSeq, recv, net, accepted, again, jumped>>
    BY DEF ProcessIncomingPacket
<1>3. rx' = [rx EXCEPT ![p] = None] /\ DOMAIN rx = Peers
    BY <1>1 DEF ProcessIncomingPacket, TypeOK
<1>4. \A o \in Peers : o # p => rx'[o] = rx[o]
    BY <1>3
<1>5. rx'[p] = None
    BY <1>3
<1>6. WindowInv' /\ TwiceOnlyAfterJump'
    <2>1. \A o \in Peers : Last(o)' = Last(o)
        BY <1>1, <1>2, <1>4, <1>5 DEF Last
    <2> QED BY <1>2, <2>1 DEF Inv, WindowInv, TwiceOnlyAfterJump, True
<1>7. LastInv' /\ NetInv'
    BY <1>2 DEF Inv, LastInv, NetInv, Arrived
<1>8. RxInv'
    BY <1>2, <1>4, <1>5 DEF Inv, RxInv
<1>9. m.ack \in accepted[Other(p)] \cup {0} /\ m.ack \in Seqs \cup {0}
    BY <1>1, IncomingType DEF Inv, RxInv, NetInv, Arrived
<1>10. ProcessAcks(p, m)
    BY DEF ProcessIncomingPacket
<1> HIDE DEF m
<1>11. CASE Acknowledges(p, m)
    <2>1. AckIsAccepted'
        <3>1. /\ lastRemoteAckSeq' = [lastRemoteAckSeq EXCEPT ![p] = m.ack]
              /\ DOMAIN lastRemoteAckSeq = Peers
            BY <1>1, <1>11 DEF Acknowledges, TypeOK
        <3>2. \A o \in Peers : lastRemoteAckSeq'[o] =
                                  IF o = p THEN m.ack ELSE lastRemoteAckSeq[o]
            BY <3>1
        <3> QED BY <1>2, <1>9, <3>2 DEF Inv, AckIsAccepted
    <2>2. RemovedIsReached'
        <3> SUFFICES ASSUME NEW o \in Peers, NEW q \in removed'[o], q.seqs # <<>>
                     PROVE  \E s \in accepted[Other(o)] : \E j \in DOMAIN q.seqs : s >= q.seqs[j]
            BY <1>2 DEF RemovedIsReached
        <3>1. q \in removed[o] \/ (o = p /\ q \in Gone(p, m))
            BY <1>1, <1>11 DEF Acknowledges, TypeOK
        <3>2. CASE q \in removed[o]
            BY <3>2 DEF Inv, RemovedIsReached
        <3>3. CASE o = p /\ q \in Gone(p, m)
            <4>1. q \in queued[p] /\ \E j \in DOMAIN q.seqs : m.ack > q.seqs[j]
                BY <3>3 DEF Gone, DidAck
            <4>2. PICK j \in DOMAIN q.seqs : m.ack > q.seqs[j]
                BY <4>1
            <4>3. q.seqs \in Seq(Seqs)
                BY <1>1, <4>1 DEF TypeOK, Queued
            <4>4. q.seqs[j] \in Seqs
                BY <4>3, ElementOfSeq, LenProperties
            <4>5. \A a, b \in Seqs \cup {0} : a \in Nat /\ b \in Nat
                BY Numbers
            <4>6. m.ack \in Nat /\ q.seqs[j] \in Nat
                BY <1>9, <4>4, <4>5
            <4>7. m.ack # 0 /\ m.ack >= q.seqs[j]
                BY <4>2, <4>6
            <4> QED BY <1>9, <3>3, <4>7
        <3> QED BY <3>1, <3>2, <3>3
    <2>3. NewestIsKept'
        <3> SUFFICES ASSUME NEW o \in Peers, NEW t \in Types, version[o][t] > 0
                     PROVE  \E x \in extras'[o] \cup confirmed'[o] :
                                x.type = t /\ x.data = version[o][t]
            BY <1>2 DEF NewestIsKept
        <3>1. /\ confirmed[o] \subseteq confirmed'[o]
              /\ extras[o] \subseteq extras'[o] \cup confirmed'[o]
            BY <1>1, <1>11 DEF Acknowledges, TypeOK
        <3> QED BY <3>1 DEF Inv, NewestIsKept
    <2> QED BY <1>1, <1>6, <1>7, <1>8, <2>1, <2>2, <2>3 DEF Inv
<1>12. CASE UNCHANGED <<lastRemoteAckSeq, recent, queued, removed, extras, confirmed>>
    <2>1. AckIsAccepted'
        BY <1>2, <1>12 DEF Inv, AckIsAccepted
    <2> QED BY <1>1, <1>2, <1>6, <1>7, <1>8, <1>12, <2>1, RemovedKept, NewestKept
        DEF Inv
<1> QED BY <1>10, <1>11, <1>12, AcksAreNewOrIgnored

LEMMA NextInv == Inv /\ [Next]_vars => Inv'
<1> SUFFICES ASSUME Inv, [Next]_vars PROVE Inv'
    OBVIOUS
<1>1. TypeOK'
    BY NextType DEF Inv
<1>2. ASSUME NEW p \in Peers, MakePacket(p) PROVE Inv'
    BY <1>1, <1>2, MakingInv DEF MakePacket
<1>3. ASSUME NEW p \in Peers, NEW r \in Reliables, SendPacketReliably(p, r) PROVE Inv'
    BY <1>1, <1>3, MakingInv DEF SendPacketReliably
<1>4. ASSUME NEW p \in Peers, NEW q \in queued[p], Retry(p, q) PROVE Inv'
    BY <1>1, <1>4, MakingInv DEF Retry
<1>5. ASSUME NEW p \in Peers, NEW q \in queued[p], GiveUp(p, q) PROVE Inv'
    BY <1>5, GiveUpInv
<1>6. ASSUME NEW p \in Peers, NEW t \in Types, SendExtra(p, t) PROVE Inv'
    BY <1>6, SendExtraInv
<1>7. ASSUME NEW p \in Peers, CollectAcks(p) PROVE Inv'
    BY <1>1, <1>7, MakingInv DEF CollectAcks
<1>8. ASSUME NEW p \in Peers, WritePacketHeader(p) PROVE Inv'
    BY <1>8, WritePacketHeaderInv
<1>9. ASSUME NEW p \in Peers, Receive(p) PROVE Inv'
    BY <1>9, ReceiveInv
<1>10. ASSUME NEW p \in Peers, UpdateLastRemoteSeq(p) PROVE Inv'
    BY <1>10, UpdateInv
<1>11. ASSUME NEW p \in Peers, ProcessIncomingPacket(p) PROVE Inv'
    BY <1>11, ProcessInv
<1>12. CASE UNCHANGED vars
    BY <1>1, <1>12, MakingInv DEF vars, sending
<1> QED BY <1>2, <1>3, <1>4, <1>5, <1>6, <1>7, <1>8, <1>9, <1>10, <1>11, <1>12 DEF Next

LEMMA Invariant == Spec => []Inv
BY InitInv, NextInv, PTL DEF Spec

(***************************************************************************)
(* The theorems                                                            *)
(***************************************************************************)

(* Every variable keeps its type; recentOutgoingPackets and the numbers of *)
(* a queued packet stay within their limits.                               *)
THEOREM TypeCorrect == Spec => []TypeOK
<1>1. Inv => TypeOK
    BY DEF Inv
<1> QED BY <1>1, Invariant, PTL

(* What a peer takes for the highest acknowledged number has arrived at    *)
(* the other end (VoIPController.cpp:1203), for any number of threads that *)
(* make packets and any order in which their headers are written.          *)
THEOREM AcksSafe == Spec => []AckIsAccepted
<1>1. Inv => AckIsAccepted
    BY DEF Inv
<1> QED BY <1>1, Invariant, PTL

(* Between packets recvPacketTimes has exactly the numbers that arrived    *)
(* and still fit, but for one that emptied it.                             *)
THEOREM WindowSafe == Spec => []WindowIsTrue
<1>1. Inv => WindowIsTrue
    BY DEF Inv, WindowInv, WindowIsTrue, True, Last
<1> QED BY <1>1, Invariant, PTL

(* Only a packet that emptied the window is processed twice.               *)
THEOREM TwiceSafe == Spec => []TwiceOnlyAfterJump
<1>1. Inv => TwiceOnlyAfterJump
    BY DEF Inv
<1> QED BY <1>1, Invariant, PTL

(* A reliable packet is taken for acknowledged only after something sent   *)
(* no earlier has arrived.                                                 *)
THEOREM RemovedSafe == Spec => []RemovedIsReached
<1>1. Inv => RemovedIsReached
    BY DEF Inv
<1> QED BY <1>1, Invariant, PTL

(* The newest value of each extra waits in currentExtras until it is taken *)
(* for acknowledged.                                                       *)
THEOREM NewestSafe == Spec => []NewestIsKept
<1>1. Inv => NewestIsKept
    BY DEF Inv
<1> QED BY <1>1, Invariant, PTL

(***************************************************************************)
(* Extras                                                                  *)
(*                                                                         *)
(* An extra is taken for acknowledged when a number not below that of its  *)
(* first header is: that is right as long as every header with a later     *)
(* number is written later, that is, unless the first header is overtaken. *)
(***************************************************************************)

(* Numbers that are compared are naturals.                                 *)
LEMMA SeqsNat ==
    ASSUME TypeOK, NEW p \in Peers
    PROVE  /\ seq[p] \in Nat /\ lastRemoteSeq[p] \in Nat
           /\ \A d \in pending[p] : d.seq \in Nat
           /\ tx[p] # None => tx[p].pkt.seq \in Nat
           /\ \A m \in net : m.seq \in Nat /\ m.ack \in Nat
<1>1. \A s \in Seqs \cup {0} : s \in Nat
    BY Numbers
<1>2. seq[p] \in Nat /\ lastRemoteSeq[p] \in Seqs \cup {0}
    BY DEF TypeOK
<1>3. \A d \in pending[p] : d.seq \in Seqs
    BY DEF TypeOK, Drawn
<1>4. tx[p] # None => tx[p].pkt.seq \in Seqs
    BY DEF TypeOK, Outgoing, Drawn
<1>5. \A m \in net : m.seq \in Seqs /\ m.ack \in Seqs \cup {0}
    BY DEF TypeOK, Packet
<1> QED BY <1>1, <1>2, <1>3, <1>4, <1>5

(* Extras wait with the newest value, and ride in every header with a      *)
(* number from their first one on; a later number has no older value.      *)
(* Headers that were overtaken are an exception to both.                   *)
Riding(p) ==
    /\ extras[p] # {} => ExtrasKnown
    /\ \A x \in extras[p] : x.data = version[p][x.type]
    /\ \A x \in extras[p] : x.first # 0 /\ x.first \notin overtaken[p] =>
        \A m \in net : m.to = Other(p) /\ m.seq >= x.first => Value(x) \in m.extras
    /\ \A m \in net : m.to = Other(p) =>
        \A x \in m.extras : x.data <= version[p][x.type]
    /\ \A m, n \in net :
        m.to = Other(p) /\ n.to = Other(p) /\ m.seq <= n.seq /\ m.seq \notin overtaken[p] =>
            \A x \in m.extras, y \in n.extras : x.type = y.type => x.data <= y.data

(* The value d of an extra came in a packet with a number up to l.         *)
CameIn(p, t, d, l) ==
    \E m \in net : /\ m.to = p /\ m.seq \in accepted[p] /\ m.seq <= l
                   /\ [type |-> t, data |-> d] \in m.extras

(* Packets that arrived are read, and what is applied was in one of them.  *)
Reading(p) ==
    /\ rx[p] # None /\ rx[p].stage = "acks" => rx[p].pkt.seq <= lastRemoteSeq[p]
    /\ \A s \in accepted[p] : \E m \in net :
        m.to = p /\ m.seq = s /\ m.extras \subseteq Known(p)
    /\ \A t \in Types : applied[p][t] # 0 => CameIn(p, t, applied[p][t], lastRemoteSeq[p])

ExtrasInv == /\ Inv /\ ConfirmedIsSeenOrOvertaken
             /\ \A p \in Peers : Riding(p) /\ Reading(p)

LEMMA SameRiding ==
    ASSUME NEW p \in Peers, Riding(p), extras'[p] \subseteq extras[p],
           version'[p] = version[p], overtaken'[p] = overtaken[p], UNCHANGED peerVersion,
           \A m \in net' : m.to = Other(p) => m \in net
    PROVE  Riding(p)'
<1>1. \A x : Value(x)' = Value(x)
    BY DEF Value
<1> QED BY <1>1 DEF Riding, ExtrasKnown

LEMMA SameReading ==
    ASSUME NEW p \in Peers, Reading(p), rx'[p] = rx[p], net \subseteq net',
           seen[p] \subseteq seen'[p], lastRemoteSeq'[p] = lastRemoteSeq[p],
           accepted'[p] = accepted[p], applied'[p] = applied[p]
    PROVE  Reading(p)'
<1>1. Known(p) \subseteq Known(p)'
    BY DEF Known
<1> QED BY <1>1 DEF Reading, CameIn

LEMMA SameConfirmed ==
    ASSUME ConfirmedIsSeenOrOvertaken, UNCHANGED confirmed,
           \A p \in Peers : /\ overtaken[p] \subseteq overtaken'[p]
                            /\ Known(p) \subseteq Known(p)'
    PROVE  ConfirmedIsSeenOrOvertaken'
<1>1. \A x : Value(x)' = Value(x)
    BY DEF Value
<1>2. \A p \in Peers : Other(p) \in Peers
    BY OtherEnd
<1> QED BY <1>1, <1>2 DEF ConfirmedIsSeenOrOvertaken

(* Steps that do not touch the extras, what is on the network or what is   *)
(* received.                                                               *)
LEMMA MakingExtras ==
    ASSUME ExtrasInv,
           UNCHANGED <<peerVersion, extras, version, receiving, net, accepted, confirmed,
                       seen, overtaken>>
    PROVE  ConfirmedIsSeenOrOvertaken' /\ \A p \in Peers : Riding(p)' /\ Reading(p)'
<1>1. UNCHANGED <<rx, lastRemoteSeq, applied>>
    BY DEF receiving
<1>2. \A p \in Peers : Riding(p)' /\ Reading(p)'
    BY <1>1, SameRiding, SameReading DEF ExtrasInv
<1> QED BY <1>1, <1>2, SameConfirmed DEF ExtrasInv, Known

LEMMA SendExtraExtras ==
    ASSUME ExtrasInv, NEW p \in Peers, NEW t \in Types, SendExtra(p, t)
    PROVE  ConfirmedIsSeenOrOvertaken' /\ \A q \in Peers : Riding(q)' /\ Reading(q)'
<1>1. UNCHANGED <<peerVersion, net>> /\ UNCHANGED <<rx, lastRemoteSeq, applied>>
      /\ UNCHANGED <<accepted, confirmed, seen, overtaken>>
    BY DEF SendExtra, receiving, history
<1>2. TypeOK /\ Riding(p)
    BY DEF ExtrasInv, Inv
<1>3. /\ DOMAIN extras = Peers /\ DOMAIN version = Peers /\ DOMAIN version[p] = Types
      /\ version[p][t] \in Nat
    BY <1>2 DEF TypeOK
<1>4. PICK n \in Nat : n = version[p][t]
    BY <1>3
<1>5. PICK y : y = [type |-> t, data |-> n + 1, first |-> 0]
    OBVIOUS
<1>6. /\ extras'[p] = {x \in extras[p] : x.type # t} \cup {y}
      /\ version'[p][t] = n + 1 /\ \A u \in Types : u # t => version'[p][u] = version[p][u]
      /\ \A q \in Peers : q # p => extras'[q] = extras[q] /\ version'[q] = version[q]
    BY <1>3, <1>4, <1>5 DEF SendExtra, WithExtra
<1>7. y.type = t /\ y.data = n + 1 /\ y.first = 0
    BY <1>5
<1>8. ExtrasKnown' = TRUE
    BY <1>1 DEF SendExtra, ExtrasKnown
<1>9. \A x \in extras'[p] : x.data = version'[p][x.type]
    <2>1. \A x \in extras[p] : x.type \in Types
        BY <1>2 DEF TypeOK, Waiting
    <2> QED BY <1>2, <1>6, <1>7, <2>1 DEF Riding
<1>10. \A m \in net : m.to = Other(p) => \A x \in m.extras : x.data <= version'[p][x.type]
    <2> SUFFICES ASSUME NEW m \in net, m.to = Other(p), NEW x \in m.extras
                 PROVE  x.data <= version'[p][x.type]
        OBVIOUS
    <2>1. x.data <= version[p][x.type]
        BY <1>2 DEF Riding
    <2>2. x.type \in Types /\ x.data \in Nat
        BY <1>2 DEF TypeOK, Packet, Extra
    <2>3. CASE x.type = t
        <3>1. PICK d \in Nat : d = x.data /\ d <= n
            BY <1>4, <2>1, <2>2, <2>3
        <3>2. d <= n + 1
            BY <3>1
        <3> QED BY <1>6, <2>3, <3>1, <3>2
    <2>4. CASE x.type # t
        BY <1>6, <2>1, <2>2, <2>4
    <2> QED BY <2>3, <2>4
<1>11. \A x \in extras'[p] : x.first # 0 => x \in extras[p]
    BY <1>6, <1>7
<1>12. Riding(p)'
    <2>1. \A x \in extras'[p] : x.first # 0 /\ x.first \notin overtaken[p] =>
            \A m \in net : m.to = Other(p) /\ m.seq >= x.first => Value(x) \in m.extras
        BY <1>2, <1>11 DEF Riding
    <2>2. \A m, k \in net :
            m.to = Other(p) /\ k.to = Other(p) /\ m.seq <= k.seq /\ m.seq \notin overtaken[p] =>
                \A x \in m.extras, z \in k.extras : x.type = z.type => x.data <= z.data
        BY <1>2 DEF Riding
    <2> QED BY <1>1, <1>8, <1>9, <1>10, <2>1, <2>2 DEF Riding, Value
<1>13. \A q \in Peers : Reading(q)' /\ (q # p => Riding(q)')
    BY <1>1, <1>6, SameRiding, SameReading DEF ExtrasInv
<1> QED BY <1>1, <1>12, <1>13, SameConfirmed DEF ExtrasInv, Known

(* A header carries all extras that wait, and is the newest or overtaken.  *)
LEMMA WriteExtras ==
    ASSUME ExtrasInv, NEW p \in Peers, WritePacketHeader(p)
    PROVE  ConfirmedIsSeenOrOvertaken' /\ \A q \in Peers : Riding(q)' /\ Reading(q)'
<1>1. UNCHANGED <<peerVersion, version>> /\ UNCHANGED <<rx, lastRemoteSeq, applied>>
      /\ UNCHANGED <<accepted, confirmed, seen>> /\ tx[p] # None
    BY DEF WritePacketHeader, receiving
<1>2. TypeOK /\ Riding(p)
    BY DEF ExtrasInv, Inv
<1>3. net' = net \cup {Header(p)} /\ Header(p) \in Packet /\ DOMAIN extras = Peers
    BY <1>2, HeaderType DEF TypeOK
<1>4. PICK s \in Nat : s = tx[p].pkt.seq
    BY <1>1, <1>2, SeqsNat
<1>5. PICK h \in Packet : h = Header(p)
    BY <1>3
<1>6. h.to = Other(p) /\ h.seq = s /\ h.extras = {Value(x) : x \in extras[p]}
    <2>1. h.to = Other(p) /\ h.seq = s
        BY <1>4, <1>5 DEF Header
    <2>2. h.extras = {Value(x) : x \in IF ExtrasKnown THEN extras[p] ELSE {}}
        BY <1>5 DEF Header
    <2>3. CASE ExtrasKnown
        BY <2>1, <2>2, <2>3
    <2>4. CASE ~ExtrasKnown
        <3>1. extras[p] = {}
            BY <1>2, <2>4 DEF Riding
        <3> QED BY <2>1, <2>2, <2>4, <3>1
    <2> QED BY <2>3, <2>4
<1>7. /\ overtaken[p] \subseteq overtaken'[p]
      /\ s \notin overtaken'[p] => \A m \in net : m.to = Other(p) => m.seq \in Nat /\ m.seq < s
      /\ \A q \in Peers : q # p => overtaken'[q] = overtaken[q]
    <2>1. /\ overtaken' = [overtaken EXCEPT ![p] =
                IF \E m \in net : m.to = Other(p) /\ m.seq >= s THEN @ \cup {s} ELSE @]
          /\ DOMAIN overtaken = Peers
        BY <1>2, <1>4 DEF WritePacketHeader, TypeOK
    <2>2. \A m \in net : m.seq \in Nat /\ (m.seq >= s \/ m.seq < s)
        BY <1>2, SeqsNat
    <2> QED BY <2>1, <2>2
<1> DEFINE n(x) == [x EXCEPT !.first = IF @ = 0 THEN s ELSE @]
<1>8. \A x \in extras[p] : /\ n(x).type = x.type /\ n(x).data = x.data
                           /\ n(x).first = IF x.first = 0 THEN s ELSE x.first
    BY <1>2 DEF TypeOK
<1>9. /\ \A z \in extras'[p] : \E x \in extras[p] :
            /\ z.type = x.type /\ z.data = x.data
            /\ z.first = x.first \/ (x.first = 0 /\ z.first = s)
      /\ \A q \in Peers : q # p => extras'[q] = extras[q]
    <2>1. extras' = [extras EXCEPT ![p] = IF ExtrasKnown THEN Numbered(extras[p], s)
                                          ELSE extras[p]]
        BY <1>4 DEF WritePacketHeader
    <2>2. Numbered(extras[p], s) = {n(x) : x \in extras[p]}
        BY DEF Numbered
    <2> HIDE DEF n
    <2>3. \A z \in extras'[p] : (\E x \in extras[p] : z = n(x)) \/ z \in extras[p]
        BY <1>3, <2>1, <2>2
    <2>4. \A q \in Peers : q # p => extras'[q] = extras[q]
        BY <1>3, <2>1
    <2> QED BY <1>8, <2>3, <2>4
<1> HIDE DEF n
<1>10. \A z \in extras'[p] : \E x \in extras[p] : Value(z) = Value(x)
    BY <1>9 DEF Value
<1>11. \A x \in h.extras : x.type \in Types /\ x.data = version[p][x.type] /\ x.data \in Nat
    <2>1. \A x \in extras[p] : /\ Value(x).type = x.type /\ Value(x).data = x.data
                               /\ x.type \in Types /\ x.data \in Nat
        BY <1>2 DEF Value, TypeOK, Waiting
    <2> QED BY <1>2, <1>6, <2>1 DEF Riding
<1>12. Riding(p)'
    <2>1. extras'[p] # {} => ExtrasKnown'
        BY <1>1, <1>2, <1>9 DEF Riding, ExtrasKnown
    <2>2. \A x \in extras'[p] : x.data = version[p][x.type]
        BY <1>2, <1>9 DEF Riding
    <2>3. ASSUME NEW z \in extras'[p], z.first # 0, z.first \notin overtaken'[p],
                 NEW m \in net', m.to = Other(p), m.seq >= z.first
          PROVE  Value(z) \in m.extras
        <3>1. PICK x \in extras[p] :
                /\ z.type = x.type /\ z.data = x.data
                /\ z.first = x.first \/ (x.first = 0 /\ z.first = s)
            BY <1>9
        <3>2. Value(z) = Value(x)
            BY <3>1 DEF Value
        <3>3. CASE m = h
            BY <1>6, <3>2, <3>3
        <3>4. CASE m \in net /\ z.first = x.first
            BY <1>2, <1>7, <2>3, <3>1, <3>2, <3>4 DEF Riding
        <3>5. CASE m \in net /\ z.first = s
            <4>1. PICK k \in Nat : k = m.seq /\ k < s
                BY <1>7, <2>3, <3>5
            <4> QED BY <2>3, <3>5, <4>1
        <3> QED BY <1>3, <1>5, <3>1, <3>3, <3>4, <3>5
    <2>4. \A m \in net' : m.to = Other(p) => \A x \in m.extras : x.data <= version[p][x.type]
        <3>1. \A x \in h.extras : x.data <= version[p][x.type]
            BY <1>11
        <3> QED BY <1>2, <1>3, <1>5, <3>1 DEF Riding
    <2>5. ASSUME NEW m \in net', NEW k \in net', m.to = Other(p), k.to = Other(p),
                 m.seq <= k.seq, m.seq \notin overtaken'[p], NEW x \in m.extras, NEW y \in k.extras, x.type = y.type
          PROVE  x.data <= y.data
        <3>1. CASE k = h
            <4>1. x.data <= version[p][x.type]
                BY <2>4, <2>5
            <4> QED BY <1>11, <2>5, <3>1, <4>1
        <3>2. CASE m = h /\ k \in net
            <4>1. PICK j \in Nat : j = k.seq /\ j < s
                BY <1>6, <1>7, <2>5, <3>2
            <4>2. s <= j
                BY <1>6, <2>5, <3>2, <4>1
            <4> QED BY <4>1, <4>2
        <3>3. CASE m \in net /\ k \in net
            BY <1>2, <1>7, <2>5, <3>3 DEF Riding
        <3> QED BY <1>3, <1>5, <3>1, <3>2, <3>3
    <2>6. version' = version
        BY <1>1
    <2>7. \A z : Value(z)' = Value(z)
        BY DEF Value
    <2> QED BY <2>1, <2>2, <2>3, <2>4, <2>5, <2>6, <2>7 DEF Riding
<1>13. \A q \in Peers : q # p => Other(q) # Other(p)
    BY OtherEnd
<1>14. \A q \in Peers : q # p => Riding(q)'
    <2>1. \A q \in Peers : q # p => \A m \in net' : m.to = Other(q) => m \in net
        BY <1>3, <1>5, <1>6, <1>13
    <2> QED BY <1>1, <1>7, <1>9, <2>1, SameRiding DEF ExtrasInv
<1>15. \A q \in Peers : Reading(q)'
    BY <1>1, <1>3, SameReading DEF ExtrasInv
<1>16. \A q \in Peers : overtaken[q] \subseteq overtaken'[q] /\ Known(q) \subseteq Known(q)'
    BY <1>1, <1>7 DEF Known
<1> QED BY <1>1, <1>12, <1>14, <1>15, <1>16, SameConfirmed DEF ExtrasInv

LEMMA ReceiveExtras ==
    ASSUME ExtrasInv, NEW p \in Peers, Receive(p)
    PROVE  ConfirmedIsSeenOrOvertaken' /\ \A q \in Peers : Riding(q)' /\ Reading(q)'
<1>1. PICK m \in net : Takes(p, m)
    BY DEF Receive, Takes
<1>2. UNCHANGED <<peerVersion, extras, version, net>> /\ UNCHANGED <<lastRemoteSeq, applied>>
      /\ UNCHANGED <<confirmed, seen, overtaken>> /\ rx[p] = None
    BY DEF Receive, sending
<1>3. TypeOK
    BY DEF ExtrasInv, Inv
<1>4. PICK r : r = [pkt |-> m, stage |-> "window"]
    OBVIOUS
<1>5. r # None /\ r.pkt = m /\ r.stage = "window"
    <2>1. r \in Incoming
        BY <1>3, <1>4 DEF TypeOK, Incoming
    <2> QED BY <1>4, <2>1, NoneAssumption
<1>6. /\ rx'[p] = r /\ accepted'[p] = accepted[p] \cup {m.seq} /\ m.to = p
      /\ \A q \in Peers : q # p => rx'[q] = rx[q] /\ accepted'[q] = accepted[q]
    BY <1>1, <1>3, <1>4 DEF Takes, TypeOK
<1>7. Known(p)' = Known(p) \cup m.extras /\ \A q \in Peers : q # p => Known(q)' = Known(q)
    BY <1>2, <1>5, <1>6 DEF Known
<1>8. Reading(p)'
    <2>1. \A s \in accepted'[p] : \E n \in net :
            n.to = p /\ n.seq = s /\ n.extras \subseteq Known(p)'
        BY <1>6, <1>7 DEF ExtrasInv, Reading
    <2>2. rx'[p].stage # "acks"
        BY <1>5, <1>6
    <2>3. \A t \in Types : applied[p][t] # 0 =>
            CameIn(p, t, applied[p][t], lastRemoteSeq[p])'
        BY <1>2, <1>6 DEF ExtrasInv, Reading, CameIn
    <2> QED BY <1>2, <2>1, <2>2, <2>3 DEF Reading, CameIn
<1>9. \A q \in Peers : Riding(q)' /\ (q # p => Reading(q)')
    BY <1>2, <1>6, SameRiding, SameReading DEF ExtrasInv
<1> QED BY <1>2, <1>7, <1>8, <1>9, SameConfirmed DEF ExtrasInv

LEMMA UpdateExtras ==
    ASSUME ExtrasInv, NEW p \in Peers, UpdateLastRemoteSeq(p)
    PROVE  ConfirmedIsSeenOrOvertaken' /\ \A q \in Peers : Riding(q)' /\ Reading(q)'
<1>1. UNCHANGED <<peerVersion, extras, version, net, applied>>
      /\ UNCHANGED <<accepted, confirmed, seen, overtaken>> /\ rx[p] # None
    BY DEF UpdateLastRemoteSeq, sending, history
<1>2. TypeOK
    BY DEF ExtrasInv, Inv
<1>3. PICK s : s = rx[p].pkt.seq
    OBVIOUS
<1>4. rx[p] \in Incoming /\ s \in Nat
    <2>1. rx[p] \in Incoming /\ s \in Seqs
        BY <1>1, <1>2, <1>3, IncomingType
    <2> QED BY <2>1, Numbers
<1>5. PICK l \in Nat : l = lastRemoteSeq[p]
    BY <1>2, SeqsNat
<1>6. /\ lastRemoteSeq'[p] = LastAfter(l, s)
      /\ rx'[p] = [rx[p] EXCEPT !.stage = "acks"]
      /\ \A q \in Peers : q # p => rx'[q] = rx[q] /\ lastRemoteSeq'[q] = lastRemoteSeq[q]
    BY <1>2, <1>3, <1>5 DEF UpdateLastRemoteSeq, TypeOK
<1>7. LastAfter(l, s) \in Nat /\ LastAfter(l, s) >= l /\ LastAfter(l, s) >= s
    BY <1>4, <1>5 DEF LastAfter
<1>8. rx'[p].pkt = rx[p].pkt /\ rx'[p] # None
    <2>1. rx'[p].pkt = rx[p].pkt /\ rx'[p] \in Incoming
        BY <1>4, <1>6 DEF Incoming
    <2> QED BY <2>1, NoneAssumption
<1>9. \A q \in Peers : Known(q)' = Known(q)
    BY <1>1, <1>6, <1>8 DEF Known
<1>10. Reading(p)'
    <2>1. rx'[p].pkt.seq <= lastRemoteSeq'[p]
        BY <1>3, <1>6, <1>7, <1>8
    <2>2. \A a \in accepted[p] : \E m \in net :
            m.to = p /\ m.seq = a /\ m.extras \subseteq Known(p)'
        BY <1>9 DEF ExtrasInv, Reading
    <2>3. ASSUME NEW t \in Types, applied[p][t] # 0
          PROVE  CameIn(p, t, applied[p][t], lastRemoteSeq[p])'
        <3>1. PICK m \in net : /\ m.to = p /\ m.seq \in accepted[p] /\ m.seq <= l
                               /\ [type |-> t, data |-> applied[p][t]] \in m.extras
            BY <1>5, <2>3 DEF ExtrasInv, Reading, CameIn
        <3>2. PICK k \in Nat : k = m.seq /\ k <= l
            BY <1>2, <3>1, SeqsNat
        <3>3. k <= LastAfter(l, s)
            BY <1>7, <3>2
        <3> QED BY <1>1, <1>6, <3>1, <3>2, <3>3 DEF CameIn
    <2> QED BY <1>1, <2>1, <2>2, <2>3 DEF Reading
<1>11. \A q \in Peers : Riding(q)' /\ (q # p => Reading(q)')
    BY <1>1, <1>6, SameRiding, SameReading DEF ExtrasInv
<1> QED BY <1>1, <1>9, <1>10, <1>11, SameConfirmed DEF ExtrasInv

(* The value of a type in a header that has one.                           *)
LEMMA Applied ==
    ASSUME ExtrasInv, NEW p \in Peers, ProcessIncomingPacket(p), NEW t \in Types,
           rx[p].pkt \in net
    PROVE  \/ [type |-> t, data |-> applied'[p][t]] \in rx[p].pkt.extras
           \/ applied'[p][t] = applied[p][t]
<1>1. TypeOK
    BY DEF ExtrasInv, Inv
<1>2. PICK xs : xs = rx[p].pkt.extras
    OBVIOUS
<1>3. applied'[p][t] = IF \E x \in xs : x.type = t THEN (CHOOSE x \in xs : x.type = t).data
                       ELSE applied[p][t]
    BY <1>1, <1>2 DEF ProcessIncomingPacket, AfterExtras, TypeOK
<1>4. CASE \E x \in xs : x.type = t
    <2>1. PICK y : y = CHOOSE x \in xs : x.type = t
        OBVIOUS
    <2>2. y \in xs /\ y.type = t /\ applied'[p][t] = y.data
        BY <1>3, <1>4, <2>1
    <2>3. y \in Extra
        BY <1>1, <1>2, <2>2 DEF TypeOK, Packet
    <2>4. y = [type |-> t, data |-> y.data]
        BY <2>2, <2>3 DEF Extra
    <2> QED BY <1>2, <2>2, <2>4
<1> QED BY <1>3, <1>4

LEMMA ProcessExtras ==
    ASSUME ExtrasInv, NEW p \in Peers, ProcessIncomingPacket(p)
    PROVE  ConfirmedIsSeenOrOvertaken' /\ \A q \in Peers : Riding(q)' /\ Reading(q)'
<1>1. UNCHANGED <<peerVersion, version, net, lastRemoteSeq, accepted, overtaken>>
      /\ rx[p] # None /\ rx[p].stage = "acks"
    BY DEF ProcessIncomingPacket
<1>2. TypeOK
    BY DEF ExtrasInv, Inv
<1>3. PICK m \in net : /\ m = rx[p].pkt /\ m.to = p /\ m.seq <= lastRemoteSeq[p]
                       /\ m.seq \in accepted[p]
    BY <1>1 DEF ExtrasInv, Inv, RxInv, Reading
<1>4. /\ rx'[p] = None /\ seen'[p] = seen[p] \cup m.extras
      /\ \A q \in Peers : q # p => /\ rx'[q] = rx[q] /\ seen'[q] = seen[q]
                                   /\ applied'[q] = applied[q]
    BY <1>2, <1>3 DEF ProcessIncomingPacket, TypeOK
<1>5. /\ extras'[p] \subseteq extras[p] /\ \A q \in Peers : q # p => extras'[q] = extras[q]
      /\ \A q \in Peers : \A x \in confirmed'[q] :
            x \in confirmed[q] \/ (q = p /\ x \in Read(p, m))
    <2>1. ProcessAcks(p, m)
        BY <1>3 DEF ProcessIncomingPacket
    <2>2. CASE Acknowledges(p, m)
        BY <1>2, <2>2 DEF Acknowledges, TypeOK
    <2>3. CASE UNCHANGED <<lastRemoteAckSeq, recent, queued, removed, extras, confirmed>>
        BY <2>3
    <2> QED BY <2>1, <2>2, <2>3, AcksAreNewOrIgnored
<1>6. \A q \in Peers : Known(q)' = Known(q)
    <2>1. Known(p)' = Known(p)
        BY <1>1, <1>3, <1>4 DEF Known
    <2> QED BY <1>4, <2>1 DEF Known
<1>7. \A q \in Peers : Riding(q)' /\ (q # p => Reading(q)')
    BY <1>1, <1>4, <1>5, SameRiding, SameReading DEF ExtrasInv
<1>8. Reading(p)'
    <2>1. \A s \in accepted[p] : \E n \in net :
            n.to = p /\ n.seq = s /\ n.extras \subseteq Known(p)'
        BY <1>6 DEF ExtrasInv, Reading
    <2>2. ASSUME NEW t \in Types, applied'[p][t] # 0
          PROVE  CameIn(p, t, applied[p][t], lastRemoteSeq[p])'
        <3>1. CASE [type |-> t, data |-> applied'[p][t]] \in m.extras
            BY <1>1, <1>3, <3>1 DEF CameIn
        <3>2. CASE applied'[p][t] = applied[p][t]
            BY <1>1, <2>2, <3>2 DEF ExtrasInv, Reading, CameIn
        <3> QED BY <1>3, <3>1, <3>2, Applied
    <2> QED BY <1>1, <1>4, <2>1, <2>2 DEF Reading
<1>9. ASSUME NEW x \in Read(p, m), x.first \notin overtaken[p]
      PROVE  Value(x) \in Known(Other(p))
    <2>1. x \in extras[p] /\ x.first # 0 /\ m.ack >= x.first
        BY DEF Read, ExtraAcked
    <2>2. PICK f \in Nat : f = x.first /\ f # 0
        <3>1. x.first \in Seqs \cup {0}
            BY <1>2, <2>1 DEF TypeOK, Waiting
        <3> QED BY <2>1, <3>1, Numbers
    <2>3. PICK a \in Nat : a = m.ack /\ a >= f
        BY <1>2, <2>1, <2>2, SeqsNat
    <2>4. a \in accepted[Other(p)] \cup {0}
        BY <1>3, <2>3 DEF ExtrasInv, Inv, NetInv, Arrived
    <2>5. a \in accepted[Other(p)]
        BY <2>2, <2>3, <2>4
    <2>6. PICK k \in net : /\ k.to = Other(p) /\ k.seq = a
                           /\ k.extras \subseteq Known(Other(p))
        BY <2>5, OtherEnd DEF ExtrasInv, Reading
    <2>7. k.seq >= x.first
        BY <2>2, <2>3, <2>6
    <2>8. Value(x) \in k.extras
        BY <1>9, <2>1, <2>6, <2>7 DEF ExtrasInv, Riding
    <2> QED BY <2>6, <2>8
<1>10. ConfirmedIsSeenOrOvertaken'
    <2>1. \A q \in Peers : \A x \in confirmed'[q] :
            x.first \in overtaken[q] \/ Value(x) \in Known(Other(q))
        BY <1>5, <1>9 DEF ExtrasInv, ConfirmedIsSeenOrOvertaken
    <2>2. \A x : Value(x)' = Value(x)
        BY DEF Value
    <2>3. \A q \in Peers : Known(Other(q))' = Known(Other(q))
        <3>1. \A q \in Peers : Other(q) \in Peers
            BY OtherEnd
        <3> QED BY <1>6, <3>1 DEF Known
    <2> QED BY <1>1, <2>1, <2>2, <2>3 DEF ConfirmedIsSeenOrOvertaken
<1> QED BY <1>7, <1>8, <1>10

LEMMA ExtrasInit == Init => ExtrasInv
<1> SUFFICES ASSUME Init PROVE ExtrasInv
    OBVIOUS
<1>1. \A p \in Peers : Riding(p)
    BY DEF Init, Riding
<1>2. \A p \in Peers : Reading(p)
    BY DEF Init, Reading
<1> QED BY <1>1, <1>2, InitInv DEF ExtrasInv, ConfirmedIsSeenOrOvertaken, Init

LEMMA ExtrasNext == ExtrasInv /\ [Next]_vars => ExtrasInv'
<1> DEFINE G == ConfirmedIsSeenOrOvertaken' /\ \A q \in Peers : Riding(q)' /\ Reading(q)'
<1> SUFFICES ASSUME ExtrasInv, [Next]_vars PROVE G
    BY NextInv DEF ExtrasInv
<1>1. ASSUME NEW p \in Peers, \/ MakePacket(p)
                              \/ \E r \in Reliables : SendPacketReliably(p, r)
                              \/ \E q \in queued[p] : Retry(p, q)
                              \/ \E q \in queued[p] : GiveUp(p, q)
                              \/ CollectAcks(p)
      PROVE  G
    <2>1. UNCHANGED <<peerVersion, extras, version, receiving, net, accepted, confirmed,
                      seen, overtaken>>
        BY <1>1 DEF MakePacket, SendPacketReliably, Retry, GiveUp, CollectAcks, history
    <2> QED BY <2>1, MakingExtras
<1>2. CASE UNCHANGED vars
    BY <1>2, MakingExtras DEF vars, sending, history
<1> QED BY <1>1, <1>2, SendExtraExtras, WriteExtras, ReceiveExtras, UpdateExtras,
           ProcessExtras DEF Next

(* An extra is taken for acknowledged only when the peer has read it or is *)
(* about to, or when its first header was overtaken                        *)
(* (VoIPController.cpp:1252-1260), whatever is lost, repeated or reordered *)
(* on the network and however many threads make packets.                   *)
THEOREM ConfirmedSafe == Spec => []ConfirmedIsSeenOrOvertaken
<1>1. ExtrasInv => ConfirmedIsSeenOrOvertaken
    BY DEF ExtrasInv
<1> QED BY <1>1, ExtrasInit, ExtrasNext, PTL DEF Spec

LEMMA BackStep ==
    ASSUME ExtrasInv, [Next]_vars, NEW p \in Peers, NEW t \in Types,
           applied'[p][t] < applied[p][t]
    PROVE  \/ rx[p].pkt.seq < lastRemoteSeq[p]
           \/ CameOvertaken(p, t, rx[p].pkt.seq)
<1>1. TypeOK /\ TypeOK'
    BY NextType DEF ExtrasInv, Inv
<1>2. PICK a \in Nat, b \in Nat : a = applied[p][t] /\ b = applied'[p][t] /\ b < a
    BY <1>1 DEF TypeOK
<1>3. ProcessIncomingPacket(p)
    <2>1. applied' # applied
        BY <1>2
    <2>2. PICK q \in Peers : ProcessIncomingPacket(q)
        BY <2>1 DEF Next, vars, sending, receiving, history, MakePacket,
           SendPacketReliably, Retry, GiveUp, SendExtra, CollectAcks, WritePacketHeader,
           Receive, UpdateLastRemoteSeq
    <2>3. q # p => applied'[p] = applied[p]
        BY <1>1, <2>2 DEF ProcessIncomingPacket, TypeOK
    <2> QED BY <1>2, <2>2, <2>3
<1>4. rx[p] # None /\ rx[p].stage = "acks"
    BY <1>3 DEF ProcessIncomingPacket
<1>5. PICK m \in net : m = rx[p].pkt /\ m.to = p /\ m.seq <= lastRemoteSeq[p]
    BY <1>4 DEF ExtrasInv, Inv, RxInv, Reading
<1>6. PICK x \in m.extras : x = [type |-> t, data |-> b]
    <2>1. \/ [type |-> t, data |-> applied'[p][t]] \in rx[p].pkt.extras
          \/ applied'[p][t] = applied[p][t]
        BY <1>3, <1>5, Applied
    <2> QED BY <1>2, <1>5, <2>1
<1>7. PICK n \in net : /\ n.to = p /\ n.seq \in accepted[p] /\ n.seq <= lastRemoteSeq[p]
                       /\ [type |-> t, data |-> a] \in n.extras
    <2>1. applied[p][t] # 0
        BY <1>2
    <2> QED BY <1>2, <2>1 DEF ExtrasInv, Reading, CameIn
<1>8. PICK i \in Nat, j \in Nat, l \in Nat : i = m.seq /\ j = n.seq /\ l = lastRemoteSeq[p]
    BY <1>1, SeqsNat
<1>9. PICK o \in Peers : p = Other(o) /\ o = Other(p)
    BY OtherEnd
<1>10. PICK y \in n.extras : y = [type |-> t, data |-> a]
    BY <1>7
<1>11. ASSUME n.seq <= m.seq PROVE n.seq \in overtaken[o]
    <2>1. n.seq \notin overtaken[o] => y.data <= x.data
        BY <1>5, <1>6, <1>7, <1>9, <1>10, <1>11 DEF ExtrasInv, Riding
    <2>2. ~(y.data <= x.data)
        BY <1>2, <1>6, <1>10
    <2> QED BY <2>1, <2>2
<1>12. CASE i < j
    BY <1>5, <1>7, <1>8, <1>12
<1>13. CASE j <= i
    BY <1>2, <1>5, <1>7, <1>8, <1>9, <1>11, <1>13 DEF CameOvertaken
<1> QED BY <1>12, <1>13

(* A peer goes back to an older value of an extra only for a packet that   *)
(* arrives late or after a value that came in a header that was overtaken  *)
(* (VoIPController.cpp:1583-1592).                                         *)
THEOREM BackSafe == Spec => BackOnlyWhenLateOrOvertaken
<1>1. ExtrasInv /\ [Next]_vars =>
        [\A p \in Peers : \A t \in Types : applied'[p][t] < applied[p][t] =>
            \/ rx[p].pkt.seq < lastRemoteSeq[p]
            \/ CameOvertaken(p, t, rx[p].pkt.seq)]_vars
    BY BackStep
<1> QED BY <1>1, ExtrasInit, ExtrasNext, PTL DEF Spec, BackOnlyWhenLateOrOvertaken
=============================================================================
