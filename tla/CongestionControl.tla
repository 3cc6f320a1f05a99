------------------------- MODULE CongestionControl -------------------------
(***************************************************************************)
(* The packets in flight of a call                                         *)
(* (submodules/libtgvoip/CongestionControl.cpp).  The send thread reports  *)
(* each media packet, the receive thread each acknowledged number, the     *)
(* tick thread calls Tick ten times a second.  A packet is settled once:   *)
(* acknowledged, or counted as lost after 2 s or when its slot is needed.  *)
(*                                                                         *)
(* All three work under one mutex and are one action each.  sendTime is    *)
(* the order of sending; a tick expires the packets up to some cut.  A     *)
(* history entry holds the number of its push in place of a time.          *)
(***************************************************************************)
EXTENDS Integers, Sequences, FiniteSets, FiniteSetsExt

CONSTANTS
    Slots,        \* inflightPackets: 100
    RttSize,      \* rttHistory: 100
    RttWindow,    \* entries GetAverageRTT reads: 30
    HistorySize,  \* inflightHistory: 30
    Word,         \* 2^32, the modulus of unsigned int
    Sizes,        \* lengths of packets
    MaxSeq        \* bound on the numbers sent

ASSUME CongestionAssumption ==
    /\ Slots \in Nat \ {0} /\ RttSize \in Nat \ {0} /\ HistorySize \in Nat \ {0}
    /\ RttWindow \in Nat /\ Word \in Nat /\ Word > RttSize
    /\ Sizes \subseteq Nat /\ MaxSeq \in Nat

VARIABLES
    inflight,            \* inflightPackets
    inflightDataSize,
    lossCount,
    lastSentSeq,
    tmpRttCount,
    rttHistory, rttHistorySize, rttHistoryTop,
    inflightHistory, inflightHistoryTop,
    now,                 \* packets reported so far: the clock
    pushes,              \* entries ever written to rttHistory
    sent, acked, lost    \* history: numbers reported, and how they were settled

rtt == <<tmpRttCount, rttHistory, rttHistorySize, rttHistoryTop, pushes>>
flights == <<inflightHistory, inflightHistoryTop>>
vars == <<inflight, inflightDataSize, lossCount, lastSentSeq, rtt, flights, now,
          sent, acked, lost>>

Slot == 1..Slots
Free(i) == inflight[i].sendTime = 0
Live == {i \in Slot : ~Free(i)}
SizeOf(S) == MapThenSumSet(LAMBDA i : inflight[i].size, S)

TypeOK ==
    /\ inflight \in [Slot -> [seq : 0..MaxSeq, size : Sizes \cup {0}, sendTime : Nat]]
    /\ inflightDataSize \in Nat /\ lossCount \in Nat
    /\ lastSentSeq \in 0..MaxSeq
    /\ tmpRttCount \in Nat /\ pushes \in Nat /\ now \in Nat
    /\ rttHistory \in [0..(RttSize - 1) -> Nat]
    /\ rttHistorySize \in 0..RttSize /\ rttHistoryTop \in 0..(RttSize - 1)
    /\ inflightHistory \in [0..(HistorySize - 1) -> Nat]
    /\ inflightHistoryTop \in 0..(HistorySize - 1)
    /\ sent \subseteq 1..MaxSeq /\ acked \subseteq 1..MaxSeq /\ lost \subseteq 1..MaxSeq

Init ==
    /\ inflight = [i \in Slot |-> [seq |-> 0, size |-> 0, sendTime |-> 0]]
    /\ inflightDataSize = 0 /\ lossCount = 0 /\ lastSentSeq = 0
    /\ tmpRttCount = 0 /\ pushes = 0 /\ now = 0
    /\ rttHistory = [k \in 0..(RttSize - 1) |-> 0]
    /\ rttHistorySize = 0 /\ rttHistoryTop = 0
    /\ inflightHistory = [k \in 0..(HistorySize - 1) |-> 0]
    /\ inflightHistoryTop = 0
    /\ sent = {} /\ acked = {} /\ lost = {}

-----------------------------------------------------------------------------
(* The first free slot, or the one sent longest ago.                       *)
SlotToUse ==
    IF \E i \in Slot : Free(i)
    THEN CHOOSE i \in Slot : Free(i) /\ \A j \in Slot : Free(j) => i <= j
    ELSE CHOOSE i \in Slot : \A j \in Slot : inflight[i].sendTime <= inflight[j].sendTime

(* Mutant: a displaced packet stays in the total.                          *)
DisplacedSizeKept(i) == 0

(* What a slot that is taken over leaves the total.                        *)
DisplacedSize(i) == IF Free(i) THEN 0 ELSE inflight[i].size

(* A media packet is sent.  A number that is not above the last one is     *)
(* reported as a duplicate and ignored.                                    *)
PacketSent(s, z) ==
    LET i == SlotToUse IN
    /\ s > lastSentSeq
    /\ lastSentSeq' = s
    /\ inflightDataSize' = inflightDataSize - DisplacedSize(i) + z
    /\ lossCount' = IF Free(i) THEN lossCount ELSE lossCount + 1
    /\ lost' = IF Free(i) THEN lost ELSE lost \cup {inflight[i].seq}
    /\ now' = now + 1
    /\ inflight' = [inflight EXCEPT ![i] = [seq |-> s, size |-> z, sendTime |-> now + 1]]
    /\ sent' = sent \cup {s}
    /\ UNCHANGED <<rtt, flights, acked>>

(* Mutant: a slot that was settled before is settled again.                *)
AwaitingAny(s) == {i \in Slot : inflight[i].seq = s /\ s # 0}

(* The slots an acknowledgement of s settles: at most the first is.        *)
Awaiting(s) == {i \in Slot : inflight[i].seq = s /\ ~Free(i)}

(* The peer acknowledged s, rightly or wrongly, possibly again.            *)
PacketAcknowledged(s) ==
    /\ Awaiting(s) # {}
    /\ LET i == Min(Awaiting(s)) IN
        /\ inflight' = [inflight EXCEPT ![i].sendTime = 0]
        /\ inflightDataSize' = inflightDataSize - inflight[i].size
    /\ tmpRttCount' = tmpRttCount + 1
    /\ acked' = acked \cup {s}
    /\ UNCHANGED <<lossCount, lastSentSeq, rttHistory, rttHistorySize, rttHistoryTop,
                   pushes, flights, now, sent, lost>>

(* Mutant: the newest of them is left.                                     *)
ExpiredBefore(cut) == {i \in Live : inflight[i].sendTime < cut}

(* Packets that are older than 2 s.                                        *)
Expired(cut) == {i \in Live : inflight[i].sendTime <= cut}

Tick(cut) ==
    LET old == Expired(cut)
        left == inflightDataSize - SizeOf(old) IN
    /\ IF tmpRttCount > 0
       THEN /\ rttHistory' = [rttHistory EXCEPT ![rttHistoryTop] = pushes + 1]
            /\ rttHistoryTop' = (rttHistoryTop + 1) % RttSize
            /\ rttHistorySize' = IF rttHistorySize < RttSize THEN rttHistorySize + 1
                                 ELSE rttHistorySize
            /\ tmpRttCount' = 0
            /\ pushes' = pushes + 1
       ELSE UNCHANGED rtt
    /\ inflight' = [i \in Slot |-> IF i \in old THEN [inflight[i] EXCEPT !.sendTime = 0]
                                   ELSE inflight[i]]
    /\ inflightDataSize' = left
    /\ lossCount' = lossCount + Cardinality(old)
    /\ lost' = lost \cup {inflight[i].seq : i \in old}
    /\ inflightHistory' = [inflightHistory EXCEPT ![inflightHistoryTop] = left]
    /\ inflightHistoryTop' = (inflightHistoryTop + 1) % HistorySize
    /\ UNCHANGED <<lastSentSeq, now, sent, acked>>

-----------------------------------------------------------------------------
(* What the statistics read                                                *)

(* The entries GetAverageRTT adds up.  rttHistoryTop is unsigned, so the   *)
(* difference wraps before the remainder is taken.                         *)
ReadIndices ==
    {((rttHistoryTop - i - 1) % Word) % RttSize :
        i \in 0..(Min({RttWindow, rttHistorySize}) - 1)}

-----------------------------------------------------------------------------
Next ==
    \/ \E s \in 1..MaxSeq, z \in Sizes : PacketSent(s, z)
    \/ \E s \in 1..MaxSeq : PacketAcknowledged(s)
    \/ \E cut \in 0..now : Tick(cut)

Spec == Init /\ [][Next]_vars

(* The tick thread runs every 100 ms and time passes, so a tick comes that *)
(* finds every packet older than 2 s.                                      *)
FairSpec == Spec /\ WF_vars(Tick(now))

-----------------------------------------------------------------------------
(* Properties                                                              *)

(* The total is the sum of what is in flight, through displacement, expiry *)
(* and late acknowledgements: it never underflows.                         *)
SizeIsInflight == inflightDataSize = SizeOf(Live)

(* A packet is settled exactly once: what was sent is in flight,           *)
(* acknowledged or lost, never two of them, and a late acknowledgement of  *)
(* a lost packet changes nothing.                                          *)
SettledOnce ==
    LET flying == {inflight[i].seq : i \in Live} IN
    /\ sent = flying \cup acked \cup lost
    /\ acked \cap lost = {} /\ flying \cap (acked \cup lost) = {}
    /\ Cardinality(flying) = Cardinality(Live)
    /\ lossCount = Cardinality(lost)

(* Violated.  GetAverageRTT averages the newest entries, as the correction *)
(* of a negative remainder at CongestionControl.cpp:50 intends.            *)
ReadsNewest ==
    {rttHistory[k] : k \in ReadIndices}
        = {pushes - i : i \in 0..(Min({RttWindow, rttHistorySize}) - 1)}

(* Every packet is settled in the end.                                     *)
EventuallySettled ==
    \A s \in 1..MaxSeq : s \in sent ~> s \in acked \cup lost
=============================================================================
