--------------------------- MODULE JitterBuffer ---------------------------
(***************************************************************************)
(* The jitter buffer of one incoming audio stream of a call                *)
(* (submodules/libtgvoip/JitterBuffer.cpp) with the decoder that empties   *)
(* it (OpusDecoder::DecodeNextFrame).  The receive thread puts frames in   *)
(* whatever order the network delivers them, the decoder thread asks for   *)
(* the frame at the playhead once per frame duration, and the tick thread  *)
(* adapts the target delay.  Each operation runs under the buffer's mutex, *)
(* but DecodeNextFrame takes it twice when the frame is missing: once for  *)
(* the frame and once for the following one, from which Opus rebuilds the  *)
(* lost frame (FEC).                                                       *)
(*                                                                         *)
(* A frame is its timestamp and whether it is an extra-EC copy; the audio  *)
(* is left out, and so are the statistics that are only reported           *)
(* (lostPackets, lastPutTimestamp).  Slots are a set: which of the 64 slots *)
(* holds a frame changes nothing.  What Tick computes from clock readings  *)
(* (the jitter's standard deviation, the average delay) is a               *)
(* nondeterministic choice.                                                *)
(***************************************************************************)
EXTENDS Integers, FiniteSets, Sequences, FiniteSetsExt, SequencesExt

CONSTANTS
    Step,           \* frame duration in milliseconds
    SlotCount,      \* JITTER_SLOT_COUNT, also the size of bufferPool
    MaxUsedSlots,   \* maxUsedSlots
    MinMinDelay,    \* minMinDelay
    MaxMinDelay,    \* maxMinDelay
    InitialDelay,   \* what the controller passes to SetMinPacketCount first
    PacketCounts,   \* what it passes later, when extra EC is switched
    LossesToReset,  \* lossesToReset
    LossFactor,     \* the 25 of gotSinceReset>minDelay*25
    HistorySize,    \* entries of lateHistory
    LateWindow,     \* the 16 newest of them
    ResyncLate,     \* resyncThreshold*16: late frames that force a resync
    HoldDec,        \* the 100 dontDecMinDelay is set to on a rise
    HoldChange,     \* the 32 that dontChangeDelay gets on a change of minDelay
    Packets,        \* what the peer sends: frames and extra-EC copies of frames
    Drifts,         \* corrections Tick makes for an average delay off target
    MaxTicks,       \* bound on tickCount
    MaxPuts,        \* bound on the frames and copies that arrive
    MaxTimestamp,   \* bound on nextTimestamp
    None

ASSUME SizeAssumption ==
    /\ Step \in Nat \ {0, 1}
    /\ SlotCount \in Nat \ {0} /\ MaxUsedSlots \in Nat \ {0}
    /\ MinMinDelay \in Nat /\ MaxMinDelay \in Nat /\ InitialDelay \in Nat
    /\ PacketCounts \subseteq Nat
    /\ LossesToReset \in Nat \ {0} /\ LossFactor \in Nat
    /\ HistorySize \in Nat \ {0} /\ LateWindow \in 1..HistorySize
    /\ ResyncLate \in Nat \ {0} /\ HoldDec \in Nat /\ HoldChange \in Nat
    /\ MaxTicks \in Nat /\ MaxPuts \in Nat /\ MaxTimestamp \in Nat
    /\ Packets \subseteq [ts : Nat, isEC : BOOLEAN]
    /\ \A p \in Packets : \E k \in 0..p.ts : p.ts = k * Step
    /\ Drifts \subseteq {-60, -20, 0, 20}
    /\ None \notin Int

VARIABLES
    slots,            \* the occupied slots
    usedBuffers,      \* how many buffers of bufferPool are out
    nextTimestamp,    \* the playhead
    minDelay,
    lostCount, lostSinceReset, gotSinceReset,
    wasReset, needBuffering,
    latePacketCount, lateHistory,
    dontIncMinDelay, dontDecMinDelay, dontChangeDelay,
    outstandingDelayChange,
    tickCount,
    fec,              \* the decoder is between its two calls: the frame missed
    \* history
    puts,             \* how often HandleInput was called
    lateTs,           \* timestamps stored behind the playhead since the resync
    overrun,          \* timestamps put while the buffer was full, likewise
    lastPlayed,       \* newest timestamp handed out since the resync
    missed,           \* distinct timestamps missed since the last frame found
    moved,            \* the playhead was moved by a put since fec was set
    resetLosses       \* at the last reset: <<lostCount, distinct frames>>

playout == <<slots, usedBuffers, nextTimestamp, lostCount, lostSinceReset,
             gotSinceReset, wasReset, needBuffering>>
adaptation == <<minDelay, latePacketCount, lateHistory, dontIncMinDelay,
                dontDecMinDelay, dontChangeDelay, outstandingDelayChange,
                tickCount>>
history == <<puts, lateTs, overrun, lastPlayed, missed, moved, resetLosses>>
vars == <<playout, adaptation, fec, history>>

Frames == {p.ts : p \in Packets}
Frame == [ts : Frames, isEC : BOOLEAN]

TypeOK ==
    /\ slots \subseteq Frame
    /\ usedBuffers \in Nat
    /\ nextTimestamp \in Int
    /\ minDelay \in Nat
    /\ lostCount \in 0..(LossesToReset - 1)
    /\ lostSinceReset \in Nat /\ gotSinceReset \in Nat
    /\ wasReset \in BOOLEAN /\ needBuffering \in BOOLEAN
    /\ latePacketCount \in Nat
    /\ lateHistory \in [1..HistorySize -> Nat]
    /\ dontIncMinDelay \in Nat /\ dontDecMinDelay \in Nat
    /\ dontChangeDelay \in Nat
    /\ outstandingDelayChange \in Int
    /\ tickCount \in 0..MaxTicks
    /\ fec \in Int \cup {None}
    /\ puts \in 0..MaxPuts
    /\ lateTs \subseteq Frames /\ overrun \subseteq Frames
    /\ lastPlayed \in Int \cup {None}
    /\ missed \subseteq Int
    /\ moved \in BOOLEAN
    /\ resetLosses \in Nat \X Nat

---------------------------------------------------------------------------
\* The constructor with the controller's SetMinPacketCount.  latePacketCount
\* and nextTimestamp are not initialised: latePacketCount starts anywhere,
\* and nextTimestamp is not looked at before the first put sets it.
Init ==
    /\ slots = {} /\ usedBuffers = 0
    /\ nextTimestamp = 0
    /\ minDelay = InitialDelay
    /\ lostCount = 0 /\ lostSinceReset = 0 /\ gotSinceReset = 0
    /\ wasReset = TRUE /\ needBuffering = TRUE
    /\ latePacketCount \in {0, ResyncLate}
    /\ lateHistory = [i \in 1..HistorySize |-> 0]
    /\ dontIncMinDelay = 0 /\ dontDecMinDelay = 0 /\ dontChangeDelay = 0
    /\ outstandingDelayChange = 0
    /\ tickCount = 0
    /\ fec = None
    /\ puts = 0 /\ lateTs = {} /\ overrun = {} /\ lastPlayed = None
    /\ missed = {} /\ moved = FALSE /\ resetLosses = <<0, 0>>

GetCurrentDelay(s) == Cardinality(s)
Oldest(s) == CHOOSE p \in s : \A q \in s : p.ts <= q.ts

---------------------------------------------------------------------------
\* Mutant of Replaced: the frame takes a slot beside its copy.
ReplacedBeside(p) == slots \cup {p}

\* A frame whose timestamp is there takes the place of what is there, an EC
\* copy does not (overwriteExisting).
Replaced(p) ==
    IF p.isEC THEN slots ELSE {q \in slots : q.ts # p.ts} \cup {p}

\* Mutant of Purged: nothing is purged.
PurgedNever(next) == slots

\* What a put leaves of the slots behind the playhead.
Purged(next) == {q \in slots : q.ts >= next - 1}

\* PutInternal of a frame whose timestamp is not in the buffer, from the
\* point where the playhead is next: purge, count a late frame, make room.
\* The branch for a frame that is hopelessly late stands behind the test for
\* a late one and is never taken, so a late frame is stored as well.
Store(p, next) ==
    LET kept == Purged(next)
        isLate == p.ts < next
        full == \/ Cardinality(kept) = SlotCount
                \/ GetCurrentDelay(kept) >= MaxUsedSlots
        room == IF full THEN kept \ {Oldest(kept)} ELSE kept
        freed == Cardinality(slots) - Cardinality(room)
    IN  /\ slots' = room \cup {p}
        /\ usedBuffers' = (usedBuffers - freed) + 1
        /\ nextTimestamp' = IF full THEN next + Step ELSE next
        /\ latePacketCount' = latePacketCount + (IF isLate THEN 1 ELSE 0)
        /\ lateTs' = (IF wasReset THEN {} ELSE lateTs)
                     \cup (IF isLate THEN {p.ts} ELSE {})
        /\ overrun' = (IF wasReset THEN {} ELSE overrun)
                      \cup (IF full THEN {p.ts} ELSE {})
        /\ moved' = (moved \/ wasReset \/ full)

\* HandleInput: a frame that is already there is replaced by a frame and kept
\* against an EC copy; the first frame after a reset sets the playhead.
HandleInput(p) ==
    /\ puts < MaxPuts
    /\ puts' = puts + 1
    /\ IF \E q \in slots : q.ts = p.ts
       THEN /\ slots' = Replaced(p)
            /\ UNCHANGED <<usedBuffers, nextTimestamp, gotSinceReset, wasReset,
                           latePacketCount, outstandingDelayChange, lateTs,
                           overrun, lastPlayed, moved>>
       ELSE /\ gotSinceReset' = gotSinceReset + 1
            /\ wasReset' = FALSE
            /\ Store(p, IF wasReset THEN p.ts - Step * minDelay
                        ELSE nextTimestamp)
            /\ outstandingDelayChange' =
                 IF wasReset THEN 0 ELSE outstandingDelayChange
            /\ lastPlayed' = IF wasReset THEN None ELSE lastPlayed
    /\ UNCHANGED <<lostCount, lostSinceReset, needBuffering, minDelay,
                   lateHistory, dontIncMinDelay, dontDecMinDelay,
                   dontChangeDelay, tickCount, fec, missed, resetLosses>>

---------------------------------------------------------------------------
\* HandleOutput works off a pending change of the delay, 20 ms a call.
Stretch(change) ==
    CASE change < 0 -> change + 20
      [] change > 0 -> change - 20
      [] OTHER -> 0

\* GetInternal(offset 0) finds the frame at the playhead.
Take(p) ==
    /\ slots' = slots \ {p}
    /\ usedBuffers' = usedBuffers - 1
    /\ nextTimestamp' = nextTimestamp + Step
    /\ lostCount' = 0
    /\ needBuffering' = FALSE
    /\ lastPlayed' = p.ts
    /\ missed' = {}
    /\ outstandingDelayChange' = Stretch(outstandingDelayChange)
    /\ UNCHANGED <<lostSinceReset, gotSinceReset, wasReset, dontIncMinDelay,
                   dontDecMinDelay, dontChangeDelay, latePacketCount,
                   lateHistory, lateTs, overrun, resetLosses>>

\* Mutant of ResetForLosses: the buffers of the slots are not given back.
ResetLeaks(next, lost) ==
    /\ dontIncMinDelay' = 16
    /\ dontDecMinDelay' = dontDecMinDelay + 128
    /\ nextTimestamp' = IF GetCurrentDelay(slots) < minDelay
                        THEN next - (minDelay - GetCurrentDelay(slots))
                        ELSE next
    /\ lostCount' = 0 /\ lostSinceReset' = 0 /\ gotSinceReset' = 0
    /\ wasReset' = TRUE /\ needBuffering' = TRUE
    /\ slots' = {} /\ usedBuffers' = usedBuffers
    /\ lateHistory' = [i \in 1..HistorySize |-> 0]
    /\ outstandingDelayChange' = 0 /\ dontChangeDelay' = 0
    /\ lateTs' = {} /\ overrun' = {}
    /\ resetLosses' = <<lost, Cardinality(missed')>>

\* The reset that too many losses cause (Reset): the slots are emptied and
\* the next frame put sets the playhead again.
ResetForLosses(next, lost) ==
    /\ dontIncMinDelay' = 16
    /\ dontDecMinDelay' = dontDecMinDelay + 128
    /\ nextTimestamp' = IF GetCurrentDelay(slots) < minDelay
                        THEN next - (minDelay - GetCurrentDelay(slots))
                        ELSE next
    /\ lostCount' = 0 /\ lostSinceReset' = 0 /\ gotSinceReset' = 0
    /\ wasReset' = TRUE /\ needBuffering' = TRUE
    /\ slots' = {} /\ usedBuffers' = usedBuffers - Cardinality(slots)
    /\ lateHistory' = [i \in 1..HistorySize |-> 0]
    /\ outstandingDelayChange' = 0 /\ dontChangeDelay' = 0
    /\ lateTs' = {} /\ overrun' = {}
    /\ resetLosses' = <<lost, Cardinality(missed')>>

\* lossesToReset in a row, or more than half of what came since the reset.
TooManyLosses(lost, lostTotal) ==
    \/ lost >= LossesToReset
    \/ /\ gotSinceReset > minDelay * LossFactor
       /\ lostTotal > gotSinceReset \div 2

\* Mutant of Advanced: the second call advances instead of the first.
AdvancedSecond(advance) ==
    IF advance THEN nextTimestamp ELSE nextTimestamp + Step

\* The playhead after a miss: DecodeNextFrame's first call advances it.
Advanced(advance) ==
    IF advance THEN nextTimestamp + Step ELSE nextTimestamp

\* GetInternal(offset 0) finds nothing at the playhead.
Miss(advance) ==
    LET next == Advanced(advance)
        lost == lostCount + 1
        lostTotal == lostSinceReset + 1
    IN  /\ missed' = IF needBuffering THEN missed
                     ELSE missed \cup {nextTimestamp}
        /\ IF ~needBuffering /\ TooManyLosses(lost, lostTotal)
           THEN ResetForLosses(next, lost)
           ELSE /\ nextTimestamp' = next
                /\ lostCount' = IF needBuffering THEN lostCount ELSE lost
                /\ lostSinceReset' = IF needBuffering THEN lostSinceReset
                                     ELSE lostTotal
                /\ outstandingDelayChange' = Stretch(outstandingDelayChange)
                /\ UNCHANGED <<slots, usedBuffers, gotSinceReset, wasReset,
                               needBuffering, dontIncMinDelay, dontDecMinDelay,
                               dontChangeDelay, lateHistory, lateTs,
                               overrun, resetLosses>>
        /\ UNCHANGED <<latePacketCount, lastPlayed>>

\* Mutant of AtPlayhead: any frame that is due.
AtOrBehindPlayhead == {p \in slots : p.ts <= nextTimestamp}

\* The slot GetInternal looks for.
AtPlayhead == {p \in slots : p.ts = nextTimestamp}

\* DecodeNextFrame: the frame at the playhead, or the FEC attempt next.
DecodeFrame ==
    /\ fec = None
    /\ nextTimestamp < MaxTimestamp
    /\ \/ /\ \E p \in AtPlayhead : Take(p)
          /\ UNCHANGED <<fec, moved>>
       \/ /\ AtPlayhead = {}
          /\ Miss(TRUE)
          /\ fec' = nextTimestamp
          /\ moved' = FALSE
    /\ UNCHANGED <<minDelay, tickCount, puts>>

\* DecodeNextFrame's second call, for the frame after the missing one.
DecodeFec ==
    /\ fec # None
    /\ \/ \E p \in AtPlayhead : Take(p)
       \/ /\ AtPlayhead = {}
          /\ Miss(FALSE)
    /\ fec' = None
    /\ moved' = FALSE
    /\ UNCHANGED <<minDelay, tickCount, puts>>

---------------------------------------------------------------------------
LateSum(h) == FoldSeq(+, 0, SubSeq(h, 1, LateWindow))

\* The change Tick makes to the delay for a measured jitter of target frames.
Clamp(d) == CASE d > 0 -> 1 [] d < 0 -> -1 [] OTHER -> 0

\* Tick, ten times a second.  target is stddevDelay, clamped to its bounds,
\* drift the correction for an average delay off the target.
\* dontIncMinDelay is set and never counted down.
Tick(target, drift) ==
    LET late == <<latePacketCount>> \o SubSeq(lateHistory, 1, HistorySize - 1)
        noLate == \A i \in 1..HistorySize : late[i] = 0
        held == IF noLate /\ dontDecMinDelay > 0 THEN dontDecMinDelay - 1
                ELSE dontDecMinDelay
        dec == IF target > minDelay THEN HoldDec ELSE held
        diff == Clamp(target - minDelay)
        apply == (diff > 0 /\ dontIncMinDelay = 0) \/ (diff < 0 /\ dec = 0)
        quiet == dontChangeDelay + (IF apply THEN HoldChange ELSE 0)
        correct == quiet = 0 /\ drift # 0
        quiet2 == quiet + (IF correct THEN 10 ELSE 0)
    IN  /\ tickCount < MaxTicks
        /\ tickCount' = tickCount + 1
        /\ lateHistory' = late
        /\ latePacketCount' = 0
        /\ wasReset' = (wasReset \/ LateSum(late) >= ResyncLate)
        /\ minDelay' = IF apply THEN minDelay + diff ELSE minDelay
        /\ dontIncMinDelay' = IF apply /\ diff > 0 THEN 25 ELSE dontIncMinDelay
        /\ dontDecMinDelay' = IF apply /\ diff < 0 THEN dec + 25 ELSE dec
        /\ outstandingDelayChange' =
             outstandingDelayChange + (IF apply THEN diff * 60 ELSE 0)
                                    + (IF correct THEN drift ELSE 0)
        /\ dontChangeDelay' = IF quiet2 > 0 THEN quiet2 - 1 ELSE 0
        /\ UNCHANGED <<slots, usedBuffers, nextTimestamp, lostCount,
                       lostSinceReset, gotSinceReset, needBuffering, fec,
                       history>>

\* SetMinPacketCount, called without the mutex when the peer switches EC.
SetMinPacketCount(count) ==
    /\ minDelay # count
    /\ minDelay' = count
    /\ UNCHANGED <<playout, latePacketCount, lateHistory, dontIncMinDelay,
                   dontDecMinDelay, dontChangeDelay, outstandingDelayChange,
                   tickCount, fec, history>>

Next ==
    \/ \E p \in Packets : HandleInput(p)
    \/ DecodeFrame
    \/ DecodeFec
    \/ \E t \in MinMinDelay..MaxMinDelay, d \in Drifts : Tick(t, d)
    \/ \E c \in PacketCounts : SetMinPacketCount(c)

Spec == Init /\ [][Next]_vars

---------------------------------------------------------------------------
\* Every occupied slot holds one buffer of the pool and nothing else does, so
\* bufferPool.Get() in PutInternal never returns NULL (JitterBuffer.cpp:308)
\* however puts, purges, evictions and resets are mixed.
BuffersMatchSlots ==
    /\ usedBuffers = Cardinality(slots)
    /\ usedBuffers <= SlotCount /\ usedBuffers <= MaxUsedSlots

\* A timestamp is in the buffer once: the frame and its EC copies share the
\* slot, whichever comes first.
OneSlotPerTimestamp ==
    \A p, q \in slots : p.ts = q.ts => p = q

\* The playhead never passes a frame that waits in the buffer: what is behind
\* it was late when it was put, or was put into a full buffer, whose eviction
\* moves the playhead by a frame (JitterBuffer.cpp:292-305).
OnlyLateBehind ==
    \A p \in slots : p.ts < nextTimestamp => p.ts \in lateTs \cup overrun

\* Between two resyncs the decoder gets timestamps in increasing order: late
\* frames are kept in the buffer but never played out of order.
PlayedInOrder ==
    [][lastPlayed' # lastPlayed /\ lastPlayed # None /\ lastPlayed' # None
         => lastPlayed' > lastPlayed]_vars

\* DecodeNextFrame gives up the mutex between the missing frame and the FEC
\* attempt; what the second call then finds is the frame right after the
\* missing one unless a put moved the playhead in between.
FecIsSuccessor ==
    fec # None /\ AtPlayhead # {} => moved \/ nextTimestamp = fec + Step

\* Violated.  "jitter: lost %d packets in a row, resetting"
\* (JitterBuffer.cpp:206): the number in it is the number of frames missed.
LostInARow == resetLosses[1] = resetLosses[2]

\* Violated.  "dropping packet with timestamp %d because it is too late"
\* (JitterBuffer.cpp:280): a frame more than a millisecond behind the
\* playhead is not stored.
TooLateIsDropped ==
    \A p \in slots : p.ts \in lateTs => p.ts >= nextTimestamp - 1
===========================================================================
