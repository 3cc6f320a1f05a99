------------------------ MODULE JitterBufferProofs ------------------------
(***************************************************************************)
(* Proofs about the jitter buffer, for every number of slots, every frame  *)
(* duration, every set of frames and copies and every delay.               *)
(***************************************************************************)
EXTENDS JitterBuffer, FiniteSetTheorems, WellFoundedInduction, TLAPS

(***************************************************************************)
(* Timestamps lie on a grid of one frame duration.                         *)
(***************************************************************************)
Aligned(x) == \E k \in Int : x = k * Step

(* Products with a frame duration.                                         *)
LEMMA Products ==
    ASSUME NEW k \in Int, NEW m \in Int
    PROVE  /\ k * Step \in Int
           /\ (k + 1) * Step = k * Step + Step
           /\ (k - m) * Step = k * Step - Step * m
           /\ k >= 0 => k * Step >= 0
BY SizeAssumption

(* Two points of the grid are the same or a frame duration apart.          *)
LEMMA Gap ==
    ASSUME NEW x, NEW y, Aligned(x), Aligned(y), x < y
    PROVE  x + Step <= y
<1>1. PICK a \in Int, b \in Int : x = a * Step /\ y = b * Step
    BY DEF Aligned
<1>2. x \in Int /\ y \in Int /\ Step \in Int /\ Step >= 2
    BY <1>1, Products, SizeAssumption
<1>3. a < b
    <2> SUFFICES ASSUME a >= b PROVE FALSE
        BY <1>1
    <2>1. (a - b) * Step >= 0 /\ (a - b) * Step = a * Step - Step * b
        BY Products
    <2>2. Step * b = b * Step
        BY <1>2
    <2> QED BY <1>1, <1>2, <2>1, <2>2
<1>4. (b - (a + 1)) * Step >= 0 /\ (b - (a + 1)) * Step = b * Step - Step * (a + 1)
    BY <1>3, Products
<1>5. Step * (a + 1) = (a + 1) * Step /\ (a + 1) * Step = a * Step + Step
    BY <1>2, Products
<1> QED BY <1>1, <1>2, <1>4, <1>5

(* The grid is closed under steps of the playhead.                         *)
LEMMA AlignedSteps ==
    ASSUME NEW x, Aligned(x)
    PROVE  /\ x \in Int /\ Aligned(x + Step)
           /\ \A n \in Nat : Aligned(x - Step * n) /\ x - Step * n <= x
<1>1. PICK a \in Int : x = a * Step
    BY DEF Aligned
<1>2. x \in Int /\ Step \in Int
    BY <1>1, Products, SizeAssumption
<1>3. x + Step = (a + 1) * Step
    BY <1>1, Products
<1>4. ASSUME NEW n \in Nat PROVE Aligned(x - Step * n) /\ x - Step * n <= x
    <2>1. (a - n) * Step = a * Step - Step * n /\ n * Step >= 0
        BY Products
    <2>2. n * Step = Step * n /\ Step * n \in Int
        BY <1>2, Products
    <2>3. a - n \in Int
        OBVIOUS
    <2> QED BY <1>1, <1>2, <2>1, <2>2, <2>3 DEF Aligned
<1> QED BY <1>2, <1>3, <1>4 DEF Aligned

(* Every frame of the peer is on the grid.                                 *)
LEMMA PacketsAligned ==
    ASSUME NEW p \in Packets
    PROVE  Aligned(p.ts) /\ p.ts \in Nat
<1>1. PICK k \in 0..p.ts : p.ts = k * Step
    BY SizeAssumption
<1> QED BY <1>1, SizeAssumption DEF Aligned

(* A set of naturals that is not empty has a least element.                *)
LEMMA NatMin ==
    ASSUME NEW S, S \subseteq Nat, S # {}
    PROVE  \E n \in S : \A m \in S : n <= m
<1>1. PICK n \in S : \A m \in S : ~(<<m, n>> \in OpToRel(<, Nat))
    BY NatLessThanWellFounded, WFMin
<1>2. ASSUME NEW m \in S PROVE n <= m
    <2>1. ~(m < n)
        BY <1>1 DEF OpToRel
    <2> QED BY <2>1
<1> QED BY <1>2

(* The slot that is evicted is there and is the oldest.                    *)
LEMMA OldestThere ==
    ASSUME NEW s, s \subseteq Packets, s # {}
    PROVE  Oldest(s) \in s /\ \A q \in s : Oldest(s).ts <= q.ts
<1>1. {q.ts : q \in s} \subseteq Nat /\ {q.ts : q \in s} # {}
    BY PacketsAligned
<1>2. PICK n \in {q.ts : q \in s} : \A m \in {q.ts : q \in s} : n <= m
    BY <1>1, NatMin
<1>3. \E p \in s : \A q \in s : p.ts <= q.ts
    BY <1>2
<1> QED BY <1>3 DEF Oldest

(***************************************************************************)
(* The inductive invariant.                                                *)
(***************************************************************************)

(* Nothing was put since the buffer was emptied: the playhead means        *)
(* nothing until the next put sets it.                                     *)
Fresh == wasReset /\ slots = {}

SlotsInv ==
    /\ slots \subseteq Packets /\ IsFiniteSet(slots)
    /\ nextTimestamp \in Int /\ minDelay \in Nat

(* The playhead is on the grid of the timestamps.                          *)
PlayheadAligned == Fresh \/ Aligned(nextTimestamp)

(* What was played is behind the playhead.                                 *)
PlayedBehind ==
    lastPlayed # None => lastPlayed \in Int /\ (Fresh \/ lastPlayed < nextTimestamp)

(* The FEC attempt is for the frame after the missing one.                 *)
FecNext == fec # None => Fresh \/ moved \/ nextTimestamp = fec + Step

Inv ==
    /\ SlotsInv /\ BuffersMatchSlots /\ OneSlotPerTimestamp
    /\ PlayheadAligned /\ OnlyLateBehind /\ PlayedBehind /\ FecNext

(* The initial state.                                                      *)
LEMMA InitHolds == Init => Inv
<1> SUFFICES ASSUME Init PROVE Inv
    OBVIOUS
<1>1. SlotsInv /\ BuffersMatchSlots
    BY FS_EmptySet, SizeAssumption DEF Init, SlotsInv, BuffersMatchSlots
<1>2. OneSlotPerTimestamp /\ PlayheadAligned /\ OnlyLateBehind /\ PlayedBehind /\ FecNext
    BY DEF Init, OneSlotPerTimestamp, PlayheadAligned, Fresh, OnlyLateBehind,
        PlayedBehind,
           FecNext
<1> QED BY <1>1, <1>2 DEF Inv

(* A put that finds its timestamp in the buffer takes the slot over.       *)
LEMMA ReplaceStep ==
    ASSUME Inv, NEW p \in Packets, HandleInput(p), \E q \in slots : q.ts = p.ts
    PROVE  Inv'
<1>1. PICK q \in slots : q.ts = p.ts
    OBVIOUS
<1>2. /\ slots' = Replaced(p)
      /\ UNCHANGED <<usedBuffers, nextTimestamp, wasReset, minDelay, lateTs, overrun,
                     lastPlayed, moved, fec>>
    BY DEF HandleInput
<1> DEFINE rest == {r \in slots : r.ts # p.ts}
<1>3. slots = rest \cup {q} /\ q \notin rest /\ p \notin rest
    BY <1>1 DEF Inv, OneSlotPerTimestamp
<1>4. IsFiniteSet(slots) /\ IsFiniteSet(rest)
    BY FS_Subset DEF Inv, SlotsInv
<1>5. \/ slots' = slots
      \/ slots' = rest \cup {p}
    BY <1>2 DEF Replaced
<1>6. IsFiniteSet(slots') /\ Cardinality(slots') = Cardinality(slots)
    <2>1. CASE slots' = slots
        BY <1>4, <2>1
    <2>2. CASE slots' = rest \cup {p}
        <3> HIDE DEF rest
        <3>1. /\ Cardinality(rest \cup {q}) = Cardinality(rest) + 1
              /\ Cardinality(rest \cup {p}) = Cardinality(rest) + 1
              /\ IsFiniteSet(rest \cup {p})
            BY <1>3, <1>4, FS_AddElement
        <3> QED BY <1>3, <2>2, <3>1
    <2> QED BY <1>5, <2>1, <2>2
<1>7. SlotsInv' /\ OneSlotPerTimestamp'
    BY <1>2, <1>5, <1>6 DEF Inv, SlotsInv, OneSlotPerTimestamp
<1>8. BuffersMatchSlots'
    BY <1>2, <1>6 DEF Inv, BuffersMatchSlots
<1>9. ~Fresh /\ ~Fresh'
    BY <1>1, <1>3, <1>5 DEF Fresh
<1>10. OnlyLateBehind'
    BY <1>1, <1>2, <1>5 DEF Inv, OnlyLateBehind
<1>11. PlayheadAligned' /\ PlayedBehind' /\ FecNext'
    BY <1>2, <1>9 DEF Inv, PlayheadAligned, PlayedBehind, FecNext
<1> QED BY <1>7, <1>8, <1>10, <1>11 DEF Inv

(* What a put into the buffer does, once the playhead is at next.          *)
LEMMA StoreFacts ==
    ASSUME Inv, NEW p \in Packets, NEW next, Aligned(next), Store(p, next),
           \A q \in slots : q.ts # p.ts
    PROVE  /\ slots' \subseteq Packets /\ IsFiniteSet(slots')
           /\ OneSlotPerTimestamp' /\ BuffersMatchSlots'
           /\ Aligned(nextTimestamp') /\ nextTimestamp' \in Int /\ next <= nextTimestamp'
           /\ OnlyLateBehind' /\ slots' # {}
           /\ nextTimestamp' = next \/ moved'
<1> DEFINE kept == Purged(next)
           full == \/ Cardinality(kept) = SlotCount
                   \/ GetCurrentDelay(kept) >= MaxUsedSlots
           room == IF full THEN kept \ {Oldest(kept)} ELSE kept
           freed == Cardinality(slots) - Cardinality(room)
<1>1. /\ slots' = room \cup {p}
      /\ usedBuffers' = (usedBuffers - freed) + 1
      /\ nextTimestamp' = IF full THEN next + Step ELSE next
      /\ p.ts < next => p.ts \in lateTs'
      /\ full => p.ts \in overrun' /\ moved'
    BY DEF Store
<1>2. /\ slots \subseteq Packets /\ IsFiniteSet(slots) /\ Cardinality(slots) \in Nat
      /\ usedBuffers = Cardinality(slots)
      /\ Cardinality(slots) <= SlotCount /\ Cardinality(slots) <= MaxUsedSlots
    BY FS_CardinalityType DEF Inv, SlotsInv, BuffersMatchSlots
<1>3. /\ next \in Int /\ Step \in Nat /\ Step >= 2
      /\ next + Step \in Int /\ Aligned(next + Step)
    BY AlignedSteps, SizeAssumption
<1>4. kept \subseteq slots /\ \A q \in kept : q.ts >= next
    <2>1. ASSUME NEW q \in kept PROVE q \in slots /\ q.ts >= next
        <3>1. q \in slots /\ q.ts >= next - 1
            BY DEF Purged
        <3>2. q.ts \in Int /\ Aligned(q.ts)
            BY <1>2, <3>1, PacketsAligned
        <3>3. q.ts < next => q.ts + Step <= next
            BY <3>2, Gap
        <3> QED BY <1>3, <3>1, <3>2, <3>3
    <2> QED BY <2>1
<1>5. /\ IsFiniteSet(kept) /\ Cardinality(kept) \in Nat
      /\ Cardinality(kept) <= Cardinality(slots)
    BY <1>2, <1>4, FS_Subset, FS_CardinalityType
<1>6. full => /\ kept # {} /\ Oldest(kept) \in kept
              /\ \A q \in kept : Oldest(kept).ts <= q.ts
    <2> SUFFICES ASSUME full
                 PROVE /\ kept # {} /\ Oldest(kept) \in kept
                       /\ \A q \in kept : Oldest(kept).ts <= q.ts
        OBVIOUS
    <2>1. Cardinality(kept) # 0
        BY SizeAssumption DEF GetCurrentDelay
    <2>2. kept # {}
        BY <2>1, FS_EmptySet
    <2>3. kept \subseteq Packets
        BY <1>2, <1>4
    <2> HIDE DEF kept
    <2> QED BY <2>2, <2>3, OldestThere
<1>7. \A q \in room : q \in slots /\ q.ts >= nextTimestamp'
    <2> SUFFICES ASSUME NEW q \in room PROVE q \in slots /\ q.ts >= nextTimestamp'
        OBVIOUS
    <2>1. q \in kept /\ q \in slots /\ q.ts >= next
        BY <1>4
    <2>2. CASE full
        <3>1. Oldest(kept) \in kept /\ q # Oldest(kept) /\ Oldest(kept).ts <= q.ts
            BY <1>6, <2>1, <2>2
        <3>2. Oldest(kept).ts # q.ts /\ Oldest(kept).ts >= next
            BY <1>4, <2>1, <3>1 DEF Inv, OneSlotPerTimestamp
        <3>3. q.ts \in Nat /\ Oldest(kept).ts \in Nat /\ Aligned(q.ts)
            BY <1>2, <1>4, <2>1, <3>1, PacketsAligned
        <3>4. next < q.ts
            BY <1>3, <3>1, <3>2, <3>3
        <3>5. next + Step <= q.ts
            BY <3>3, <3>4, Gap
        <3>6. nextTimestamp' = next + Step
            BY <1>1, <2>2
        <3> QED BY <1>3, <2>1, <3>3, <3>5, <3>6
    <2>3. CASE ~full
        BY <1>1, <2>1, <2>3
    <2> QED BY <2>2, <2>3
<1>8. /\ IsFiniteSet(room) /\ Cardinality(room) \in Nat
      /\ Cardinality(room) + 1 <= SlotCount /\ Cardinality(room) + 1 <= MaxUsedSlots
    <2>1. CASE full
        <3>1. IsFiniteSet(room) /\ Cardinality(room) = Cardinality(kept) - 1
            <4>1. room = kept \ {Oldest(kept)} /\ Oldest(kept) \in kept
                BY <1>6, <2>1
            <4> HIDE DEF kept, room
            <4> QED BY <1>5, <4>1, FS_RemoveElement
        <3>2. Cardinality(room) \in Nat
            BY <3>1, FS_CardinalityType
        <3> HIDE DEF kept, room
        <3> QED BY <1>2, <1>5, <3>1, <3>2, SizeAssumption
    <2>2. CASE ~full
        <3>1. room = kept /\ Cardinality(kept) # SlotCount /\ ~(Cardinality(kept) >= MaxUsedSlots)
            BY <2>2 DEF GetCurrentDelay
        <3> HIDE DEF kept, room, full
        <3> QED BY <1>2, <1>5, <3>1, SizeAssumption
    <2> QED BY <2>1, <2>2
<1>9. p \notin room
    BY <1>7
<1>10. IsFiniteSet(slots') /\ Cardinality(slots') = Cardinality(room) + 1
    <2> HIDE DEF room
    <2> QED BY <1>1, <1>8, <1>9, FS_AddElement
<1>11. BuffersMatchSlots'
    <2>1. usedBuffers' = Cardinality(room) + 1
        <3>1. usedBuffers' = (Cardinality(slots) - (Cardinality(slots) - Cardinality(room))) + 1
            BY <1>1, <1>2
        <3> HIDE DEF room
        <3> QED BY <1>2, <1>8, <3>1
    <2> HIDE DEF room
    <2> QED BY <1>8, <1>10, <2>1 DEF BuffersMatchSlots
<1>12. OneSlotPerTimestamp'
    <2> HIDE DEF room
    <2> QED BY <1>1, <1>7 DEF Inv, OneSlotPerTimestamp
<1>13. slots' \subseteq Packets /\ slots' # {}
    <2> HIDE DEF room
    <2> QED BY <1>1, <1>2, <1>7
<1>14. /\ Aligned(nextTimestamp') /\ nextTimestamp' \in Int /\ next <= nextTimestamp'
       /\ nextTimestamp' = next \/ moved'
    <2> HIDE DEF full
    <2> QED BY <1>1, <1>3
<1>15. OnlyLateBehind'
    <2> SUFFICES ASSUME NEW q \in slots', q.ts < nextTimestamp'
                 PROVE  q.ts \in lateTs' \cup overrun'
        BY DEF OnlyLateBehind
    <2>1. q = p
        <3>1. q.ts \in Int
            BY <1>13, PacketsAligned
        <3> HIDE DEF room
        <3> QED BY <1>1, <1>7, <1>14, <3>1
    <2> HIDE DEF full
    <2> QED BY <1>1, <2>1
<1> HIDE DEF kept, full, room, freed
<1> QED BY <1>10, <1>11, <1>12, <1>13, <1>14, <1>15

(* A put of a new timestamp: the first one after a resync sets the         *)
(* playhead, minDelay frames back.                                         *)
LEMMA PutStep ==
    ASSUME Inv, NEW p \in Packets, HandleInput(p), ~\E q \in slots : q.ts = p.ts
    PROVE  Inv'
<1> DEFINE next == IF wasReset THEN p.ts - Step * minDelay ELSE nextTimestamp
<1>1. /\ Store(p, next) /\ wasReset' = FALSE
      /\ lastPlayed' = IF wasReset THEN None ELSE lastPlayed
      /\ minDelay' = minDelay /\ fec' = fec
    BY DEF HandleInput, Store
<1>2. Aligned(next)
    <2>1. CASE wasReset
        BY <2>1, PacketsAligned, AlignedSteps DEF Inv, SlotsInv
    <2>2. CASE ~wasReset
        BY <2>2 DEF Inv, PlayheadAligned, Fresh
    <2> QED BY <2>1, <2>2
<1>3. wasReset => moved'
    BY <1>1 DEF Store
<1>4. /\ slots' \subseteq Packets /\ IsFiniteSet(slots')
      /\ OneSlotPerTimestamp' /\ BuffersMatchSlots'
      /\ Aligned(nextTimestamp') /\ nextTimestamp' \in Int /\ next <= nextTimestamp'
      /\ OnlyLateBehind' /\ slots' # {}
      /\ nextTimestamp' = next \/ moved'
    <2> HIDE DEF next
    <2> QED BY <1>1, <1>2, StoreFacts
<1>5. SlotsInv' /\ PlayheadAligned'
    BY <1>1, <1>4 DEF Inv, SlotsInv, PlayheadAligned
<1>6. PlayedBehind'
    <2>1. CASE wasReset
        BY <1>1, <2>1 DEF PlayedBehind
    <2>2. CASE ~wasReset
        <3>1. next = nextTimestamp /\ lastPlayed' = lastPlayed /\ nextTimestamp \in Int
            BY <1>1, <2>2 DEF Inv, SlotsInv
        <3> HIDE DEF next
        <3> QED BY <1>4, <2>2, <3>1 DEF Inv, PlayedBehind, Fresh
    <2> QED BY <2>1, <2>2
<1>7. FecNext'
    <2>1. CASE moved'
        BY <2>1 DEF FecNext
    <2>2. CASE ~moved'
        <3>1. ~wasReset /\ ~moved /\ nextTimestamp' = nextTimestamp
            BY <1>3, <1>4, <2>2, <1>1 DEF Store
        <3> QED BY <1>1, <3>1 DEF Inv, FecNext, Fresh
    <2> QED BY <2>1, <2>2
<1> QED BY <1>4, <1>5, <1>6, <1>7 DEF Inv

(* The decoder takes the frame at the playhead.                            *)
LEMMA TakeStep ==
    ASSUME Inv, NEW p \in AtPlayhead, Take(p), minDelay' = minDelay,
           fec' = None \/ (fec' = fec /\ fec = None)
    PROVE  Inv'
<1>1. /\ p \in slots /\ p.ts = nextTimestamp /\ slots' = slots \ {p}
      /\ usedBuffers' = usedBuffers - 1 /\ nextTimestamp' = nextTimestamp + Step
      /\ lastPlayed' = p.ts /\ UNCHANGED <<wasReset, lateTs, overrun>>
    BY DEF AtPlayhead, Take
<1>2. /\ slots \subseteq Packets /\ IsFiniteSet(slots) /\ nextTimestamp \in Int
      /\ usedBuffers = Cardinality(slots) /\ Cardinality(slots) \in Nat
      /\ Aligned(nextTimestamp) /\ Step \in Nat /\ Step >= 2
    BY <1>1, FS_CardinalityType, SizeAssumption
       DEF Inv, SlotsInv, BuffersMatchSlots, PlayheadAligned, Fresh
<1>3. IsFiniteSet(slots') /\ Cardinality(slots') = Cardinality(slots) - 1
    BY <1>1, <1>2, FS_RemoveElement
<1>4. SlotsInv' /\ OneSlotPerTimestamp'
    BY <1>1, <1>2, <1>3 DEF Inv, SlotsInv, OneSlotPerTimestamp
<1>5. BuffersMatchSlots'
    BY <1>1, <1>2, <1>3, SizeAssumption DEF Inv, BuffersMatchSlots
<1>6. PlayheadAligned'
    BY <1>1, <1>2, AlignedSteps DEF PlayheadAligned
<1>7. OnlyLateBehind'
    <2> SUFFICES ASSUME NEW q \in slots', q.ts < nextTimestamp + Step
                 PROVE  q.ts \in lateTs \cup overrun
        BY <1>1 DEF OnlyLateBehind
    <2>1. q \in slots /\ q.ts # nextTimestamp
        BY <1>1 DEF Inv, OneSlotPerTimestamp
    <2>2. q.ts \in Int /\ Aligned(q.ts)
        BY <1>2, <2>1, PacketsAligned
    <2>3. ~(nextTimestamp < q.ts)
        <3>1. nextTimestamp < q.ts => nextTimestamp + Step <= q.ts
            BY <1>2, <2>2, Gap
        <3> QED BY <1>2, <2>2, <3>1
    <2>4. q.ts < nextTimestamp
        BY <1>2, <2>1, <2>2, <2>3
    <2> QED BY <2>1, <2>4 DEF Inv, OnlyLateBehind
<1>8. PlayedBehind'
    BY <1>1, <1>2 DEF PlayedBehind
<1>9. FecNext'
    BY DEF FecNext
<1> QED BY <1>4, <1>5, <1>6, <1>7, <1>8, <1>9 DEF Inv

(* The decoder finds nothing at the playhead: the playhead moves on, or    *)
(* the losses empty the buffer.                                            *)
LEMMA MissStep ==
    ASSUME Inv, NEW advance \in BOOLEAN, AtPlayhead = {}, Miss(advance),
           minDelay' = minDelay,
           fec' = None \/ (advance /\ fec' = nextTimestamp)
    PROVE  Inv'
<1> DEFINE next == Advanced(advance)
<1>1. /\ slots \subseteq Packets /\ IsFiniteSet(slots) /\ nextTimestamp \in Int
      /\ minDelay \in Nat /\ Step \in Nat /\ Step >= 2
      /\ usedBuffers = Cardinality(slots) /\ Cardinality(slots) \in Nat
    BY FS_CardinalityType, SizeAssumption DEF Inv, SlotsInv, BuffersMatchSlots
<1>2. next \in Int /\ next >= nextTimestamp /\ (advance => next = nextTimestamp + Step)
      /\ (~advance => next = nextTimestamp)
    BY <1>1 DEF Advanced
<1>3. lastPlayed' = lastPlayed
    BY DEF Miss
<1>4. CASE ResetForLosses(next, lostCount + 1)
    <2>1. /\ slots' = {} /\ wasReset' /\ usedBuffers' = usedBuffers - Cardinality(slots)
          /\ nextTimestamp' = IF GetCurrentDelay(slots) < minDelay
                              THEN next - (minDelay - GetCurrentDelay(slots)) ELSE next
        BY <1>4 DEF ResetForLosses
    <2>2. usedBuffers' = 0 /\ nextTimestamp' \in Int
        <3> HIDE DEF next
        <3> QED BY <1>1, <1>2, <2>1 DEF GetCurrentDelay
    <2>3. Fresh'
        BY <2>1 DEF Fresh
    <2>4. SlotsInv' /\ BuffersMatchSlots' /\ OneSlotPerTimestamp' /\ OnlyLateBehind'
        BY <1>1, <2>1, <2>2, FS_EmptySet, SizeAssumption
           DEF SlotsInv, BuffersMatchSlots, OneSlotPerTimestamp, OnlyLateBehind
    <2>5. PlayheadAligned' /\ PlayedBehind' /\ FecNext'
        BY <1>3, <2>3 DEF Inv, PlayheadAligned, PlayedBehind, FecNext
    <2> QED BY <2>4, <2>5 DEF Inv
<1>5. CASE nextTimestamp' = next /\ UNCHANGED <<slots, usedBuffers, wasReset, lateTs, overrun>>
    <2>1. SlotsInv' /\ BuffersMatchSlots' /\ OneSlotPerTimestamp' /\ (Fresh' <=> Fresh)
        <3> HIDE DEF next
        <3> QED BY <1>1, <1>2, <1>5
                DEF Inv, SlotsInv, BuffersMatchSlots, OneSlotPerTimestamp, Fresh
    <2>2. Fresh \/ Aligned(nextTimestamp)
        BY DEF Inv, PlayheadAligned
    <2>3. PlayheadAligned'
        BY <1>2, <1>5, <2>1, <2>2, AlignedSteps DEF PlayheadAligned
    <2>4. PlayedBehind'
        <3> HIDE DEF next
        <3> QED BY <1>1, <1>2, <1>3, <1>5, <2>1 DEF Inv, PlayedBehind
    <2>5. FecNext'
        BY <1>2, <1>5 DEF FecNext
    <2>6. OnlyLateBehind'
        <3> SUFFICES ASSUME NEW q \in slots, q.ts < next
                     PROVE  q.ts \in lateTs \cup overrun
            BY <1>5 DEF OnlyLateBehind
        <3>1. q.ts \in Int /\ Aligned(q.ts) /\ Aligned(nextTimestamp)
            BY <1>1, <2>2, PacketsAligned DEF Fresh
        <3>2. q.ts # nextTimestamp
            BY DEF AtPlayhead
        <3>3. nextTimestamp < q.ts => nextTimestamp + Step <= q.ts
            BY <3>1, Gap
        <3>4. q.ts < nextTimestamp
            <4> HIDE DEF next
            <4> QED BY <1>1, <1>2, <3>1, <3>2, <3>3
        <3> QED BY <3>4 DEF Inv, OnlyLateBehind
    <2> QED BY <2>1, <2>3, <2>4, <2>5, <2>6 DEF Inv
<1> QED BY <1>4, <1>5 DEF Miss

(* Adapting the delay leaves the frames and the playhead alone; a resync   *)
(* is only marked.                                                         *)
LEMMA AdaptStep ==
    ASSUME Inv, minDelay' \in Nat, wasReset => wasReset',
           UNCHANGED <<slots, usedBuffers, nextTimestamp, fec, history>>
    PROVE  Inv'
<1>1. Fresh => Fresh'
    BY DEF Fresh
<1>2. SlotsInv' /\ BuffersMatchSlots' /\ OneSlotPerTimestamp' /\ OnlyLateBehind'
    BY DEF Inv, SlotsInv, BuffersMatchSlots, OneSlotPerTimestamp, OnlyLateBehind,
        history
<1>3. PlayheadAligned' /\ PlayedBehind' /\ FecNext'
    BY <1>1 DEF Inv, PlayheadAligned, PlayedBehind, FecNext, history
<1> QED BY <1>2, <1>3 DEF Inv

(* The invariant is inductive.                                             *)
LEMMA StepHolds == Inv /\ [Next]_vars => Inv'
<1> SUFFICES ASSUME Inv, [Next]_vars PROVE Inv'
    OBVIOUS
<1>1. ASSUME NEW p \in Packets, HandleInput(p) PROVE Inv'
    BY <1>1, ReplaceStep, PutStep
<1>2. CASE DecodeFrame
    <2>1. minDelay' = minDelay /\ fec = None
        BY <1>2 DEF DecodeFrame
    <2>2. ASSUME NEW p \in AtPlayhead, Take(p), fec' = fec PROVE Inv'
        BY <2>1, <2>2, TakeStep
    <2>3. CASE AtPlayhead = {} /\ Miss(TRUE) /\ fec' = nextTimestamp
        BY <2>1, <2>3, MissStep
    <2> QED BY <1>2, <2>2, <2>3 DEF DecodeFrame
<1>3. CASE DecodeFec
    <2>1. minDelay' = minDelay /\ fec' = None
        BY <1>3 DEF DecodeFec
    <2>2. ASSUME NEW p \in AtPlayhead, Take(p) PROVE Inv'
        BY <2>1, <2>2, TakeStep
    <2>3. CASE AtPlayhead = {} /\ Miss(FALSE)
        BY <2>1, <2>3, MissStep
    <2> QED BY <1>3, <2>2, <2>3 DEF DecodeFec
<1>4. ASSUME NEW t \in MinMinDelay..MaxMinDelay, NEW d \in Drifts, Tick(t, d) PROVE Inv'
    <2>1. wasReset => wasReset'
        BY <1>4 DEF Tick
    <2>2. UNCHANGED <<slots, usedBuffers, nextTimestamp, fec, history>>
        BY <1>4 DEF Tick
    <2>3. minDelay \in Nat /\ t \in Nat
        BY SizeAssumption DEF Inv, SlotsInv
    <2>4. minDelay' = minDelay \/ minDelay' = minDelay + Clamp(t - minDelay)
        BY <1>4 DEF Tick
    <2>5. minDelay' \in Nat
        BY <2>3, <2>4 DEF Clamp
    <2> QED BY <2>1, <2>2, <2>5, AdaptStep
<1>5. ASSUME NEW c \in PacketCounts, SetMinPacketCount(c) PROVE Inv'
    <2>1. minDelay' \in Nat /\ (wasReset => wasReset')
          /\ UNCHANGED <<slots, usedBuffers, nextTimestamp, fec, history>>
        BY <1>5, SizeAssumption DEF SetMinPacketCount, playout
    <2> QED BY <2>1, AdaptStep
<1>6. CASE UNCHANGED vars
    <2>1. minDelay' \in Nat /\ (wasReset => wasReset')
          /\ UNCHANGED <<slots, usedBuffers, nextTimestamp, fec, history>>
        BY <1>6 DEF vars, playout, adaptation, Inv, SlotsInv
    <2> QED BY <2>1, AdaptStep
<1> QED BY <1>1, <1>2, <1>3, <1>4, <1>5, <1>6 DEF Next

(* It holds in every behaviour.                                            *)
LEMMA Invariant == Spec => []Inv
BY InitHolds, StepHolds, PTL DEF Spec

(***************************************************************************)
(* What follows.                                                           *)
(***************************************************************************)

(* The pool of buffers never runs dry under a put, however puts, purges,   *)
(* evictions and resets are mixed, for every number of slots.              *)
THEOREM BuffersSafe == Spec => []BuffersMatchSlots
<1>1. Inv => BuffersMatchSlots
    BY DEF Inv
<1> QED BY <1>1, Invariant, PTL

(* A frame and its EC copies share one slot, whichever comes first.        *)
THEOREM SlotsDistinct == Spec => []OneSlotPerTimestamp
<1>1. Inv => OneSlotPerTimestamp
    BY DEF Inv
<1> QED BY <1>1, Invariant, PTL

(* The playhead passes no frame that was put in time into a buffer with    *)
(* room.                                                                   *)
THEOREM NoFramePassed == Spec => []OnlyLateBehind
<1>1. Inv => OnlyLateBehind
    BY DEF Inv
<1> QED BY <1>1, Invariant, PTL

(* What the decoder gets in its second call follows the missing frame,     *)
(* unless a put moved the playhead while the mutex was free.               *)
THEOREM FecSafe == Spec => []FecIsSuccessor
<1>1. Inv => FecIsSuccessor
    BY DEF Inv, FecNext, FecIsSuccessor, Fresh, AtPlayhead
<1> QED BY <1>1, Invariant, PTL

(* Between two resyncs frames are played in the order of their timestamps. *)
THEOREM PlaysInOrder == Spec => PlayedInOrder
<1> DEFINE Ordered == lastPlayed' # lastPlayed /\ lastPlayed # None /\ lastPlayed' # None
                      => lastPlayed' > lastPlayed
<1>1. ASSUME Inv, NEW p \in AtPlayhead, Take(p) PROVE Ordered
    <2>1. ~Fresh /\ lastPlayed' = nextTimestamp /\ nextTimestamp \in Int
        BY <1>1 DEF AtPlayhead, Take, Fresh, Inv, SlotsInv
    <2> QED BY <1>1, <2>1 DEF Inv, PlayedBehind
<1>2. Inv /\ [Next]_vars => [Ordered]_vars
    <2> SUFFICES ASSUME Inv, Next PROVE Ordered
        OBVIOUS
    <2>1. CASE \E p \in Packets : HandleInput(p)
        BY <2>1 DEF HandleInput
    <2>2. CASE DecodeFrame
        BY <1>1, <2>2 DEF DecodeFrame, Miss
    <2>3. CASE DecodeFec
        BY <1>1, <2>3 DEF DecodeFec, Miss
    <2>4. CASE \E t \in MinMinDelay..MaxMinDelay, d \in Drifts : Tick(t, d)
        BY <2>4 DEF Tick, history
    <2>5. CASE \E c \in PacketCounts : SetMinPacketCount(c)
        BY <2>5 DEF SetMinPacketCount, history
    <2> QED BY <2>1, <2>2, <2>3, <2>4, <2>5 DEF Next
<1> QED BY <1>2, Invariant, PTL DEF Spec, PlayedInOrder
===========================================================================
