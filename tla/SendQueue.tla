----------------------------- MODULE SendQueue -----------------------------
(***************************************************************************)
(* The threads of a call (submodules/libtgvoip/VoIPController.cpp) and the *)
(* queue between them.  The audio thread, the receive thread and the tick  *)
(* thread produce packets: each takes a buffer from a pool of 20, takes a  *)
(* sequence number and puts the packet into a BlockingQueue of 21, which   *)
(* aborts the program when it overflows.  The send thread takes packets    *)
(* out, sends them and gives the buffers back.  Stop() wakes every thread  *)
(* and joins it.                                                           *)
(*                                                                         *)
(* BlockingQueue and BufferPool work under their own mutexes, one action   *)
(* each.  GenerateOutSeq is seq++ on a plain integer that three threads    *)
(* share: a read and a write.  What a packet holds, and whether its        *)
(* endpoint can be used, is left to CallEndpoints and PacketLayer.         *)
(***************************************************************************)
EXTENDS Naturals, Sequences, FiniteSets, SequencesExt

CONSTANTS
    Buffers,      \* outgoingPacketsBufferPool: 20
    Capacity,     \* sendQueue: 21
    Audio,        \* threads that call HandleAudioInput
    MaxPackets,   \* bound on the packets produced
    MaxArrivals,  \* bound on the packets that wake the receive thread
    Null          \* the packet without data that Stop puts

ASSUME QueueAssumption ==
    /\ Buffers \in Nat \ {0} /\ Capacity \in Nat
    /\ Buffers < Capacity
    /\ MaxPackets \in Nat /\ MaxArrivals \in Nat
    /\ "tick" \notin Audio /\ "recv" \notin Audio
    /\ Null \notin [id : Nat, seq : Nat]

Threads == Audio \cup {"tick", "recv"}
Packet == [id : 1..MaxPackets, seq : 1..MaxPackets]

VARIABLES
    queue,      \* sendQueue's list
    semaphore,  \* its semaphore
    used,       \* buffers of the pool that are out
    seq,        \* the controller's next sequence number
    pc,         \* where each producing thread is
    mine,       \* the packet a producing thread is making
    sender,     \* where the send thread is
    sending,    \* the packet the send thread holds
    stop,       \* where Stop() is
    stopping,   \* stopping and ~runReceiver
    wakeups,    \* bytes in selectCanceller's pipe
    aborted,    \* abort() in BlockingQueue::Put
    made, arrivals,
    handled     \* history: packets the send thread is done with

vars == <<queue, semaphore, used, seq, pc, mine, sender, sending, stop,
          stopping, wakeups, aborted, made, arrivals, handled>>

TypeOK ==
    /\ queue \in Seq(Packet \cup {Null})
    /\ semaphore \in Nat /\ used \in 0..Buffers /\ seq \in Nat
    /\ pc \in [Threads -> {"loop", "select", "work", "seq", "put", "exited"}]
    /\ mine \in [Threads -> Packet \cup {Null}]
    /\ sender \in {"loop", "acquire", "pop", "send", "exited"}
    /\ sending \in Packet \cup {Null}
    /\ stop \in {"no", "flagged", "cancelled", "put", "joinedSend",
                 "joinedRecv", "done"}
    /\ stopping \in BOOLEAN /\ wakeups \in Nat /\ aborted \in BOOLEAN
    /\ made \in 0..MaxPackets /\ arrivals \in 0..MaxArrivals
    /\ handled \in Seq(Packet)

Init ==
    /\ queue = <<>> /\ semaphore = 0 /\ used = 0 /\ seq = 1
    /\ pc = [t \in Threads |-> "loop"]
    /\ mine = [t \in Threads |-> Null]
    /\ sender = "loop" /\ sending = Null
    /\ stop = "no" /\ stopping = FALSE /\ wakeups = 0 /\ aborted = FALSE
    /\ made = 0 /\ arrivals = 0 /\ handled = <<>>

Goto(t, where) == pc' = [pc EXCEPT ![t] = where]

---------------------------------------------------------------------------
(* The producing threads.                                                  *)

\* RunTickThread and RunRecvThread look at runReceiver, HandleAudioInput at
\* stopping, at the head of each round.
Round(t) ==
    /\ pc[t] = "loop"
    /\ \/ stopping /\ t \notin Audio /\ Goto(t, "exited")
       \/ ~stopping /\ Goto(t, IF t = "recv" THEN "select" ELSE "work")
    /\ UNCHANGED <<queue, semaphore, used, seq, mine, sender, sending, stop,
                   stopping, wakeups, aborted, made, arrivals, handled>>

\* NetworkSocket::Select returns: a byte in the canceller's pipe, or a packet.
SelectCanceled ==
    /\ pc["recv"] = "select"
    /\ wakeups > 0
    /\ wakeups' = wakeups - 1
    /\ Goto("recv", "loop")
    /\ UNCHANGED <<queue, semaphore, used, seq, mine, sender, sending, stop,
                   stopping, aborted, made, arrivals, handled>>

SelectReadable ==
    /\ pc["recv"] = "select"
    /\ arrivals < MaxArrivals
    /\ arrivals' = arrivals + 1
    /\ Goto("recv", IF stopping THEN "exited" ELSE "work")
    /\ UNCHANGED <<queue, semaphore, used, seq, mine, sender, sending, stop,
                   stopping, wakeups, aborted, made, handled>>

\* Nothing to send this round, or outgoingPacketsBufferPool.Get() is NULL.
SendNothing(t) ==
    /\ pc[t] = "work"
    /\ Goto(t, "loop")
    /\ UNCHANGED <<queue, semaphore, used, seq, mine, sender, sending, stop,
                   stopping, wakeups, aborted, made, arrivals, handled>>

\* Mutant of HasBuffer: one buffer too many.
HasBufferMore == used <= Buffers

\* BufferPool::Get finds a buffer.
HasBuffer == used < Buffers

\* A buffer is taken and GenerateOutSeq reads seq; the two commute with the
\* other threads' steps in between.
GetBuffer(t) ==
    /\ pc[t] = "work"
    /\ HasBuffer
    /\ made < MaxPackets
    /\ used' = used + 1
    /\ made' = made + 1
    /\ mine' = [mine EXCEPT ![t] = [id |-> made + 1, seq |-> seq]]
    /\ Goto(t, "seq")
    /\ UNCHANGED <<queue, semaphore, seq, sender, sending, stop, stopping,
                   wakeups, aborted, arrivals, handled>>

\* GenerateOutSeq writes seq+1.
GenerateOutSeq(t) ==
    /\ pc[t] = "seq"
    /\ seq' = mine[t].seq + 1
    /\ Goto(t, "put")
    /\ UNCHANGED <<queue, semaphore, used, mine, sender, sending, stop,
                   stopping, wakeups, aborted, made, arrivals, handled>>

\* Mutant of Push: the newest packet goes first.
PushFirst(p) ==
    /\ queue' = <<p>> \o queue
    /\ aborted' = (aborted \/ Len(queue) + 1 > Capacity)
    /\ semaphore' = IF Len(queue) + 1 > Capacity THEN semaphore
                    ELSE semaphore + 1

\* Mutant of Push: the semaphore is released twice.
PushTwice(p) ==
    /\ queue' = Append(queue, p)
    /\ aborted' = (aborted \/ Len(queue) + 1 > Capacity)
    /\ semaphore' = semaphore + 2

\* BlockingQueue::Put without an overflow callback.
Push(p) ==
    /\ queue' = Append(queue, p)
    /\ aborted' = (aborted \/ Len(queue) + 1 > Capacity)
    /\ semaphore' = IF Len(queue) + 1 > Capacity THEN semaphore
                    ELSE semaphore + 1

Put(t) ==
    /\ pc[t] = "put"
    /\ Push(mine[t])
    /\ mine' = [mine EXCEPT ![t] = Null]
    /\ Goto(t, "loop")
    /\ UNCHANGED <<used, seq, sender, sending, stop, stopping, wakeups, made,
                   arrivals, handled>>

---------------------------------------------------------------------------
(* The send thread.                                                        *)

SenderRound ==
    /\ sender = "loop"
    /\ sender' = IF stopping THEN "exited" ELSE "acquire"
    /\ UNCHANGED <<queue, semaphore, used, seq, pc, mine, sending, stop,
                   stopping, wakeups, aborted, made, arrivals, handled>>

\* GetBlocking waits for the semaphore without the mutex, then pops.
Acquire ==
    /\ sender = "acquire"
    /\ semaphore > 0
    /\ semaphore' = semaphore - 1
    /\ sender' = "pop"
    /\ UNCHANGED <<queue, used, seq, pc, mine, sending, stop, stopping,
                   wakeups, aborted, made, arrivals, handled>>

Pop ==
    /\ sender = "pop"
    /\ queue # <<>>
    /\ sending' = Head(queue)
    /\ queue' = Tail(queue)
    /\ sender' = "send"
    /\ UNCHANGED <<semaphore, used, seq, pc, mine, stop, stopping, wakeups,
                   aborted, made, arrivals, handled>>

\* Mutant of Reused: a packet given up because of Stop keeps its buffer.
ReusedUnlessStopping ==
    used - (IF sending = Null \/ stopping THEN 0 ELSE 1)

\* outgoingPacketsBufferPool.Reuse, for a packet with data.
Reused == used - (IF sending = Null THEN 0 ELSE 1)

\* The header is written and the packet sent, or dropped by SendPacket.
SendPacket ==
    /\ sender = "send"
    /\ used' = Reused
    /\ handled' = IF sending = Null THEN handled ELSE Append(handled, sending)
    /\ sending' = Null
    /\ sender' = "loop"
    /\ UNCHANGED <<queue, semaphore, seq, pc, mine, stop, stopping, wakeups,
                   aborted, made, arrivals>>

---------------------------------------------------------------------------
(* Stop().                                                                 *)

StopFlags ==
    /\ stop = "no"
    /\ stop' = "flagged"
    /\ stopping' = TRUE
    /\ UNCHANGED <<queue, semaphore, used, seq, pc, mine, sender, sending,
                   wakeups, aborted, made, arrivals, handled>>

CancelSelect ==
    /\ stop = "flagged"
    /\ stop' = "cancelled"
    /\ wakeups' = wakeups + 1
    /\ UNCHANGED <<queue, semaphore, used, seq, pc, mine, sender, sending,
                   stopping, aborted, made, arrivals, handled>>

\* Mutant of StopPut: the send thread is joined without the null packet.
StopPutNothing ==
    /\ stop = "cancelled"
    /\ stop' = "put"
    /\ UNCHANGED <<queue, semaphore, used, seq, pc, mine, sender, sending,
                   stopping, wakeups, aborted, made, arrivals, handled>>

StopPut ==
    /\ stop = "cancelled"
    /\ stop' = "put"
    /\ Push(Null)
    /\ UNCHANGED <<used, seq, pc, mine, sender, sending, stopping, wakeups,
                   made, arrivals, handled>>

\* Join, in the order of the code.
Join ==
    /\ \/ stop = "put" /\ sender = "exited" /\ stop' = "joinedSend"
       \/ stop = "joinedSend" /\ pc["recv"] = "exited" /\ stop' = "joinedRecv"
       \/ stop = "joinedRecv" /\ pc["tick"] = "exited" /\ stop' = "done"
    /\ UNCHANGED <<queue, semaphore, used, seq, pc, mine, sender, sending,
                   stopping, wakeups, aborted, made, arrivals, handled>>

---------------------------------------------------------------------------
Produce(t) == GenerateOutSeq(t) \/ Put(t)
Sender == SenderRound \/ Acquire \/ Pop \/ SendPacket
Stopping == CancelSelect \/ StopPut \/ Join

Next ==
    \/ \E t \in Threads : Round(t) \/ SendNothing(t) \/ GetBuffer(t)
                          \/ Produce(t)
    \/ SelectCanceled \/ SelectReadable
    \/ Sender
    \/ StopFlags \/ Stopping

\* The operating system runs every thread: a round that was begun is ended,
\* the loops go round, the send thread goes on while the semaphore lets it.
\* Nothing makes a packet arrive or Stop() be called.
Fairness ==
    /\ \A t \in Threads : /\ WF_vars(Round(t))
                          /\ WF_vars(SendNothing(t) \/ GetBuffer(t))
                          /\ WF_vars(Produce(t))
    /\ WF_vars(SelectCanceled)
    /\ WF_vars(Sender)
    /\ WF_vars(Stopping)

Spec == Init /\ [][Next]_vars /\ Fairness

---------------------------------------------------------------------------
(* Properties.                                                             *)

\* The packets in the queue, without Stop's null packet, of which there is
\* one at most, and the packet that the send thread holds.
Waiting == RemoveFirst(queue, Null)
Held == IF sending = Null THEN <<>> ELSE <<sending>>

\* The buffers that are out are the ones of the packets on their way: in the
\* hands of a producer, in the queue, or with the send thread.  None is lost
\* when Stop overtakes a packet.
BuffersAccounted ==
    used = Cardinality({t \in Threads : mine[t] # Null})
           + Len(Waiting) + Len(Held)

\* BlockingQueue::Put never reaches its abort(): 20 buffers and one null
\* packet always fit (BlockingQueue.h:40, VoIPController.cpp:125, 139, 350).
NeverAborts == ~aborted /\ Len(queue) <= Capacity

\* GetInternal never takes front() of an empty list: a permit of the
\* semaphore stands for an element of the list, also while the send thread
\* is between Acquire and the mutex.
PermitIsElement ==
    Len(queue) = semaphore + (IF sender = "pop" THEN 1 ELSE 0)

\* Stop() returns: each of the three joins ends, whatever the threads were
\* doing when it was called.
StopReturns == stop = "flagged" ~> stop = "done"

\* The queue is a bounded first-in first-out queue that handles each packet
\* once and, until Stop(), eventually.
Outbox == INSTANCE Outbox WITH
    Packets <- Packet, Bound <- Buffers,
    pending <- Held \o Waiting, closed <- stopping
ImplementsOutbox == Outbox!Spec

\* Violated.  No two packets leave with one sequence number: "Duplicate
\* outgoing seq %u" (CongestionControl.cpp:96) is a warning.
DistinctSeqs ==
    \A i, j \in 1..Len(handled) : i # j => handled[i].seq # handled[j].seq
===========================================================================
