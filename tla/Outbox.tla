------------------------------ MODULE Outbox ------------------------------
(***************************************************************************)
(* What the send queue of a call promises to the threads that put packets  *)
(* into it: a bounded first-in first-out queue.  A packet that is accepted *)
(* is handled once, in the order of acceptance, and while the call is not  *)
(* being stopped it is handled eventually.                                 *)
(***************************************************************************)
EXTENDS Naturals, Sequences

CONSTANTS Packets, Bound

VARIABLES pending, handled, closed

vars == <<pending, handled, closed>>

Init == pending = <<>> /\ handled = <<>> /\ closed = FALSE

Accept(p) ==
    /\ Len(pending) < Bound
    /\ pending' = Append(pending, p)
    /\ UNCHANGED <<handled, closed>>

Handle ==
    /\ pending # <<>>
    /\ handled' = Append(handled, Head(pending))
    /\ pending' = Tail(pending)
    /\ UNCHANGED closed

Close == closed' = TRUE /\ UNCHANGED <<pending, handled>>

Next == (\E p \in Packets : Accept(p)) \/ Handle \/ Close

(* Each packet once and in order; with fairness also eventually.           *)
Safety == Init /\ [][Next]_vars
Spec == Safety /\ WF_vars(~closed /\ Handle)
===========================================================================
