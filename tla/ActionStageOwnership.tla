------------------------ MODULE ActionStageOwnership ------------------------
(***************************************************************************)
(* Proofs about who holds an actor, on top of the proofs about the request *)
(* queues: an actor is active, parked behind a timer, or on its way out on *)
(* the stage's stack, and never two of these where it matters.             *)
(***************************************************************************)
EXTENDS ActionStageProofs

(* A sequence of frames has a frame of the set F, and has at most one.     *)
Has(s, F) == \E i \in 1..Len(s) : s[i] \in F
Single(s, F) == \A i, j \in 1..Len(s) : s[i] \in F /\ s[j] \in F => i = j

(* The frames of a kind that are about an actor.                           *)
Of(ops, a) == {f \in Frame : f.op \in ops /\ f.actor = a}
Finishes(a) == Of({"finish"}, a)
Notifies(a) == Of({"notify"}, a)
Owners(a) == Of({"notify", "dequeue"}, a)

-----------------------------------------------------------------------------
(* Frames of a set when the top of a stack is replaced.                    *)

LEMMA HasTail ==
  ASSUME NEW S, NEW s \in Seq(S), s # <<>>, NEW F
  PROVE  /\ Has(s, F) <=> (Head(s) \in F \/ Has(Tail(s), F))
         /\ Single(s, F) => /\ Single(Tail(s), F)
                            /\ Head(s) \in F => ~Has(Tail(s), F)
<1>1. /\ Tail(s) \in Seq(S) /\ Len(Tail(s)) = Len(s) - 1 /\ Len(s) \in Nat /\ Len(s) >= 1
      /\ \A i \in 1..Len(Tail(s)) : Tail(s)[i] = s[i + 1]
      /\ Head(s) = s[1]
  BY HeadTailProperties, LenProperties, EmptySeq
<1>2. PICK t : t = Tail(s)
  OBVIOUS
<1>3. PICK n \in Nat : n = Len(t) /\ Len(s) = n + 1
  <2>1. Len(t) \in Nat
    BY <1>1, <1>2, LenProperties
  <2>2. Len(s) = Len(t) + 1
    BY <1>1, <1>2
  <2> QED BY <2>1, <2>2
<1>4. \A i \in 1..n : t[i] = s[i + 1] /\ i + 1 \in 1..(n + 1)
  BY <1>1, <1>2, <1>3
<1>5. \A i \in 1..(n + 1) : i # 1 => i - 1 \in 1..n /\ t[i - 1] = s[i]
  BY <1>3, <1>4
<1>6. Has(s, F) <=> (Head(s) \in F \/ Has(t, F))
  BY <1>1, <1>3, <1>4, <1>5 DEF Has
<1>7. ASSUME Single(s, F) PROVE Single(t, F)
  <2> SUFFICES ASSUME NEW i \in 1..n, NEW j \in 1..n, t[i] \in F, t[j] \in F PROVE i = j
    BY <1>3 DEF Single
  <2>1. i + 1 = j + 1
    BY <1>3, <1>4, <1>7 DEF Single
  <2> QED BY <2>1
<1>8. ASSUME Single(s, F), Head(s) \in F, NEW i \in 1..n, t[i] \in F PROVE FALSE
  <2>1. 1 = i + 1
    BY <1>1, <1>3, <1>4, <1>8 DEF Single
  <2> QED BY <2>1
<1> QED BY <1>2, <1>3, <1>6, <1>7, <1>8 DEF Has

LEMMA HasConcat ==
  ASSUME NEW S, NEW s \in Seq(S), NEW t \in Seq(S), NEW F
  PROVE  /\ Has(s \o t, F) <=> (Has(s, F) \/ Has(t, F))
         /\ Single(s, F) /\ Single(t, F) /\ ~(Has(s, F) /\ Has(t, F)) => Single(s \o t, F)
<1>1. PICK m \in Nat, n \in Nat : m = Len(s) /\ n = Len(t)
  BY LenProperties
<1>2. PICK u : u = s \o t
  OBVIOUS
<1>3. /\ Len(u) = m + n
      /\ \A i \in 1..(m + n) : u[i] = IF i <= m THEN s[i] ELSE t[i - m]
  BY <1>1, <1>2, ConcatProperties
<1>4. \A i \in 1..m : i \in 1..(m + n) /\ u[i] = s[i]
  BY <1>3
<1>5. \A i \in 1..n : m + i \in 1..(m + n) /\ u[m + i] = t[i]
  BY <1>3
<1>6. \A i \in 1..(m + n) : \/ i \in 1..m /\ u[i] = s[i]
                            \/ i - m \in 1..n /\ u[i] = t[i - m]
  BY <1>3
<1>7. Has(u, F) <=> (Has(s, F) \/ Has(t, F))
  BY <1>1, <1>3, <1>4, <1>5, <1>6, Zenon DEF Has
<1>8. ASSUME Single(s, F), Single(t, F), ~(Has(s, F) /\ Has(t, F)),
             NEW i \in 1..(m + n), NEW j \in 1..(m + n), u[i] \in F, u[j] \in F
      PROVE  i = j
  <2>1. CASE i \in 1..m /\ u[i] = s[i] /\ j \in 1..m /\ u[j] = s[j]
    BY <1>1, <1>8, <2>1 DEF Single
  <2>2. CASE i - m \in 1..n /\ u[i] = t[i - m] /\ j - m \in 1..n /\ u[j] = t[j - m]
    <3>1. i - m = j - m
      BY <1>1, <1>8, <2>2 DEF Single
    <3> QED BY <3>1
  <2>3. CASE i \in 1..m /\ u[i] = s[i] /\ j - m \in 1..n /\ u[j] = t[j - m]
    BY <1>1, <1>8, <2>3 DEF Has
  <2>4. CASE i - m \in 1..n /\ u[i] = t[i - m] /\ j \in 1..m /\ u[j] = s[j]
    BY <1>1, <1>8, <2>4 DEF Has
  <2> QED BY <1>6, <2>1, <2>2, <2>3, <2>4
<1> QED BY <1>2, <1>3, <1>7, <1>8 DEF Single

LEMMA HasFew ==
  ASSUME NEW F
  PROVE  /\ ~Has(<<>>, F) /\ Single(<<>>, F)
         /\ \A x : (Has(<<x>>, F) <=> x \in F) /\ Single(<<x>>, F)
         /\ \A x, y : /\ Has(<<x, y>>, F) <=> (x \in F \/ y \in F)
                      /\ ~(x \in F /\ y \in F) => Single(<<x, y>>, F)
         /\ \A x, y, z : /\ Has(<<x, y, z>>, F) <=> (x \in F \/ y \in F \/ z \in F)
                         /\ x \notin F /\ z \notin F => Single(<<x, y, z>>, F)
<1>1. ~Has(<<>>, F) /\ Single(<<>>, F)
  BY DEF Has, Single
<1>2. ASSUME NEW x PROVE (Has(<<x>>, F) <=> x \in F) /\ Single(<<x>>, F)
  <2>1. Len(<<x>>) = 1 /\ <<x>>[1] = x /\ 1..1 = {1}
    OBVIOUS
  <2> QED BY <2>1 DEF Has, Single
<1>3. ASSUME NEW x, NEW y
      PROVE  /\ Has(<<x, y>>, F) <=> (x \in F \/ y \in F)
             /\ ~(x \in F /\ y \in F) => Single(<<x, y>>, F)
  <2>1. Len(<<x, y>>) = 2 /\ <<x, y>>[1] = x /\ <<x, y>>[2] = y /\ 1..2 = {1, 2}
    OBVIOUS
  <2> QED BY <2>1 DEF Has, Single
<1>4. ASSUME NEW x, NEW y, NEW z
      PROVE  /\ Has(<<x, y, z>>, F) <=> (x \in F \/ y \in F \/ z \in F)
             /\ x \notin F /\ z \notin F => Single(<<x, y, z>>, F)
  <2>1. /\ Len(<<x, y, z>>) = 3 /\ <<x, y, z>>[1] = x /\ <<x, y, z>>[2] = y
        /\ <<x, y, z>>[3] = z /\ 1..3 = {1, 2, 3}
    OBVIOUS
  <2> QED BY <2>1 DEF Has, Single
<1> QED BY <1>1, <1>2, <1>3, <1>4

(* The top frame is replaced by fs.                                        *)
Swap(fs) == stack # <<>> /\ (\E S : fs \in Seq(S)) /\ stack' = fs \o Tail(stack)

LEMMA SwapFacts ==
  ASSUME TypeOK, NEW fs, Swap(fs), NEW F
  PROVE  /\ Has(stack, F) <=> (Top \in F \/ Has(Tail(stack), F))
         /\ Has(stack', F) <=> (Has(fs, F) \/ Has(Tail(stack), F))
         /\ Single(stack, F) => /\ Single(Tail(stack), F)
                                /\ Top \in F => ~Has(Tail(stack), F)
         /\ Single(fs, F) /\ Single(Tail(stack), F) /\ ~(Has(fs, F) /\ Has(Tail(stack), F))
              => Single(stack', F)
<1>1. stack \in Seq(Frame) /\ stack # <<>> /\ stack' = fs \o Tail(stack)
  BY DEF TypeOK, Swap
<1>2. PICK S : fs \in Seq(S)
  BY DEF Swap
<1>3. PICK U : U = S \cup Frame
  OBVIOUS
<1>4. fs \in Seq(U) /\ stack \in Seq(U)
  BY <1>1, <1>2, <1>3, SeqMonotonic
<1>5. PICK t \in Seq(U) : t = Tail(stack)
  BY <1>1, <1>4, HeadTailProperties
<1>6. /\ Has(stack, F) <=> (Head(stack) \in F \/ Has(Tail(stack), F))
      /\ Single(stack, F) => /\ Single(Tail(stack), F)
                             /\ Head(stack) \in F => ~Has(Tail(stack), F)
  BY <1>1, HasTail
<1>7. /\ Has(fs \o t, F) <=> (Has(fs, F) \/ Has(t, F))
      /\ Single(fs, F) /\ Single(t, F) /\ ~(Has(fs, F) /\ Has(t, F)) => Single(fs \o t, F)
  BY <1>4, HasConcat
<1> QED BY <1>1, <1>5, <1>6, <1>7 DEF Top

(* The ways actions replace the top frame.                                 *)
LEMMA Swaps ==
  ASSUME TypeOK, stack # <<>>
  PROVE  /\ Return => Swap(<<>>)
         /\ \A x : Become(<<x>>) => Swap(<<x>>)
         /\ \A x, y : Become(<<x, y>>) => Swap(<<x, y>>)
         /\ \A x, y, z : stack' = <<x, y, z>> \o Tail(stack) => Swap(<<x, y, z>>)
<1>1. PICK t \in Seq(Frame) : t = Tail(stack)
  BY HeadTailProperties DEF TypeOK
<1>2. <<>> \o t = t /\ <<>> \in Seq(Frame)
  BY <1>1, ConcatEmptySeq
<1>3. Return => Swap(<<>>)
  BY <1>1, <1>2 DEF Swap, Return
<1>4. ASSUME NEW x, Become(<<x>>) PROVE Swap(<<x>>)
  <2>1. <<x>> \in Seq({x})
    OBVIOUS
  <2> QED BY <1>4, <2>1 DEF Swap, Become
<1>5. ASSUME NEW x, NEW y, Become(<<x, y>>) PROVE Swap(<<x, y>>)
  <2>1. <<x, y>> \in Seq({x, y})
    OBVIOUS
  <2> QED BY <1>5, <2>1 DEF Swap, Become
<1>6. ASSUME NEW x, NEW y, NEW z, stack' = <<x, y, z>> \o Tail(stack)
      PROVE  Swap(<<x, y, z>>)
  <2>1. <<x, y, z>> \in Seq({x, y, z})
    OBVIOUS
  <2> QED BY <1>6, <2>1 DEF Swap
<1> QED BY <1>3, <1>4, <1>5, <1>6

(* The frames of a cancellation go on top of what is left to do.           *)
LEMMA CancelSwaps ==
  ASSUME TypeOK, stack # <<>>, NEW a
  PROVE  /\ stack' = CancelFrames(a) \o Tail(stack) => Swap(CancelFrames(a))
         /\ \A x : /\ stack' = CancelFrames(a) \o (<<x>> \o Tail(stack))
                        => Swap(<<CancelCode, DequeueFrame(a), x>>)
                   /\ stack' = (CancelFrames(a) \o <<x>>) \o Tail(stack)
                        => Swap(<<CancelCode, DequeueFrame(a), x>>)
<1>1. PICK t \in Seq(Frame) : t = Tail(stack)
  BY HeadTailProperties DEF TypeOK
<1>2. PICK c, d : c = CancelCode /\ d = DequeueFrame(a)
  OBVIOUS
<1>3. CancelFrames(a) = <<c, d>>
  BY <1>2 DEF CancelFrames
<1>4. stack' = CancelFrames(a) \o Tail(stack) => Swap(CancelFrames(a))
  BY <1>3, Swaps DEF Become
<1>5. ASSUME NEW x
      PROVE  /\ <<c, d>> \o (<<x>> \o t) = <<c, d, x>> \o t
             /\ <<c, d>> \o <<x>> = <<c, d, x>>
  <2>1. PICK U : U = Frame \cup {c, d, x}
    OBVIOUS
  <2>2. /\ <<c, d>> \in Seq(U) /\ <<x>> \in Seq(U) /\ t \in Seq(U)
    BY <1>1, <2>1, SeqMonotonic
  <2>3. <<c, d>> \o (<<x>> \o t) = (<<c, d>> \o <<x>>) \o t
    BY <2>2, ConcatAssociative
  <2>4. <<c, d>> \o <<x>> = <<c, d, x>>
    <3>1. /\ <<c, d>> \o <<x>> \in Seq(U) /\ Len(<<c, d>> \o <<x>>) = 3
          /\ \A i \in 1..3 : (<<c, d>> \o <<x>>)[i] =
                               IF i <= 2 THEN <<c, d>>[i] ELSE <<x>>[i - 2]
      BY <2>2, ConcatProperties
    <3>2. /\ <<c, d, x>> \in Seq(U) /\ Len(<<c, d, x>>) = 3
      BY <2>1
    <3>3. \A i \in 1..3 : (<<c, d>> \o <<x>>)[i] = <<c, d, x>>[i]
      BY <3>1
    <3> QED BY <3>1, <3>2, <3>3, SeqEqual
  <2> QED BY <2>3, <2>4
<1>6. ASSUME NEW x,
             \/ stack' = CancelFrames(a) \o (<<x>> \o Tail(stack))
             \/ stack' = (CancelFrames(a) \o <<x>>) \o Tail(stack)
      PROVE  Swap(<<c, d, x>>)
  <2>1. stack' = <<c, d, x>> \o Tail(stack)
    BY <1>1, <1>3, <1>5, <1>6
  <2> QED BY <2>1, Swaps
<1> QED BY <1>2, <1>4, <1>6

(* Every step of the stage's thread replaces the top frame.                *)
LEMMA FrameStepSwaps ==
  ASSUME TypeOK, FrameStep
  PROVE  \E fs : Swap(fs)
<1>1. stack # <<>>
  BY DEF FrameStep, RequestStep, RequestDead, RequestJoinOnly, RequestNew,
       RequestJoin, ChangeActorPriority, FinishStep, ActionCompleted, NotifyWatcher,
       NotifyDone, DequeueMissing, DequeueFirst, DequeueOther, CancelStep,
       PerformCancelRequest, DropTimer, Drain, NextItem, ItemsDone, DetachKey,
       DetachLive, RemoveAllWatchersFromPath, WatchStep, WatchForPath,
       DispatchResource, DispatchMessage, TellWatcher, UserStep, UserReturns,
       UserCalls, UserRemoves, UserFinishes, Running
<1>2. \/ Return \/ (\E x : Become(<<x>>)) \/ (\E x, y : Become(<<x, y>>))
      => \E fs : Swap(fs)
  BY <1>1, Swaps
<1>3. CASE RequestStep
  <2>1. \/ Return \/ (\E x : Become(<<x>>)) \/ (\E x, y : Become(<<x, y>>))
    BY <1>3 DEF RequestStep, RequestDead, RequestJoinOnly, RequestNew,
         RequestJoin, ChangeActorPriority
  <2> QED BY <1>2, <2>1
<1>4. CASE FinishStep
  <2>1. \/ Return \/ (\E x : Become(<<x>>)) \/ (\E x, y : Become(<<x, y>>))
    BY <1>4 DEF FinishStep, ActionCompleted, NotifyWatcher, NotifyDone,
         DequeueMissing, DequeueFirst, DequeueOther, CallBack
  <2> QED BY <1>2, <2>1
<1>5. CASE CancelStep
  <2>1. CASE DropTimer \/ Drain \/ NextItem \/ ItemsDone \/ DetachLive
    <3>1. \/ Return \/ (\E x : Become(<<x>>)) \/ (\E x, y : Become(<<x, y>>))
      BY <2>1 DEF DropTimer, Drain, NextItem, ItemsDone, DetachLive
    <3> QED BY <1>2, <3>1
  <2>2. CASE PerformCancelRequest
    BY <1>1, <1>2, <2>2, CancelSwaps DEF PerformCancelRequest, Become
  <2>3. CASE DetachKey
    BY <1>1, <1>2, <2>3, CancelSwaps DEF DetachKey, ScheduleCancel, Become
  <2>4. CASE RemoveAllWatchersFromPath
    BY <1>1, <1>2, <2>4, CancelSwaps DEF RemoveAllWatchersFromPath, ScheduleCancel,
        Return
  <2> QED BY <1>5, <2>1, <2>2, <2>3, <2>4 DEF CancelStep
<1>6. CASE WatchStep
  <2>1. \/ Return \/ (\E x : Become(<<x>>)) \/ (\E x, y : Become(<<x, y>>))
    BY <1>6 DEF WatchStep, WatchForPath, DispatchResource, DispatchMessage,
         TellWatcher, CallBack
  <2> QED BY <1>2, <2>1
<1>7. CASE UserStep
  <2>1. \/ Return \/ (\E x, y : Become(<<x, y>>))
    BY <1>7 DEF UserStep, UserReturns, UserCalls, UserRemoves, UserFinishes, InlineCall
  <2> QED BY <1>2, <2>1
<1> QED BY <1>3, <1>4, <1>5, <1>6, <1>7 DEF FrameStep

-----------------------------------------------------------------------------
(* Removals.                                                               *)

DrainOnWay(k) ==
  dispatching[k] > 0 \/ Has(highQ, {DrainFrame(k)}) \/ Has(stack, {DrainFrame(k)})

RemovalsForm == \A k \in Kinds : removals[k] # {} => DrainOnWay(k)

LEMMA RemovalForm == TypeOK => (NoLostRemoval <=> RemovalsForm)
<1> SUFFICES ASSUME TypeOK PROVE NoLostRemoval <=> RemovalsForm
  OBVIOUS
<1>1. DOMAIN highQ = 1..Len(highQ)
  BY DEF TypeOK
<1>2. \A f : /\ Has(highQ, {f}) <=> (\E i \in DOMAIN highQ : highQ[i] = f)
             /\ Has(stack, {f}) <=> OnStack(f)
  BY <1>1 DEF Has, OnStack, Contains
<1> QED BY <1>2, Zenon DEF NoLostRemoval, RemovalsForm, DrainOnWay

LEMMA RemovalFormNext == TypeOK' => (NoLostRemoval' <=> RemovalsForm')
BY RemovalForm, PTL

LEMMA HasAppend ==
  ASSUME NEW S, NEW s \in Seq(S), NEW x, NEW F
  PROVE  Has(Append(s, x), F) <=> (Has(s, F) \/ x \in F)
<1>1. PICK n \in Nat : n = Len(s)
  BY LenProperties
<1>2. PICK u : u = Append(s, x)
  OBVIOUS
<1>3. /\ Len(u) = n + 1 /\ u[n + 1] = x
      /\ \A i \in 1..n : u[i] = s[i]
  BY <1>1, <1>2
<1> QED BY <1>1, <1>2, <1>3 DEF Has

(* A drain frame goes off the stack only by being run.                     *)
LEMMA DrainKept ==
  ASSUME TypeOK, FrameStep, NEW k, Top # DrainFrame(k), Has(stack, {DrainFrame(k)})
  PROVE  Has(stack', {DrainFrame(k)})
<1>1. PICK fs : Swap(fs)
  BY FrameStepSwaps
<1> QED BY <1>1, SwapFacts

LEMMA FrameStepRemovals ==
  ASSUME TypeOK, FrameStep, NEW k \in Kinds, removals[k] # {} => DrainOnWay(k),
         removals'[k] # {}
  PROVE  DrainOnWay(k)'
<1> USE DEF lists
<1>1. CASE Drain
  <2>1. Top.kind \in Kinds /\ UNCHANGED <<dispatching, highQ>>
    BY <1>1, StackType, FrameFields DEF Drain, Running
  <2>2. Top.kind # k /\ removals[k] # {}
    BY <1>1, <2>1 DEF Drain, TypeOK
  <2>3. Top # DrainFrame(k)
    BY <2>2 DEF DrainFrame
  <2> QED BY <2>1, <2>2, <2>3, DrainKept DEF DrainOnWay
<1>2. CASE UserRemoves
  <2>1. PICK j \in Kinds :
          /\ InlineCall(DrainFrame(j))
          /\ \E x \in RemovalItems(j) : removals' = [removals EXCEPT ![j] = @ \cup {x}]
    BY <1>2 DEF UserRemoves
  <2>2. CASE j = k
    <3>1. PICK g : Become(<<DrainFrame(k), g>>)
      BY <2>1, <2>2 DEF InlineCall
    <3>2. stack # <<>>
      BY <1>2 DEF UserRemoves, Running
    <3>3. Swap(<<DrainFrame(k), g>>)
      BY <3>1, <3>2, Swaps
    <3>4. Has(stack', {DrainFrame(k)})
      BY <3>3, SwapFacts, HasFew
    <3> QED BY <3>4 DEF DrainOnWay
  <2>3. CASE j # k
    <3>1. removals[k] # {} /\ UNCHANGED <<dispatching, highQ>>
      BY <1>2, <2>1, <2>3 DEF UserRemoves, InlineCall, TypeOK
    <3>2. Top # DrainFrame(k)
      BY <1>2 DEF UserRemoves, Running, DrainFrame
    <3> QED BY <3>1, <3>2, DrainKept DEF DrainOnWay
  <2> QED BY <2>2, <2>3
<1>3. CASE ~Drain /\ ~UserRemoves
  <2>1. UNCHANGED <<removals, dispatching, highQ>> /\ Top.op # "drain"
    <3>1. CASE RequestStep
      BY <3>1 DEF RequestStep, RequestDead, RequestJoinOnly, RequestNew,
           RequestJoin, ChangeActorPriority, Running
    <3>2. CASE FinishStep
      BY <3>2 DEF FinishStep, ActionCompleted, NotifyWatcher, NotifyDone,
           DequeueMissing, DequeueFirst, DequeueOther, Running
    <3>3. CASE CancelStep
      BY <1>3, <3>3 DEF CancelStep, PerformCancelRequest, DropTimer, NextItem,
           ItemsDone, DetachKey, DetachLive, RemoveAllWatchersFromPath, Running
    <3>4. CASE WatchStep
      BY <3>4 DEF WatchStep, WatchForPath, DispatchResource, DispatchMessage,
           TellWatcher, Running
    <3>5. CASE UserStep
      BY <1>3, <3>5 DEF UserStep, UserReturns, UserCalls, UserFinishes, InlineCall,
           Running
    <3> QED BY <3>1, <3>2, <3>3, <3>4, <3>5 DEF FrameStep
  <2>2. Top # DrainFrame(k)
    BY <2>1 DEF DrainFrame
  <2> QED BY <2>1, <2>2, DrainKept DEF DrainOnWay
<1> QED BY <1>1, <1>2, <1>3

LEMMA OutsideRemovals ==
  ASSUME TypeOK, ClientStep \/ QueueStep, NEW k \in Kinds,
         removals[k] # {} => DrainOnWay(k), removals'[k] # {}
  PROVE  DrainOnWay(k)'
<1> USE DEF lists
<1>1. highQ \in Seq(Frame) /\ dispatching \in [Kinds -> Nat]
  BY DEF TypeOK
<1>2. CASE ClientPosts \/ (\E h \in Handles : Reset(h))
            \/ \E a \in Actors : ActorFinishes(a)
  BY <1>2 DEF ClientPosts, Reset, ActorFinishes, DrainOnWay
<1>3. CASE ClientRemovesAll
  <2>1. PICK f : highQ' = Append(highQ, f)
    BY <1>3 DEF ClientRemovesAll
  <2>2. UNCHANGED <<removals, dispatching, stack>>
    BY <1>3 DEF ClientRemovesAll
  <2>3. Has(highQ, {DrainFrame(k)}) => Has(highQ', {DrainFrame(k)})
    BY <1>1, <2>1, HasAppend
  <2> QED BY <2>2, <2>3 DEF DrainOnWay
<1>4. ASSUME NEW j \in Kinds, ClientRemoves(j) PROVE DrainOnWay(k)'
  <2>1. UNCHANGED <<highQ, stack>>
    BY <1>4 DEF ClientRemoves
  <2>2. CASE removals[k] = {}
    <3>1. j = k
      BY <1>4, <2>2 DEF ClientRemoves, TypeOK
    <3>2. dispatching' = [dispatching EXCEPT ![k] = @ + 1]
      BY <1>4, <2>2, <3>1 DEF ClientRemoves, MustDispatch
    <3>3. dispatching'[k] > 0
      BY <1>1, <3>2
    <3> QED BY <3>3 DEF DrainOnWay
  <2>3. CASE removals[k] # {}
    <3>1. dispatching[k] > 0 => dispatching'[k] > 0
      BY <1>1, <1>4 DEF ClientRemoves
    <3> QED BY <2>1, <2>3, <3>1 DEF DrainOnWay
  <2> QED BY <2>2, <2>3
<1>5. ASSUME NEW j \in Kinds, DispatchDrain(j) PROVE DrainOnWay(k)'
  <2>1. /\ UNCHANGED <<removals, stack>> /\ highQ' = Append(highQ, DrainFrame(j))
        /\ dispatching' = [dispatching EXCEPT ![j] = @ - 1]
    BY <1>5 DEF DispatchDrain
  <2>2. PICK f : f = DrainFrame(j)
    OBVIOUS
  <2>3. /\ Has(highQ, {DrainFrame(k)}) => Has(highQ', {DrainFrame(k)})
        /\ j = k => Has(highQ', {DrainFrame(k)})
    BY <1>1, <2>1, <2>2, HasAppend
  <2>4. j # k => dispatching'[k] = dispatching[k]
    BY <1>1, <2>1
  <2> QED BY <2>1, <2>3, <2>4 DEF DrainOnWay
<1>6. CASE RunStageBlock \/ \E p \in Paths : TimerFires(p)
  <2>1. stack = <<>> /\ UNCHANGED <<removals, dispatching, highQ>>
    BY <1>6 DEF RunStageBlock, TimerFires
  <2>2. ~Has(stack, {DrainFrame(k)})
    BY <2>1, HasFew
  <2> QED BY <2>1, <2>2 DEF DrainOnWay
<1>7. CASE RunHighPriorityBlock
  <2>1. /\ stack = <<>> /\ UNCHANGED <<removals, dispatching>> /\ highQ # <<>>
        /\ highQ' = Tail(highQ) /\ stack' = <<Head(highQ)>>
    BY <1>7 DEF RunHighPriorityBlock
  <2>2. PICK f : f = Head(highQ)
    OBVIOUS
  <2>3. ~Has(stack, {DrainFrame(k)}) /\ (f = DrainFrame(k) => Has(stack', {DrainFrame(k)}))
    BY <2>1, <2>2, HasFew
  <2>4. Has(highQ, {DrainFrame(k)}) => f = DrainFrame(k) \/ Has(highQ', {DrainFrame(k)})
    BY <1>1, <2>1, <2>2, HasTail
  <2> QED BY <2>1, <2>3, <2>4 DEF DrainOnWay
<1> QED BY <1>2, <1>3, <1>4, <1>5, <1>6, <1>7 DEF ClientStep, QueueStep

(* No removal is forgotten: removeWatcherByHandle: dispatches a drain only *)
(* for the first removal on the list, and as long as the list is not empty *)
(* a drain is being dispatched, waits on the high priority queue or is on  *)
(* the stage's stack, although a call on the stage drains the list early.  *)
THEOREM RemovalsDrained == Spec => []NoLostRemoval
<1>1. ASSUME Init PROVE NoLostRemoval
  BY <1>1 DEF Init, NoLostRemoval
<1>2. ASSUME TypeOK, TypeOK', NoLostRemoval, [Next]_vars PROVE NoLostRemoval'
  <2>1. \A k \in Kinds : removals[k] # {} => DrainOnWay(k)
    BY <1>2, RemovalForm DEF RemovalsForm
  <2>2. ASSUME NEW k \in Kinds, removals'[k] # {} PROVE DrainOnWay(k)'
    <3>1. CASE UNCHANGED vars
      BY <2>1, <2>2, <3>1 DEF vars, lists, DrainOnWay
    <3>2. CASE FrameStep
      BY <1>2, <2>1, <2>2, <3>2, FrameStepRemovals
    <3>3. CASE ClientStep \/ QueueStep
      BY <1>2, <2>1, <2>2, <3>3, OutsideRemovals
    <3> QED BY <1>2, <3>1, <3>2, <3>3 DEF Next
  <2> QED BY <1>2, <2>2, RemovalFormNext DEF RemovalsForm
<1> QED BY <1>1, <1>2, TypeCorrect, PTL DEF Spec

-----------------------------------------------------------------------------
(* The frames about an actor stay, or the reports of its end go.           *)
FramesKept(a) ==
  /\ Has(stack', Owners(a)) <=> Has(stack, Owners(a))
  /\ Has(stack', Notifies(a)) => Has(stack, Notifies(a))
  /\ Has(stack', Finishes(a)) => Has(stack, Finishes(a))
  /\ Has(stageQ', Finishes(a)) => Has(stageQ, Finishes(a))
  /\ Single(stack, Owners(a)) => Single(stack', Owners(a))
  /\ Single(stack, Finishes(a)) => Single(stack', Finishes(a))
  /\ Single(stageQ, Finishes(a)) => Single(stageQ', Finishes(a))

Quiet(f) == f.op \notin {"finish", "notify", "dequeue"}

LEMMA QuietIsNone ==
  ASSUME NEW f, NEW a
  PROVE  /\ Quiet(f) => f \notin Owners(a) /\ f \notin Finishes(a) /\ f \notin Notifies(a)
         /\ f.op = "finish" => f \notin Owners(a) /\ f \notin Notifies(a)
         /\ f.op \in {"notify", "dequeue"} => f \notin Finishes(a)
         /\ f.op = "dequeue" => f \notin Notifies(a)
BY DEF Quiet, Owners, Finishes, Notifies, Of

LEMMA SwapKeeps ==
  ASSUME TypeOK, UNCHANGED stageQ, NEW fs, Swap(fs), NEW a, Top \notin Owners(a),
         ~Has(fs, Owners(a)), ~Has(fs, Notifies(a)), ~Has(fs, Finishes(a)),
         Single(fs, Owners(a)), Single(fs, Finishes(a))
  PROVE  FramesKept(a)
<1>1. /\ Has(stack', Owners(a)) <=> Has(stack, Owners(a))
      /\ Single(stack, Owners(a)) => Single(stack', Owners(a))
  BY SwapFacts
<1>2. Has(stack', Notifies(a)) => Has(stack, Notifies(a))
  BY SwapFacts
<1>3. /\ Has(stack', Finishes(a)) => Has(stack, Finishes(a))
      /\ Single(stack, Finishes(a)) => Single(stack', Finishes(a))
  BY SwapFacts
<1> QED BY <1>1, <1>2, <1>3 DEF FramesKept

(* Frames that are about no actor.                                         *)
LEMMA QuietSwap ==
  ASSUME TypeOK, UNCHANGED stageQ, stack # <<>>, Top.op \notin {"notify", "dequeue"},
         \/ Return
         \/ \E x : Quiet(x) /\ Become(<<x>>)
         \/ \E x, y : Quiet(x) /\ Quiet(y) /\ Become(<<x, y>>),
         NEW a
  PROVE  FramesKept(a)
<1>1. Top \notin Owners(a)
  BY DEF Owners, Of
<1>2. CASE Return
  <2>1. Swap(<<>>)
    BY <1>2, Swaps
  <2> QED BY <1>1, <2>1, SwapKeeps, HasFew
<1>3. CASE \E x : Quiet(x) /\ Become(<<x>>)
  <2>1. PICK x : Quiet(x) /\ Become(<<x>>)
    BY <1>3
  <2>2. Swap(<<x>>) /\ x \notin Owners(a) /\ x \notin Finishes(a) /\ x \notin Notifies(a)
    BY <2>1, Swaps, QuietIsNone
  <2> QED BY <1>1, <2>2, SwapKeeps, HasFew
<1>4. CASE \E x, y : Quiet(x) /\ Quiet(y) /\ Become(<<x, y>>)
  <2>1. PICK x, y : Quiet(x) /\ Quiet(y) /\ Become(<<x, y>>)
    BY <1>4
  <2>2. /\ Swap(<<x, y>>) /\ x \notin Owners(a) /\ x \notin Finishes(a) /\ x \notin Notifies(a)
        /\ y \notin Owners(a) /\ y \notin Finishes(a) /\ y \notin Notifies(a)
    BY <2>1, Swaps, QuietIsNone
  <2> QED BY <1>1, <2>2, SwapKeeps, HasFew
<1> QED BY <1>2, <1>3, <1>4

-----------------------------------------------------------------------------
(* The invariant.                                                          *)

Active(a) == activeRequests[path[a]] = a
Untimed(a) == path[a] \notin TimedPaths
Queued(a) == Contains(requestQueues[QueueName(a)], a)

(* An actor of a queue all of whose actors honour their cancellation.      *)
Strict(a) == QueueName(a) # NoQueue /\ Cooperative(QueueName(a)) /\ ~cancelled[a]

(* What the dispatch queues hold.                                          *)
StageBlock == {f \in Frame : f.op \in {"finish", "request", "watch", "resource", "message"}}
HighBlock == {f \in Frame : f.op \in {"removeAll", "drain"}}
BlocksInv ==
  ~Has(stageQ, Frame \ StageBlock) /\ ~Has(highQ, Frame \ HighBlock)

(* An actor behind a cancel timer is one of the timer's path and has no    *)
(* watchers.                                                               *)
ParkedInv ==
  \A p \in Paths : LET a == cancelRequestTimers[p] IN
    a # NoActor => /\ path[a] = p /\ status[a] # "idle" /\ watchers[a] = {}
                   /\ p \in TimedPaths

(* An actor whose watchers are being told is no longer in a table.         *)
NotifyInv ==
  \A a \in Actors : Has(stack, Notifies(a)) =>
    ~Active(a) /\ cancelRequestTimers[path[a]] # a

(* An actor without a cancel timeout is active or on its way out by one    *)
(* frame, and in its queue exactly then.                                   *)
OwnedBy(a) ==
  Untimed(a) =>
    /\ Has(stack, Owners(a)) => ~Active(a)
    /\ Single(stack, Owners(a))
    /\ QueueName(a) # NoQueue => (Queued(a) <=> (Active(a) \/ Has(stack, Owners(a))))

(* An actor of such a queue is active while it runs, reports its end once, *)
(* and is on its way out only after that.                                  *)
RunsBy(a) ==
  Strict(a) =>
    /\ status[a] = "running" => Active(a)
    /\ Has(stack, Finishes(a)) \/ Has(stageQ, Finishes(a)) =>
         status[a] = "done" /\ Active(a)
    /\ Single(stack, Finishes(a)) /\ Single(stageQ, Finishes(a))
    /\ ~(Has(stack, Finishes(a)) /\ Has(stageQ, Finishes(a)))
    /\ Has(stack, Owners(a)) => status[a] = "done"

ActorsInv == \A a \in Actors : OwnedBy(a) /\ RunsBy(a)

TablesInv == ActiveIsWatched /\ ParkedInv /\ NotifyInv

(* An actor that a step leaves alone.                                      *)
Untouched(a) ==
  /\ path'[a] = path[a] /\ cancelled'[a] = cancelled[a] /\ status'[a] = status[a]
  /\ activeRequests'[path[a]] = a <=> activeRequests[path[a]] = a
  /\ QueueOf[path[a]] # NoQueue =>
       (Contains(requestQueues'[QueueOf[path[a]]], a)
          <=> Contains(requestQueues[QueueOf[path[a]]], a))
  /\ FramesKept(a)

LEMMA UntouchedKept ==
  ASSUME NEW a, Untouched(a), OwnedBy(a), RunsBy(a)
  PROVE  OwnedBy(a)' /\ RunsBy(a)'
<1>1. /\ Untimed(a)' <=> Untimed(a)
      /\ QueueName(a)' = QueueName(a)
      /\ Strict(a)' <=> Strict(a)
      /\ Active(a)' <=> Active(a)
      /\ QueueName(a) # NoQueue => (Queued(a)' <=> Queued(a))
  BY DEF Untouched, Untimed, QueueName, Strict, Active, Queued
<1>2. OwnedBy(a)'
  BY <1>1 DEF OwnedBy, Untouched, FramesKept
<1>3. RunsBy(a)'
  BY <1>1 DEF RunsBy, Untouched, FramesKept
<1> QED BY <1>2, <1>3

(* Only actors without a timeout are spoken of.                            *)
LEMMA OthersKept ==
  ASSUME TypeOK, NEW c \in Actors, OwnedBy(c), RunsBy(c), path'[c] = path[c],
         Untimed(c) => Untouched(c)
  PROVE  OwnedBy(c)' /\ RunsBy(c)'
<1>1. CASE Untimed(c)
  BY <1>1, UntouchedKept
<1>2. CASE ~Untimed(c)
  <2>1. ~Untimed(c)' /\ path[c] \in Paths
    BY <1>2 DEF Untimed, TypeOK
  <2>2. ~Strict(c)'
    BY <2>1 DEF Strict, Cooperative, Untimed, QueueName
  <2> QED BY <2>1, <2>2 DEF OwnedBy, RunsBy
<1> QED BY <1>1, <1>2

LEMMA StrictIsUntimed ==
  ASSUME TypeOK, NEW c \in Actors, Strict(c)
  PROVE  Untimed(c) /\ path[c] \in StopsOnCancel /\ QueueName(c) \in Queues
BY ConstantsAssumption DEF TypeOK, Strict, Cooperative, Untimed, QueueName

LEMMA ActorFrames ==
  ASSUME NEW a \in Actors, NEW c
  PROVE  /\ DequeueFrame(a) \in Owners(c) <=> a = c
         /\ FinishFrame(a) \in Finishes(c) <=> a = c
         /\ \A S \in SUBSET Handles : /\ NotifyFrame(a, S) \in Owners(c) <=> a = c
                                      /\ NotifyFrame(a, S) \in Notifies(c) <=> a = c
                                      /\ NotifyFrame(a, S) \notin Finishes(c)
         /\ DequeueFrame(a) \notin Finishes(c) /\ DequeueFrame(a) \notin Notifies(c)
         /\ FinishFrame(a) \notin Owners(c) /\ FinishFrame(a) \notin Notifies(c)
<1>1. DequeueFrame(a) \in Frame /\ FinishFrame(a) \in Frame
  BY FrameTypes
<1>2. \A S \in SUBSET Handles : NotifyFrame(a, S) \in Frame
  BY FrameTypes
<1>3. /\ DequeueFrame(a).op = "dequeue" /\ DequeueFrame(a).actor = a
      /\ FinishFrame(a).op = "finish" /\ FinishFrame(a).actor = a
      /\ \A S : NotifyFrame(a, S).op = "notify" /\ NotifyFrame(a, S).actor = a
  BY DEF DequeueFrame, FinishFrame, NotifyFrame
<1> QED BY <1>1, <1>2, <1>3 DEF Owners, Finishes, Notifies, Of

LEMMA TopFrames ==
  ASSUME TypeOK, stack # <<>>, NEW c
  PROVE  /\ Top \in Owners(c) <=> (Top.op \in {"notify", "dequeue"} /\ Top.actor = c)
         /\ Top \in Notifies(c) <=> (Top.op = "notify" /\ Top.actor = c)
         /\ Top \in Finishes(c) <=> (Top.op = "finish" /\ Top.actor = c)
BY StackType DEF Owners, Finishes, Notifies, Of

LEMMA QuietFrames ==
  /\ Quiet(ClientCode) /\ Quiet(CancelCode)
  /\ \A n : Quiet(UserFrame(n)) /\ Quiet(CancelFrame(n))
  /\ \A h, p, j, prio : Quiet(RequestFrame(h, p, j, prio))
  /\ \A S : Quiet(TellFrame(S)) /\ Quiet(ItemsFrame(S))
  /\ \A p : /\ Quiet(ResourceFrame(p)) /\ Quiet(MessageFrame(p)) /\ Quiet(PriorityFrame(p))
            /\ Quiet(RemoveAllFrame(p)) /\ Quiet(TimerFrame(p)) /\ Quiet(DropTimerFrame(p))
            /\ Quiet(DrainFrame(p))
  /\ \A h, p : Quiet(WatchFrame(h, p))
  /\ \A h, p, K : Quiet(DetachFrame(h, p, K))
BY DEF Quiet, ClientCode, CancelCode, UserFrame, CancelFrame, RequestFrame, TellFrame,
       ItemsFrame, ResourceFrame, MessageFrame, PriorityFrame, RemoveAllFrame, TimerFrame,
       DropTimerFrame, DrainFrame, WatchFrame, DetachFrame

-----------------------------------------------------------------------------
(* Steps that leave the tables and the frames about actors alone.          *)

LEMMA NeutralKept ==
  ASSUME TypeOK, TablesInv, ActorsInv, UNCHANGED tables,
         \A c \in Actors : FramesKept(c)
  PROVE  TablesInv' /\ ActorsInv'
<1> USE DEF tables
<1>1. ActiveIsWatched' /\ ParkedInv'
  BY DEF TablesInv, ActiveIsWatched, ParkedInv
<1>2. NotifyInv'
  BY DEF TablesInv, NotifyInv, Active, FramesKept
<1>3. ASSUME NEW c \in Actors PROVE OwnedBy(c)' /\ RunsBy(c)'
  <2>1. Untouched(c)
    BY DEF Untouched
  <2> QED BY <2>1, UntouchedKept DEF ActorsInv
<1> QED BY <1>1, <1>2, <1>3 DEF TablesInv, ActorsInv

LEMMA SameFrames ==
  ASSUME UNCHANGED <<stack, stageQ>>, NEW c
  PROVE  FramesKept(c)
BY DEF FramesKept

LEMMA ClientBlocksQuiet ==
  ASSUME NEW f \in ClientBlocks
  PROVE  Quiet(f) /\ (f \in Frame => f \in StageBlock)
<1>1. f.op \in {"request", "watch", "resource", "message"}
  BY DEF ClientBlocks, RequestFrame, WatchFrame, ResourceFrame, MessageFrame
<1> QED BY <1>1 DEF Quiet, StageBlock

LEMMA QuietAppend ==
  ASSUME TypeOK, UNCHANGED stack, NEW f, Quiet(f), stageQ' = Append(stageQ, f), NEW c
  PROVE  FramesKept(c)
<1>1. f \notin Finishes(c)
  BY QuietIsNone
<1>2. PICK n \in Nat : n = Len(stageQ)
  BY LenProperties DEF TypeOK
<1>3. /\ Len(stageQ') = n + 1 /\ stageQ'[n + 1] = f
      /\ \A i \in 1..n : stageQ'[i] = stageQ[i]
  BY <1>2 DEF TypeOK
<1>4. Has(stageQ', Finishes(c)) => Has(stageQ, Finishes(c))
  BY <1>1, <1>2, <1>3 DEF Has
<1>5. Single(stageQ, Finishes(c)) => Single(stageQ', Finishes(c))
  BY <1>1, <1>2, <1>3 DEF Single
<1> QED BY <1>4, <1>5 DEF FramesKept

LEMMA NeutralSteps ==
  ASSUME TypeOK, TablesInv, ActorsInv,
         \/ RequestDead \/ RequestJoinOnly \/ Drain \/ NextItem \/ ItemsDone
         \/ DetachLive \/ WatchStep \/ UserReturns \/ UserCalls \/ UserRemoves
         \/ ClientPosts \/ ClientRemovesAll
         \/ \E k \in Kinds : ClientRemoves(k) \/ DispatchDrain(k)
         \/ \E h \in Handles : Reset(h)
  PROVE  TablesInv' /\ ActorsInv'
<1> USE DEF Running
<1>1. UNCHANGED tables
  BY DEF RequestDead, RequestJoinOnly, Drain, NextItem, ItemsDone, DetachLive,
      WatchStep,
     WatchForPath, DispatchResource, DispatchMessage, TellWatcher, UserReturns, UserCalls,
     UserRemoves, ClientPosts, ClientRemovesAll, ClientRemoves, DispatchDrain, Reset
<1> SUFFICES ASSUME NEW c \in Actors PROVE FramesKept(c)
  BY <1>1, NeutralKept
<1>2. CASE RequestDead \/ RequestJoinOnly \/ ItemsDone \/ DetachLive \/ UserReturns
  <2>1. Return /\ UNCHANGED stageQ /\ stack # <<>> /\ Top.op \notin {"notify", "dequeue"}
    BY <1>2 DEF RequestDead, RequestJoinOnly, ItemsDone, DetachLive, UserReturns
  <2> QED BY <2>1, QuietSwap
<1>3. CASE Drain \/ NextItem
  <2>1. UNCHANGED stageQ /\ stack # <<>> /\ Top.op \notin {"notify", "dequeue"}
    BY <1>3 DEF Drain, NextItem
  <2>2. \/ \E x : Quiet(x) /\ Become(<<x>>)
        \/ \E x, y : Quiet(x) /\ Quiet(y) /\ Become(<<x, y>>)
    BY <1>3, QuietFrames DEF Drain, NextItem
  <2> QED BY <2>1, <2>2, QuietSwap
<1>4. CASE WatchStep
  <2>1. UNCHANGED stageQ /\ stack # <<>> /\ Top.op \notin {"notify", "dequeue"}
    BY <1>4 DEF WatchStep, WatchForPath, DispatchResource, DispatchMessage, TellWatcher
  <2>2. \/ Return
        \/ \E x : Quiet(x) /\ Become(<<x>>)
        \/ \E x, y : Quiet(x) /\ Quiet(y) /\ Become(<<x, y>>)
    BY <1>4, QuietFrames DEF WatchStep, WatchForPath, DispatchResource, DispatchMessage,
       TellWatcher, CallBack
  <2> QED BY <2>1, <2>2, QuietSwap
<1>5. CASE UserCalls \/ UserRemoves
  <2>1. UNCHANGED stageQ /\ stack # <<>> /\ Top.op \in {"user", "cancel"}
    BY <1>5 DEF UserCalls, UserRemoves, InlineCall
  <2>2. PICK f : Quiet(f) /\ InlineCall(f)
    BY <1>5, ClientBlocksQuiet, QuietFrames DEF UserCalls, UserRemoves
  <2>3. PICK g : g = [Top EXCEPT !.calls = @ - 1]
    OBVIOUS
  <2>4. Quiet(g)
    <3>1. Top \in [op : {"user", "cancel"}, calls : Nat]
      BY <2>1, StackType DEF Frame
    <3>2. g.op = Top.op
      BY <2>3, <3>1
    <3> QED BY <2>1, <3>2 DEF Quiet
  <2>5. Become(<<f, g>>)
    BY <2>2, <2>3 DEF InlineCall
  <2> QED BY <2>1, <2>2, <2>4, <2>5, QuietSwap
<1>6. CASE ClientPosts
  <2>1. PICK f \in ClientBlocks : stageQ' = Append(stageQ, f)
    BY <1>6 DEF ClientPosts
  <2>2. UNCHANGED stack
    BY <1>6 DEF ClientPosts
  <2> QED BY <2>1, <2>2, ClientBlocksQuiet, QuietAppend
<1>7. CASE \/ ClientRemovesAll
           \/ \E k \in Kinds : ClientRemoves(k) \/ DispatchDrain(k)
           \/ \E h \in Handles : Reset(h)
  <2>1. UNCHANGED <<stack, stageQ>>
    BY <1>7 DEF ClientRemovesAll, ClientRemoves, DispatchDrain, Reset
  <2> QED BY <2>1, SameFrames
<1> QED BY <1>2, <1>3, <1>4, <1>5, <1>6, <1>7

-----------------------------------------------------------------------------
(* The dispatch queues.                                                    *)

LEMMA BlocksKept ==
  ASSUME TypeOK, TypeOK', BlocksInv, [Next]_vars
  PROVE  BlocksInv'
<1>1. stageQ \in Seq(Frame) /\ highQ \in Seq(Frame)
  BY DEF TypeOK
<1>2. ~Has(stageQ', Frame \ StageBlock)
  <2>1. CASE UNCHANGED stageQ
    BY <2>1 DEF BlocksInv
  <2>2. CASE ClientPosts
    <3>1. PICK f \in ClientBlocks : stageQ' = Append(stageQ, f)
      BY <2>2 DEF ClientPosts
    <3>2. f \in Frame => f \in StageBlock
      BY <3>1, ClientBlocksQuiet
    <3> QED BY <1>1, <3>1, <3>2, HasAppend DEF BlocksInv
  <2>3. CASE \E a \in Actors : ActorFinishes(a)
    <3>1. PICK a \in Actors : stageQ' = Append(stageQ, FinishFrame(a))
      BY <2>3 DEF ActorFinishes
    <3>2. PICK f : f = FinishFrame(a)
      OBVIOUS
    <3>3. f \in StageBlock
      BY <3>2, FrameTypes DEF StageBlock, FinishFrame
    <3> QED BY <1>1, <3>1, <3>2, <3>3, HasAppend DEF BlocksInv
  <2>4. CASE RunStageBlock
    <3>1. stageQ # <<>> /\ stageQ' = Tail(stageQ)
      BY <2>4 DEF RunStageBlock
    <3> QED BY <1>1, <3>1, HasTail DEF BlocksInv
  <2>5. FrameStep => UNCHANGED stageQ
    <3>1. RequestStep => UNCHANGED stageQ
      BY DEF RequestStep, RequestDead, RequestJoinOnly, RequestNew, RequestJoin,
         ChangeActorPriority
    <3>2. FinishStep => UNCHANGED stageQ
      BY DEF FinishStep, ActionCompleted, NotifyWatcher, NotifyDone, DequeueMissing,
         DequeueFirst, DequeueOther
    <3>3. CancelStep => UNCHANGED stageQ
      BY DEF CancelStep, PerformCancelRequest, DropTimer, Drain, NextItem, ItemsDone,
         DetachKey, DetachLive, RemoveAllWatchersFromPath
    <3>4. WatchStep => UNCHANGED stageQ
      BY DEF WatchStep, WatchForPath, DispatchResource, DispatchMessage, TellWatcher
    <3>5. UserStep => UNCHANGED stageQ
      BY DEF UserStep, UserReturns, UserCalls, UserRemoves, UserFinishes, InlineCall
    <3> QED BY <3>1, <3>2, <3>3, <3>4, <3>5 DEF FrameStep
  <2>6. CASE ClientStep
    <3>1. \/ UNCHANGED stageQ \/ ClientPosts \/ \E a \in Actors : ActorFinishes(a)
      BY <2>6 DEF ClientStep, ClientRemovesAll, ClientRemoves, DispatchDrain, Reset
    <3> QED BY <2>1, <2>2, <2>3, <3>1
  <2>7. CASE QueueStep
    BY <2>1, <2>4, <2>7 DEF QueueStep, RunHighPriorityBlock, TimerFires
  <2>8. CASE UNCHANGED vars
    BY <2>1, <2>8 DEF vars
  <2> QED BY <2>1, <2>5, <2>6, <2>7, <2>8 DEF Next
<1>3. ~Has(highQ', Frame \ HighBlock)
  <2>1. CASE UNCHANGED highQ
    BY <2>1 DEF BlocksInv
  <2>2. CASE ClientRemovesAll
    <3>1. PICK p \in Paths : highQ' = Append(highQ, RemoveAllFrame(p))
      BY <2>2 DEF ClientRemovesAll
    <3>2. PICK f : f = RemoveAllFrame(p)
      OBVIOUS
    <3>3. f \in HighBlock
      BY <3>2, FrameTypes DEF HighBlock, RemoveAllFrame
    <3> QED BY <1>1, <3>1, <3>2, <3>3, HasAppend DEF BlocksInv
  <2>3. CASE \E k \in Kinds : DispatchDrain(k)
    <3>1. PICK k \in Kinds : highQ' = Append(highQ, DrainFrame(k))
      BY <2>3 DEF DispatchDrain
    <3>2. PICK f : f = DrainFrame(k)
      OBVIOUS
    <3>3. f \in HighBlock
      BY <3>2, FrameTypes DEF HighBlock, DrainFrame
    <3> QED BY <1>1, <3>1, <3>2, <3>3, HasAppend DEF BlocksInv
  <2>4. CASE RunHighPriorityBlock
    <3>1. highQ # <<>> /\ highQ' = Tail(highQ)
      BY <2>4 DEF RunHighPriorityBlock
    <3> QED BY <1>1, <3>1, HasTail DEF BlocksInv
  <2>5. FrameStep => UNCHANGED highQ
    <3>1. RequestStep => UNCHANGED highQ
      BY DEF RequestStep, RequestDead, RequestJoinOnly, RequestNew, RequestJoin,
         ChangeActorPriority
    <3>2. FinishStep => UNCHANGED highQ
      BY DEF FinishStep, ActionCompleted, NotifyWatcher, NotifyDone, DequeueMissing,
         DequeueFirst, DequeueOther
    <3>3. CancelStep => UNCHANGED highQ
      BY DEF CancelStep, PerformCancelRequest, DropTimer, Drain, NextItem, ItemsDone,
         DetachKey, DetachLive, RemoveAllWatchersFromPath
    <3>4. WatchStep => UNCHANGED highQ
      BY DEF WatchStep, WatchForPath, DispatchResource, DispatchMessage, TellWatcher
    <3>5. UserStep => UNCHANGED highQ
      BY DEF UserStep, UserReturns, UserCalls, UserRemoves, UserFinishes, InlineCall
    <3> QED BY <3>1, <3>2, <3>3, <3>4, <3>5 DEF FrameStep
  <2>6. CASE ClientStep
    <3>1. \/ UNCHANGED highQ \/ ClientRemovesAll \/ \E k \in Kinds : DispatchDrain(k)
      BY <2>6 DEF ClientStep, ClientPosts, ClientRemoves, Reset, ActorFinishes
    <3> QED BY <2>1, <2>2, <2>3, <3>1
  <2>7. CASE QueueStep
    BY <2>1, <2>4, <2>7 DEF QueueStep, RunStageBlock, TimerFires
  <2>8. CASE UNCHANGED vars
    BY <2>1, <2>8 DEF vars
  <2> QED BY <2>1, <2>5, <2>6, <2>7, <2>8 DEF Next
<1> QED BY <1>2, <1>3 DEF BlocksInv

(* A block of the dispatch queues is run: an actor's report of its end     *)
(* moves to the stack.                                                     *)
LEMMA BlockRuns ==
  ASSUME TypeOK, BlocksInv, TablesInv, ActorsInv, QueueStep
  PROVE  TablesInv' /\ ActorsInv'
<1>1. stack = <<>> /\ UNCHANGED tables
  BY DEF QueueStep, RunStageBlock, RunHighPriorityBlock, TimerFires
<1>2. CASE RunHighPriorityBlock \/ \E p \in Paths : TimerFires(p)
  <2>1. PICK f : stack' = <<f>> /\ Quiet(f)
    <3>1. CASE RunHighPriorityBlock
      <4>1. stack' = <<Head(highQ)>> /\ highQ # <<>> /\ highQ \in Seq(Frame)
        BY <3>1 DEF RunHighPriorityBlock, TypeOK
      <4>2. Head(highQ) \notin Frame \ HighBlock /\ Head(highQ) \in Frame
        BY <4>1, HasTail, HeadTailProperties DEF BlocksInv
      <4> QED BY <4>1, <4>2 DEF HighBlock, Quiet
    <3>2. CASE \E p \in Paths : TimerFires(p)
      BY <3>2, QuietFrames DEF TimerFires
    <3> QED BY <1>2, <3>1, <3>2
  <2>2. UNCHANGED stageQ
    BY <1>2 DEF RunHighPriorityBlock, TimerFires
  <2>3. ASSUME NEW c \in Actors PROVE FramesKept(c)
    <3>1. f \notin Owners(c) /\ f \notin Finishes(c) /\ f \notin Notifies(c)
      BY <2>1, QuietIsNone
    <3>2. /\ ~Has(stack', Owners(c)) /\ ~Has(stack', Finishes(c)) /\ ~Has(stack', Notifies(c))
          /\ Single(stack', Owners(c)) /\ Single(stack', Finishes(c))
      BY <2>1, <3>1, HasFew
    <3>3. ~Has(stack, Owners(c))
      BY <1>1, HasFew
    <3> QED BY <2>2, <3>2, <3>3 DEF FramesKept
  <2> QED BY <1>1, <2>3, NeutralKept
<1>3. CASE RunStageBlock
  <2>1. stack' = <<Head(stageQ)>> /\ stageQ' = Tail(stageQ) /\ stageQ # <<>>
        /\ stageQ \in Seq(Frame)
    BY <1>3 DEF RunStageBlock, TypeOK
  <2>2. PICK f : f = Head(stageQ)
    OBVIOUS
  <2>3. f \in StageBlock
    BY <2>1, <2>2, HasTail, HeadTailProperties DEF BlocksInv
  <2>4. ASSUME NEW c \in Actors
        PROVE  /\ ~Has(stack', Owners(c)) /\ ~Has(stack, Owners(c)) /\ ~Has(stack', Notifies(c))
               /\ Single(stack', Owners(c)) /\ Single(stack', Finishes(c))
               /\ Has(stack', Finishes(c)) \/ Has(stageQ', Finishes(c))
                    => Has(stageQ, Finishes(c))
               /\ Single(stageQ, Finishes(c)) =>
                    /\ Single(stageQ', Finishes(c))
                    /\ ~(Has(stack', Finishes(c)) /\ Has(stageQ', Finishes(c)))
    <3>1. f \notin Owners(c) /\ f \notin Notifies(c)
      BY <2>3 DEF StageBlock, Owners, Notifies, Of
    <3>2. /\ ~Has(stack', Owners(c)) /\ ~Has(stack, Owners(c)) /\ ~Has(stack', Notifies(c))
          /\ Single(stack', Owners(c)) /\ Single(stack', Finishes(c))
          /\ Has(stack', Finishes(c)) <=> f \in Finishes(c)
      BY <1>1, <2>1, <2>2, <3>1, HasFew
    <3>3. /\ Has(stageQ, Finishes(c)) <=> (f \in Finishes(c) \/ Has(stageQ', Finishes(c)))
          /\ Single(stageQ, Finishes(c)) => /\ Single(stageQ', Finishes(c))
                                            /\ f \in Finishes(c) => ~Has(stageQ', Finishes(c))
      BY <2>1, <2>2, HasTail
    <3> QED BY <3>2, <3>3
  <2>5. ActiveIsWatched' /\ ParkedInv'
    BY <1>1 DEF TablesInv, ActiveIsWatched, ParkedInv, tables
  <2>6. NotifyInv'
    BY <2>4 DEF NotifyInv
  <2>7. ASSUME NEW c \in Actors PROVE OwnedBy(c)' /\ RunsBy(c)'
    <3>1. OwnedBy(c) /\ RunsBy(c)
      BY DEF ActorsInv
    <3>2. /\ Untimed(c)' <=> Untimed(c)
          /\ QueueName(c)' = QueueName(c)
          /\ Strict(c)' <=> Strict(c)
          /\ Active(c)' <=> Active(c)
          /\ Queued(c)' <=> Queued(c)
          /\ status'[c] = status[c]
      BY <1>1 DEF tables, Untimed, QueueName, Strict, Active, Queued
    <3>3. OwnedBy(c)'
      BY <2>4, <3>1, <3>2 DEF OwnedBy
    <3>4. RunsBy(c)'
      BY <2>4, <3>1, <3>2 DEF RunsBy
    <3> QED BY <3>3, <3>4
  <2> QED BY <2>5, <2>6, <2>7 DEF TablesInv, ActorsInv
<1> QED BY <1>2, <1>3 DEF QueueStep

-----------------------------------------------------------------------------
(* Requests.                                                               *)

LEMMA RequestJoinOwned ==
  ASSUME TypeOK, TablesInv, ActorsInv, RequestJoin
  PROVE  TablesInv' /\ ActorsInv'
<1>1. PICK p \in Paths : p = Top.path
  BY StackType, FrameFields DEF RequestJoin, Running
<1>2. PICK a : a = RequestInfo(p)
  OBVIOUS
<1>3. /\ a # NoActor /\ stack # <<>> /\ Top.op = "request"
      /\ activeRequests' = [activeRequests EXCEPT ![p] = a]
      /\ cancelRequestTimers' = [cancelRequestTimers EXCEPT ![p] = NoActor]
      /\ \E h : watchers' = [watchers EXCEPT ![a] = @ \cup {h}]
      /\ Become(<<ClientCode>>) \/ Become(<<ClientCode, PriorityFrame(p)>>)
      /\ UNCHANGED <<requestQueues, path, status, cancelled, stageQ>>
  BY <1>1, <1>2 DEF RequestJoin, Running
<1>4. a \in Actors /\ path[a] = p /\ status[a] # "idle" /\ (p \notin TimedPaths => ~cancelled[a])
  BY <1>2, <1>3 DEF RequestInfo, TablesInv, ActiveIsWatched, ParkedInv, TypeOK
<1>5. /\ activeRequests'[p] = a /\ cancelRequestTimers'[p] = NoActor
      /\ \A r \in Paths \ {p} : /\ activeRequests'[r] = activeRequests[r]
                                /\ cancelRequestTimers'[r] = cancelRequestTimers[r]
  BY <1>3 DEF TypeOK
<1>6. watchers'[a] # {} /\ \A c \in Actors \ {a} : watchers'[c] = watchers[c]
  BY <1>3, <1>4 DEF TypeOK
<1>7. \A c \in Actors : FramesKept(c)
  BY <1>3, QuietFrames, QuietSwap
<1>8. p \notin TimedPaths => activeRequests[p] = a
  BY <1>2 DEF RequestInfo, TablesInv, ParkedInv
<1>9. ActiveIsWatched'
  <2> SUFFICES ASSUME NEW r \in Paths, activeRequests'[r] # NoActor
               PROVE  LET c == activeRequests'[r] IN
                      /\ path'[c] = r /\ status'[c] # "idle" /\ watchers'[c] # {}
                      /\ cancelRequestTimers'[r] = NoActor
                      /\ r \notin TimedPaths => ~cancelled'[c]
    BY DEF ActiveIsWatched
  <2>1. CASE r = p
    BY <1>3, <1>4, <1>5, <1>6, <2>1
  <2>2. CASE r # p
    <3>1. PICK c \in Actors : c = activeRequests[r]
      BY <1>5, <2>2 DEF TypeOK
    <3>2. path[c] = r /\ c # a
      BY <1>4, <1>5, <2>2, <3>1 DEF TablesInv, ActiveIsWatched
    <3> QED BY <1>3, <1>5, <1>6, <2>2, <3>1, <3>2 DEF TablesInv, ActiveIsWatched
  <2> QED BY <2>1, <2>2
<1>10. ParkedInv'
  <2> SUFFICES ASSUME NEW r \in Paths, cancelRequestTimers'[r] # NoActor
               PROVE  LET c == cancelRequestTimers'[r] IN
                      /\ path'[c] = r /\ status'[c] # "idle" /\ watchers'[c] = {}
                      /\ r \in TimedPaths
    BY DEF ParkedInv
  <2>1. r # p
    BY <1>5
  <2>2. PICK c \in Actors : c = cancelRequestTimers[r]
    BY <1>5, <2>1 DEF TypeOK
  <2>3. path[c] = r /\ c # a
    BY <1>4, <1>5, <2>1, <2>2 DEF TablesInv, ParkedInv
  <2> QED BY <1>3, <1>5, <1>6, <2>1, <2>2, <2>3 DEF TablesInv, ParkedInv
<1>11. NotifyInv'
  <2> SUFFICES ASSUME NEW c \in Actors, Has(stack', Notifies(c))
               PROVE  ~Active(c)' /\ cancelRequestTimers'[path'[c]] # c
    BY DEF NotifyInv
  <2>1. ~Active(c) /\ cancelRequestTimers[path[c]] # c /\ path[c] \in Paths
    BY <1>7 DEF FramesKept, TablesInv, NotifyInv, TypeOK
  <2>2. c # a
    BY <1>2, <1>4, <2>1 DEF Active, RequestInfo
  <2> QED BY <1>3, <1>5, <2>1, <2>2, ConstantsAssumption DEF Active
<1>12. ASSUME NEW c \in Actors PROVE OwnedBy(c)' /\ RunsBy(c)'
  <2>1. Untimed(c) => Untouched(c)
    <3>1. path[c] \in Paths
      BY DEF TypeOK
    <3>2. Untimed(c) => activeRequests'[path[c]] = activeRequests[path[c]]
      BY <1>5, <1>8, <3>1 DEF Untimed
    <3> QED BY <1>3, <1>7, <3>2 DEF Untouched
  <2> QED BY <1>3, <2>1, OthersKept DEF ActorsInv
<1> QED BY <1>9, <1>10, <1>11, <1>12 DEF TablesInv, ActorsInv

LEMMA RequestNewOwned ==
  ASSUME TypeOK, QueueInv, TablesInv, ActorsInv, NEW a \in Actors, RequestNew(a)
  PROVE  TablesInv' /\ ActorsInv'
<1>1. PICK p \in Paths : p = Top.path
  BY StackType, FrameFields DEF RequestNew, Running
<1>2. PICK q : q = QueueOf[p]
  OBVIOUS
<1>3. PICK prio \in BOOLEAN : prio = Top.prio
  BY StackType, FrameFields DEF RequestNew, Running
<1>4. PICK h : h = Top.handle
  OBVIOUS
<1>5. /\ stack # <<>> /\ Top.op = "request" /\ Fresh(a) /\ RequestInfo(p) = NoActor
      /\ activeRequests' = [activeRequests EXCEPT ![p] = a]
      /\ watchers' = [watchers EXCEPT ![a] = {h}]
      /\ path' = [path EXCEPT ![a] = p]
      /\ cancelled' = [cancelled EXCEPT ![a] = FALSE]
      /\ status' = [status EXCEPT ![a] = IF ExecuteNow(q) THEN "running" ELSE "waiting"]
      /\ requestQueues' = IF q = NoQueue THEN requestQueues
                          ELSE [requestQueues EXCEPT ![q] = Enqueued(requestQueues[q], a, prio)]
      /\ Return \/ Become(<<ClientCode>>)
      /\ UNCHANGED <<cancelRequestTimers, stageQ>>
  BY <1>1, <1>2, <1>3, <1>4 DEF RequestNew, Running
<1>6. activeRequests[p] = NoActor /\ cancelRequestTimers[p] = NoActor
  BY <1>5 DEF RequestInfo
<1>7. /\ \A r \in Paths : activeRequests[r] # a /\ cancelRequestTimers[r] # a
      /\ \A r \in Queues : ~Contains(requestQueues[r], a)
  BY <1>5 DEF Fresh
<1>8. /\ ~Has(stack, Owners(a)) /\ ~Has(stack, Finishes(a)) /\ ~Has(stack, Notifies(a))
      /\ ~Has(stageQ, Finishes(a))
  BY <1>5 DEF Fresh, TypeOK, Has, Owners, Finishes, Notifies, Of, Mentions
<1>9. \A c \in Actors : FramesKept(c)
  BY <1>5, QuietFrames, QuietSwap
<1>10. /\ activeRequests'[p] = a
       /\ \A r \in Paths \ {p} : activeRequests'[r] = activeRequests[r]
       /\ path'[a] = p /\ watchers'[a] # {} /\ cancelled'[a] = FALSE
       /\ status'[a] \in {"running", "waiting"}
       /\ \A c \in Actors \ {a} : /\ path'[c] = path[c] /\ watchers'[c] = watchers[c]
                                  /\ cancelled'[c] = cancelled[c] /\ status'[c] = status[c]
  BY <1>5 DEF TypeOK
<1>11. q = NoQueue \/ q \in Queues
  BY <1>2, ConstantsAssumption
<1>12. /\ q \in Queues => Contains(requestQueues'[q], a)
       /\ \A r \in Queues : \A c \in Actors \ {a} :
            Contains(requestQueues'[r], c) <=> Contains(requestQueues[r], c)
  <2>1. CASE q = NoQueue
    BY <1>5, <2>1, ConstantsAssumption
  <2>2. CASE q \in Queues
    <3>1. PICK s \in Seq(Actors) : s = requestQueues[q]
      BY <2>2 DEF TypeOK
    <3>2. PICK t : t = Enqueued(s, a, prio)
      OBVIOUS
    <3>3. /\ requestQueues'[q] = t
          /\ \A r \in Queues \ {q} : requestQueues'[r] = requestQueues[r]
      BY <1>5, <2>2, <3>1, <3>2, ConstantsAssumption DEF TypeOK
    <3>4. Distinct(s)
      BY <2>2, <3>1, QueueFormEquiv DEF QueueForm, OrderForm
    <3>5. \A x : Contains(t, x) <=> Contains(s, x) \/ x = a
      BY <1>7, <2>2, <3>1, <3>2, <3>4, EnqueuedOrder
    <3> QED BY <2>2, <3>1, <3>3, <3>5
  <2> QED BY <1>11, <2>1, <2>2
<1>13. ActiveIsWatched'
  <2> SUFFICES ASSUME NEW r \in Paths, activeRequests'[r] # NoActor
               PROVE  LET c == activeRequests'[r] IN
                      /\ path'[c] = r /\ status'[c] # "idle" /\ watchers'[c] # {}
                      /\ cancelRequestTimers'[r] = NoActor
                      /\ r \notin TimedPaths => ~cancelled'[c]
    BY DEF ActiveIsWatched
  <2>1. CASE r = p
    BY <1>5, <1>6, <1>10, <2>1
  <2>2. CASE r # p
    <3>1. PICK c \in Actors : c = activeRequests[r] /\ c # a
      BY <1>7, <1>10, <2>2 DEF TypeOK
    <3> QED BY <1>5, <1>10, <2>2, <3>1 DEF TablesInv, ActiveIsWatched
  <2> QED BY <2>1, <2>2
<1>14. ParkedInv'
  <2> SUFFICES ASSUME NEW r \in Paths, cancelRequestTimers'[r] # NoActor
               PROVE  LET c == cancelRequestTimers'[r] IN
                      /\ path'[c] = r /\ status'[c] # "idle" /\ watchers'[c] = {}
                      /\ r \in TimedPaths
    BY DEF ParkedInv
  <2>1. PICK c \in Actors : c = cancelRequestTimers[r] /\ c # a
    BY <1>5, <1>7 DEF TypeOK
  <2> QED BY <1>5, <1>10, <2>1 DEF TablesInv, ParkedInv
<1>15. NotifyInv'
  <2> SUFFICES ASSUME NEW c \in Actors, Has(stack', Notifies(c))
               PROVE  ~Active(c)' /\ cancelRequestTimers'[path'[c]] # c
    BY DEF NotifyInv
  <2>1. Has(stack, Notifies(c)) /\ c # a
    BY <1>8, <1>9 DEF FramesKept
  <2>2. ~Active(c) /\ cancelRequestTimers[path[c]] # c /\ path[c] \in Paths
    BY <2>1 DEF TablesInv, NotifyInv, TypeOK
  <2> QED BY <1>5, <1>10, <2>1, <2>2 DEF Active
<1>16. ASSUME NEW c \in Actors, c # a PROVE OwnedBy(c)' /\ RunsBy(c)'
  <2>1. path[c] \in Paths /\ QueueOf[path[c]] \in Queues \cup {NoQueue}
    BY ConstantsAssumption DEF TypeOK
  <2>2. activeRequests'[path[c]] = c <=> activeRequests[path[c]] = c
    <3>1. c # NoActor
      BY ConstantsAssumption
    <3> QED BY <1>6, <1>10, <1>16, <2>1, <3>1
  <2>3. Untouched(c)
    BY <1>9, <1>10, <1>12, <1>16, <2>1, <2>2 DEF Untouched
  <2> QED BY <2>3, UntouchedKept DEF ActorsInv
<1>17. OwnedBy(a)' /\ RunsBy(a)'
  <2>1. /\ ~Has(stack', Owners(a)) /\ ~Has(stack', Finishes(a)) /\ ~Has(stageQ', Finishes(a))
        /\ Single(stack', Owners(a)) /\ Single(stack', Finishes(a))
        /\ Single(stageQ', Finishes(a))
    <3>1. /\ ~Has(stack', Owners(a)) /\ ~Has(stack', Finishes(a)) /\ ~Has(stageQ', Finishes(a))
      BY <1>8, <1>9 DEF FramesKept
    <3> QED BY <3>1 DEF Has, Single
  <2>2. Active(a)' /\ QueueName(a)' = q /\ (q # NoQueue => Queued(a)')
    BY <1>2, <1>10, <1>11, <1>12 DEF Active, QueueName, Queued
  <2>3. OwnedBy(a)'
    BY <2>1, <2>2 DEF OwnedBy
  <2>4. RunsBy(a)'
    BY <2>1, <2>2 DEF RunsBy
  <2> QED BY <2>3, <2>4
<1> QED BY <1>13, <1>14, <1>15, <1>16, <1>17 DEF TablesInv, ActorsInv

LEMMA ChangeActorPriorityOwned ==
  ASSUME TypeOK, QueueInv, TablesInv, ActorsInv, ChangeActorPriority
  PROVE  TablesInv' /\ ActorsInv'
<1>1. /\ stack # <<>> /\ Top.op = "priority" /\ Return
      /\ UNCHANGED <<activeRequests, cancelRequestTimers, watchers, path, status,
                     cancelled, stageQ>>
  BY DEF ChangeActorPriority, Running
<1>2. \A c \in Actors : FramesKept(c)
  BY <1>1, QuietSwap
<1>3. \A r \in Queues : \A c \in Actors :
        Contains(requestQueues'[r], c) <=> Contains(requestQueues[r], c)
  <2>1. CASE UNCHANGED requestQueues
    BY <2>1
  <2>2. ASSUME NEW q \in Queues, NEW i \in DOMAIN requestQueues[q], i > 2,
               requestQueues' = [requestQueues EXCEPT ![q] =
                                   MovedToSecond(requestQueues[q], i)]
        PROVE  \A r \in Queues : \A c \in Actors :
                 Contains(requestQueues'[r], c) <=> Contains(requestQueues[r], c)
    <3>1. PICK s \in Seq(Actors) : s = requestQueues[q]
      BY DEF TypeOK
    <3>2. i \in 1..Len(s) /\ Distinct(s)
      BY <3>1, QueueFormEquiv DEF QueueForm, OrderForm
    <3>3. PICK t : t = MovedToSecond(s, i)
      OBVIOUS
    <3>4. \A x : Contains(t, x) <=> Contains(s, x)
      BY <2>2, <3>2, <3>3, MovedToSecondOrder
    <3>5. /\ requestQueues'[q] = t
          /\ \A r \in Queues \ {q} : requestQueues'[r] = requestQueues[r]
      BY <2>2, <3>1, <3>3 DEF TypeOK
    <3> QED BY <3>1, <3>4, <3>5
  <2> QED BY <2>1, <2>2 DEF ChangeActorPriority
<1>4. ActiveIsWatched' /\ ParkedInv'
  BY <1>1 DEF TablesInv, ActiveIsWatched, ParkedInv
<1>5. NotifyInv'
  BY <1>1, <1>2 DEF TablesInv, NotifyInv, Active, FramesKept
<1>6. ASSUME NEW c \in Actors PROVE OwnedBy(c)' /\ RunsBy(c)'
  <2>1. QueueOf[path[c]] \in Queues \cup {NoQueue}
    BY ConstantsAssumption DEF TypeOK
  <2>2. Untouched(c)
    BY <1>1, <1>2, <1>3, <2>1 DEF Untouched
  <2> QED BY <2>2, UntouchedKept DEF ActorsInv
<1> QED BY <1>4, <1>5, <1>6 DEF TablesInv, ActorsInv

-----------------------------------------------------------------------------
(* Completion.                                                             *)

LEMMA ActionCompletedOwned ==
  ASSUME TypeOK, TablesInv, ActorsInv, ActionCompleted
  PROVE  TablesInv' /\ ActorsInv'
<1>1. PICK b \in Actors : b = Top.actor
  BY StackType, FrameFields DEF ActionCompleted, Running
<1>2. PICK p \in Paths : p = path[b]
  BY DEF TypeOK
<1>3. PICK a : a = activeRequests[p]
  OBVIOUS
<1>4. /\ stack # <<>> /\ Top.op = "finish"
      /\ UNCHANGED <<requestQueues, cancelRequestTimers, watchers, path, status,
                     cancelled, stageQ>>
  BY DEF ActionCompleted, Running
<1>5. CASE Withdrawn(b) \/ a = NoActor
  <2>1. Return /\ UNCHANGED activeRequests
    BY <1>1, <1>2, <1>3, <1>5 DEF ActionCompleted
  <2>2. \A c \in Actors : FramesKept(c)
    BY <1>4, <2>1, QuietSwap
  <2> QED BY <1>4, <2>1, <2>2, NeutralKept DEF tables
<1>6. CASE ~Withdrawn(b) /\ a # NoActor
  <2>1. PICK f : f = NotifyFrame(a, watchers[a])
    OBVIOUS
  <2>2. activeRequests' = [activeRequests EXCEPT ![p] = NoActor] /\ Become(<<f>>)
    BY <1>1, <1>2, <1>3, <1>6, <2>1 DEF ActionCompleted
  <2>3. a \in Actors /\ watchers[a] \in SUBSET Handles
    BY <1>3, <1>6 DEF TypeOK
  <2>4. path[a] = p /\ cancelRequestTimers[p] = NoActor /\ Active(a)
    BY <1>3, <1>6 DEF TablesInv, ActiveIsWatched, Active
  <2>5. /\ activeRequests'[p] = NoActor
        /\ \A r \in Paths \ {p} : activeRequests'[r] = activeRequests[r]
    BY <2>2 DEF TypeOK
  <2>6. \A c : (f \in Owners(c) <=> a = c) /\ (f \in Notifies(c) <=> a = c) /\ f \notin Finishes(c)
    BY <2>1, <2>3, ActorFrames
  <2>7. Swap(<<f>>)
    BY <1>4, <2>2, Swaps
  <2>8. \A c : Top \notin Owners(c) /\ Top \notin Notifies(c) /\ (Top \in Finishes(c) <=> c = b)
    BY <1>1, <1>4, TopFrames
  <2>9. ASSUME NEW c \in Actors, c # a PROVE FramesKept(c)
    BY <1>4, <2>6, <2>7, <2>8, <2>9, SwapKeeps, HasFew
  <2>10. ActiveIsWatched' /\ ParkedInv'
    BY <1>4, <2>5 DEF TablesInv, ActiveIsWatched, ParkedInv
  <2>11. NotifyInv'
    <3> SUFFICES ASSUME NEW c \in Actors, Has(stack', Notifies(c))
                 PROVE  ~Active(c)' /\ cancelRequestTimers'[path'[c]] # c
      BY DEF NotifyInv
    <3>1. c # NoActor /\ path[c] \in Paths
      BY ConstantsAssumption DEF TypeOK
    <3>2. CASE c = a
      BY <1>4, <2>4, <2>5, <3>1, <3>2 DEF Active
    <3>3. CASE c # a
      <4>1. ~Active(c) /\ cancelRequestTimers[path[c]] # c
        BY <2>9, <3>3 DEF FramesKept, TablesInv, NotifyInv
      <4> QED BY <1>4, <2>5, <3>1, <4>1 DEF Active
    <3> QED BY <3>2, <3>3
  <2>12. ASSUME NEW c \in Actors, c # a PROVE OwnedBy(c)' /\ RunsBy(c)'
    <3>1. c # NoActor /\ path[c] \in Paths
      BY ConstantsAssumption DEF TypeOK
    <3>2. activeRequests'[path[c]] = c <=> activeRequests[path[c]] = c
      BY <1>3, <2>5, <2>12, <3>1
    <3>3. Untouched(c)
      BY <1>4, <2>9, <2>12, <3>2 DEF Untouched
    <3> QED BY <3>3, UntouchedKept DEF ActorsInv
  <2>13. /\ Has(stack', Owners(a)) /\ ~Active(a)'
         /\ Has(stack, Owners(a)) <=> Has(Tail(stack), Owners(a))
         /\ Single(stack, Owners(a)) /\ ~Has(Tail(stack), Owners(a)) => Single(stack', Owners(a))
    <3>1. ~Active(a)'
      BY <1>4, <2>3, <2>4, <2>5, ConstantsAssumption DEF Active
    <3>2. Has(<<f>>, Owners(a)) /\ Single(<<f>>, Owners(a))
      BY <2>6, HasFew
    <3> QED BY <2>7, <2>8, <3>1, <3>2, SwapFacts
  <2>14. OwnedBy(a)'
    <3>1. OwnedBy(a)
      BY <2>3 DEF ActorsInv
    <3>2. /\ Untimed(a)' <=> Untimed(a)
          /\ QueueName(a)' = QueueName(a)
          /\ Queued(a)' <=> Queued(a)
      BY <1>4 DEF Untimed, QueueName, Queued
    <3> QED BY <2>4, <2>13, <3>1, <3>2 DEF OwnedBy
  <2>15. ASSUME Strict(a) PROVE RunsBy(a)'
    <3>1. ~cancelled[b]
      <4>1. path[a] \in StopsOnCancel
        BY <2>3, <2>15, StrictIsUntimed
      <4> QED BY <1>2, <1>6, <2>4, <4>1 DEF Withdrawn
    <3>2. Strict(b)
      BY <1>2, <2>4, <2>15, <3>1 DEF Strict, QueueName
    <3>3. Has(stack, Finishes(b))
      BY <2>7, <2>8, SwapFacts
    <3>4. b = a /\ status[a] = "done" /\ RunsBy(a)
      BY <1>2, <1>3, <3>2, <3>3 DEF ActorsInv, RunsBy, Active
    <3>5. /\ ~Has(stack', Finishes(a)) /\ ~Has(stageQ', Finishes(a))
      <4>1. Top \in Finishes(a) /\ Single(stack, Finishes(a)) /\ ~Has(<<f>>, Finishes(a))
        BY <2>6, <2>8, <2>15, <3>4, HasFew DEF RunsBy
      <4>2. ~Has(Tail(stack), Finishes(a))
        BY <2>7, <4>1, SwapFacts
      <4> QED BY <1>4, <2>7, <2>15, <3>3, <3>4, <4>1, <4>2, SwapFacts DEF RunsBy
    <3>6. Single(stack', Finishes(a)) /\ Single(stageQ', Finishes(a))
      BY <3>5 DEF Has, Single
    <3> QED BY <1>4, <3>4, <3>5, <3>6 DEF RunsBy
  <2>16. RunsBy(a)'
    <3>1. Strict(a)' <=> Strict(a)
      BY <1>4 DEF Strict, QueueName
    <3> QED BY <2>15, <3>1 DEF RunsBy
  <2> QED BY <2>10, <2>11, <2>12, <2>14, <2>16 DEF TablesInv, ActorsInv
<1> QED BY <1>5, <1>6

(* The frame that tells the watchers goes on, or becomes the dequeue.      *)
LEMMA NotifyOwned ==
  ASSUME TypeOK, TablesInv, ActorsInv, NotifyWatcher \/ NotifyDone
  PROVE  TablesInv' /\ ActorsInv'
<1>1. PICK a \in Actors : a = Top.actor
  BY StackType, FrameFields DEF NotifyWatcher, NotifyDone, Running
<1>2. /\ stack # <<>> /\ Top.op = "notify" /\ Top.todo \in SUBSET Handles
      /\ UNCHANGED <<requestQueues, activeRequests, cancelRequestTimers, path, status,
                     cancelled, stageQ>>
  BY StackType, FrameFields DEF NotifyWatcher, NotifyDone, Running, tables
<1>3. PICK f : /\ \A c : (f \in Owners(c) <=> a = c) /\ (f \in Notifies(c) => a = c) /\ f \notin Finishes(c)
               /\ Become(<<f>>) \/ Become(<<ClientCode, f>>)
  <2>1. CASE NotifyDone
    <3>1. PICK g : g = DequeueFrame(a)
      OBVIOUS
    <3> QED BY <1>1, <2>1, <3>1, ActorFrames DEF NotifyDone
  <2>2. CASE NotifyWatcher
    <3>1. PICK h \in Top.todo : CallBack(h, NotifyFrame(a, Top.todo \ {h}))
      BY <1>1, <2>2 DEF NotifyWatcher
    <3>2. PICK g : g = NotifyFrame(a, Top.todo \ {h})
      OBVIOUS
    <3>3. Top.todo \ {h} \in SUBSET Handles
      BY <1>2
    <3>4. \A c : (g \in Owners(c) <=> a = c) /\ (g \in Notifies(c) => a = c) /\ g \notin Finishes(c)
      BY <3>2, <3>3, ActorFrames
    <3>5. Become(<<g>>) \/ Become(<<ClientCode, g>>)
      BY <3>1, <3>2 DEF CallBack
    <3> QED BY <3>4, <3>5, Zenon
  <2> QED BY <2>1, <2>2
<1>4. \A c : /\ Top \in Owners(c) <=> a = c
             /\ Top \in Notifies(c) <=> a = c
             /\ Top \notin Finishes(c)
  BY <1>1, <1>2, TopFrames
<1>5. PICK fs : /\ Swap(fs)
                /\ \A c : /\ Has(fs, Owners(c)) <=> a = c
                          /\ Has(fs, Notifies(c)) => a = c
                          /\ ~Has(fs, Finishes(c))
                          /\ Single(fs, Owners(c)) /\ Single(fs, Finishes(c))
  <2>1. CASE Become(<<f>>)
    <3>1. Swap(<<f>>)
      BY <1>2, <2>1, Swaps
    <3>2. ASSUME NEW c
          PROVE  /\ Has(<<f>>, Owners(c)) <=> a = c
                 /\ Has(<<f>>, Notifies(c)) => a = c
                 /\ ~Has(<<f>>, Finishes(c))
                 /\ Single(<<f>>, Owners(c)) /\ Single(<<f>>, Finishes(c))
      BY <1>3, HasFew
    <3> QED BY <3>1, <3>2, Zenon
  <2>2. CASE Become(<<ClientCode, f>>)
    <3>1. Swap(<<ClientCode, f>>)
      BY <1>2, <2>2, Swaps
    <3>2. \A c : /\ ClientCode \notin Owners(c) /\ ClientCode \notin Notifies(c)
                 /\ ClientCode \notin Finishes(c)
      BY QuietFrames, QuietIsNone
    <3>3. ASSUME NEW c
          PROVE  /\ Has(<<ClientCode, f>>, Owners(c)) <=> a = c
                 /\ Has(<<ClientCode, f>>, Notifies(c)) => a = c
                 /\ ~Has(<<ClientCode, f>>, Finishes(c))
                 /\ Single(<<ClientCode, f>>, Owners(c)) /\ Single(<<ClientCode, f>>, Finishes(c))
      BY <1>3, <3>2, HasFew
    <3> QED BY <3>1, <3>3, Zenon
  <2> QED BY <1>3, <2>1, <2>2
<1>6. ASSUME NEW c \in Actors PROVE FramesKept(c)
  <2>1. CASE c # a
    BY <1>2, <1>4, <1>5, <2>1, SwapKeeps
  <2>2. CASE c = a
    <3>1. /\ Has(stack, Owners(c)) /\ Has(stack', Owners(c)) /\ Has(stack, Notifies(c))
          /\ Single(stack, Owners(c)) => Single(stack', Owners(c))
      BY <1>4, <1>5, <2>2, SwapFacts
    <3>2. /\ Has(stack', Finishes(c)) => Has(stack, Finishes(c))
          /\ Single(stack, Finishes(c)) => Single(stack', Finishes(c))
      BY <1>4, <1>5, <2>2, SwapFacts
    <3> QED BY <1>2, <3>1, <3>2 DEF FramesKept
  <2> QED BY <2>1, <2>2
<1>7. CASE NotifyWatcher
  BY <1>6, <1>7, NeutralKept DEF NotifyWatcher
<1>8. CASE NotifyDone
  <2>1. watchers' = [watchers EXCEPT ![a] = {}]
    BY <1>1, <1>8 DEF NotifyDone
  <2>2. watchers'[a] = {} /\ \A c \in Actors \ {a} : watchers'[c] = watchers[c]
    BY <2>1 DEF TypeOK
  <2>3. Has(stack, Notifies(a))
    BY <1>4, <1>5, SwapFacts
  <2>4. \A r \in Paths : activeRequests[r] # a
    BY <2>3, ConstantsAssumption DEF TablesInv, NotifyInv, ActiveIsWatched, Active
  <2>5. ActiveIsWatched'
    <3>1. \A r \in Paths : activeRequests[r] # NoActor =>
            watchers'[activeRequests[r]] = watchers[activeRequests[r]]
      BY <2>2, <2>4 DEF TypeOK
    <3> QED BY <1>2, <3>1 DEF TablesInv, ActiveIsWatched
  <2>6. ParkedInv'
    <3>1. \A r \in Paths : cancelRequestTimers[r] # NoActor /\ watchers[cancelRequestTimers[r]] = {} =>
            watchers'[cancelRequestTimers[r]] = {}
      BY <2>2 DEF TypeOK
    <3> QED BY <1>2, <3>1 DEF TablesInv, ParkedInv
  <2>7. NotifyInv'
    BY <1>2, <1>6 DEF TablesInv, NotifyInv, Active, FramesKept
  <2>8. ASSUME NEW c \in Actors PROVE OwnedBy(c)' /\ RunsBy(c)'
    <3>1. Untouched(c)
      BY <1>2, <1>6 DEF Untouched
    <3> QED BY <3>1, UntouchedKept DEF ActorsInv
  <2> QED BY <2>5, <2>6, <2>7, <2>8 DEF TablesInv, ActorsInv
<1> QED BY <1>7, <1>8

(* removeRequestFromQueueAndProceedIfFirst: takes its actor out once.      *)
LEMMA DequeueFramesKept ==
  ASSUME TypeOK, Running("dequeue"), UNCHANGED stageQ, Return \/ Become(<<ClientCode>>),
         NEW c
  PROVE  /\ c # Top.actor => FramesKept(c)
         /\ Has(stack, Owners(Top.actor))
         /\ Single(stack, Owners(c)) => Single(stack', Owners(c))
         /\ Single(stack, Owners(Top.actor)) => ~Has(stack', Owners(Top.actor))
         /\ Has(stack', Notifies(c)) => Has(stack, Notifies(c))
         /\ Has(stack', Finishes(c)) => Has(stack, Finishes(c))
         /\ Single(stack, Finishes(c)) => Single(stack', Finishes(c))
<1>1. stack # <<>> /\ Top.op = "dequeue"
  BY DEF Running
<1>2. PICK fs : /\ Swap(fs)
                /\ \A d : /\ ~Has(fs, Owners(d)) /\ ~Has(fs, Notifies(d)) /\ ~Has(fs, Finishes(d))
                          /\ Single(fs, Owners(d)) /\ Single(fs, Finishes(d))
  <2>1. CASE Return
    <3>1. Swap(<<>>)
      BY <1>1, <2>1, Swaps
    <3> QED BY <3>1, HasFew
  <2>2. CASE Become(<<ClientCode>>)
    <3>1. Swap(<<ClientCode>>)
      BY <1>1, <2>2, Swaps
    <3>2. ASSUME NEW d
          PROVE  /\ ~Has(<<ClientCode>>, Owners(d)) /\ ~Has(<<ClientCode>>, Notifies(d))
                 /\ ~Has(<<ClientCode>>, Finishes(d))
                 /\ Single(<<ClientCode>>, Owners(d)) /\ Single(<<ClientCode>>, Finishes(d))
      BY QuietFrames, QuietIsNone, HasFew
    <3> QED BY <3>1, <3>2, Zenon
  <2> QED BY <2>1, <2>2
<1>3. \A d : (Top \in Owners(d) <=> d = Top.actor) /\ Top \notin Finishes(d) /\ Top \notin Notifies(d)
  BY <1>1, TopFrames
<1>4. c # Top.actor => FramesKept(c)
  BY <1>2, <1>3, SwapKeeps
<1>5. PICK a : a = Top.actor
  OBVIOUS
<1>6. Has(stack, Owners(a)) /\ (Single(stack, Owners(a)) => ~Has(stack', Owners(a)))
  BY <1>2, <1>3, <1>5, SwapFacts
<1>7. /\ Single(stack, Owners(c)) => Single(stack', Owners(c))
      /\ Has(stack', Notifies(c)) => Has(stack, Notifies(c))
      /\ Has(stack', Finishes(c)) => Has(stack, Finishes(c))
      /\ Single(stack, Finishes(c)) => Single(stack', Finishes(c))
  <2>1. Single(stack, Owners(c)) => Single(stack', Owners(c))
    BY <1>2, SwapFacts
  <2>2. Has(stack', Notifies(c)) => Has(stack, Notifies(c))
    BY <1>2, SwapFacts
  <2>3. /\ Has(stack', Finishes(c)) => Has(stack, Finishes(c))
        /\ Single(stack, Finishes(c)) => Single(stack', Finishes(c))
    BY <1>2, SwapFacts
  <2> QED BY <2>1, <2>2, <2>3
<1> QED BY <1>4, <1>5, <1>6, <1>7

LEMMA DequeueMissingOwned ==
  ASSUME TypeOK, TablesInv, ActorsInv, DequeueMissing
  PROVE  TablesInv' /\ ActorsInv'
<1>1. PICK a \in Actors : a = Top.actor
  BY StackType, FrameFields DEF DequeueMissing, Running
<1>2. /\ Running("dequeue") /\ NotQueued(a) /\ Return /\ UNCHANGED stageQ /\ UNCHANGED tables
  BY <1>1 DEF DequeueMissing
<1>3. ActiveIsWatched' /\ ParkedInv'
  BY <1>2 DEF TablesInv, ActiveIsWatched, ParkedInv, tables
<1>4. NotifyInv'
  <2>1. \A c \in Actors : Has(stack', Notifies(c)) => Has(stack, Notifies(c))
    BY <1>2, DequeueFramesKept
  <2> QED BY <1>2, <2>1 DEF TablesInv, NotifyInv, Active, tables
<1>5. ASSUME NEW c \in Actors, c # a PROVE OwnedBy(c)' /\ RunsBy(c)'
  <2>1. FramesKept(c)
    BY <1>1, <1>2, <1>5, DequeueFramesKept
  <2>2. Untouched(c)
    BY <1>2, <2>1 DEF Untouched, tables
  <2> QED BY <2>2, UntouchedKept DEF ActorsInv
<1>6. OwnedBy(a)' /\ RunsBy(a)'
  <2>1. Has(stack, Owners(a)) /\ (Single(stack, Owners(a)) => Single(stack', Owners(a)))
        /\ (Single(stack, Owners(a)) => ~Has(stack', Owners(a)))
    BY <1>1, <1>2, DequeueFramesKept
  <2>2. OwnedBy(a)
    BY DEF ActorsInv
  <2>3. Untimed(a) => QueueName(a) = NoQueue
    BY <1>2, <2>1, <2>2 DEF OwnedBy, NotQueued, Queued
  <2>4. /\ Untimed(a)' <=> Untimed(a)
        /\ QueueName(a)' = QueueName(a)
        /\ Strict(a)' <=> Strict(a)
    BY <1>2 DEF tables, Untimed, QueueName, Strict
  <2>5. OwnedBy(a)'
    BY <2>1, <2>2, <2>3, <2>4 DEF OwnedBy
  <2>6. ~Strict(a)
    BY <2>3, StrictIsUntimed DEF Strict
  <2> QED BY <2>4, <2>5, <2>6 DEF RunsBy
<1> QED BY <1>3, <1>4, <1>5, <1>6 DEF TablesInv, ActorsInv

(* Actor a leaves its queue q; the actor n that follows is executed.       *)
LEMMA DequeuedOwned ==
  ASSUME TypeOK, TablesInv, ActorsInv, Running("dequeue"), UNCHANGED stageQ,
         Return \/ Become(<<ClientCode>>),
         NEW a \in Actors, a = Top.actor,
         NEW q \in Queues, q = QueueName(a), Contains(requestQueues[q], a),
         \A r \in Queues : \A c \in Actors :
           Contains(requestQueues'[r], c) <=> (Contains(requestQueues[r], c) /\ c # a),
         \A r \in Queues : \A c \in Actors : Contains(requestQueues[r], c) => QueueName(c) = r,
         UNCHANGED <<activeRequests, cancelRequestTimers, watchers, path, cancelled>>,
         status'[a] = Retired(a), NEW n,
         \A c \in Actors \ {a} :
           \/ status'[c] = status[c]
           \/ /\ c = n /\ status[c] = "waiting" /\ status'[c] = "running"
              /\ Contains(requestQueues[q], c)
  PROVE  TablesInv' /\ ActorsInv'
<1>1. \A c \in Actors : status[c] # "idle" => status'[c] # "idle"
  BY DEF Retired
<1>2. ActiveIsWatched'
  <2>1. \A r \in Paths : activeRequests[r] # NoActor => activeRequests[r] \in Actors
    BY DEF TypeOK
  <2> QED BY <1>1, <2>1 DEF TablesInv, ActiveIsWatched
<1>3. ParkedInv'
  <2>1. \A r \in Paths : cancelRequestTimers[r] # NoActor => cancelRequestTimers[r] \in Actors
    BY DEF TypeOK
  <2> QED BY <1>1, <2>1 DEF TablesInv, ParkedInv
<1>4. NotifyInv'
  <2>1. \A c \in Actors : Has(stack', Notifies(c)) => Has(stack, Notifies(c))
    BY DequeueFramesKept
  <2> QED BY <2>1 DEF TablesInv, NotifyInv, Active
<1>5. \A c \in Actors : /\ Untimed(c)' <=> Untimed(c)
                        /\ QueueName(c)' = QueueName(c)
                        /\ Strict(c)' <=> Strict(c)
                        /\ Active(c)' <=> Active(c)
  BY DEF Untimed, QueueName, Strict, Active
<1>6. \A c \in Actors : QueueName(c) \in Queues \cup {NoQueue}
  BY ConstantsAssumption DEF TypeOK, QueueName
<1>7. q # NoQueue
  BY ConstantsAssumption
<1>8. OwnedBy(a)' /\ RunsBy(a)'
  <2>1. /\ Has(stack, Owners(a)) /\ (Single(stack, Owners(a)) => Single(stack', Owners(a)))
        /\ (Single(stack, Owners(a)) => ~Has(stack', Owners(a)))
        /\ Has(stack', Finishes(a)) => Has(stack, Finishes(a))
        /\ Single(stack, Finishes(a)) => Single(stack', Finishes(a))
    BY DequeueFramesKept
  <2>2. OwnedBy(a) /\ RunsBy(a)
    BY DEF ActorsInv
  <2>3. ~Queued(a)'
    BY <1>5 DEF Queued
  <2>4. OwnedBy(a)'
    BY <1>5, <2>1, <2>2, <2>3 DEF OwnedBy
  <2>5. Strict(a) => Untimed(a)
    BY StrictIsUntimed
  <2>6. Strict(a) => ~Active(a) /\ status[a] = "done" /\ status'[a] = "done" /\ ~Has(stack', Owners(a))
    BY <2>1, <2>2, <2>5 DEF OwnedBy, RunsBy, Retired
  <2>7. RunsBy(a)'
    BY <1>5, <2>1, <2>2, <2>6 DEF RunsBy
  <2> QED BY <2>4, <2>7
<1>9. ASSUME NEW c \in Actors, c # a PROVE OwnedBy(c)' /\ RunsBy(c)'
  <2>1. OwnedBy(c) /\ RunsBy(c) /\ FramesKept(c)
    BY <1>9, DequeueFramesKept DEF ActorsInv
  <2>2. QueueName(c) # NoQueue => (Queued(c)' <=> Queued(c))
    BY <1>5, <1>6, <1>9 DEF Queued
  <2>3. OwnedBy(c)'
    BY <1>5, <2>1, <2>2 DEF OwnedBy, FramesKept
  <2>4. CASE status'[c] = status[c]
    BY <1>5, <2>1, <2>3, <2>4 DEF RunsBy, FramesKept
  <2>5. CASE status[c] = "waiting" /\ status'[c] = "running" /\ Contains(requestQueues[q], c)
    <3>1. Strict(c) => Untimed(c)
      BY StrictIsUntimed
    <3>2. QueueName(c) = q /\ Queued(c)
      BY <2>5 DEF Queued
    <3>3. Strict(c) => Active(c) /\ ~Has(stack, Owners(c)) /\ ~Has(stack, Finishes(c))
                       /\ ~Has(stageQ, Finishes(c))
      BY <1>7, <2>1, <2>5, <3>1, <3>2 DEF OwnedBy, RunsBy
    <3> QED BY <1>5, <2>1, <2>3, <2>5, <3>3 DEF RunsBy, FramesKept
  <2> QED BY <1>9, <2>3, <2>4, <2>5
<1> QED BY <1>2, <1>3, <1>4, <1>8, <1>9 DEF TablesInv, ActorsInv

LEMMA DequeueFirstOwned ==
  ASSUME TypeOK, QueueInv, TablesInv, ActorsInv, DequeueFirst
  PROVE  TablesInv' /\ ActorsInv'
<1>1. PICK a \in Actors : a = Top.actor
  BY StackType, FrameFields DEF DequeueFirst, Running
<1>2. PICK q \in Queues : q = QueueName(a) /\ Contains(requestQueues[q], a)
  BY <1>1, ConstantsAssumption DEF DequeueFirst, NotQueued, TypeOK, QueueName
<1>3. PICK s \in Seq(Actors) : s = requestQueues[q]
  BY DEF TypeOK
<1>4. s # <<>> /\ Contains(s, a)
  BY <1>2, <1>3 DEF Contains
<1>5. /\ Running("dequeue") /\ s[1] = a /\ UNCHANGED stageQ
      /\ requestQueues' = [requestQueues EXCEPT ![q] = Tail(s)]
      /\ status' = IF Proceeds(s)
                   THEN [status EXCEPT ![a] = Retired(a), ![s[2]] = "running"]
                   ELSE [status EXCEPT ![a] = Retired(a)]
      /\ Return \/ Become(<<ClientCode>>)
      /\ UNCHANGED <<activeRequests, cancelRequestTimers, watchers, path, cancelled>>
  BY <1>1, <1>2, <1>3 DEF DequeueFirst
<1>6. QueueForm
  BY QueueFormEquiv
<1>7. Distinct(s) /\ \A r \in Queues : \A c \in Actors :
        Contains(requestQueues[r], c) => QueueName(c) = r
  BY <1>3, <1>6 DEF QueueForm, OrderForm
<1>8. \A r \in Queues : \A c \in Actors :
        Contains(requestQueues'[r], c) <=> (Contains(requestQueues[r], c) /\ c # a)
  <2>1. \A x : Contains(Tail(s), x) <=> Contains(s, x) /\ x # a
    BY <1>4, <1>5, <1>7, TailOrder
  <2>2. /\ requestQueues'[q] = Tail(s)
        /\ \A r \in Queues \ {q} : requestQueues'[r] = requestQueues[r]
    BY <1>5 DEF TypeOK
  <2> QED BY <1>2, <1>3, <1>7, <2>1, <2>2
<1>9. PICK n : n = s[2]
  OBVIOUS
<1>10. Proceeds(s) => n \in Actors /\ n # a /\ status[n] = "waiting" /\ Contains(s, n)
  <2>1. Proceeds(s) => 2 \in 1..Len(s) /\ 1 \in 1..Len(s) /\ 2 \in 2..Len(s)
    BY DEF Proceeds
  <2>2. Proceeds(s) => n \in Actors /\ n # a /\ Contains(s, n)
    BY <1>5, <1>7, <1>9, <2>1 DEF Distinct, Contains
  <2>3. Proceeds(s) => status[n] = "waiting"
    BY <1>3, <1>6, <1>9, <2>1 DEF QueueForm, OrderForm
  <2> QED BY <2>2, <2>3
<1>11. /\ status'[a] = Retired(a)
       /\ \A c \in Actors \ {a} :
            \/ status'[c] = status[c]
            \/ /\ c = n /\ status[c] = "waiting" /\ status'[c] = "running"
               /\ Contains(requestQueues[q], c)
  <2>0. DOMAIN status = Actors
    BY DEF TypeOK
  <2>1. CASE Proceeds(s)
    <3>1. status' = [status EXCEPT ![a] = Retired(a), ![n] = "running"]
      BY <1>5, <1>9, <2>1
    <3>2. status'[a] = Retired(a) /\ status'[n] = "running"
      BY <1>10, <2>0, <2>1, <3>1, Zenon
    <3>3. \A c \in Actors \ {a} : c # n => status'[c] = status[c]
      BY <2>0, <3>1, Zenon
    <3> QED BY <1>3, <1>10, <2>1, <3>2, <3>3
  <2>2. CASE ~Proceeds(s)
    BY <1>5, <2>0, <2>2
  <2> QED BY <2>1, <2>2
<1>12. /\ Running("dequeue") /\ UNCHANGED stageQ /\ (Return \/ Become(<<ClientCode>>))
       /\ UNCHANGED <<activeRequests, cancelRequestTimers, watchers, path, cancelled>>
  BY <1>5
<1> QED BY <1>1, <1>2, <1>7, <1>8, <1>11, <1>12, DequeuedOwned

LEMMA DequeueOtherOwned ==
  ASSUME TypeOK, QueueInv, TablesInv, ActorsInv, DequeueOther
  PROVE  TablesInv' /\ ActorsInv'
<1>1. PICK a \in Actors : a = Top.actor
  BY StackType, FrameFields DEF DequeueOther, Running
<1>2. PICK q \in Queues : q = QueueName(a) /\ Contains(requestQueues[q], a)
  BY <1>1, ConstantsAssumption DEF DequeueOther, NotQueued, TypeOK, QueueName
<1>3. PICK s \in Seq(Actors) : s = requestQueues[q]
  BY DEF TypeOK
<1>4. PICK i \in 1..Len(s) :
        /\ i > 1 /\ s[i] = a
        /\ requestQueues' = [requestQueues EXCEPT ![q] = RemoveAt(s, i)]
  <2>1. \E i \in DOMAIN requestQueues[q] :
          /\ i > 1 /\ requestQueues[q][i] = a
          /\ requestQueues' = [requestQueues EXCEPT ![q] =
                                 RemoveAt(requestQueues[q], i)]
    BY <1>1, <1>2, Zenon DEF DequeueOther
  <2>2. DOMAIN requestQueues[q] = 1..Len(s)
    BY <1>3
  <2> QED BY <1>3, <2>1, <2>2, Zenon
<1>5. /\ Running("dequeue") /\ Return /\ UNCHANGED stageQ
      /\ status' = [status EXCEPT ![a] = Retired(a)]
      /\ UNCHANGED <<activeRequests, cancelRequestTimers, watchers, path, cancelled>>
  BY <1>1 DEF DequeueOther
<1>6. Distinct(s) /\ \A r \in Queues : \A c \in Actors :
        Contains(requestQueues[r], c) => QueueName(c) = r
  BY <1>3, QueueFormEquiv DEF QueueForm, OrderForm
<1>7. \A r \in Queues : \A c \in Actors :
        Contains(requestQueues'[r], c) <=> (Contains(requestQueues[r], c) /\ c # a)
  <2>1. PICK t : t = RemoveAt(s, i)
    OBVIOUS
  <2>2. \A x : Contains(t, x) <=> Contains(s, x) /\ x # a
    BY <1>4, <1>6, <2>1, RemoveAtOrder
  <2>3. /\ requestQueues'[q] = t
        /\ \A r \in Queues \ {q} : requestQueues'[r] = requestQueues[r]
    BY <1>4, <2>1 DEF TypeOK
  <2> QED BY <1>2, <1>3, <1>6, <2>2, <2>3
<1>8. /\ status'[a] = Retired(a)
      /\ \A c \in Actors \ {a} : status'[c] = status[c]
  BY <1>5 DEF TypeOK
<1> QED BY <1>1, <1>2, <1>5, <1>6, <1>7, <1>8, DequeuedOwned

-----------------------------------------------------------------------------
(* Cancellation.                                                           *)

LEMMA CancelSwapFrames ==
  ASSUME TypeOK, stack # <<>>, NEW a \in Actors, NEW rest, stack' = CancelFrames(a) \o rest,
         \/ rest = Tail(stack)
         \/ \E x : Quiet(x) /\ rest = <<x>> \o Tail(stack)
  PROVE  \E fs : /\ Swap(fs)
                 /\ \A c : /\ Has(fs, Owners(c)) <=> c = a
                           /\ ~Has(fs, Notifies(c)) /\ ~Has(fs, Finishes(c))
                           /\ Single(fs, Owners(c)) /\ Single(fs, Finishes(c))
<1>1. PICK k, d : k = CancelCode /\ d = DequeueFrame(a)
  OBVIOUS
<1>2. \A c : /\ k \notin Owners(c) /\ k \notin Notifies(c) /\ k \notin Finishes(c)
             /\ d \in Owners(c) <=> c = a
             /\ d \notin Notifies(c) /\ d \notin Finishes(c)
  BY <1>1, QuietFrames, QuietIsNone, ActorFrames
<1>3. CASE rest = Tail(stack)
  <2>1. Swap(<<k, d>>)
    BY <1>1, <1>3, CancelSwaps DEF CancelFrames
  <2>2. ASSUME NEW c
        PROVE  /\ Has(<<k, d>>, Owners(c)) <=> c = a
               /\ ~Has(<<k, d>>, Notifies(c)) /\ ~Has(<<k, d>>, Finishes(c))
               /\ Single(<<k, d>>, Owners(c)) /\ Single(<<k, d>>, Finishes(c))
    BY <1>2, HasFew
  <2> QED BY <2>1, <2>2, Zenon
<1>4. ASSUME NEW x, Quiet(x), rest = <<x>> \o Tail(stack)
      PROVE  \E fs : /\ Swap(fs)
                     /\ \A c : /\ Has(fs, Owners(c)) <=> c = a
                               /\ ~Has(fs, Notifies(c)) /\ ~Has(fs, Finishes(c))
                               /\ Single(fs, Owners(c)) /\ Single(fs, Finishes(c))
  <2>1. Swap(<<k, d, x>>)
    BY <1>1, <1>4, CancelSwaps
  <2>2. ASSUME NEW c
        PROVE  /\ Has(<<k, d, x>>, Owners(c)) <=> c = a
               /\ ~Has(<<k, d, x>>, Notifies(c)) /\ ~Has(<<k, d, x>>, Finishes(c))
               /\ Single(<<k, d, x>>, Owners(c)) /\ Single(<<k, d, x>>, Finishes(c))
    <3>1. x \notin Owners(c) /\ x \notin Notifies(c) /\ x \notin Finishes(c)
      BY <1>4, QuietIsNone
    <3> QED BY <1>2, <3>1, HasFew
  <2> QED BY <2>1, <2>2, Zenon
<1> QED BY <1>3, <1>4

(* scheduleCancelRequest for the actor a of path p: the watchers change,   *)
(* or the actor is parked, or it is cancelled and on its way out.  The top *)
(* frame is replaced by what is left to do, which is about no actor.       *)
LEMMA ScheduleCancelOwned ==
  ASSUME TypeOK, TablesInv, ActorsInv, stack # <<>>, Top.op \notin {"notify", "dequeue"},
         NEW p \in Paths, NEW a \in Actors, a = activeRequests[p],
         NEW ws \in SUBSET Handles, NEW rest, ScheduleCancel(p, ws, rest),
         \/ rest = Tail(stack)
         \/ \E x : Quiet(x) /\ rest = <<x>> \o Tail(stack),
         UNCHANGED <<requestQueues, path, status, stageQ>>
  PROVE  TablesInv' /\ ActorsInv'
<1>g. a # NoActor /\ NoActor \notin Actors
  BY ConstantsAssumption
<1>1. /\ path[a] = p /\ status[a] # "idle" /\ cancelRequestTimers[p] = NoActor /\ Active(a)
      /\ p \notin TimedPaths => ~cancelled[a]
  BY <1>g DEF TablesInv, ActiveIsWatched, Active
<1>2. /\ \A r \in Paths \ {p} : activeRequests[r] # a
      /\ \A r \in Paths : cancelRequestTimers[r] # a
  BY <1>g, <1>1 DEF TablesInv, ActiveIsWatched, ParkedInv
<1>3. watchers' = [watchers EXCEPT ![a] = ws]
  BY DEF ScheduleCancel
<1>4. watchers'[a] = ws /\ \A c \in Actors \ {a} : watchers'[c] = watchers[c]
  BY <1>3 DEF TypeOK
<1>5. ~Has(stack, Notifies(a))
  BY <1>1 DEF TablesInv, NotifyInv
<1>6. stack' = rest => \A c : FramesKept(c)
  <2> SUFFICES ASSUME stack' = rest, NEW c PROVE FramesKept(c)
    OBVIOUS
  <2>1. Return \/ \E x : Quiet(x) /\ Become(<<x>>)
    BY DEF Return, Become
  <2> QED BY <2>1, QuietSwap
<1>7. /\ \A r \in Paths : activeRequests[r] \in Actors \cup {NoActor}
      /\ \A r \in Paths : cancelRequestTimers[r] \in Actors \cup {NoActor}
      /\ \A c \in Actors : path[c] \in Paths
  BY DEF TypeOK
<1>8. CASE ~NeedsCancel(p, ws)
  <2>1. /\ stack' = rest /\ ws # {}
        /\ UNCHANGED <<activeRequests, cancelRequestTimers, cancelled>>
    BY <1>1, <1>8 DEF ScheduleCancel, NeedsCancel
  <2>2. ActiveIsWatched'
    BY <1>4, <1>7, <2>1 DEF TablesInv, ActiveIsWatched
  <2>3. ParkedInv'
    BY <1>2, <1>4, <1>7, <2>1 DEF TablesInv, ParkedInv
  <2>4. NotifyInv'
    BY <1>6, <2>1 DEF TablesInv, NotifyInv, Active, FramesKept
  <2>5. ASSUME NEW c \in Actors PROVE OwnedBy(c)' /\ RunsBy(c)'
    <3>1. Untouched(c)
      BY <1>6, <2>1 DEF Untouched
    <3> QED BY <3>1, UntouchedKept DEF ActorsInv
  <2> QED BY <2>2, <2>3, <2>4, <2>5 DEF TablesInv, ActorsInv
<1>9. CASE NeedsCancel(p, ws)
  <2>1. activeRequests' = [activeRequests EXCEPT ![p] = NoActor] /\ ws = {}
    BY <1>9 DEF ScheduleCancel, NeedsCancel
  <2>2. /\ activeRequests'[p] = NoActor
        /\ \A r \in Paths \ {p} : activeRequests'[r] = activeRequests[r]
    BY <2>1 DEF TypeOK
  <2>3. \A c \in Actors : /\ Active(c)' => Active(c)
                          /\ c # a => (activeRequests'[path[c]] = c <=> activeRequests[path[c]] = c)
    BY <1>g, <1>7, <2>2 DEF Active
  <2>4. ~Active(a)'
    BY <1>g, <1>1, <2>2 DEF Active
  <2>5. CASE HasTimeout(a)
    <3>1. /\ cancelRequestTimers' = [cancelRequestTimers EXCEPT ![p] = a]
          /\ stack' = rest /\ UNCHANGED cancelled
      BY <1>9, <2>5 DEF ScheduleCancel
    <3>2. /\ cancelRequestTimers'[p] = a
          /\ \A r \in Paths \ {p} : cancelRequestTimers'[r] = cancelRequestTimers[r]
      BY <3>1 DEF TypeOK
    <3>3. p \in TimedPaths
      BY <1>1, <2>5 DEF HasTimeout
    <3>4. ActiveIsWatched'
      BY <1>2, <1>4, <1>7, <2>2, <3>1, <3>2 DEF TablesInv, ActiveIsWatched
    <3>5. ParkedInv'
      BY <1>1, <1>2, <1>4, <1>7, <2>1, <3>2, <3>3 DEF TablesInv, ParkedInv
    <3>6. NotifyInv'
      <4> SUFFICES ASSUME NEW c \in Actors, Has(stack', Notifies(c))
                   PROVE  ~Active(c)' /\ cancelRequestTimers'[path'[c]] # c
        BY DEF NotifyInv
      <4>1. Has(stack, Notifies(c)) /\ c # a
        BY <1>5, <1>6, <3>1 DEF FramesKept
      <4>2. ~Active(c) /\ cancelRequestTimers[path[c]] # c
        BY <4>1 DEF TablesInv, NotifyInv
      <4> QED BY <1>7, <2>3, <3>2, <4>1, <4>2
    <3>7. ASSUME NEW c \in Actors PROVE OwnedBy(c)' /\ RunsBy(c)'
      <4>1. Untimed(c) => c # a
        BY <1>1, <3>3 DEF Untimed
      <4>2. Untimed(c) => Untouched(c)
        BY <1>6, <2>3, <3>1, <4>1 DEF Untouched
      <4> QED BY <4>2, OthersKept DEF ActorsInv
    <3> QED BY <3>4, <3>5, <3>6, <3>7 DEF TablesInv, ActorsInv
  <2>6. CASE ~HasTimeout(a)
    <3>1. /\ cancelled' = [cancelled EXCEPT ![a] = TRUE]
          /\ stack' = CancelFrames(a) \o rest /\ UNCHANGED cancelRequestTimers
      BY <1>9, <2>6 DEF ScheduleCancel
    <3>2. cancelled'[a] = TRUE /\ \A c \in Actors \ {a} : cancelled'[c] = cancelled[c]
      BY <3>1 DEF TypeOK
    <3>3. PICK fs : /\ Swap(fs)
                    /\ \A c : /\ Has(fs, Owners(c)) <=> c = a
                              /\ ~Has(fs, Notifies(c)) /\ ~Has(fs, Finishes(c))
                              /\ Single(fs, Owners(c)) /\ Single(fs, Finishes(c))
      BY <3>1, CancelSwapFrames
    <3>4. ASSUME NEW c, c # a PROVE FramesKept(c)
      <4>1. Top \notin Owners(c)
        BY DEF Owners, Of
      <4> QED BY <3>3, <3>4, <4>1, SwapKeeps
    <3>5. ActiveIsWatched'
      <4> SUFFICES ASSUME NEW r \in Paths, activeRequests'[r] # NoActor
                   PROVE  LET c == activeRequests'[r] IN
                          /\ path'[c] = r /\ status'[c] # "idle" /\ watchers'[c] # {}
                          /\ cancelRequestTimers'[r] = NoActor
                          /\ r \notin TimedPaths => ~cancelled'[c]
        BY DEF ActiveIsWatched
      <4>1. r # p
        BY <2>2
      <4>2. PICK c \in Actors : c = activeRequests[r] /\ c # a
        BY <1>2, <1>7, <2>2, <4>1
      <4>3. /\ path[c] = r /\ status[c] # "idle" /\ watchers[c] # {}
            /\ cancelRequestTimers[r] = NoActor
            /\ r \notin TimedPaths => ~cancelled[c]
        BY <1>g, <4>2 DEF TablesInv, ActiveIsWatched
      <4> QED BY <1>4, <2>2, <3>1, <3>2, <4>1, <4>2, <4>3
    <3>6. ParkedInv'
      BY <1>2, <1>4, <1>7, <3>1 DEF TablesInv, ParkedInv
    <3>7. NotifyInv'
      <4> SUFFICES ASSUME NEW c \in Actors, Has(stack', Notifies(c))
                   PROVE  ~Active(c)' /\ cancelRequestTimers'[path'[c]] # c
        BY DEF NotifyInv
      <4>1. Has(stack, Notifies(c))
        BY <3>3, SwapFacts
      <4> QED BY <2>3, <3>1, <4>1 DEF TablesInv, NotifyInv
    <3>8. ASSUME NEW c \in Actors, c # a PROVE OwnedBy(c)' /\ RunsBy(c)'
      <4>1. Untouched(c)
        BY <2>3, <3>2, <3>4, <3>8 DEF Untouched
      <4> QED BY <4>1, UntouchedKept DEF ActorsInv
    <3>9. RunsBy(a)'
      BY <3>2 DEF RunsBy, Strict
    <3>10. OwnedBy(a)'
      <4>1. OwnedBy(a)
        BY DEF ActorsInv
      <4>2. /\ Untimed(a)' <=> Untimed(a)
            /\ QueueName(a)' = QueueName(a)
            /\ Queued(a)' <=> Queued(a)
        BY DEF Untimed, QueueName, Queued
      <4>3. /\ Has(stack', Owners(a))
            /\ Single(stack, Owners(a)) /\ ~Has(stack, Owners(a)) => Single(stack', Owners(a))
        BY <3>3, SwapFacts
      <4> QED BY <1>1, <2>4, <4>1, <4>2, <4>3 DEF OwnedBy
    <3> QED BY <3>5, <3>6, <3>7, <3>8, <3>9, <3>10 DEF TablesInv, ActorsInv
  <2> QED BY <2>5, <2>6
<1> QED BY <1>8, <1>9

LEMMA DetachOwned ==
  ASSUME TypeOK, TablesInv, ActorsInv, DetachKey \/ RemoveAllWatchersFromPath
  PROVE  TablesInv' /\ ActorsInv'
<1>1. CASE DetachKey
  <2>1. /\ stack # <<>> /\ Top.op = "detach" /\ Top.keys \in SUBSET Paths /\ UNCHANGED stageQ
    BY <1>1, StackType, FrameFields DEF DetachKey, Running
  <2>2. PICK p \in Top.keys :
          LET rest == <<DetachFrame(Top.handle, Top.path, Top.keys \ {p})>> \o Tail(stack)
          IN IF activeRequests[p] = NoActor
             THEN stack' = rest /\ UNCHANGED tables
             ELSE /\ ScheduleCancel(p, watchers[activeRequests[p]] \ {Top.handle}, rest)
                  /\ UNCHANGED <<requestQueues, path, status>>
    BY <1>1 DEF DetachKey
  <2>3. PICK x : x = DetachFrame(Top.handle, Top.path, Top.keys \ {p}) /\ Quiet(x)
    BY QuietFrames
  <2>4. PICK rest : rest = <<x>> \o Tail(stack)
    OBVIOUS
  <2>5. CASE activeRequests[p] = NoActor
    <3>1. Become(<<x>>) /\ UNCHANGED tables
      BY <2>2, <2>3, <2>5 DEF Become
    <3>2. \A c \in Actors : FramesKept(c)
      BY <2>1, <2>3, <3>1, QuietSwap
    <3> QED BY <3>1, <3>2, NeutralKept
  <2>6. CASE activeRequests[p] # NoActor
    <3>1. p \in Paths
      BY <2>1
    <3>2. PICK a \in Actors : a = activeRequests[p]
      BY <2>6, <3>1 DEF TypeOK
    <3>3. PICK ws \in SUBSET Handles : ws = watchers[a] \ {Top.handle}
      BY DEF TypeOK
    <3>4. ScheduleCancel(p, ws, rest) /\ UNCHANGED <<requestQueues, path, status>>
      BY <2>2, <2>3, <2>4, <2>6, <3>2, <3>3
    <3> QED BY <2>1, <2>3, <2>4, <3>1, <3>2, <3>4, ScheduleCancelOwned
  <2> QED BY <2>5, <2>6
<1>2. CASE RemoveAllWatchersFromPath
  <2>1. stack # <<>> /\ Top.op = "removeAll" /\ UNCHANGED stageQ
    BY <1>2 DEF RemoveAllWatchersFromPath, Running
  <2>2. PICK p \in Paths : p = Top.path
    BY <1>2, StackType, FrameFields DEF RemoveAllWatchersFromPath, Running
  <2>3. CASE activeRequests[p] = NoActor
    <3>1. Return /\ UNCHANGED tables
      BY <1>2, <2>2, <2>3 DEF RemoveAllWatchersFromPath
    <3>2. \A c \in Actors : FramesKept(c)
      BY <2>1, <3>1, QuietSwap
    <3> QED BY <3>1, <3>2, NeutralKept
  <2>4. CASE activeRequests[p] # NoActor
    <3>1. PICK a \in Actors : a = activeRequests[p]
      BY <2>4 DEF TypeOK
    <3>2. PICK rest : rest = Tail(stack)
      OBVIOUS
    <3>3. PICK ws \in SUBSET Handles : ws = {}
      OBVIOUS
    <3>4. ScheduleCancel(p, ws, rest) /\ UNCHANGED <<requestQueues, path, status>>
      BY <1>2, <2>2, <2>4, <3>2, <3>3 DEF RemoveAllWatchersFromPath
    <3> QED BY <2>1, <3>1, <3>2, <3>4, ScheduleCancelOwned
  <2> QED BY <2>3, <2>4
<1> QED BY <1>1, <1>2

LEMMA TimerOwned ==
  ASSUME TypeOK, TablesInv, ActorsInv, PerformCancelRequest \/ DropTimer
  PROVE  TablesInv' /\ ActorsInv'
<1>1. PICK p \in Paths : p = Top.path
  BY StackType, FrameFields DEF PerformCancelRequest, DropTimer, Running
<1>2. /\ stack # <<>> /\ Top.op \in {"timer", "dropTimer"}
      /\ UNCHANGED <<requestQueues, activeRequests, watchers, path, status, stageQ>>
  BY DEF PerformCancelRequest, DropTimer, Running
<1>3. CASE DropTimer
  <2>1. /\ cancelRequestTimers' = [cancelRequestTimers EXCEPT ![p] = NoActor]
        /\ Return /\ UNCHANGED cancelled
    BY <1>1, <1>3 DEF DropTimer
  <2>2. \A r \in Paths : cancelRequestTimers'[r] \in {cancelRequestTimers[r], NoActor}
    BY <2>1 DEF TypeOK
  <2>3. \A c : FramesKept(c)
    BY <1>2, <2>1, QuietSwap
  <2>4. ActiveIsWatched'
    BY <1>2, <2>1, <2>2 DEF TablesInv, ActiveIsWatched
  <2>5. ParkedInv'
    BY <1>2, <2>2 DEF TablesInv, ParkedInv
  <2>6. NotifyInv'
    <3> SUFFICES ASSUME NEW c \in Actors, Has(stack', Notifies(c))
                 PROVE  ~Active(c)' /\ cancelRequestTimers'[path'[c]] # c
      BY DEF NotifyInv
    <3>1. ~Active(c) /\ cancelRequestTimers[path[c]] # c /\ path[c] \in Paths /\ c # NoActor
      BY <2>3, ConstantsAssumption DEF TablesInv, NotifyInv, FramesKept, TypeOK
    <3> QED BY <1>2, <2>2, <3>1 DEF Active
  <2>7. ASSUME NEW c \in Actors PROVE OwnedBy(c)' /\ RunsBy(c)'
    <3>1. Untouched(c)
      BY <1>2, <2>1, <2>3 DEF Untouched
    <3> QED BY <3>1, UntouchedKept DEF ActorsInv
  <2> QED BY <2>4, <2>5, <2>6, <2>7 DEF TablesInv, ActorsInv
<1>4. CASE PerformCancelRequest
  <2>0. UNCHANGED cancelRequestTimers
    BY <1>4 DEF PerformCancelRequest
  <2>1. CASE cancelRequestTimers[p] = NoActor
    <3>1. Return /\ UNCHANGED cancelled
      BY <1>1, <1>4, <2>1 DEF PerformCancelRequest
    <3>2. \A c \in Actors : FramesKept(c)
      BY <1>2, <3>1, QuietSwap
    <3> QED BY <1>2, <2>0, <3>1, <3>2, NeutralKept DEF tables
  <2>2. CASE cancelRequestTimers[p] # NoActor
    <3>1. PICK a \in Actors : a = cancelRequestTimers[p]
      BY <2>2 DEF TypeOK
    <3>2. path[a] = p /\ p \in TimedPaths
      BY <2>2, <3>1 DEF TablesInv, ParkedInv
    <3>3. PICK x : x = DropTimerFrame(p) /\ Quiet(x)
      BY QuietFrames
    <3>4. /\ cancelled' = [cancelled EXCEPT ![a] = TRUE]
          /\ stack' = (CancelFrames(a) \o <<x>>) \o Tail(stack)
      BY <1>1, <1>4, <2>2, <3>1, <3>3 DEF PerformCancelRequest, Become
    <3>5. \A c \in Actors \ {a} : cancelled'[c] = cancelled[c]
      BY <3>4 DEF TypeOK
    <3>6. PICK k, d : k = CancelCode /\ d = DequeueFrame(a)
      OBVIOUS
    <3>7. Swap(<<k, d, x>>)
      BY <1>2, <3>4, <3>6, CancelSwaps
    <3>8. ASSUME NEW c
          PROVE  /\ k \notin Owners(c) /\ k \notin Notifies(c) /\ k \notin Finishes(c)
                 /\ x \notin Owners(c) /\ x \notin Notifies(c) /\ x \notin Finishes(c)
                 /\ d \in Owners(c) <=> c = a
                 /\ d \notin Notifies(c) /\ d \notin Finishes(c)
      BY <3>3, <3>6, QuietFrames, QuietIsNone, ActorFrames
    <3>9. ASSUME NEW c, c # a PROVE FramesKept(c)
      <4>1. Top \notin Owners(c)
        BY <1>2 DEF Owners, Of
      <4>2. /\ ~Has(<<k, d, x>>, Owners(c)) /\ ~Has(<<k, d, x>>, Notifies(c))
            /\ ~Has(<<k, d, x>>, Finishes(c))
            /\ Single(<<k, d, x>>, Owners(c)) /\ Single(<<k, d, x>>, Finishes(c))
        BY <3>8, <3>9, HasFew
      <4> QED BY <1>2, <3>7, <4>1, <4>2, SwapKeeps
    <3>10. ActiveIsWatched'
      <4> SUFFICES ASSUME NEW r \in Paths, activeRequests[r] # NoActor
                   PROVE  LET c == activeRequests[r] IN
                          /\ path[c] = r /\ status[c] # "idle" /\ watchers[c] # {}
                          /\ cancelRequestTimers[r] = NoActor
                          /\ r \notin TimedPaths => ~cancelled'[c]
        BY <1>2, <2>0 DEF ActiveIsWatched
      <4>1. PICK c \in Actors : c = activeRequests[r]
        BY DEF TypeOK
      <4> QED BY <3>2, <3>5, <4>1 DEF TablesInv, ActiveIsWatched
    <3>11. ParkedInv'
      BY <1>2, <2>0 DEF TablesInv, ParkedInv
    <3>12. NotifyInv'
      <4>1. \A c : Has(stack', Notifies(c)) => Has(stack, Notifies(c))
        BY <3>7, <3>8, SwapFacts, HasFew
      <4> QED BY <1>2, <2>0, <4>1 DEF TablesInv, NotifyInv, Active
    <3>13. ASSUME NEW c \in Actors PROVE OwnedBy(c)' /\ RunsBy(c)'
      <4>1. Untimed(c) => c # a
        BY <3>2 DEF Untimed
      <4>2. Untimed(c) => Untouched(c)
        BY <1>2, <3>5, <3>9, <4>1 DEF Untouched
      <4> QED BY <1>2, <4>2, OthersKept DEF ActorsInv
    <3> QED BY <3>10, <3>11, <3>12, <3>13 DEF TablesInv, ActorsInv
  <2> QED BY <2>1, <2>2
<1> QED BY <1>3, <1>4

-----------------------------------------------------------------------------
(* An executing actor reports its end, on the stage or from elsewhere.     *)
LEMMA FinishesOwned ==
  ASSUME TypeOK, TablesInv, ActorsInv, NEW a \in Actors, status[a] = "running",
         status' = [status EXCEPT ![a] = "done"],
         UNCHANGED <<requestQueues, activeRequests, cancelRequestTimers, watchers, path,
                     cancelled>>,
         \A c \in Actors : c # a => FramesKept(c),
         /\ Has(stack', Owners(a)) <=> Has(stack, Owners(a))
         /\ Has(stack', Notifies(a)) => Has(stack, Notifies(a))
         /\ Single(stack, Owners(a)) => Single(stack', Owners(a)),
         ~Has(stack, Finishes(a)) /\ ~Has(stageQ, Finishes(a)) =>
           /\ Single(stack', Finishes(a)) /\ Single(stageQ', Finishes(a))
           /\ ~(Has(stack', Finishes(a)) /\ Has(stageQ', Finishes(a)))
  PROVE  TablesInv' /\ ActorsInv'
<1>1. status'[a] = "done" /\ \A c \in Actors \ {a} : status'[c] = status[c]
  BY DEF TypeOK
<1>2. \A c \in Actors : status[c] # "idle" => status'[c] # "idle"
  BY <1>1
<1>3. ActiveIsWatched'
  <2>1. \A r \in Paths : activeRequests[r] # NoActor => activeRequests[r] \in Actors
    BY DEF TypeOK
  <2> QED BY <1>2, <2>1 DEF TablesInv, ActiveIsWatched
<1>4. ParkedInv'
  <2>1. \A r \in Paths : cancelRequestTimers[r] # NoActor => cancelRequestTimers[r] \in Actors
    BY DEF TypeOK
  <2> QED BY <1>2, <2>1 DEF TablesInv, ParkedInv
<1>5. NotifyInv'
  BY DEF TablesInv, NotifyInv, Active, FramesKept
<1>6. ASSUME NEW c \in Actors, c # a PROVE OwnedBy(c)' /\ RunsBy(c)'
  <2>1. Untouched(c)
    BY <1>1, <1>6 DEF Untouched
  <2> QED BY <2>1, UntouchedKept DEF ActorsInv
<1>7. OwnedBy(a)' /\ RunsBy(a)'
  <2>1. OwnedBy(a) /\ RunsBy(a)
    BY DEF ActorsInv
  <2>2. /\ Untimed(a)' <=> Untimed(a)
        /\ QueueName(a)' = QueueName(a)
        /\ Strict(a)' <=> Strict(a)
        /\ Active(a)' <=> Active(a)
        /\ Queued(a)' <=> Queued(a)
    BY DEF Untimed, QueueName, Strict, Active, Queued
  <2>3. OwnedBy(a)'
    BY <2>1, <2>2 DEF OwnedBy
  <2>4. RunsBy(a)'
    BY <1>1, <2>1, <2>2 DEF RunsBy
  <2> QED BY <2>3, <2>4
<1> QED BY <1>3, <1>4, <1>5, <1>6, <1>7 DEF TablesInv, ActorsInv

LEMMA UserFinishesOwned ==
  ASSUME TypeOK, TablesInv, ActorsInv, UserFinishes
  PROVE  TablesInv' /\ ActorsInv'
<1>1. PICK a \in Actors : /\ status[a] = "running" /\ InlineCall(FinishFrame(a))
                          /\ status' = [status EXCEPT ![a] = "done"]
  BY DEF UserFinishes
<1>2. /\ stack # <<>> /\ Top.op = "user" /\ UNCHANGED stageQ
      /\ UNCHANGED <<requestQueues, activeRequests, cancelRequestTimers, watchers, path,
                     cancelled>>
  BY <1>1 DEF UserFinishes, Running, InlineCall
<1>3. PICK f, g : f = FinishFrame(a) /\ g = [Top EXCEPT !.calls = @ - 1]
  OBVIOUS
<1>4. Quiet(g)
  <2>1. Top \in [op : {"user", "cancel"}, calls : Nat]
    BY <1>2, StackType DEF Frame
  <2>2. g.op = Top.op
    BY <1>3, <2>1
  <2> QED BY <1>2, <2>2 DEF Quiet
<1>5. Swap(<<f, g>>)
  BY <1>1, <1>2, <1>3, Swaps DEF InlineCall
<1>6. ASSUME NEW c
      PROVE  /\ f \notin Owners(c) /\ f \notin Notifies(c) /\ (f \in Finishes(c) <=> a = c)
             /\ g \notin Owners(c) /\ g \notin Notifies(c) /\ g \notin Finishes(c)
             /\ Top \notin Owners(c) /\ Top \notin Finishes(c)
  BY <1>2, <1>3, <1>4, ActorFrames, QuietIsNone, TopFrames
<1>7. ASSUME NEW c
      PROVE  /\ ~Has(<<f, g>>, Owners(c)) /\ ~Has(<<f, g>>, Notifies(c))
             /\ Has(<<f, g>>, Finishes(c)) <=> a = c
             /\ Single(<<f, g>>, Owners(c)) /\ Single(<<f, g>>, Finishes(c))
  BY <1>6, HasFew
<1>8. \A c \in Actors : c # a => FramesKept(c)
  BY <1>2, <1>5, <1>6, <1>7, SwapKeeps
<1>9. /\ Has(stack', Owners(a)) <=> Has(stack, Owners(a))
      /\ Single(stack, Owners(a)) => Single(stack', Owners(a))
  BY <1>5, <1>6, <1>7, SwapFacts
<1>10. Has(stack', Notifies(a)) => Has(stack, Notifies(a))
  BY <1>5, <1>7, SwapFacts
<1>11. ~Has(stack, Finishes(a)) /\ ~Has(stageQ, Finishes(a)) =>
         /\ Single(stack', Finishes(a)) /\ Single(stageQ', Finishes(a))
         /\ ~(Has(stack', Finishes(a)) /\ Has(stageQ', Finishes(a)))
  <2> SUFFICES ASSUME ~Has(stack, Finishes(a)), ~Has(stageQ, Finishes(a))
               PROVE  /\ Single(stack', Finishes(a)) /\ Single(stageQ', Finishes(a))
                      /\ ~(Has(stack', Finishes(a)) /\ Has(stageQ', Finishes(a)))
    OBVIOUS
  <2>1. Single(stack, Finishes(a)) /\ Single(stageQ, Finishes(a))
    BY DEF Has, Single
  <2>2. Single(stack', Finishes(a))
    BY <1>5, <1>7, <2>1, SwapFacts
  <2> QED BY <1>2, <2>1, <2>2
<1> QED BY <1>1, <1>2, <1>8, <1>9, <1>10, <1>11, FinishesOwned

LEMMA ActorFinishesOwned ==
  ASSUME TypeOK, TablesInv, ActorsInv, NEW a \in Actors, ActorFinishes(a)
  PROVE  TablesInv' /\ ActorsInv'
<1>1. /\ status[a] = "running" /\ status' = [status EXCEPT ![a] = "done"]
      /\ stageQ' = Append(stageQ, FinishFrame(a)) /\ UNCHANGED stack
      /\ UNCHANGED <<requestQueues, activeRequests, cancelRequestTimers, watchers, path,
                     cancelled>>
  BY DEF ActorFinishes
<1>2. PICK f : f = FinishFrame(a)
  OBVIOUS
<1>3. PICK n \in Nat : n = Len(stageQ)
  BY LenProperties DEF TypeOK
<1>4. /\ Len(stageQ') = n + 1 /\ stageQ'[n + 1] = f
      /\ \A i \in 1..n : stageQ'[i] = stageQ[i]
  BY <1>1, <1>2, <1>3 DEF TypeOK
<1>5. ASSUME NEW c, c # a PROVE FramesKept(c)
  <2>1. f \notin Finishes(c)
    BY <1>2, <1>5, ActorFrames
  <2>2. Has(stageQ', Finishes(c)) => Has(stageQ, Finishes(c))
    BY <1>3, <1>4, <2>1 DEF Has
  <2>3. Single(stageQ, Finishes(c)) => Single(stageQ', Finishes(c))
    BY <1>3, <1>4, <2>1 DEF Single
  <2> QED BY <1>1, <2>2, <2>3 DEF FramesKept
<1>6. ~Has(stack, Finishes(a)) /\ ~Has(stageQ, Finishes(a)) =>
         /\ Single(stack', Finishes(a)) /\ Single(stageQ', Finishes(a))
         /\ ~(Has(stack', Finishes(a)) /\ Has(stageQ', Finishes(a)))
  <2> SUFFICES ASSUME ~Has(stack, Finishes(a)), ~Has(stageQ, Finishes(a))
               PROVE  /\ Single(stack', Finishes(a)) /\ Single(stageQ', Finishes(a))
                      /\ ~(Has(stack', Finishes(a)) /\ Has(stageQ', Finishes(a)))
    OBVIOUS
  <2>1. ~Has(stack', Finishes(a)) /\ Single(stack', Finishes(a))
    BY <1>1 DEF Has, Single
  <2>2. Single(stageQ', Finishes(a))
    BY <1>3, <1>4 DEF Has, Single
  <2> QED BY <2>1, <2>2
<1> QED BY <1>1, <1>5, <1>6, FinishesOwned

-----------------------------------------------------------------------------
OwnInv == BlocksInv /\ TablesInv /\ ActorsInv

LEMMA OwnInit == Init => OwnInv
<1> SUFFICES ASSUME Init PROVE OwnInv
  OBVIOUS
<1>1. \A F : /\ ~Has(stack, F) /\ ~Has(stageQ, F) /\ ~Has(highQ, F)
             /\ Single(stack, F) /\ Single(stageQ, F)
  BY HasFew DEF Init
<1>2. BlocksInv
  BY <1>1 DEF BlocksInv
<1>3. TablesInv
  BY <1>1 DEF Init, TablesInv, ActiveIsWatched, ParkedInv, NotifyInv
<1>4. ASSUME NEW a \in Actors PROVE OwnedBy(a) /\ RunsBy(a)
  <2>1. path[a] \in Paths /\ a # NoActor
    BY ConstantsAssumption DEF Init
  <2>2. ~Active(a) /\ status[a] = "idle"
    BY <2>1 DEF Init, Active
  <2>3. QueueName(a) # NoQueue => ~Queued(a)
    BY <2>1, ConstantsAssumption DEF Init, QueueName, Queued, Contains
  <2> QED BY <1>1, <2>2, <2>3 DEF OwnedBy, RunsBy
<1> QED BY <1>2, <1>3, <1>4 DEF OwnInv, ActorsInv

LEMMA OwnNext ==
  ASSUME TypeOK, TypeOK', QueueInv, OwnInv, [Next]_vars
  PROVE  OwnInv'
<1> USE DEF OwnInv
<1>1. BlocksInv'
  BY BlocksKept
<1>2. CASE UNCHANGED vars
  <2>1. UNCHANGED tables /\ UNCHANGED <<stack, stageQ>>
    BY <1>2 DEF vars
  <2> QED BY <1>1, <2>1, SameFrames, NeutralKept
<1>3. CASE RequestStep
  BY <1>1, <1>3, NeutralSteps, RequestJoinOwned, RequestNewOwned,
      ChangeActorPriorityOwned
     DEF RequestStep
<1>4. CASE FinishStep
  BY <1>1, <1>4, ActionCompletedOwned, NotifyOwned, DequeueMissingOwned,
      DequeueFirstOwned,
     DequeueOtherOwned DEF FinishStep
<1>5. CASE CancelStep
  BY <1>1, <1>5, NeutralSteps, TimerOwned, DetachOwned DEF CancelStep
<1>6. CASE WatchStep
  BY <1>1, <1>6, NeutralSteps
<1>7. CASE UserStep
  BY <1>1, <1>7, NeutralSteps, UserFinishesOwned DEF UserStep
<1>8. CASE ClientStep
  BY <1>1, <1>8, NeutralSteps, ActorFinishesOwned DEF ClientStep
<1>9. CASE QueueStep
  BY <1>1, <1>9, BlockRuns
<1> QED BY <1>2, <1>3, <1>4, <1>5, <1>6, <1>7, <1>8, <1>9 DEF Next, FrameStep

LEMMA Owned == Spec => [](TypeOK /\ QueueInv /\ OwnInv)
<1>1. QueueInv <=> QueueOrder /\ HeadExecuted /\ CancelledLeaves
  BY DEF QueueInv
<1> QED BY <1>1, OwnInit, OwnNext, TypeCorrect, QueuesSafe, PTL DEF Spec

(* A frame of the stack that owns an actor.                                *)
LEMMA OwnerFrame ==
  ASSUME TypeOK, NEW a \in Actors, Has(stack, Owners(a))
  PROVE  DequeuePending(a) \/ \E S \in SUBSET Handles : OnStack(NotifyFrame(a, S))
<1>1. PICK i \in 1..Len(stack) : stack[i] \in Owners(a)
  BY DEF Has
<1>2. PICK f \in Frame : f = stack[i] /\ f.op \in {"notify", "dequeue"} /\ f.actor = a
  BY <1>1 DEF Owners, Of
<1>3. CASE f.op = "dequeue"
  <2>1. f \in [op : {"finish", "dequeue"}, actor : Actors]
    BY <1>3 DEF Frame
  <2>2. f = DequeueFrame(a)
    BY <1>2, <1>3, <2>1 DEF DequeueFrame
  <2> QED BY <1>2, <2>2 DEF DequeuePending, OnStack, Contains
<1>4. CASE f.op = "notify"
  <2>1. f \in [op : {"notify"}, actor : Actors, todo : SUBSET Handles]
    BY <1>4 DEF Frame
  <2>2. f = NotifyFrame(a, f.todo) /\ f.todo \in SUBSET Handles
    BY <1>2, <1>4, <2>1 DEF NotifyFrame
  <2> QED BY <1>2, <2>2 DEF OnStack, Contains
<1> QED BY <1>2, <1>3, <1>4

(* The actor of an active request is a live instance for its path, watched *)
(* by somebody, not also parked behind a timer, and, unless its path has a *)
(* cancel timeout, not cancelled: what _requestGeneric: relies on when it  *)
(* joins a request instead of making a new one.                            *)
THEOREM ActiveWatched == Spec => []ActiveIsWatched
<1>1. OwnInv => ActiveIsWatched
  BY DEF OwnInv, TablesInv
<1> QED BY <1>1, Owned, PTL

(* An actor without a cancel timeout that is listed in a request queue is  *)
(* active, or the stack holds the call that takes it out: no request keeps *)
(* its queue after it has gone, whatever a callback did in between.        *)
THEOREM QueuedOwned == Spec => []QueuedIsOwned
<1>1. ASSUME TypeOK, QueueInv, OwnInv PROVE QueuedIsOwned
  <2> SUFFICES ASSUME NEW q \in Queues, NEW i \in DOMAIN requestQueues[q],
                      NEW a \in Actors, a = requestQueues[q][i], path[a] \notin TimedPaths
               PROVE  \/ activeRequests[path[a]] = a
                      \/ DequeuePending(a)
                      \/ \E S \in SUBSET Handles : OnStack(NotifyFrame(a, S))
    <3>1. \A q \in Queues : \A i \in DOMAIN requestQueues[q] : requestQueues[q][i] \in Actors
      BY <1>1 DEF TypeOK
    <3> QED BY <3>1 DEF QueuedIsOwned
  <2>1. QueueName(a) = q /\ Contains(requestQueues[q], a) /\ q # NoQueue
    <3>1. DOMAIN requestQueues[q] = 1..Len(requestQueues[q])
      BY <1>1 DEF TypeOK
    <3> QED BY <1>1, <3>1, ConstantsAssumption DEF QueueInv, QueueOrder, Contains
  <2>2. OwnedBy(a)
    BY <1>1 DEF OwnInv, ActorsInv
  <2>3. Active(a) \/ Has(stack, Owners(a))
    BY <2>1, <2>2 DEF OwnedBy, Queued, Untimed
  <2> QED BY <1>1, <2>3, OwnerFrame DEF Active
<1> QED BY <1>1, Owned, PTL

(* The warnings of removeRequestFromQueueAndProceedIfFirst: are never met  *)
(* for an actor without a cancel timeout: it is dequeued once, by the      *)
(* completion or by the cancellation, and never by both.                   *)
THEOREM DequeuedQueued == Spec => []DequeuedIsQueued
<1>1. ASSUME TypeOK, OwnInv PROVE DequeuedIsQueued
  <2> SUFFICES ASSUME Running("dequeue"), path[Top.actor] \notin TimedPaths,
                      QueueName(Top.actor) # NoQueue
               PROVE  ~NotQueued(Top.actor)
    BY DEF DequeuedIsQueued
  <2>1. stack # <<>> /\ Top.op = "dequeue"
    BY DEF Running
  <2>2. PICK a \in Actors : a = Top.actor
    BY <1>1, <2>1, StackType, FrameFields
  <2>3. Top \in Owners(a)
    BY <1>1, <2>1, <2>2, TopFrames
  <2>4. Has(stack, Owners(a))
    BY <1>1, <2>1, <2>3, HasTail DEF TypeOK, Top
  <2>5. OwnedBy(a)
    BY <1>1 DEF OwnInv, ActorsInv
  <2> QED BY <2>2, <2>4, <2>5 DEF OwnedBy, Untimed, Queued, NotQueued
<1> QED BY <1>1, Owned, PTL

(* Two actors of a queue never run at once: an executing actor that is not *)
(* cancelled is the first of its queue, provided the actors of the queue   *)
(* check self.cancelled before they report and have no cancel timeout.     *)
THEOREM RunningExclusive == Spec => []Exclusive
<1>1. ASSUME TypeOK, QueueInv, OwnInv PROVE Exclusive
  <2> SUFFICES ASSUME NEW a \in Actors, status[a] = "running", ~cancelled[a],
                      QueueName(a) # NoQueue, Cooperative(QueueName(a))
               PROVE  /\ requestQueues[QueueName(a)] # <<>>
                      /\ requestQueues[QueueName(a)][1] = a
    BY DEF Exclusive
  <2>1. Strict(a) /\ Untimed(a) /\ QueueName(a) \in Queues
    <3>1. Strict(a)
      BY DEF Strict
    <3> QED BY <1>1, <3>1, StrictIsUntimed
  <2>2. OwnedBy(a) /\ RunsBy(a)
    BY <1>1 DEF OwnInv, ActorsInv
  <2>3. Queued(a)
    BY <2>1, <2>2 DEF OwnedBy, RunsBy
  <2>4. PICK s \in Seq(Actors) : s = requestQueues[QueueName(a)]
    BY <1>1, <2>1 DEF TypeOK
  <2>5. PICK i \in 1..Len(s) : s[i] = a
    BY <2>3, <2>4 DEF Queued, Contains
  <2>6. i = 1
    <3>1. i \in DOMAIN requestQueues[QueueName(a)]
      BY <2>4
    <3>2. i > 1 => status[a] = "waiting"
      BY <1>1, <2>1, <2>4, <2>5, <3>1 DEF QueueInv, QueueOrder
    <3> QED BY <3>2
  <2> QED BY <2>4, <2>5, <2>6
<1> QED BY <1>1, Owned, PTL

-----------------------------------------------------------------------------
(* Watchers that are gone.                                                 *)

(* The frames that will still detach handle h from path p.                 *)
Detaches(h, p) == {f \in Frame : f.op = "detach" /\ f.handle = h /\ p \in f.keys}

(* A watcher whose removal was drained has no delegate, and whatever it    *)
(* still watches is among the keys of a detach that is under way.          *)
ForgottenInv ==
  \A h \in forgotten : /\ h \notin delegate
                       /\ \A p \in Paths : Watching(h, p) => Has(stack, Detaches(h, p))

(* A step that makes nobody watch more and is not a detach.                *)
LEMMA ForgottenKept ==
  ASSUME TypeOK, ForgottenInv, NEW fs, Swap(fs), Top.op # "detach",
         UNCHANGED forgotten, delegate' \subseteq delegate,
         \A h \in Handles \ delegate : \A p \in Paths : Watching(h, p)' => Watching(h, p)
  PROVE  ForgottenInv'
<1> SUFFICES ASSUME NEW h \in forgotten, NEW p \in Paths, Watching(h, p)'
             PROVE  Has(stack', Detaches(h, p))
  BY DEF ForgottenInv
<1>1. h \in Handles \ delegate
  BY DEF TypeOK, ForgottenInv
<1>2. Has(stack, Detaches(h, p)) /\ Top \notin Detaches(h, p)
  BY <1>1 DEF ForgottenInv, Detaches
<1> QED BY <1>2, SwapFacts

LEMMA FewerWatch ==
  ASSUME TypeOK, NEW h, NEW p \in Paths,
         activeRequests'[p] \in {activeRequests[p], NoActor},
         \A c \in Actors : watchers'[c] \subseteq watchers[c],
         Watching(h, p)'
  PROVE  Watching(h, p)
BY DEF Watching, TypeOK

LEMMA NextItemForgotten ==
  ASSUME TypeOK, ForgottenInv, NextItem
  PROVE  ForgottenInv'
<1>1. PICK x \in Top.todo :
        /\ Become(<<DetachFrame(x[1], x[2], KeysToDetach(x[2])), ItemsFrame(Top.todo \ {x})>>)
        /\ forgotten' = IF x[2] = AllPaths /\ x[1] \notin delegate
                        THEN forgotten \cup {x[1]} ELSE forgotten
  BY DEF NextItem
<1>2. /\ stack # <<>> /\ Top.op = "items" /\ UNCHANGED <<tables, delegate>>
      /\ Top.todo \in SUBSET (Handles \X (Paths \cup {AllPaths}))
  BY StackType, FrameFields DEF NextItem, Running
<1>3. PICK d, e : d = DetachFrame(x[1], x[2], KeysToDetach(x[2])) /\ e = ItemsFrame(Top.todo \ {x})
  OBVIOUS
<1>4. Swap(<<d, e>>)
  BY <1>1, <1>2, <1>3, Swaps
<1>5. \A h, p : Watching(h, p)' <=> Watching(h, p)
  BY <1>2 DEF Watching, tables
<1>6. ASSUME NEW h \in forgotten, NEW p \in Paths, Watching(h, p)
      PROVE  Has(stack', Detaches(h, p))
  <2>1. Has(stack, Detaches(h, p)) /\ Top \notin Detaches(h, p)
    BY <1>2, <1>6 DEF ForgottenInv, Detaches
  <2> QED BY <1>4, <2>1, SwapFacts
<1>7. ASSUME x[2] = AllPaths, NEW p \in Paths, Watching(x[1], p)
      PROVE  Has(stack', Detaches(x[1], p))
  <2>1. p \in KeysToDetach(x[2])
    BY <1>7 DEF KeysToDetach, Watching
  <2>2. d \in Frame
    BY <1>2, <1>3, FrameTypes DEF KeysToDetach
  <2>3. d.op = "detach" /\ d.handle = x[1] /\ d.keys = KeysToDetach(x[2])
    BY <1>3 DEF DetachFrame
  <2>4. d \in Detaches(x[1], p)
    BY <2>1, <2>2, <2>3 DEF Detaches
  <2>5. Has(<<d, e>>, Detaches(x[1], p))
    BY <2>4, HasFew
  <2> QED BY <1>4, <2>5, SwapFacts
<1> QED BY <1>1, <1>2, <1>5, <1>6, <1>7 DEF ForgottenInv

LEMMA DetachKeyForgotten ==
  ASSUME TypeOK, TablesInv, ForgottenInv, DetachKey
  PROVE  ForgottenInv'
<1>1. /\ stack # <<>> /\ Top.op = "detach" /\ UNCHANGED <<forgotten, delegate>>
      /\ Top.handle \in Handles /\ Top.path \in Paths \cup {AllPaths}
      /\ Top.keys \in SUBSET Paths
  BY StackType, FrameFields DEF DetachKey, Running, lists
<1>g. PICK g \in Handles : g = Top.handle
  BY <1>1
<1>2. PICK p \in Top.keys :
        LET rest == <<DetachFrame(Top.handle, Top.path, Top.keys \ {p})>> \o Tail(stack)
        IN IF activeRequests[p] = NoActor
           THEN stack' = rest /\ UNCHANGED tables
           ELSE ScheduleCancel(p, watchers[activeRequests[p]] \ {Top.handle}, rest)
  BY DEF DetachKey
<1>3. PICK d : d = DetachFrame(Top.handle, Top.path, Top.keys \ {p})
  OBVIOUS
<1>4. d \in Frame /\ d.op = "detach" /\ d.handle = Top.handle /\ d.keys = Top.keys \ {p}
  <2>1. d \in Frame
    BY <1>1, <1>3, FrameTypes
  <2> QED BY <1>3, <2>1 DEF DetachFrame
<1>5. p \in Paths
  BY <1>1
<1>6. PICK fs : Swap(fs) /\ \A F : d \in F => Has(fs, F)
  <2>1. CASE stack' = <<d>> \o Tail(stack)
    <3>1. Swap(<<d>>)
      BY <1>1, <2>1, Swaps DEF Become
    <3>2. \A F : d \in F => Has(<<d>>, F)
      BY HasFew
    <3> QED BY <3>1, <3>2
  <2>2. CASE \E a : stack' = CancelFrames(a) \o (<<d>> \o Tail(stack))
    <3>1. PICK a : stack' = CancelFrames(a) \o (<<d>> \o Tail(stack))
      BY <2>2
    <3>2. PICK k, e : k = CancelCode /\ e = DequeueFrame(a)
      OBVIOUS
    <3>3. Swap(<<k, e, d>>)
      BY <1>1, <3>1, <3>2, CancelSwaps
    <3>4. \A F : d \in F => Has(<<k, e, d>>, F)
      BY HasFew
    <3> QED BY <3>3, <3>4
  <2>3. \/ stack' = <<d>> \o Tail(stack)
        \/ \E a : stack' = CancelFrames(a) \o (<<d>> \o Tail(stack))
    BY <1>2, <1>3 DEF ScheduleCancel
  <2> QED BY <2>1, <2>2, <2>3
<1>7. /\ \A c \in Actors : watchers'[c] \subseteq watchers[c]
      /\ \A r \in Paths : activeRequests'[r] \in {activeRequests[r], NoActor}
      /\ ~Watching(g, p)'
  <2>1. CASE activeRequests[p] = NoActor
    BY <1>2, <2>1 DEF tables, Watching
  <2>2. CASE activeRequests[p] # NoActor
    <3>1. PICK a \in Actors : a = activeRequests[p]
      BY <1>5, <2>2 DEF TypeOK
    <3>2. /\ watchers' = [watchers EXCEPT ![a] = watchers[a] \ {g}]
          /\ \/ UNCHANGED activeRequests
             \/ activeRequests' = [activeRequests EXCEPT ![p] = NoActor]
      BY <1>g, <1>2, <2>2, <3>1 DEF ScheduleCancel
    <3>3. /\ watchers'[a] = watchers[a] \ {g}
          /\ \A c \in Actors \ {a} : watchers'[c] = watchers[c]
      BY <3>2 DEF TypeOK
    <3>4. activeRequests'[p] \in {a, NoActor}
      BY <1>5, <3>1, <3>2 DEF TypeOK
    <3>5. \A r \in Paths : activeRequests'[r] \in {activeRequests[r], NoActor}
      BY <3>2 DEF TypeOK
    <3> QED BY <3>3, <3>4, <3>5 DEF Watching
  <2> QED BY <2>1, <2>2
<1>8. ASSUME NEW h \in forgotten, NEW r \in Paths, Watching(h, r)'
      PROVE  Has(stack', Detaches(h, r))
  <2>1. Watching(h, r)
    BY <1>7, <1>8, FewerWatch
  <2>2. Has(stack, Detaches(h, r))
    BY <2>1 DEF ForgottenInv
  <2>3. CASE Top \notin Detaches(h, r)
    BY <1>6, <2>2, <2>3, SwapFacts
  <2>4. CASE Top \in Detaches(h, r)
    <3>1. g = h /\ Top.handle = h /\ r \in Top.keys
      BY <1>g, <2>4 DEF Detaches
    <3>2. r # p
      BY <1>7, <1>8, <3>1
    <3>3. d \in Detaches(h, r)
      BY <1>4, <3>1, <3>2 DEF Detaches
    <3> QED BY <1>6, <3>3, SwapFacts
  <2> QED BY <2>3, <2>4
<1> QED BY <1>1, <1>8 DEF ForgottenInv

LEMMA RequestForgotten ==
  ASSUME TypeOK, TablesInv, ForgottenInv, RequestStep
  PROVE  ForgottenInv'
<1>1. stack # <<>> /\ Top.op # "detach" /\ UNCHANGED <<forgotten, delegate>>
  BY DEF RequestStep, RequestDead, RequestJoinOnly, RequestJoin, RequestNew,
     ChangeActorPriority, Running, lists
<1>2. FrameStep
  BY DEF FrameStep
<1>3. PICK fs : Swap(fs)
  BY <1>2, FrameStepSwaps
<1> SUFFICES ASSUME NEW h \in Handles \ delegate, NEW p \in Paths, Watching(h, p)'
             PROVE  Watching(h, p)
  BY <1>1, <1>3, ForgottenKept
<1>4. CASE RequestDead \/ RequestJoinOnly \/ ChangeActorPriority
  BY <1>4 DEF RequestDead, RequestJoinOnly, ChangeActorPriority, Watching, tables
<1>5. CASE RequestJoin
  <2>1. PICK r \in Paths : r = Top.path
    BY <1>5, StackType, FrameFields DEF RequestJoin, Running
  <2>2. PICK a : a = RequestInfo(r)
    OBVIOUS
  <2>3. PICK g : g = Top.handle
    OBVIOUS
  <2>4. /\ a # NoActor /\ g \in delegate
        /\ activeRequests' = [activeRequests EXCEPT ![r] = a]
        /\ watchers' = [watchers EXCEPT ![a] = @ \cup {g}]
    BY <1>5, <2>1, <2>2, <2>3 DEF RequestJoin, Accepts
  <2>5. a \in Actors /\ path[a] = r
    BY <2>2, <2>4 DEF RequestInfo, TablesInv, ActiveIsWatched, ParkedInv, TypeOK
  <2>6. /\ watchers'[a] = watchers[a] \cup {g}
        /\ \A c \in Actors \ {a} : watchers'[c] = watchers[c]
    BY <2>4, <2>5 DEF TypeOK
  <2>7. CASE p = r
    <3>1. activeRequests'[p] = a /\ h \in watchers[a]
      BY <2>4, <2>6, <2>7 DEF Watching, TypeOK
    <3>2. activeRequests[p] = a
      BY <2>2, <2>4, <2>7, <3>1 DEF RequestInfo, TablesInv, ParkedInv
    <3> QED BY <2>4, <3>1, <3>2 DEF Watching
  <2>8. CASE p # r
    <3>1. activeRequests'[p] = activeRequests[p]
      BY <2>4, <2>8 DEF TypeOK
    <3>2. PICK c \in Actors : c = activeRequests[p]
      BY <3>1 DEF Watching, TypeOK
    <3>3. c # a
      BY <2>5, <2>8, <3>2, ConstantsAssumption DEF TablesInv, ActiveIsWatched
    <3> QED BY <2>6, <3>1, <3>2, <3>3 DEF Watching
  <2> QED BY <2>7, <2>8
<1>6. ASSUME NEW a \in Actors, RequestNew(a) PROVE Watching(h, p)
  <2>1. PICK r \in Paths : r = Top.path
    BY <1>6, StackType, FrameFields DEF RequestNew, Running
  <2>2. PICK g : g = Top.handle
    OBVIOUS
  <2>3. /\ g \in delegate /\ Fresh(a)
        /\ activeRequests' = [activeRequests EXCEPT ![r] = a]
        /\ watchers' = [watchers EXCEPT ![a] = {g}]
    BY <1>6, <2>1, <2>2 DEF RequestNew, Accepts
  <2>4. watchers'[a] = {g} /\ \A c \in Actors \ {a} : watchers'[c] = watchers[c]
    BY <2>3 DEF TypeOK
  <2>5. activeRequests'[p] # a
    BY <2>4, <2>3 DEF Watching
  <2>6. activeRequests'[p] = activeRequests[p]
    BY <2>3, <2>5 DEF TypeOK
  <2>7. PICK c \in Actors : c = activeRequests[p] /\ c # a
    BY <2>5, <2>6 DEF Watching, TypeOK
  <2> QED BY <2>4, <2>6, <2>7 DEF Watching
<1> QED BY <1>4, <1>5, <1>6 DEF RequestStep

LEMMA OtherFramesForgotten ==
  ASSUME TypeOK, ForgottenInv, FrameStep, ~RequestStep, ~NextItem, ~DetachKey
  PROVE  ForgottenInv'
<1> USE DEF Running, lists, tables
<1>1. CASE DetachLive
  <2>1. /\ stack # <<>> /\ Top.keys = {} /\ Return
        /\ UNCHANGED <<activeRequests, watchers, forgotten, delegate>>
    BY <1>1 DEF DetachLive
  <2>2. Swap(<<>>)
    BY <2>1, Swaps
  <2>3. ASSUME NEW h \in forgotten, NEW p \in Paths, Watching(h, p)'
        PROVE  Has(stack', Detaches(h, p))
    <3>1. Has(stack, Detaches(h, p)) /\ Top \notin Detaches(h, p)
      BY <2>1, <2>3 DEF ForgottenInv, Detaches, Watching
    <3> QED BY <2>2, <3>1, SwapFacts
  <2> QED BY <2>1, <2>3 DEF ForgottenInv
<1>2. CASE ~DetachLive
  <2>1. PICK fs : Swap(fs)
    BY FrameStepSwaps
  <2>2. /\ Top.op # "detach" /\ UNCHANGED <<forgotten, delegate>>
        /\ \A c \in Actors : watchers'[c] \subseteq watchers[c]
        /\ \A r \in Paths : activeRequests'[r] \in {activeRequests[r], NoActor}
    <3>1. CASE FinishStep
      <4>1. CASE ActionCompleted
        <5>1. /\ UNCHANGED <<watchers, forgotten, delegate>> /\ Top.op # "detach"
              /\ \/ UNCHANGED activeRequests
                 \/ \E r : activeRequests' = [activeRequests EXCEPT ![r] = NoActor]
          BY <4>1 DEF ActionCompleted
        <5> QED BY <5>1 DEF TypeOK
      <4>2. CASE NotifyDone
        BY <4>2 DEF NotifyDone, TypeOK
      <4>3. CASE NotifyWatcher \/ DequeueMissing \/ DequeueFirst \/ DequeueOther
        BY <4>3 DEF NotifyWatcher, DequeueMissing, DequeueFirst, DequeueOther
      <4> QED BY <3>1, <4>1, <4>2, <4>3 DEF FinishStep
    <3>2. CASE CancelStep
      <4>1. CASE PerformCancelRequest \/ DropTimer \/ Drain \/ ItemsDone
        BY <4>1 DEF PerformCancelRequest, DropTimer, Drain, ItemsDone
      <4>2. CASE RemoveAllWatchersFromPath
        <5>1. UNCHANGED <<forgotten, delegate>> /\ Top.op # "detach"
          BY <4>2 DEF RemoveAllWatchersFromPath
        <5>2. \/ UNCHANGED <<watchers, activeRequests>>
              \/ /\ \E a : watchers' = [watchers EXCEPT ![a] = {}]
                 /\ \/ UNCHANGED activeRequests
                    \/ \E r : activeRequests' = [activeRequests EXCEPT ![r] = NoActor]
          BY <4>2 DEF RemoveAllWatchersFromPath, ScheduleCancel
        <5>3. \A c \in Actors : watchers'[c] \subseteq watchers[c]
          BY <5>2 DEF TypeOK
        <5>4. \A r \in Paths : activeRequests'[r] \in {activeRequests[r], NoActor}
          BY <5>2 DEF TypeOK
        <5> QED BY <5>1, <5>3, <5>4
      <4> QED BY <1>2, <3>2, <4>1, <4>2 DEF CancelStep
    <3>3. CASE WatchStep
      BY <3>3 DEF WatchStep, WatchForPath, DispatchResource, DispatchMessage,
          TellWatcher
    <3>4. CASE UserStep
      BY <3>4 DEF UserStep, UserReturns, UserCalls, UserRemoves, UserFinishes
    <3> QED BY <3>1, <3>2, <3>3, <3>4 DEF FrameStep
  <2>3. \A h \in Handles \ delegate : \A p \in Paths : Watching(h, p)' => Watching(h, p)
    BY <2>2, FewerWatch
  <2> QED BY <2>1, <2>2, <2>3, ForgottenKept
<1> QED BY <1>1, <1>2

LEMMA ForgottenNext ==
  ASSUME TypeOK, OwnInv, ForgottenInv, [Next]_vars
  PROVE  ForgottenInv'
<1>1. CASE UNCHANGED vars
  BY <1>1 DEF vars, tables, lists, ForgottenInv, Watching
<1>2. CASE FrameStep
  BY <1>2, RequestForgotten, NextItemForgotten, DetachKeyForgotten, OtherFramesForgotten
     DEF OwnInv
<1>3. CASE ClientStep
  <2>1. /\ UNCHANGED <<stack, activeRequests, watchers, forgotten>>
        /\ delegate' \subseteq delegate
    BY <1>3 DEF ClientStep, ClientPosts, ClientRemovesAll, ClientRemoves, DispatchDrain,
       Reset, ActorFinishes, tables, lists
  <2> QED BY <2>1 DEF ForgottenInv, Watching
<1>4. CASE QueueStep
  <2>1. /\ UNCHANGED <<activeRequests, watchers, forgotten, delegate>> /\ stack = <<>>
    BY <1>4 DEF QueueStep, RunStageBlock, RunHighPriorityBlock, TimerFires, tables,
        lists
  <2>2. \A F : ~Has(stack, F)
    BY <2>1, HasFew
  <2> QED BY <2>1, <2>2 DEF ForgottenInv, Watching
<1> QED BY <1>1, <1>2, <1>3, <1>4 DEF Next

(* Once the removal of a watcher that has reset its handle is drained, no  *)
(* request gets the handle back: requests it made before that are still on *)
(* the slower queue find no delegate, and requests parked behind a timer   *)
(* come back without their old watchers.                                   *)
THEOREM ForgottenStay == Spec => []ForgottenStays
<1>1. Init => ForgottenInv
  BY DEF Init, ForgottenInv
<1>2. ASSUME TypeOK, ForgottenInv PROVE ForgottenStays
  <2> SUFFICES ASSUME NEW h \in forgotten, ~Detaching(h), NEW p \in Paths, Watching(h, p)
               PROVE  FALSE
    BY DEF ForgottenStays
  <2>1. PICK i \in 1..Len(stack) : stack[i] \in Detaches(h, p)
    BY <1>2 DEF ForgottenInv, Has
  <2>2. i \in DOMAIN stack
    BY <1>2, <2>1 DEF TypeOK
  <2> QED BY <2>1, <2>2 DEF Detaching, Detaches
<1> QED BY <1>1, <1>2, ForgottenNext, Owned, PTL DEF Spec
=============================================================================
