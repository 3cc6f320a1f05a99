------------------------- MODULE ActionStageProofs -------------------------
(* Proofs about ActionStage for every set of handles, paths, actors and    *)
(* queues, every nesting of calls on the stage and every bound.            *)
EXTENDS ActionStage, SequenceTheorems, TLAPS

(* Frames put on a non-empty stack in place of its top frame. *)
LEMMA BecomeType ==
  ASSUME NEW s \in Seq(Frame), s # <<>>, NEW fs \in Seq(Frame)
  PROVE  /\ fs \o Tail(s) \in Seq(Frame)
         /\ Tail(s) \in Seq(Frame)
         /\ Head(s) \in Frame
OBVIOUS

(* What each frame is made of. *)
LEMMA FrameTypes ==
  /\ \A n \in Nat : UserFrame(n) \in Frame /\ CancelFrame(n) \in Frame
  /\ \A h \in Handles, p \in Paths, j, prio \in BOOLEAN :
       RequestFrame(h, p, j, prio) \in Frame
  /\ \A a \in Actors : FinishFrame(a) \in Frame /\ DequeueFrame(a) \in Frame
  /\ \A a \in Actors, S \in SUBSET Handles : NotifyFrame(a, S) \in Frame
  /\ \A S \in SUBSET Handles : TellFrame(S) \in Frame
  /\ \A p \in Paths : /\ ResourceFrame(p) \in Frame /\ MessageFrame(p) \in Frame
                      /\ PriorityFrame(p) \in Frame /\ RemoveAllFrame(p) \in Frame
                      /\ TimerFrame(p) \in Frame /\ DropTimerFrame(p) \in Frame
  /\ \A h \in Handles, p \in Paths : WatchFrame(h, p) \in Frame
  /\ \A k \in Kinds : DrainFrame(k) \in Frame
  /\ \A S \in SUBSET (Handles \X (Paths \cup {AllPaths})) : ItemsFrame(S) \in Frame
  /\ \A h \in Handles, p \in Paths \cup {AllPaths}, K \in SUBSET Paths :
       DetachFrame(h, p, K) \in Frame
BY DEF Frame, UserFrame, CancelFrame, RequestFrame, FinishFrame, DequeueFrame,
       NotifyFrame, TellFrame, ResourceFrame, MessageFrame, PriorityFrame,
       RemoveAllFrame, TimerFrame, DropTimerFrame, WatchFrame, DrainFrame,
       ItemsFrame, DetachFrame

LEMMA FrameFields ==
  ASSUME NEW f \in Frame
  PROVE  /\ f.op \in {"user", "cancel"} => f.calls \in Nat
         /\ f.op = "request" => /\ f.handle \in Handles /\ f.path \in Paths
                                /\ f.join \in BOOLEAN /\ f.prio \in BOOLEAN
         /\ f.op \in {"finish", "dequeue", "notify"} => f.actor \in Actors
         /\ f.op \in {"notify", "tell"} => f.todo \in SUBSET Handles
         /\ f.op \in {"resource", "message", "priority", "removeAll", "timer",
                      "dropTimer", "watch"} => f.path \in Paths
         /\ f.op \in {"watch", "detach"} => f.handle \in Handles
         /\ f.op = "drain" => f.kind \in Kinds
         /\ f.op = "items" =>
              f.todo \in SUBSET (Handles \X (Paths \cup {AllPaths}))
         /\ f.op = "detach" => /\ f.path \in Paths \cup {AllPaths}
                               /\ f.keys \in SUBSET Paths
BY DEF Frame

-----------------------------------------------------------------------------
(* The two ways an action leaves the stack: typed because frames are. *)
LEMMA StackType ==
  ASSUME TypeOK, stack # <<>>
  PROVE  /\ Top \in Frame
         /\ Tail(stack) \in Seq(Frame)
         /\ \A f \in Frame : <<f>> \o Tail(stack) \in Seq(Frame)
         /\ \A f, g \in Frame : <<f, g>> \o Tail(stack) \in Seq(Frame)
         /\ \A f, g, h \in Frame : <<f, g, h>> \o Tail(stack) \in Seq(Frame)
BY DEF TypeOK, Top

(* What the list operations on a request queue return. *)
LEMMA RemoveAtFacts ==
  ASSUME NEW s \in Seq(Actors), NEW i \in 1..Len(s)
  PROVE  /\ RemoveAt(s, i) \in Seq(Actors)
         /\ Len(RemoveAt(s, i)) = Len(s) - 1
         /\ \A k \in 1..(Len(s) - 1) :
              RemoveAt(s, i)[k] = IF k < i THEN s[k] ELSE s[k + 1]
<1> DEFINE u == SubSeq(s, 1, i - 1)
           v == SubSeq(s, i + 1, Len(s))
<1>1. /\ u \in Seq(Actors) /\ Len(u) = i - 1
      /\ \A k \in 1..(i - 1) : u[k] = s[k]
  OBVIOUS
<1>2. /\ v \in Seq(Actors) /\ Len(v) = Len(s) - i
      /\ \A k \in 1..(Len(s) - i) : v[k] = s[k + i]
  OBVIOUS
<1>3. RemoveAt(s, i) = u \o v
  BY DEF RemoveAt
<1> HIDE DEF u, v
<1>4. /\ u \o v \in Seq(Actors)
      /\ Len(u \o v) = Len(s) - 1
      /\ \A k \in 1..(i - 1) : (u \o v)[k] = s[k]
  <2>1. u \o v \in Seq(Actors)
    BY <1>1, <1>2, ConcatProperties
  <2>2. Len(u \o v) = Len(u) + Len(v)
    BY <1>1, <1>2, ConcatProperties
  <2>3. \A k \in 1..(i - 1) : (u \o v)[k] = s[k]
    BY <1>1, <1>2
  <2> QED BY <1>1, <1>2, <2>1, <2>2, <2>3
<1>5. \A k \in i..(Len(s) - 1) : (u \o v)[k] = s[k + 1]
  <2> TAKE k \in i..(Len(s) - 1)
  <2>1. (u \o v)[k] = v[k - (i - 1)]
    BY <1>1, <1>2
  <2>2. k - (i - 1) \in 1..(Len(s) - i)
    OBVIOUS
  <2>3. v[k - (i - 1)] = s[(k - (i - 1)) + i]
    BY <1>2, <2>2
  <2> QED BY <2>1, <2>3
<1>6. ASSUME NEW k \in 1..(Len(s) - 1)
      PROVE  (u \o v)[k] = IF k < i THEN s[k] ELSE s[k + 1]
  <2>1. CASE k < i
    <3>1. k \in 1..(i - 1)
      BY <2>1
    <3> QED BY <1>4, <2>1, <3>1
  <2>2. CASE ~(k < i)
    <3>1. k \in i..(Len(s) - 1)
      BY <2>2
    <3> QED BY <1>5, <2>2, <3>1
  <2> QED BY <2>1, <2>2
<1> QED BY <1>3, <1>4, <1>6, Zenon

LEMMA InsertSecondFacts ==
  ASSUME NEW s \in Seq(Actors), Len(s) > 0, NEW e \in Actors
  PROVE  /\ InsertAt(s, 2, e) \in Seq(Actors)
         /\ Len(InsertAt(s, 2, e)) = Len(s) + 1
         /\ \A k \in 1..(Len(s) + 1) :
              InsertAt(s, 2, e)[k] = IF k = 1 THEN s[1]
                                     ELSE IF k = 2 THEN e ELSE s[k - 1]
BY DEF InsertAt

LEMMA MovedToSecondFacts ==
  ASSUME NEW s \in Seq(Actors), NEW i \in 1..Len(s), i > 2
  PROVE  /\ MovedToSecond(s, i) \in Seq(Actors)
         /\ Len(MovedToSecond(s, i)) = Len(s)
         /\ \A k \in 1..Len(s) :
              MovedToSecond(s, i)[k] =
                IF k = 1 THEN s[1] ELSE IF k = 2 THEN s[i]
                ELSE IF k <= i THEN s[k - 1] ELSE s[k]
<1> DEFINE r == RemoveAt(s, i)
<1>1. /\ r \in Seq(Actors) /\ Len(r) = Len(s) - 1
      /\ \A k \in 1..(Len(s) - 1) : r[k] = IF k < i THEN s[k] ELSE s[k + 1]
  BY RemoveAtFacts, Zenon
<1>2. /\ InsertAt(r, 2, s[i]) \in Seq(Actors)
      /\ Len(InsertAt(r, 2, s[i])) = Len(r) + 1
      /\ \A k \in 1..(Len(r) + 1) :
           InsertAt(r, 2, s[i])[k] = IF k = 1 THEN r[1]
                                     ELSE IF k = 2 THEN s[i] ELSE r[k - 1]
  <2>1. s[i] \in Actors /\ Len(r) > 0
    BY <1>1
  <2> HIDE DEF r
  <2> QED BY <1>1, <2>1, InsertSecondFacts
<1> HIDE DEF r
<1>3. MovedToSecond(s, i) = InsertAt(r, 2, s[i])
  BY DEF MovedToSecond, r
<1> QED BY <1>1, <1>2, <1>3

LEMMA EnqueuedFacts ==
  ASSUME NEW s \in Seq(Actors), NEW a \in Actors, NEW prio \in BOOLEAN
  PROVE  /\ Enqueued(s, a, prio) \in Seq(Actors)
         /\ Len(Enqueued(s, a, prio)) = Len(s) + 1
         /\ s = <<>> => Enqueued(s, a, prio)[1] = a
         /\ s # <<>> =>
              \E i \in 2..(Len(s) + 1) : \A k \in 1..(Len(s) + 1) :
                Enqueued(s, a, prio)[k] =
                  IF k < i THEN s[k] ELSE IF k = i THEN a ELSE s[k - 1]
<1>1. CASE prio /\ Len(s) > 1
  <2>1. Enqueued(s, a, prio) = InsertAt(s, 2, a)
    BY <1>1 DEF Enqueued
  <2>2. \A k \in 1..(Len(s) + 1) :
          InsertAt(s, 2, a)[k] =
            IF k < 2 THEN s[k] ELSE IF k = 2 THEN a ELSE s[k - 1]
    BY <1>1, InsertSecondFacts
  <2>3. /\ InsertAt(s, 2, a) \in Seq(Actors) /\ Len(InsertAt(s, 2, a)) = Len(s) + 1
        /\ s # <<>>
    BY <1>1, InsertSecondFacts
  <2>4. 2 \in 2..(Len(s) + 1)
    BY <1>1
  <2> QED BY <2>1, <2>2, <2>3, <2>4, Zenon
<1>2. CASE ~(prio /\ Len(s) > 1)
  <2>1. Enqueued(s, a, prio) = Append(s, a)
    BY <1>2 DEF Enqueued
  <2>2. \A k \in 1..(Len(s) + 1) :
          Append(s, a)[k] = IF k < Len(s) + 1 THEN s[k]
                            ELSE IF k = Len(s) + 1 THEN a ELSE s[k - 1]
    OBVIOUS
  <2>3. /\ Append(s, a) \in Seq(Actors) /\ Len(Append(s, a)) = Len(s) + 1
        /\ s = <<>> => Append(s, a)[1] = a
    OBVIOUS
  <2>4. s # <<>> => Len(s) + 1 \in 2..(Len(s) + 1)
    OBVIOUS
  <2> QED BY <2>1, <2>2, <2>3, <2>4, Zenon
<1> QED BY <1>1, <1>2

LEMMA RequestType ==
  ASSUME TypeOK, RequestStep
  PROVE  TypeOK'
<1> USE ConstantsAssumption DEF lists, tables
<1>1. /\ stack # <<>> /\ Top \in Frame
  BY StackType DEF RequestStep, RequestDead, RequestJoinOnly, RequestNew,
       RequestJoin, ChangeActorPriority, Running
<1>2. ClientCode \in Frame
  BY FrameTypes DEF ClientCode
<1>3. CASE RequestDead
  BY <1>1, <1>3, StackType DEF RequestDead, TypeOK, Return
<1>4. CASE RequestJoinOnly
  BY <1>1, <1>4, StackType DEF RequestJoinOnly, TypeOK, Return
<1>5. ASSUME NEW a \in Actors, RequestNew(a) PROVE TypeOK'
  <2>1. Top.handle \in Handles /\ Top.path \in Paths /\ Top.prio \in BOOLEAN
    BY <1>1, <1>5, FrameFields DEF RequestNew, Running
  <2>2. requestQueues' \in [Queues -> Seq(Actors)]
    BY <1>5, <2>1, EnqueuedFacts DEF RequestNew, TypeOK
  <2>3. stack' \in Seq(Frame)
    BY <1>1, <1>2, <1>5, StackType DEF RequestNew, Return, Become
  <2> QED BY <1>5, <2>1, <2>2, <2>3 DEF RequestNew, TypeOK
<1>6. CASE RequestJoin
  BY <1>1, <1>2, <1>6, StackType, FrameFields, FrameTypes DEF RequestJoin, TypeOK,
     Become, Running, RequestInfo
<1>7. CASE ChangeActorPriority
  <2>1. \A q \in Queues : \A i \in DOMAIN requestQueues[q] :
          i > 2 => MovedToSecond(requestQueues[q], i) \in Seq(Actors)
    <3> TAKE q \in Queues
    <3>1. requestQueues[q] \in Seq(Actors)
      BY DEF TypeOK
    <3> QED BY <3>1, MovedToSecondFacts
  <2>2. requestQueues' \in [Queues -> Seq(Actors)]
    <3>1. CASE UNCHANGED requestQueues
      BY <3>1 DEF TypeOK
    <3>2. CASE \E q \in Queues : \E i \in DOMAIN requestQueues[q] :
                 i > 2 /\ requestQueues' = [requestQueues EXCEPT ![q] =
                                              MovedToSecond(@, i)]
      BY <2>1, <3>2 DEF TypeOK
    <3> QED BY <1>7, <3>1, <3>2 DEF ChangeActorPriority
  <2> QED BY <2>2, <1>1, <1>7, StackType DEF ChangeActorPriority, TypeOK, Return
<1> QED BY <1>3, <1>4, <1>5, <1>6, <1>7 DEF RequestStep

LEMMA FinishType ==
  ASSUME TypeOK, FinishStep
  PROVE  TypeOK'
<1> USE ConstantsAssumption DEF lists, tables
<1>1. /\ stack # <<>> /\ Top \in Frame
  BY StackType DEF FinishStep, ActionCompleted, NotifyWatcher, NotifyDone,
       DequeueMissing, DequeueFirst, DequeueOther, Running
<1>2. ClientCode \in Frame
  BY FrameTypes DEF ClientCode
<1>3. CASE ActionCompleted
  <2>1. Top.actor \in Actors
    BY <1>1, <1>3, FrameFields DEF ActionCompleted, Running
  <2>2. stack' \in Seq(Frame)
    <3>1. CASE activeRequests[path[Top.actor]] = NoActor
      BY <1>1, <1>3, <3>1, StackType DEF ActionCompleted, Return
    <3>2. CASE activeRequests[path[Top.actor]] # NoActor
      <4> DEFINE a == activeRequests[path[Top.actor]]
      <4>1. NotifyFrame(a, watchers[a]) \in Frame
        BY <2>1, <3>2, FrameTypes DEF TypeOK
      <4> HIDE DEF a
      <4> QED BY <1>1, <1>3, <4>1, StackType DEF ActionCompleted, Return, Become, a
    <3> QED BY <3>1, <3>2
  <2> QED BY <1>3, <2>1, <2>2 DEF ActionCompleted, TypeOK
<1>4. CASE NotifyWatcher
  <2>1. /\ Top.actor \in Actors
        /\ \A h \in Top.todo : NotifyFrame(Top.actor, Top.todo \ {h}) \in Frame
    BY <1>1, <1>4, FrameFields, FrameTypes DEF NotifyWatcher, Running
  <2>2. stack' \in Seq(Frame)
    BY <1>1, <1>2, <1>4, <2>1, StackType DEF NotifyWatcher, CallBack, Become
  <2> QED BY <1>4, <2>2 DEF NotifyWatcher, TypeOK
<1>5. CASE NotifyDone
  <2>1. Top.actor \in Actors
    BY <1>1, <1>5, FrameFields DEF NotifyDone, Running
  <2>2. stack' \in Seq(Frame)
    BY <1>1, <1>5, <2>1, StackType, FrameTypes DEF NotifyDone, Become
  <2> QED BY <1>5, <2>1, <2>2 DEF NotifyDone, TypeOK
<1>6. CASE DequeueMissing
  BY <1>1, <1>6, StackType DEF DequeueMissing, TypeOK, Return
<1>7. CASE DequeueFirst
  <2> DEFINE s == requestQueues[QueueName(Top.actor)]
  <2>1. Top.actor \in Actors
    BY <1>1, <1>7, FrameFields DEF DequeueFirst, Running
  <2>2. QueueName(Top.actor) \in Queues
    BY <1>7, <2>1 DEF DequeueFirst, NotQueued, TypeOK, QueueName
  <2>3. s \in Seq(Actors) /\ s # <<>>
    BY <1>7, <2>2 DEF DequeueFirst, NotQueued, Contains, TypeOK
  <2>4. requestQueues' \in [Queues -> Seq(Actors)]
    BY <1>7, <2>2, <2>3 DEF DequeueFirst, TypeOK
  <2>5. stack' \in Seq(Frame)
    BY <1>1, <1>2, <1>7, StackType DEF DequeueFirst, Become, Return
  <2>6. status' \in [Actors -> {"idle", "waiting", "running", "done"}]
    BY <1>7, <2>1 DEF DequeueFirst, TypeOK, Retired
  <2> QED BY <1>7, <2>4, <2>5, <2>6 DEF DequeueFirst, TypeOK
<1>8. CASE DequeueOther
  <2>1. Top.actor \in Actors
    BY <1>1, <1>8, FrameFields DEF DequeueOther, Running
  <2>2. QueueName(Top.actor) \in Queues
    BY <1>8, <2>1 DEF DequeueOther, NotQueued, TypeOK, QueueName
  <2>3. requestQueues[QueueName(Top.actor)] \in Seq(Actors)
    BY <2>2 DEF TypeOK
  <2>4. requestQueues' \in [Queues -> Seq(Actors)]
    BY <1>8, <2>2, <2>3, RemoveAtFacts DEF DequeueOther, TypeOK
  <2>5. status' \in [Actors -> {"idle", "waiting", "running", "done"}]
    BY <1>8, <2>1 DEF DequeueOther, TypeOK, Retired
  <2> QED BY <1>1, <1>8, <2>4, <2>5, StackType DEF DequeueOther, TypeOK, Return
<1> QED BY <1>3, <1>4, <1>5, <1>6, <1>7, <1>8 DEF FinishStep

(* scheduleCancelRequest keeps the tables it writes typed. *)
LEMMA ScheduleCancelType ==
  ASSUME TypeOK, NEW p \in Paths, activeRequests[p] # NoActor,
         NEW ws \in SUBSET Handles, NEW rest \in Seq(Frame),
         ScheduleCancel(p, ws, rest)
  PROVE  /\ watchers' \in [Actors -> SUBSET Handles]
         /\ activeRequests' \in [Paths -> Actors \cup {NoActor}]
         /\ cancelRequestTimers' \in [Paths -> Actors \cup {NoActor}]
         /\ cancelled' \in [Actors -> BOOLEAN]
         /\ stack' \in Seq(Frame)
<1> DEFINE a == activeRequests[p]
<1>1. a \in Actors
  BY DEF TypeOK
<1>2. CancelFrames(a) \in Seq(Frame)
  BY <1>1, FrameTypes, ConstantsAssumption DEF CancelFrames, CancelCode
<1>3. CancelFrames(a) \o rest \in Seq(Frame)
  BY <1>2, ConcatProperties
<1>4. stack' \in {rest, CancelFrames(a) \o rest}
  BY DEF ScheduleCancel
<1> QED BY <1>1, <1>3, <1>4 DEF ScheduleCancel, TypeOK

LEMMA CancelType ==
  ASSUME TypeOK, CancelStep
  PROVE  TypeOK'
<1> USE ConstantsAssumption DEF lists, tables
<1>1. /\ stack # <<>> /\ Top \in Frame
  BY StackType DEF CancelStep, PerformCancelRequest, DropTimer, Drain, NextItem,
       ItemsDone, DetachKey, DetachLive, RemoveAllWatchersFromPath, Running
<1>2. CancelCode \in Frame
  BY FrameTypes DEF CancelCode
<1>3. CASE PerformCancelRequest
  <2> DEFINE a == cancelRequestTimers[Top.path]
  <2>1. Top.path \in Paths
    BY <1>1, <1>3, FrameFields DEF PerformCancelRequest, Running
  <2>2. CASE a = NoActor
    BY <1>1, <1>3, <2>2, StackType DEF PerformCancelRequest, TypeOK, Return
  <2>3. CASE a # NoActor
    <3>1. a \in Actors
      BY <2>1, <2>3 DEF TypeOK
    <3>2. DequeueFrame(a) \in Frame /\ <<DropTimerFrame(Top.path)>> \in Seq(Frame)
      BY <2>1, <3>1, FrameTypes
    <3>3. CancelFrames(a) \in Seq(Frame)
      BY <1>2, <3>2 DEF CancelFrames
    <3>4. CancelFrames(a) \o <<DropTimerFrame(Top.path)>> \in Seq(Frame)
      BY <3>2, <3>3, ConcatProperties
    <3>5. stack' \in Seq(Frame)
      <4>1. Tail(stack) \in Seq(Frame)
        BY <1>1, StackType
      <4>2. stack' = (CancelFrames(a) \o <<DropTimerFrame(Top.path)>>) \o Tail(stack)
        BY <1>3, <2>3 DEF PerformCancelRequest, Become
      <4> QED BY <3>4, <4>1, <4>2, ConcatProperties
    <3> QED BY <1>3, <2>3, <3>1, <3>5 DEF PerformCancelRequest, TypeOK
  <2> QED BY <2>2, <2>3
<1>4. CASE DropTimer
  BY <1>1, <1>4, StackType, FrameFields DEF DropTimer, TypeOK, Return, Running
<1>5. CASE Drain
  <2>1. Top.kind \in Kinds
    BY <1>1, <1>5, FrameFields DEF Drain, Running
  <2>2. stack' \in Seq(Frame)
    BY <1>1, <1>5, <2>1, StackType, FrameTypes DEF Drain, Become, TypeOK
  <2> QED BY <1>5, <2>1, <2>2 DEF Drain, TypeOK
<1>6. CASE NextItem
  <2>1. PICK x \in Top.todo :
          /\ Become(<<DetachFrame(x[1], x[2], KeysToDetach(x[2])),
                      ItemsFrame(Top.todo \ {x})>>)
          /\ forgotten' = IF x[2] = AllPaths /\ x[1] \notin delegate
                          THEN forgotten \cup {x[1]} ELSE forgotten
    BY <1>6 DEF NextItem
  <2>2. Top.todo \in SUBSET (Handles \X (Paths \cup {AllPaths}))
    BY <1>1, <1>6, FrameFields DEF NextItem, Running
  <2>3. /\ DetachFrame(x[1], x[2], KeysToDetach(x[2])) \in Frame
        /\ ItemsFrame(Top.todo \ {x}) \in Frame
        /\ x[1] \in Handles
    BY <2>1, <2>2, FrameTypes DEF KeysToDetach
  <2>4. stack' \in Seq(Frame)
    BY <1>1, <2>1, <2>3, StackType DEF Become
  <2> QED BY <1>6, <2>1, <2>3, <2>4 DEF NextItem, TypeOK
<1>7. CASE ItemsDone
  BY <1>1, <1>7, StackType DEF ItemsDone, TypeOK, Return
<1>8. CASE DetachKey
  <2>1. /\ Top.handle \in Handles /\ Top.path \in Paths \cup {AllPaths}
        /\ Top.keys \in SUBSET Paths
    BY <1>1, <1>8, FrameFields DEF DetachKey, Running
  <2> DEFINE rest(p) == <<DetachFrame(Top.handle, Top.path, Top.keys \ {p})>>
                          \o Tail(stack)
  <2>2. \A p \in Top.keys : rest(p) \in Seq(Frame)
    BY <1>1, <2>1, StackType, FrameTypes
  <2>3. PICK p \in Top.keys :
          IF activeRequests[p] = NoActor
          THEN stack' = rest(p) /\ UNCHANGED tables
          ELSE /\ ScheduleCancel(p, watchers[activeRequests[p]] \ {Top.handle},
                                 rest(p))
               /\ UNCHANGED <<requestQueues, path, status>>
    BY <1>8 DEF DetachKey
  <2> HIDE DEF rest
  <2>4. CASE activeRequests[p] = NoActor
    BY <1>8, <2>2, <2>3, <2>4 DEF DetachKey, TypeOK
  <2>5. CASE activeRequests[p] # NoActor
    <3>1. watchers[activeRequests[p]] \ {Top.handle} \in SUBSET Handles
      BY <2>1, <2>5 DEF TypeOK
    <3>2. p \in Paths
      BY <2>1
    <3> QED BY <1>8, <2>2, <2>3, <2>5, <3>1, <3>2, ScheduleCancelType
            DEF DetachKey, TypeOK
  <2> QED BY <2>4, <2>5
<1>9. CASE DetachLive
  BY <1>1, <1>9, StackType DEF DetachLive, TypeOK, Return
<1>10. CASE RemoveAllWatchersFromPath
  <2>1. Top.path \in Paths /\ Tail(stack) \in Seq(Frame)
    BY <1>1, <1>10, StackType, FrameFields DEF RemoveAllWatchersFromPath, Running
  <2>2. CASE activeRequests[Top.path] = NoActor
    BY <1>10, <2>1, <2>2 DEF RemoveAllWatchersFromPath, TypeOK, Return
  <2>3. CASE activeRequests[Top.path] # NoActor
    BY <1>10, <2>1, <2>3, ScheduleCancelType DEF RemoveAllWatchersFromPath, TypeOK
  <2> QED BY <2>2, <2>3
<1> QED BY <1>3, <1>4, <1>5, <1>6, <1>7, <1>8, <1>9, <1>10 DEF CancelStep

LEMMA WatchType ==
  ASSUME TypeOK, WatchStep
  PROVE  TypeOK'
<1> USE ConstantsAssumption DEF lists, tables
<1>1. /\ stack # <<>> /\ Top \in Frame
  BY StackType DEF WatchStep, WatchForPath, DispatchResource, DispatchMessage,
       TellWatcher, Running
<1>2. ClientCode \in Frame
  BY FrameTypes DEF ClientCode
<1>3. CASE WatchForPath
  BY <1>1, <1>3, StackType, FrameFields DEF WatchForPath, TypeOK, Return, Running
<1>4. CASE DispatchResource
  <2>1. TellFrame({h \in Handles : <<h, Top.path>> \in liveNodeWatchers}) \in Frame
    BY FrameTypes
  <2>2. stack' \in Seq(Frame)
    BY <1>1, <1>4, <2>1, StackType DEF DispatchResource, Become
  <2> QED BY <1>4, <2>2 DEF DispatchResource, TypeOK
<1>5. CASE DispatchMessage
  <2> DEFINE a == activeRequests[Top.path]
  <2>1. Top.path \in Paths
    BY <1>1, <1>5, FrameFields DEF DispatchMessage, Running
  <2>2. ResourceFrame(Top.path) \in Frame
    BY <2>1, FrameTypes
  <2>3. a # NoActor => TellFrame(watchers[a]) \in Frame
    BY <2>1, FrameTypes DEF TypeOK
  <2>4. stack' \in Seq(Frame)
    BY <1>1, <1>5, <2>2, <2>3, StackType DEF DispatchMessage, Become
  <2> QED BY <1>5, <2>4 DEF DispatchMessage, TypeOK
<1>6. CASE TellWatcher
  <2>1. \A h \in Top.todo : TellFrame(Top.todo \ {h}) \in Frame
    BY <1>1, <1>6, FrameFields, FrameTypes DEF TellWatcher, Running
  <2>2. stack' \in Seq(Frame)
    BY <1>1, <1>2, <1>6, <2>1, StackType DEF TellWatcher, CallBack, Become, Return
  <2> QED BY <1>6, <2>2 DEF TellWatcher, TypeOK
<1> QED BY <1>3, <1>4, <1>5, <1>6 DEF WatchStep

(* A call made on the stage goes on top of the caller's frame. *)
LEMMA InlineCallType ==
  ASSUME TypeOK, Running("user") \/ Running("cancel"), NEW f \in Frame,
         InlineCall(f)
  PROVE  stack' \in Seq(Frame)
<1>1. stack # <<>> /\ Top \in Frame /\ Top.op \in {"user", "cancel"}
  BY StackType DEF Running
<1>2. Top.calls - 1 \in Nat
  BY <1>1, FrameFields DEF InlineCall
<1>3. [Top EXCEPT !.calls = @ - 1] \in Frame
  BY <1>1, <1>2 DEF Frame
<1> QED BY <1>1, <1>3, StackType DEF InlineCall, Become

LEMMA ClientBlocksType ==
  ASSUME TypeOK
  PROVE  ClientBlocks \subseteq Frame
BY FrameTypes DEF ClientBlocks, TypeOK

LEMMA RemovalItemsType ==
  ASSUME NEW k \in Kinds
  PROVE  RemovalItems(k) \subseteq Handles \X (Paths \cup {AllPaths})
BY DEF RemovalItems

LEMMA UserType ==
  ASSUME TypeOK, UserStep
  PROVE  TypeOK'
<1> USE DEF lists, tables
<1>1. CASE UserReturns
  BY <1>1, StackType DEF UserReturns, TypeOK, Return, Running
<1>2. CASE UserCalls
  <2>1. PICK f \in Frame : InlineCall(f)
    BY <1>2, ClientBlocksType, FrameTypes DEF UserCalls
  <2>2. stack' \in Seq(Frame)
    BY <1>2, <2>1, InlineCallType DEF UserCalls
  <2> QED BY <1>2, <2>1, <2>2 DEF UserCalls, TypeOK, InlineCall
<1>3. CASE UserRemoves
  <2>1. PICK k \in Kinds : \E x \in RemovalItems(k) :
          /\ InlineCall(DrainFrame(k))
          /\ removals' = [removals EXCEPT ![k] = @ \cup {x}]
    BY <1>3 DEF UserRemoves
  <2>2. stack' \in Seq(Frame)
    BY <1>3, <2>1, InlineCallType, FrameTypes DEF UserRemoves
  <2>3. removals' \in [Kinds -> SUBSET (Handles \X (Paths \cup {AllPaths}))]
    BY <2>1, RemovalItemsType DEF TypeOK
  <2> QED BY <1>3, <2>1, <2>2, <2>3 DEF UserRemoves, TypeOK, InlineCall
<1>4. CASE UserFinishes
  <2>1. PICK a \in Actors : /\ InlineCall(FinishFrame(a))
                            /\ status' = [status EXCEPT ![a] = "done"]
    BY <1>4 DEF UserFinishes
  <2>2. stack' \in Seq(Frame)
    BY <1>4, <2>1, InlineCallType, FrameTypes DEF UserFinishes
  <2> QED BY <1>4, <2>1, <2>2 DEF UserFinishes, TypeOK, InlineCall
<1> QED BY <1>1, <1>2, <1>3, <1>4 DEF UserStep

LEMMA ClientType ==
  ASSUME TypeOK, ClientStep
  PROVE  TypeOK'
<1> USE DEF lists, tables
<1>1. CASE ClientPosts
  <2>1. PICK f \in Frame : stageQ' = Append(stageQ, f)
    BY <1>1, ClientBlocksType DEF ClientPosts
  <2> QED BY <1>1, <2>1 DEF ClientPosts, TypeOK
<1>2. CASE ClientRemovesAll
  <2>1. PICK f \in Frame : highQ' = Append(highQ, f)
    BY <1>2, FrameTypes DEF ClientRemovesAll
  <2> QED BY <1>2, <2>1 DEF ClientRemovesAll, TypeOK
<1>3. ASSUME NEW k \in Kinds, ClientRemoves(k) PROVE TypeOK'
  BY <1>3, RemovalItemsType DEF ClientRemoves, TypeOK
<1>4. ASSUME NEW k \in Kinds, DispatchDrain(k) PROVE TypeOK'
  BY <1>4, FrameTypes DEF DispatchDrain, TypeOK
<1>5. ASSUME NEW h \in Handles, Reset(h) PROVE TypeOK'
  BY <1>5 DEF Reset, TypeOK
<1>6. ASSUME NEW a \in Actors, ActorFinishes(a) PROVE TypeOK'
  BY <1>6, FrameTypes DEF ActorFinishes, TypeOK
<1> QED BY <1>1, <1>2, <1>3, <1>4, <1>5, <1>6 DEF ClientStep

LEMMA QueueType ==
  ASSUME TypeOK, QueueStep
  PROVE  TypeOK'
<1> USE DEF lists, tables
<1>1. CASE RunStageBlock
  BY <1>1 DEF RunStageBlock, TypeOK
<1>2. CASE RunHighPriorityBlock
  BY <1>2 DEF RunHighPriorityBlock, TypeOK
<1>3. ASSUME NEW p \in Paths, TimerFires(p) PROVE TypeOK'
  BY <1>3, FrameTypes DEF TimerFires, TypeOK
<1> QED BY <1>1, <1>2, <1>3 DEF QueueStep

(* ActionStage.mm keeps its tables, queues, lists and its call stack       *)
(* well formed, for every nesting of client calls.                         *)
THEOREM TypeCorrect == Spec => []TypeOK
<1>1. ASSUME Init PROVE TypeOK
  <2>1. path \in [Actors -> Paths]
    BY <1>1, ConstantsAssumption DEF Init
  <2> QED BY <1>1, <2>1 DEF Init, TypeOK, Kinds
<1>2. ASSUME TypeOK, [Next]_vars PROVE TypeOK'
  <2>1. CASE UNCHANGED vars
    BY <1>2, <2>1 DEF vars, tables, lists, TypeOK
  <2> QED BY <1>2, <2>1, RequestType, FinishType, CancelType, WatchType, UserType,
             ClientType, QueueType DEF Next, FrameStep
<1> QED BY <1>1, <1>2, PTL DEF Spec

-----------------------------------------------------------------------------
(* The request queues.  QueueInv is inductive together with TypeOK. *)
QueueInv == QueueOrder /\ HeadExecuted /\ CancelledLeaves

(* Replacing the top frame keeps every other frame and adds the new ones. *)
LEMMA KeepsFrames ==
  ASSUME NEW S, NEW s \in Seq(S), s # <<>>, NEW fs \in Seq(S)
  PROVE  /\ \A f : Contains(s, f) /\ f # Head(s) => Contains(Tail(s), f)
         /\ \A f : Contains(Tail(s), f) => Contains(fs \o Tail(s), f)
         /\ \A f : Contains(fs, f) => Contains(fs \o Tail(s), f)
<1> DEFINE t == Tail(s)
<1>1. /\ t \in Seq(S) /\ Len(t) = Len(s) - 1
      /\ \A i \in 1..Len(t) : t[i] = s[i + 1]
  BY HeadTailProperties
<1>2. /\ Len(fs \o t) = Len(fs) + Len(t)
      /\ \A i \in 1..(Len(fs) + Len(t)) :
           (fs \o t)[i] = IF i <= Len(fs) THEN fs[i] ELSE t[i - Len(fs)]
  BY <1>1, ConcatProperties
<1>3. ASSUME NEW f, NEW i \in 1..Len(s), s[i] = f, f # Head(s)
      PROVE  \E j \in 1..Len(t) : t[j] = f
  <2>1. i # 1
    BY <1>3
  <2>2. i - 1 \in 1..Len(t) /\ (i - 1) + 1 = i
    BY <1>1, <2>1
  <2> QED BY <1>1, <1>3, <2>2
<1> HIDE DEF t
<1>4. \A j \in 1..Len(t) : /\ Len(fs) + j \in 1..(Len(fs) + Len(t))
                           /\ (fs \o t)[Len(fs) + j] = t[j]
  BY <1>1, <1>2
<1>5. \A i \in 1..Len(fs) : /\ i \in 1..(Len(fs) + Len(t))
                            /\ (fs \o t)[i] = fs[i]
  BY <1>1, <1>2
<1>6. \A f : Contains(s, f) /\ f # Head(s) => Contains(t, f)
  BY <1>3 DEF Contains
<1>7. \A f : Contains(t, f) => Contains(fs \o t, f)
  BY <1>2, <1>4, Zenon DEF Contains
<1>8. \A f : Contains(fs, f) => Contains(fs \o t, f)
  BY <1>2, <1>5, Zenon DEF Contains
<1> QED BY <1>6, <1>7, <1>8, Zenon DEF t

LEMMA StackKeeps ==
  ASSUME TypeOK, stack # <<>>, Top.op # "dequeue",
         Return \/ (\E x : Become(<<x>>)) \/ (\E x, y : Become(<<x, y>>))
  PROVE  \A a \in Actors : DequeuePending(a) => DequeuePending(a)'
<1> SUFFICES ASSUME NEW a \in Actors, DequeuePending(a)
             PROVE  DequeuePending(a)'
  OBVIOUS
<1> USE DEF DequeuePending, OnStack
<1>1. DequeueFrame(a) # Head(stack)
  BY DEF DequeueFrame, Top
<1>2. CASE Return
  BY <1>1, <1>2, KeepsFrames DEF TypeOK, Return
<1>3. CASE \E x : Become(<<x>>)
  <2>1. PICK x : stack' = <<x>> \o Tail(stack)
    BY <1>3 DEF Become
  <2>2. stack \in Seq(Frame \cup {x}) /\ <<x>> \in Seq(Frame \cup {x})
    BY SeqMonotonic DEF TypeOK
  <2> QED BY <1>1, <2>1, <2>2, KeepsFrames
<1>4. CASE \E x, y : Become(<<x, y>>)
  <2>1. PICK x, y : stack' = <<x, y>> \o Tail(stack)
    BY <1>4 DEF Become
  <2>2. stack \in Seq(Frame \cup {x, y}) /\ <<x, y>> \in Seq(Frame \cup {x, y})
    BY SeqMonotonic DEF TypeOK
  <2> QED BY <1>1, <2>1, <2>2, KeepsFrames
<1> QED BY <1>2, <1>3, <1>4

(* A step that leaves the queues alone keeps QueueInv when it finishes     *)
(* only executing actors, cancels an actor only together with its dequeue, *)
(* and takes no pending dequeue off the stack.                             *)
LEMMA QueuesLeftAlone ==
  ASSUME TypeOK, QueueInv, TypeOK',
         UNCHANGED <<requestQueues, path>>,
         \A a \in Actors : \/ status'[a] = status[a]
                           \/ status[a] = "running" /\ status'[a] = "done",
         \A a \in Actors : cancelled[a] => cancelled'[a],
         \A a \in Actors : cancelled'[a] => cancelled[a] \/ DequeuePending(a)',
         \A a \in Actors : DequeuePending(a) => DequeuePending(a)'
  PROVE  QueueInv'
<1>1. \A q \in Queues : \A i \in DOMAIN requestQueues[q] :
        requestQueues[q][i] \in Actors
  BY DEF TypeOK
<1>2. QueueOrder'
  BY <1>1 DEF QueueInv, QueueOrder, QueueName, NotQueued, Contains
<1>3. HeadExecuted'
  <2> SUFFICES ASSUME NEW q \in Queues, requestQueues[q] # <<>>,
                      status'[requestQueues[q][1]] = "waiting"
               PROVE  /\ cancelled'[requestQueues[q][1]]
                      /\ DequeuePending(requestQueues[q][1])'
    BY DEF HeadExecuted
  <2>1. requestQueues[q][1] \in Actors
    BY DEF TypeOK
  <2> QED BY <2>1 DEF QueueInv, HeadExecuted
<1>4. CancelledLeaves'
  BY <1>1 DEF QueueInv, CancelledLeaves
<1> QED BY <1>2, <1>3, <1>4 DEF QueueInv

(* A frame that is not a dequeue and leaves queues and actors alone, but   *)
(* for an executing actor that finishes.                                   *)
LEMMA QuietFrame ==
  ASSUME TypeOK, QueueInv, TypeOK', stack # <<>>, Top.op # "dequeue",
         Return \/ (\E x : Become(<<x>>)) \/ (\E x, y : Become(<<x, y>>)),
         UNCHANGED <<requestQueues, path, cancelled>>,
         \/ UNCHANGED status
         \/ \E a \in Actors : /\ status[a] = "running"
                              /\ status' = [status EXCEPT ![a] = "done"]
  PROVE  QueueInv'
<1>1. \A a \in Actors : \/ status'[a] = status[a]
                        \/ status[a] = "running" /\ status'[a] = "done"
  BY DEF TypeOK
<1>2. \A a \in Actors : DequeuePending(a) => DequeuePending(a)'
  BY StackKeeps
<1> QED BY <1>1, <1>2, QueuesLeftAlone

LEMMA QuietSteps ==
  ASSUME TypeOK, QueueInv, TypeOK',
         \/ RequestDead \/ RequestJoinOnly \/ RequestJoin
         \/ ActionCompleted \/ NotifyWatcher \/ NotifyDone
         \/ DropTimer \/ Drain \/ NextItem \/ ItemsDone \/ DetachLive
         \/ WatchStep \/ UserStep
  PROVE  QueueInv'
<1> USE DEF tables, Running
<1>1. CASE RequestDead \/ RequestJoinOnly
  BY <1>1, QuietFrame DEF RequestDead, RequestJoinOnly
<1>2. CASE RequestJoin
  <2>1. (\E x : Become(<<x>>)) \/ (\E x, y : Become(<<x, y>>))
    BY <1>2 DEF RequestJoin
  <2> QED BY <1>2, <2>1, QuietFrame DEF RequestJoin
<1>3. CASE ActionCompleted
  <2>1. Return \/ \E x : Become(<<x>>)
    BY <1>3 DEF ActionCompleted
  <2> QED BY <1>3, <2>1, QuietFrame DEF ActionCompleted
<1>4. CASE NotifyWatcher
  <2>1. (\E x : Become(<<x>>)) \/ (\E x, y : Become(<<x, y>>))
    BY <1>4 DEF NotifyWatcher, CallBack
  <2> QED BY <1>4, <2>1, QuietFrame DEF NotifyWatcher
<1>5. CASE NotifyDone
  BY <1>5, QuietFrame DEF NotifyDone
<1>6. CASE DropTimer \/ ItemsDone \/ DetachLive
  BY <1>6, QuietFrame DEF DropTimer, ItemsDone, DetachLive
<1>7. CASE Drain
  BY <1>7, QuietFrame DEF Drain
<1>8. CASE NextItem
  <2>1. \E x, y : Become(<<x, y>>)
    BY <1>8 DEF NextItem
  <2> QED BY <1>8, <2>1, QuietFrame DEF NextItem
<1>9. CASE WatchStep
  <2>1. Return \/ (\E x : Become(<<x>>)) \/ (\E x, y : Become(<<x, y>>))
    BY <1>9 DEF WatchStep, WatchForPath, DispatchResource, DispatchMessage,
                TellWatcher, CallBack
  <2>2. /\ stack # <<>> /\ Top.op # "dequeue"
        /\ UNCHANGED <<requestQueues, path, cancelled, status>>
    BY <1>9 DEF WatchStep, WatchForPath, DispatchResource, DispatchMessage,
                TellWatcher
  <2> QED BY <2>1, <2>2, QuietFrame
<1>10. CASE UserStep
  <2>1. Return \/ (\E x, y : Become(<<x, y>>))
    BY <1>10 DEF UserStep, UserReturns, UserCalls, UserRemoves, UserFinishes,
                 InlineCall
  <2>2. /\ stack # <<>> /\ Top.op # "dequeue"
        /\ UNCHANGED <<requestQueues, path, cancelled>>
    BY <1>10 DEF UserStep, UserReturns, UserCalls, UserRemoves, UserFinishes
  <2>3. \/ UNCHANGED status
        \/ \E a \in Actors : /\ status[a] = "running"
                             /\ status' = [status EXCEPT ![a] = "done"]
    BY <1>10 DEF UserStep, UserReturns, UserCalls, UserRemoves, UserFinishes
  <2> QED BY <2>1, <2>2, <2>3, QuietFrame
<1> QED BY <1>1, <1>2, <1>3, <1>4, <1>5, <1>6, <1>7, <1>8, <1>9, <1>10

-----------------------------------------------------------------------------
(* QueueOrder said of a queue's elements rather than of its positions. *)
Distinct(s) == \A i, j \in 1..Len(s) : s[i] = s[j] => i = j

OrderForm ==
  /\ \A q \in Queues :
       /\ Distinct(requestQueues[q])
       /\ \A a \in Actors : Contains(requestQueues[q], a) =>
                            QueueName(a) = q /\ status[a] # "idle"
       /\ \A k \in 2..Len(requestQueues[q]) :
            status[requestQueues[q][k]] = "waiting"
  /\ \A a \in Actors : status[a] = "waiting" => ~NotQueued(a)

HeadForm ==
  \A q \in Queues : \A a \in Actors :
    requestQueues[q] # <<>> /\ requestQueues[q][1] = a /\ status[a] = "waiting"
      => cancelled[a] /\ DequeuePending(a)

QueueForm ==
  /\ OrderForm
  /\ HeadForm
  /\ \A q \in Queues : \A a \in Actors :
       Contains(requestQueues[q], a) /\ cancelled[a] => DequeuePending(a)

LEMMA QueueFormEquiv == TypeOK => (QueueInv <=> QueueForm)
<1> SUFFICES ASSUME TypeOK PROVE QueueInv <=> QueueForm
  OBVIOUS
<1>1. \A q \in Queues : /\ DOMAIN requestQueues[q] = 1..Len(requestQueues[q])
                        /\ Len(requestQueues[q]) \in Nat
                        /\ \A i \in 1..Len(requestQueues[q]) :
                             requestQueues[q][i] \in Actors
  BY DEF TypeOK
<1>2. QueueOrder => OrderForm
  BY <1>1 DEF QueueOrder, OrderForm, Distinct, Contains
<1>3. OrderForm => QueueOrder
  BY <1>1 DEF QueueOrder, OrderForm, Distinct, Contains
<1>4. CancelledLeaves <=> \A q \in Queues : \A a \in Actors :
        Contains(requestQueues[q], a) /\ cancelled[a] => DequeuePending(a)
  BY <1>1 DEF CancelledLeaves, Contains
<1>5. \A q \in Queues : requestQueues[q] # <<>> => requestQueues[q][1] \in Actors
  BY DEF TypeOK
<1>6. HeadExecuted <=> HeadForm
  BY <1>5 DEF HeadExecuted, HeadForm
<1> QED BY <1>2, <1>3, <1>4, <1>6 DEF QueueInv, QueueForm

LEMMA QueueFormNext == TypeOK' => (QueueInv' <=> QueueForm')
BY QueueFormEquiv, PTL

(* The order of a queue after each list operation. *)
LEMMA EnqueuedOrder ==
  ASSUME NEW s \in Seq(Actors), NEW a \in Actors, NEW prio \in BOOLEAN,
         Distinct(s), ~Contains(s, a)
  PROVE  LET t == Enqueued(s, a, prio) IN
         /\ Distinct(t)
         /\ \A x : Contains(t, x) <=> Contains(s, x) \/ x = a
         /\ t[1] = IF s = <<>> THEN a ELSE s[1]
         /\ s = <<>> => Len(t) = 1
         /\ \A k \in 2..Len(t) : t[k] = a \/ \E j \in 2..Len(s) : t[k] = s[j]
<1> DEFINE t == Enqueued(s, a, prio)
<1>0. Len(t) = Len(s) + 1 /\ (s = <<>> => t[1] = a)
  BY EnqueuedFacts
<1>1. CASE s = <<>>
  <2>1. Len(t) = 1 /\ t[1] = a
    <3> HIDE DEF t
    <3> QED BY <1>0, <1>1
  <2> HIDE DEF t
  <2> QED BY <1>1, <2>1 DEF Distinct, Contains, t
<1>2. CASE s # <<>>
  <2>1. Len(t) = Len(s) + 1
    BY EnqueuedFacts
  <2>2. PICK i \in 2..(Len(s) + 1) : \A k \in 1..(Len(s) + 1) :
          t[k] = IF k < i THEN s[k] ELSE IF k = i THEN a ELSE s[k - 1]
    BY <1>2, EnqueuedFacts
  <2> HIDE DEF t
  <2>3. Distinct(t)
    <3>1. \A k \in 1..Len(s) : s[k] # a
      BY DEF Contains
    <3> SUFFICES ASSUME NEW j \in 1..Len(t), NEW k \in 1..Len(t), t[j] = t[k]
                 PROVE  j = k
      BY DEF Distinct
    <3> DEFINE old(n) == IF n < i THEN n ELSE n - 1
    <3>2. \A n \in 1..Len(t) :
            n # i => old(n) \in 1..Len(s) /\ t[n] = s[old(n)]
      BY <2>1, <2>2
    <3>3. t[i] = a
      BY <2>1, <2>2
    <3>4. j = i <=> k = i
      BY <3>1, <3>2, <3>3
    <3>5. j # i => old(j) = old(k)
      BY <3>2, <3>4 DEF Distinct
    <3> QED BY <2>1, <3>4, <3>5
  <2>4. \A x : Contains(t, x) => Contains(s, x) \/ x = a
    BY <2>1, <2>2 DEF Contains
  <2>5. Contains(t, a)
    BY <2>1, <2>2 DEF Contains
  <2>6. ASSUME NEW j \in 1..Len(s) PROVE Contains(t, s[j])
    <3>1. CASE j < i
      BY <2>1, <2>2, <3>1 DEF Contains
    <3>2. CASE j >= i
      <4>1. j + 1 \in 1..Len(t) /\ t[j + 1] = s[j]
        BY <2>1, <2>2, <3>2
      <4> QED BY <4>1 DEF Contains
    <3> QED BY <3>1, <3>2
  <2>7. \A k \in 2..Len(t) : t[k] = a \/ \E j \in 2..Len(s) : t[k] = s[j]
    BY <2>1, <2>2
  <2>8. t[1] = s[1]
    BY <2>1, <2>2
  <2>9. \A x : Contains(s, x) => Contains(t, x)
    BY <2>6 DEF Contains
  <2> QED BY <1>2, <2>3, <2>4, <2>5, <2>7, <2>8, <2>9 DEF t
<1> QED BY <1>1, <1>2

LEMMA MovedToSecondOrder ==
  ASSUME NEW s \in Seq(Actors), NEW i \in 1..Len(s), i > 2, Distinct(s)
  PROVE  LET t == MovedToSecond(s, i) IN
         /\ Distinct(t)
         /\ \A x : Contains(t, x) <=> Contains(s, x)
         /\ t[1] = s[1] /\ t # <<>> /\ s # <<>>
         /\ \A k \in 2..Len(t) : \E j \in 2..Len(s) : t[k] = s[j]
<1> DEFINE t == MovedToSecond(s, i)
<1>1. /\ t \in Seq(Actors) /\ Len(t) = Len(s)
      /\ \A k \in 1..Len(s) : t[k] = IF k = 1 THEN s[1]
                                    ELSE IF k = 2 THEN s[i]
                                    ELSE IF k <= i THEN s[k - 1] ELSE s[k]
  BY MovedToSecondFacts
<1> HIDE DEF t
<1>2. Distinct(t)
  BY <1>1 DEF Distinct
<1>3. \A x : Contains(t, x) => Contains(s, x)
  BY <1>1 DEF Contains
<1>4. ASSUME NEW j \in 1..Len(s) PROVE Contains(t, s[j])
  <2>1. CASE j = 1 \/ j > i
    BY <1>1, <2>1 DEF Contains
  <2>2. CASE j = i
    <3>1. 2 \in 1..Len(t) /\ t[2] = s[j]
      BY <1>1, <2>2
    <3> QED BY <3>1 DEF Contains
  <2>3. CASE j > 1 /\ j < i
    <3>1. j + 1 \in 1..Len(t) /\ t[j + 1] = s[j]
      BY <1>1, <2>3
    <3> QED BY <3>1 DEF Contains
  <2> QED BY <2>1, <2>2, <2>3
<1>5. \A x : Contains(s, x) => Contains(t, x)
  BY <1>4 DEF Contains
<1>6. \A k \in 2..Len(t) : \E j \in 2..Len(s) : t[k] = s[j]
  BY <1>1
<1>7. t[1] = s[1] /\ t # <<>> /\ s # <<>>
  BY <1>1
<1> QED BY <1>2, <1>3, <1>5, <1>6, <1>7 DEF t

LEMMA RemoveAtOrder ==
  ASSUME NEW s \in Seq(Actors), NEW i \in 1..Len(s), i > 1, Distinct(s)
  PROVE  LET t == RemoveAt(s, i) IN
         /\ Distinct(t)
         /\ \A x : Contains(t, x) <=> Contains(s, x) /\ x # s[i]
         /\ t[1] = s[1] /\ t # <<>> /\ s # <<>>
         /\ \A k \in 2..Len(t) : \E j \in 2..Len(s) : t[k] = s[j]
<1> DEFINE t == RemoveAt(s, i)
<1>1. /\ t \in Seq(Actors) /\ Len(t) = Len(s) - 1
      /\ \A k \in 1..(Len(s) - 1) : t[k] = IF k < i THEN s[k] ELSE s[k + 1]
  BY RemoveAtFacts
<1> HIDE DEF t
<1>2. Distinct(t)
  BY <1>1 DEF Distinct
<1>3. \A x : Contains(t, x) => Contains(s, x) /\ x # s[i]
  BY <1>1 DEF Contains, Distinct
<1>4. ASSUME NEW j \in 1..Len(s), j # i PROVE Contains(t, s[j])
  <2>1. CASE j < i
    BY <1>1, <2>1 DEF Contains
  <2>2. CASE j > i
    <3>1. j - 1 \in 1..Len(t) /\ t[j - 1] = s[j]
      BY <1>1, <2>2
    <3> QED BY <3>1 DEF Contains
  <2> QED BY <1>4, <2>1, <2>2
<1>5. \A x : Contains(s, x) /\ x # s[i] => Contains(t, x)
  BY <1>4 DEF Contains
<1>6. \A k \in 2..Len(t) : \E j \in 2..Len(s) : t[k] = s[j]
  BY <1>1
<1>7. t[1] = s[1] /\ t # <<>> /\ s # <<>>
  BY <1>1
<1> QED BY <1>2, <1>3, <1>5, <1>6, <1>7 DEF t

LEMMA TailOrder ==
  ASSUME NEW s \in Seq(Actors), s # <<>>, Distinct(s)
  PROVE  LET t == Tail(s) IN
         /\ Distinct(t)
         /\ \A x : Contains(t, x) <=> Contains(s, x) /\ x # s[1]
         /\ t # <<>> => Len(s) > 1 /\ t[1] = s[2]
         /\ Len(s) > 1 => t # <<>>
         /\ \A k \in 2..Len(t) : t[k] = s[k + 1] /\ k + 1 \in 2..Len(s)
<1> DEFINE t == Tail(s)
<1>1. /\ t \in Seq(Actors) /\ Len(t) = Len(s) - 1
      /\ \A i \in 1..Len(t) : t[i] = s[i + 1]
  BY HeadTailProperties
<1> HIDE DEF t
<1>2. Distinct(t)
  BY <1>1 DEF Distinct
<1>3. \A x : Contains(t, x) => Contains(s, x) /\ x # s[1]
  BY <1>1 DEF Contains, Distinct
<1>4. ASSUME NEW j \in 1..Len(s), j # 1 PROVE Contains(t, s[j])
  <2>1. j - 1 \in 1..Len(t) /\ t[j - 1] = s[j]
    BY <1>1, <1>4
  <2> QED BY <2>1 DEF Contains
<1>5. \A x : Contains(s, x) /\ x # s[1] => Contains(t, x)
  BY <1>4 DEF Contains
<1>6. /\ t # <<>> => Len(s) > 1 /\ t[1] = s[2]
      /\ Len(s) > 1 => t # <<>>
      /\ \A k \in 2..Len(t) : t[k] = s[k + 1] /\ k + 1 \in 2..Len(s)
  BY <1>1
<1> QED BY <1>2, <1>3, <1>5, <1>6 DEF t

(* A new actor enters its queue behind the executing one. *)
LEMMA RequestNewQueue ==
  ASSUME TypeOK, QueueInv, TypeOK', NEW a \in Actors, RequestNew(a)
  PROVE  QueueInv'
<1> DEFINE q == QueueOf[Top.path]
           s == requestQueues[q]
           t == Enqueued(s, a, Top.prio)
<1>1. /\ stack # <<>> /\ Top.op = "request"
      /\ Top.path \in Paths /\ Top.prio \in BOOLEAN
  BY StackType, FrameFields DEF RequestNew, Running
<1>2. QueueForm
  BY QueueFormEquiv
<1>3. \A r \in Queues : ~Contains(requestQueues[r], a)
  BY DEF RequestNew, Fresh
<1>4. \A x \in Actors : DequeuePending(x) => DequeuePending(x)'
  <2>1. Return \/ \E x : Become(<<x>>)
    BY DEF RequestNew
  <2> QED BY <1>1, <2>1, StackKeeps
<1>5. /\ \A x \in Actors : x # a => /\ status'[x] = status[x]
                                   /\ cancelled'[x] = cancelled[x]
                                   /\ path'[x] = path[x]
      /\ ~cancelled'[a] /\ path'[a] = Top.path
      /\ status'[a] = IF ExecuteNow(q) THEN "running" ELSE "waiting"
  BY DEF RequestNew, TypeOK
<1>6. /\ q = NoQueue => requestQueues' = requestQueues
      /\ q # NoQueue => requestQueues' = [requestQueues EXCEPT ![q] = t]
  BY DEF RequestNew
<1>7. q = NoQueue \/ q \in Queues
  BY <1>1, ConstantsAssumption
<1>8. ASSUME NEW x \in Actors, x # a PROVE QueueName(x)' = QueueName(x)
  BY <1>5, <1>8 DEF QueueName
<1>9. QueueName(a)' = q
  BY <1>5 DEF QueueName
<1> HIDE DEF q, s, t
<1>10. CASE q = NoQueue
  <2>1. status'[a] = "running" /\ requestQueues' = requestQueues
    BY <1>5, <1>6, <1>10 DEF ExecuteNow
  <2>2. OrderForm'
    <3>1. \A r \in Queues : \A k \in 2..Len(requestQueues[r]) :
            requestQueues[r][k] \in Actors /\ requestQueues[r][k] # a
      BY <1>3 DEF TypeOK, Contains
    <3>2. \A x \in Actors : status'[x] = "waiting" => ~NotQueued(x)'
      BY <1>2, <1>5, <1>8, <2>1 DEF QueueForm, OrderForm, NotQueued
    <3>3. \A r \in Queues : \A x \in Actors : Contains(requestQueues[r], x) =>
            QueueName(x)' = r /\ status'[x] # "idle"
      BY <1>2, <1>3, <1>5, <1>8 DEF QueueForm, OrderForm
    <3> QED BY <1>2, <1>5, <2>1, <3>1, <3>2, <3>3 DEF QueueForm, OrderForm
  <2>3. HeadForm'
    BY <1>2, <1>4, <1>5, <2>1 DEF QueueForm, HeadForm
  <2> QED BY <1>2, <1>3, <1>4, <1>5, <2>1, <2>2, <2>3, QueueFormNext DEF QueueForm
<1>11. CASE q \in Queues
  <2>0. q # NoQueue
    BY <1>11, ConstantsAssumption
  <2>1. s \in Seq(Actors)
    BY <1>11 DEF TypeOK, s
  <2>2. /\ Distinct(t)
        /\ \A x : Contains(t, x) <=> Contains(s, x) \/ x = a
        /\ t[1] = IF s = <<>> THEN a ELSE s[1]
        /\ s = <<>> => Len(t) = 1
        /\ \A k \in 2..Len(t) : t[k] = a \/ \E j \in 2..Len(s) : t[k] = s[j]
    BY <1>1, <1>2, <1>3, <1>11, <2>1, EnqueuedOrder DEF QueueForm, OrderForm, s, t
  <2>3. /\ requestQueues'[q] = t
        /\ \A r \in Queues \ {q} : requestQueues'[r] = requestQueues[r]
    BY <1>6, <1>11, <2>0 DEF TypeOK
  <2>4. status'[a] = IF s = <<>> THEN "running" ELSE "waiting"
    BY <1>5, <2>0 DEF ExecuteNow, s
  <2>5. \A r \in Queues : \A j \in 1..Len(requestQueues[r]) :
          requestQueues[r][j] \in Actors /\ requestQueues[r][j] # a
    BY <1>3 DEF TypeOK, Contains
  <2>6. OrderForm'
    <3>1. \A r \in Queues : Distinct(requestQueues'[r])
      BY <1>2, <2>2, <2>3 DEF QueueForm, OrderForm
    <3>2. \A r \in Queues : \A x \in Actors : Contains(requestQueues'[r], x) =>
            QueueName(x)' = r /\ status'[x] # "idle"
      BY <1>2, <1>3, <1>5, <1>8, <1>9, <2>2, <2>3, <2>4 DEF QueueForm, OrderForm, s
    <3>3. ASSUME NEW r \in Queues, NEW k \in 2..Len(requestQueues'[r])
          PROVE  status'[requestQueues'[r][k]] = "waiting"
      <4>1. CASE r # q
        BY <1>2, <1>5, <2>3, <2>5, <3>3, <4>1 DEF QueueForm, OrderForm
      <4>2. CASE r = q /\ t[k] = a
        BY <2>2, <2>3, <2>4, <3>3, <4>2
      <4>3. CASE r = q /\ t[k] # a
        <5>1. PICK j \in 2..Len(s) : t[k] = s[j]
          BY <2>2, <2>3, <3>3, <4>3
        <5>2. status[s[j]] = "waiting" /\ s[j] \in Actors
          BY <1>2, <1>11, <2>1, <5>1 DEF QueueForm, OrderForm, s
        <5> QED BY <1>5, <2>3, <4>3, <5>1, <5>2
      <4> QED BY <4>1, <4>2, <4>3
    <3>4. \A x \in Actors : status'[x] = "waiting" => ~NotQueued(x)'
      <4>1. \A x \in Actors : x # a /\ status[x] = "waiting" =>
              QueueName(x) # NoQueue /\ Contains(requestQueues[QueueName(x)], x)
        BY <1>2 DEF QueueForm, OrderForm, NotQueued
      <4>2. \A x \in Actors : QueueName(x) \in Queues \cup {NoQueue}
        BY ConstantsAssumption DEF QueueName, TypeOK
      <4> QED BY <1>5, <1>8, <1>9, <2>0, <2>2, <2>3, <4>1, <4>2 DEF NotQueued, s
    <3> QED BY <3>1, <3>2, <3>3, <3>4 DEF OrderForm
  <2>7. HeadForm'
    <3> SUFFICES ASSUME NEW r \in Queues, NEW x \in Actors,
                        requestQueues'[r] # <<>>, requestQueues'[r][1] = x,
                        status'[x] = "waiting"
                 PROVE  cancelled'[x] /\ DequeuePending(x)'
      BY DEF HeadForm
    <3>1. requestQueues'[r][1] = requestQueues[r][1] /\ requestQueues[r] # <<>>
      BY <2>2, <2>3, <2>4 DEF s
    <3>2. x # a
      BY <2>5, <3>1 DEF TypeOK
    <3> QED BY <1>2, <1>4, <1>5, <3>1, <3>2 DEF QueueForm, HeadForm
  <2>8. \A r \in Queues : \A x \in Actors :
          Contains(requestQueues'[r], x) /\ cancelled'[x] => DequeuePending(x)'
    BY <1>2, <1>4, <1>5, <2>2, <2>3 DEF QueueForm, s
  <2> QED BY <2>6, <2>7, <2>8, QueueFormNext DEF QueueForm
<1> QED BY <1>7, <1>10, <1>11

(* The actor whose priority rises passes only actors that wait. *)
LEMMA ChangeActorPriorityQueue ==
  ASSUME TypeOK, QueueInv, TypeOK', ChangeActorPriority
  PROVE  QueueInv'
<1>1. /\ stack # <<>> /\ Top.op = "priority" /\ Return
      /\ UNCHANGED <<path, status, cancelled>>
  BY DEF ChangeActorPriority, Running
<1>2. QueueForm
  BY QueueFormEquiv
<1>3. \A x \in Actors : DequeuePending(x) => DequeuePending(x)'
  BY <1>1, StackKeeps
<1>4. CASE UNCHANGED requestQueues
  BY <1>1, <1>3, <1>4, QueuesLeftAlone
<1>5. ASSUME NEW q \in Queues, NEW i \in DOMAIN requestQueues[q], i > 2,
             requestQueues' = [requestQueues EXCEPT ![q] =
                                 MovedToSecond(requestQueues[q], i)]
      PROVE  QueueInv'
  <2> DEFINE s == requestQueues[q]
             t == MovedToSecond(s, i)
  <2>1. s \in Seq(Actors) /\ i \in 1..Len(s)
    BY DEF TypeOK
  <2>2. /\ Distinct(t)
        /\ \A x : Contains(t, x) <=> Contains(s, x)
        /\ t[1] = s[1] /\ t # <<>> /\ s # <<>>
        /\ \A k \in 2..Len(t) : \E j \in 2..Len(s) : t[k] = s[j]
    BY <1>2, <1>5, <2>1, MovedToSecondOrder DEF QueueForm, OrderForm
  <2>3. /\ requestQueues'[q] = t
        /\ \A r \in Queues \ {q} : requestQueues'[r] = requestQueues[r]
    BY <1>5 DEF TypeOK
  <2>4. \A x \in Actors : /\ status'[x] = status[x] /\ cancelled'[x] = cancelled[x]
                          /\ QueueName(x)' = QueueName(x)
    BY <1>1 DEF QueueName
  <2> HIDE DEF t
  <2>5. \A r \in Queues : \A x : Contains(requestQueues'[r], x) <=>
                                  Contains(requestQueues[r], x)
    BY <2>2, <2>3
  <2>6. OrderForm'
    <3>1. \A r \in Queues : Distinct(requestQueues'[r])
      BY <1>2, <2>2, <2>3 DEF QueueForm, OrderForm
    <3>2. \A r \in Queues : \A x \in Actors : Contains(requestQueues'[r], x) =>
            QueueName(x)' = r /\ status'[x] # "idle"
      BY <1>2, <2>4, <2>5 DEF QueueForm, OrderForm
    <3>3. \A r \in Queues : \A k \in 2..Len(requestQueues'[r]) :
            status'[requestQueues'[r][k]] = "waiting"
      BY <1>1, <1>2, <2>2, <2>3 DEF QueueForm, OrderForm
    <3>4. \A x \in Actors : QueueName(x) \in Queues \cup {NoQueue}
      BY ConstantsAssumption DEF QueueName, TypeOK
    <3>5. \A x \in Actors : status'[x] = "waiting" => ~NotQueued(x)'
      BY <1>2, <2>4, <2>5, <3>4 DEF QueueForm, OrderForm, NotQueued
    <3> QED BY <3>1, <3>2, <3>3, <3>5 DEF OrderForm
  <2>7. HeadForm'
    BY <1>2, <1>3, <2>2, <2>3, <2>4 DEF QueueForm, HeadForm
  <2>8. \A r \in Queues : \A x \in Actors :
          Contains(requestQueues'[r], x) /\ cancelled'[x] => DequeuePending(x)'
    BY <1>2, <1>3, <2>4, <2>5 DEF QueueForm
  <2> QED BY <2>6, <2>7, <2>8, QueueFormNext DEF QueueForm
<1> QED BY <1>4, <1>5 DEF ChangeActorPriority

(* Taking an actor out of its queue: the queue keeps the others, and the   *)
(* dequeue of every other actor stays on the stack.                        *)
LEMMA DequeueKeeps ==
  ASSUME TypeOK, Running("dequeue"), Return \/ Become(<<ClientCode>>)
  PROVE  \A x \in Actors : x # Top.actor /\ DequeuePending(x) => DequeuePending(x)'
<1> SUFFICES ASSUME NEW x \in Actors, x # Top.actor, DequeuePending(x)
             PROVE  DequeuePending(x)'
  OBVIOUS
<1> USE DEF DequeuePending, OnStack
<1>1. stack # <<>> /\ stack \in Seq(Frame)
  BY DEF Running, TypeOK
<1>2. DequeueFrame(x) # Head(stack)
  BY DEF DequeueFrame, Top
<1>3. <<ClientCode>> \in Seq(Frame)
  BY FrameTypes, ConstantsAssumption DEF ClientCode
<1> QED BY <1>1, <1>2, <1>3, KeepsFrames DEF Return, Become

LEMMA DequeueMissingQueue ==
  ASSUME TypeOK, QueueInv, TypeOK', DequeueMissing
  PROVE  QueueInv'
<1> USE DEF tables
<1>1. /\ Running("dequeue") /\ Return /\ NotQueued(Top.actor)
      /\ UNCHANGED <<requestQueues, path, status, cancelled>>
  BY DEF DequeueMissing
<1>2. QueueForm
  BY QueueFormEquiv
<1>3. \A x \in Actors : x # Top.actor /\ DequeuePending(x) => DequeuePending(x)'
  BY <1>1, DequeueKeeps
<1>4. \A r \in Queues : ~Contains(requestQueues[r], Top.actor)
  <2>1. Top.actor \in Actors
    BY <1>1, StackType, FrameFields DEF Running
  <2> QED BY <1>1, <1>2, <2>1, ConstantsAssumption
          DEF NotQueued, QueueForm, OrderForm
<1>5. OrderForm'
  BY <1>1, <1>2 DEF QueueForm, OrderForm, NotQueued, QueueName
<1>6. HeadForm'
  <2>1. \A r \in Queues : requestQueues[r] # <<>> =>
          requestQueues[r][1] # Top.actor
    BY <1>4 DEF TypeOK, Contains
  <2> QED BY <1>1, <1>2, <1>3, <2>1 DEF QueueForm, HeadForm
<1>7. \A r \in Queues : \A x \in Actors :
        Contains(requestQueues'[r], x) /\ cancelled'[x] => DequeuePending(x)'
  BY <1>1, <1>2, <1>3, <1>4 DEF QueueForm
<1> QED BY <1>5, <1>6, <1>7, QueueFormNext DEF QueueForm

(* Taking actor a out of queue q, from the first place or from behind it:  *)
(* s is the queue before and t after.                                      *)
LEMMA DequeuedQueue ==
  ASSUME TypeOK, QueueInv, TypeOK', Running("dequeue"),
         Return \/ Become(<<ClientCode>>),
         NEW a \in Actors, a = Top.actor,
         NEW q \in Queues, NEW s \in Seq(Actors), NEW t \in Seq(Actors),
         s = requestQueues[q], Contains(s, a),
         requestQueues' = [requestQueues EXCEPT ![q] = t],
         UNCHANGED <<path, cancelled>>,
         Distinct(t),
         \A x : Contains(t, x) <=> Contains(s, x) /\ x # a,
         \A k \in 2..Len(t) : \E j \in 2..Len(s) : t[k] = s[j],
         \A x \in Actors \ {a} : status'[x] = status[x]
                                \/ (t # <<>> /\ x = t[1] /\ status'[x] = "running"),
         status'[a] # "waiting",
         t # <<>> /\ status'[t[1]] = "waiting" =>
           t[1] = s[1] \/ cancelled[t[1]]
  PROVE  QueueInv'
<1>1. QueueForm
  BY QueueFormEquiv
<1>2. \A x \in Actors : x # a /\ DequeuePending(x) => DequeuePending(x)'
  BY DequeueKeeps
<1>3. /\ requestQueues'[q] = t
      /\ \A r \in Queues \ {q} : requestQueues'[r] = requestQueues[r]
  BY DEF TypeOK
<1>4. \A x \in Actors : QueueName(x)' = QueueName(x) /\ cancelled'[x] = cancelled[x]
  BY DEF QueueName
<1>5. t # <<>> => t[1] \in Actors /\ Contains(t, t[1])
  BY DEF Contains
<1>6. \A r \in Queues : \A x \in Actors : Contains(requestQueues[r], x) =>
        QueueName(x) = r /\ status[x] # "idle"
  BY <1>1 DEF QueueForm, OrderForm
<1>7. \A r \in Queues : \A x \in Actors :
        Contains(requestQueues'[r], x) => x # a /\ Contains(requestQueues[r], x)
  BY <1>3, <1>6
<1>8. \A r \in Queues \ {q} : \A x \in Actors :
        Contains(requestQueues[r], x) => status'[x] = status[x]
  BY <1>3, <1>5, <1>6, <1>7
<1>9. OrderForm'
  <2>1. \A r \in Queues : Distinct(requestQueues'[r])
    BY <1>1, <1>3 DEF QueueForm, OrderForm
  <2>2. \A r \in Queues : \A x \in Actors : Contains(requestQueues'[r], x) =>
          QueueName(x)' = r /\ status'[x] # "idle"
    BY <1>4, <1>6, <1>7
  <2>3. ASSUME NEW r \in Queues, NEW k \in 2..Len(requestQueues'[r])
        PROVE  status'[requestQueues'[r][k]] = "waiting"
    <3>1. CASE r # q
      <4> DEFINE x == requestQueues[r][k]
      <4>1. x \in Actors /\ Contains(requestQueues[r], x)
        BY <1>3, <2>3, <3>1 DEF TypeOK, Contains
      <4>2. status[x] = "waiting"
        BY <1>1, <1>3, <2>3, <3>1 DEF QueueForm, OrderForm
      <4> QED BY <1>3, <1>8, <3>1, <4>1, <4>2
    <3>2. CASE r = q
      <4>1. k \in 2..Len(t) /\ 1 \in 1..Len(t) /\ t[k] \in Actors /\ Contains(t, t[k])
        BY <1>3, <2>3, <3>2 DEF Contains
      <4>2. t[k] # t[1]
        BY <4>1 DEF Distinct
      <4>3. status[t[k]] = "waiting"
        BY <1>1, <4>1 DEF QueueForm, OrderForm
      <4> QED BY <1>3, <3>2, <4>1, <4>2, <4>3
    <3> QED BY <3>1, <3>2
  <2>4. \A x \in Actors : status'[x] = "waiting" => ~NotQueued(x)'
    <3> SUFFICES ASSUME NEW x \in Actors, status'[x] = "waiting"
                 PROVE  ~NotQueued(x)'
      OBVIOUS
    <3>1. x # a /\ status[x] = "waiting"
      OBVIOUS
    <3>2. QueueName(x) \in Queues /\ Contains(requestQueues[QueueName(x)], x)
      <4>1. QueueName(x) \in Queues \cup {NoQueue}
        BY ConstantsAssumption DEF QueueName, TypeOK
      <4> QED BY <1>1, <3>1, <4>1 DEF QueueForm, OrderForm, NotQueued
    <3>3. Contains(requestQueues'[QueueName(x)], x)
      BY <1>3, <3>1, <3>2
    <3>4. QueueName(x)' = QueueName(x) /\ QueueName(x) # NoQueue
      BY <1>4, <3>2, ConstantsAssumption
    <3> QED BY <3>3, <3>4 DEF NotQueued
  <2> QED BY <2>1, <2>2, <2>3, <2>4 DEF OrderForm
<1>10. HeadForm'
  <2> SUFFICES ASSUME NEW r \in Queues, NEW x \in Actors,
                      requestQueues'[r] # <<>>, requestQueues'[r][1] = x,
                      status'[x] = "waiting"
               PROVE  cancelled'[x] /\ DequeuePending(x)'
    BY DEF HeadForm
  <2>1. x # a /\ status[x] = "waiting"
    OBVIOUS
  <2>2. CASE r # q
    BY <1>1, <1>2, <1>3, <1>4, <2>1, <2>2 DEF QueueForm, HeadForm
  <2>3. CASE r = q
    <3>1. t # <<>> /\ x = t[1] /\ Contains(s, x) /\ s # <<>>
      <4>1. t # <<>> /\ x = t[1] /\ Contains(s, x)
        BY <1>3, <1>5, <2>3
      <4> QED BY <4>1 DEF Contains
    <3>2. CASE t[1] = s[1]
      BY <1>1, <1>2, <1>4, <2>1, <2>3, <3>1, <3>2 DEF QueueForm, HeadForm
    <3>3. CASE cancelled[t[1]]
      BY <1>1, <1>2, <1>4, <2>1, <3>1, <3>3 DEF QueueForm
    <3> QED BY <3>1, <3>2, <3>3
  <2> QED BY <2>2, <2>3
<1>11. \A r \in Queues : \A x \in Actors :
         Contains(requestQueues'[r], x) /\ cancelled'[x] => DequeuePending(x)'
  BY <1>1, <1>2, <1>4, <1>7 DEF QueueForm
<1> QED BY <1>9, <1>10, <1>11, QueueFormNext DEF QueueForm

LEMMA DequeueFirstQueue ==
  ASSUME TypeOK, QueueInv, TypeOK', DequeueFirst
  PROVE  QueueInv'
<1>1. PICK a \in Actors : a = Top.actor
  BY StackType, FrameFields DEF DequeueFirst, Running
<1>2. PICK q \in Queues : q = QueueName(a) /\ Contains(requestQueues[q], a)
  BY <1>1, ConstantsAssumption DEF DequeueFirst, NotQueued, TypeOK, QueueName
<1>3. PICK s \in Seq(Actors) : s = requestQueues[q]
  BY DEF TypeOK
<1>4. s # <<>> /\ Contains(s, a)
  BY <1>2, <1>3 DEF Contains
<1>5. PICK t \in Seq(Actors) : t = Tail(s)
  <2>1. Tail(s) \in Seq(Actors)
    BY <1>4
  <2> QED BY <2>1, Zenon
<1>6. /\ Running("dequeue") /\ s[1] = a
      /\ requestQueues' = [requestQueues EXCEPT ![q] = t]
      /\ status' = IF Proceeds(s)
                   THEN [status EXCEPT ![a] = Retired(a), ![s[2]] = "running"]
                   ELSE [status EXCEPT ![a] = Retired(a)]
      /\ Return \/ Become(<<ClientCode>>)
      /\ UNCHANGED <<path, cancelled>>
  BY <1>1, <1>2, <1>3, <1>5 DEF DequeueFirst
<1>7. Distinct(s)
  BY <1>3, QueueFormEquiv DEF QueueForm, OrderForm
<1>8. /\ Distinct(t)
      /\ \A x : Contains(t, x) <=> Contains(s, x) /\ x # a
      /\ t # <<>> => Len(s) > 1 /\ t[1] = s[2]
      /\ Len(s) > 1 => t # <<>>
      /\ \A k \in 2..Len(t) : t[k] = s[k + 1] /\ k + 1 \in 2..Len(s)
  BY <1>4, <1>5, <1>6, <1>7, TailOrder
<1>9. \A k \in 2..Len(t) : \E j \in 2..Len(s) : t[k] = s[j]
  BY <1>8
<1>10. Proceeds(s) => s[2] \in Actors /\ s[2] # a
  BY <1>6, <1>7 DEF Proceeds, Distinct
<1>11. Retired(a) # "waiting"
  BY DEF Retired
<1>12. /\ \A x \in Actors \ {a} : status'[x] = status[x]
                                  \/ (t # <<>> /\ x = t[1] /\ status'[x] = "running")
       /\ status'[a] # "waiting"
       /\ t # <<>> /\ status'[t[1]] = "waiting" => ~Proceeds(s)
  <2>0. DOMAIN status = Actors
    BY DEF TypeOK
  <2>1. CASE Proceeds(s)
    <3>1. t # <<>> /\ t[1] = s[2]
      BY <1>8, <2>1 DEF Proceeds
    <3>2. status' = [status EXCEPT ![a] = Retired(a), ![s[2]] = "running"]
      BY <1>6, <2>1
    <3>3. status'[a] = Retired(a) /\ status'[s[2]] = "running"
      BY <1>10, <2>0, <2>1, <3>2, Zenon
    <3>4. \A x \in Actors \ {a} : x # s[2] => status'[x] = status[x]
      BY <2>0, <3>2, Zenon
    <3> QED BY <1>11, <3>1, <3>3, <3>4
  <2>2. CASE ~Proceeds(s)
    <3>1. status' = [status EXCEPT ![a] = Retired(a)]
      BY <1>6, <2>2
    <3>2. status'[a] = Retired(a)
      BY <2>0, <3>1
    <3>3. \A x \in Actors \ {a} : status'[x] = status[x]
      BY <2>0, <3>1
    <3> QED BY <1>11, <2>2, <3>2, <3>3
  <2> QED BY <2>1, <2>2
<1>13. t # <<>> /\ status'[t[1]] = "waiting" => t[1] = s[1] \/ cancelled[t[1]]
  BY <1>8, <1>12 DEF Proceeds
<1> QED BY <1>1, <1>3, <1>4, <1>6, <1>8, <1>9, <1>12, <1>13, DequeuedQueue, Zenon

LEMMA DequeueOtherQueue ==
  ASSUME TypeOK, QueueInv, TypeOK', DequeueOther
  PROVE  QueueInv'
<1>1. PICK a \in Actors : a = Top.actor
  BY StackType, FrameFields DEF DequeueOther, Running
<1>2. PICK q \in Queues : q = QueueName(a) /\ Contains(requestQueues[q], a)
  BY <1>1, ConstantsAssumption DEF DequeueOther, NotQueued, TypeOK, QueueName
<1>3. PICK s \in Seq(Actors) : s = requestQueues[q]
  BY DEF TypeOK
<1>4. PICK i \in 1..Len(s) :
        /\ i > 1 /\ s[i] = a
        /\ requestQueues' = [requestQueues EXCEPT ![q] = RemoveAt(s, i)]
  <2>1. \E i \in DOMAIN requestQueues[q] :
          /\ i > 1 /\ requestQueues[q][i] = a
          /\ requestQueues' = [requestQueues EXCEPT ![q] =
                                 RemoveAt(requestQueues[q], i)]
    BY <1>1, <1>2, Zenon DEF DequeueOther
  <2>2. DOMAIN requestQueues[q] = 1..Len(s)
    BY <1>3
  <2> QED BY <1>3, <2>1, <2>2, Zenon
<1>5. PICK t \in Seq(Actors) : t = RemoveAt(s, i)
  BY RemoveAtFacts
<1>6. /\ Running("dequeue") /\ Return
      /\ status' = [status EXCEPT ![a] = Retired(a)]
      /\ UNCHANGED <<path, cancelled>>
  BY <1>1 DEF DequeueOther
<1>7. Distinct(s) /\ Contains(s, a)
  BY <1>2, <1>3, QueueFormEquiv DEF QueueForm, OrderForm
<1>8. /\ Distinct(t)
      /\ \A x : Contains(t, x) <=> Contains(s, x) /\ x # a
      /\ t[1] = s[1]
      /\ \A k \in 2..Len(t) : \E j \in 2..Len(s) : t[k] = s[j]
  BY <1>4, <1>5, <1>7, RemoveAtOrder
<1>9. /\ \A x \in Actors \ {a} : status'[x] = status[x]
      /\ status'[a] # "waiting"
  BY <1>6 DEF TypeOK, Retired
<1>10. requestQueues' = [requestQueues EXCEPT ![q] = t]
  BY <1>4, <1>5, Zenon
<1>11. /\ \A x \in Actors \ {a} : status'[x] = status[x]
                                  \/ (t # <<>> /\ x = t[1] /\ status'[x] = "running")
       /\ t # <<>> /\ status'[t[1]] = "waiting" => t[1] = s[1] \/ cancelled[t[1]]
  BY <1>8, <1>9
<1> QED BY <1>1, <1>3, <1>6, <1>7, <1>8, <1>9, <1>10, <1>11, DequeuedQueue, Zenon

(* Frames above a stack keep what is below and hold their own. *)
LEMMA ConcatKeeps ==
  ASSUME NEW fs \in Seq(Frame), NEW t \in Seq(Frame)
  PROVE  /\ \A f : Contains(t, f) => Contains(fs \o t, f)
         /\ \A f : Contains(fs, f) => Contains(fs \o t, f)
<1>1. /\ Len(fs \o t) = Len(fs) + Len(t)
      /\ \A i \in 1..(Len(fs) + Len(t)) :
           (fs \o t)[i] = IF i <= Len(fs) THEN fs[i] ELSE t[i - Len(fs)]
  BY ConcatProperties
<1>2. \A j \in 1..Len(t) : /\ Len(fs) + j \in 1..(Len(fs) + Len(t))
                           /\ (fs \o t)[Len(fs) + j] = t[j]
  BY <1>1
<1>3. \A i \in 1..Len(fs) : /\ i \in 1..(Len(fs) + Len(t))
                            /\ (fs \o t)[i] = fs[i]
  BY <1>1
<1>4. \A f : Contains(t, f) => Contains(fs \o t, f)
  BY <1>1, <1>2, Zenon DEF Contains
<1>5. \A f : Contains(fs, f) => Contains(fs \o t, f)
  BY <1>1, <1>3, Zenon DEF Contains
<1> QED BY <1>4, <1>5

(* An actor is cancelled together with the call that dequeues it: rest is  *)
(* the stack below the two calls.                                          *)
LEMMA CancelQueue ==
  ASSUME TypeOK, QueueInv, TypeOK',
         stack # <<>>, Top.op # "dequeue",
         NEW a \in Actors, NEW rest \in Seq(Frame),
         \A f : Contains(Tail(stack), f) => Contains(rest, f),
         \/ stack' = rest /\ UNCHANGED cancelled
         \/ /\ stack' = CancelFrames(a) \o rest
            /\ cancelled' = [cancelled EXCEPT ![a] = TRUE],
         UNCHANGED <<requestQueues, path, status>>
  PROVE  QueueInv'
<1>1. \A x \in Actors : DequeuePending(x) => Contains(rest, DequeueFrame(x))
  <2> SUFFICES ASSUME NEW x \in Actors, Contains(stack, DequeueFrame(x))
               PROVE  Contains(rest, DequeueFrame(x))
    BY DEF DequeuePending, OnStack
  <2>1. DequeueFrame(x) # Head(stack)
    BY DEF DequeueFrame, Top
  <2> QED BY <2>1, KeepsFrames DEF TypeOK
<1>2. CancelFrames(a) \in Seq(Frame) /\ Contains(CancelFrames(a), DequeueFrame(a))
  <2>1. CancelCode \in Frame /\ DequeueFrame(a) \in Frame
    BY FrameTypes, ConstantsAssumption DEF CancelCode
  <2> QED BY <2>1 DEF CancelFrames, Contains
<1>3. CASE stack' = rest /\ UNCHANGED cancelled
  <2>1. \A x \in Actors : DequeuePending(x) => DequeuePending(x)'
    BY <1>1, <1>3 DEF DequeuePending, OnStack
  <2> QED BY <1>3, <2>1, QueuesLeftAlone
<1>4. CASE /\ stack' = CancelFrames(a) \o rest
           /\ cancelled' = [cancelled EXCEPT ![a] = TRUE]
  <2>1. \A x \in Actors : DequeuePending(x) => DequeuePending(x)'
    BY <1>1, <1>2, <1>4, ConcatKeeps DEF DequeuePending, OnStack
  <2>2. DequeuePending(a)'
    BY <1>2, <1>4, ConcatKeeps DEF DequeuePending, OnStack
  <2>3. \A x \in Actors : cancelled[x] => cancelled'[x]
    BY <1>4 DEF TypeOK
  <2>4. \A x \in Actors : cancelled'[x] => cancelled[x] \/ x = a
    BY <1>4 DEF TypeOK
  <2>5. \A x \in Actors : cancelled'[x] => cancelled[x] \/ DequeuePending(x)'
    BY <2>2, <2>4
  <2> QED BY <2>1, <2>3, <2>5, QueuesLeftAlone
<1> QED BY <1>3, <1>4

LEMMA CancelStepsQueue ==
  ASSUME TypeOK, QueueInv, TypeOK',
         PerformCancelRequest \/ DetachKey \/ RemoveAllWatchersFromPath
  PROVE  QueueInv'
<1>1. /\ stack # <<>> /\ Top \in Frame /\ Tail(stack) \in Seq(Frame)
      /\ Top.op # "dequeue"
  BY StackType DEF PerformCancelRequest, DetachKey, RemoveAllWatchersFromPath,
                   Running
<1>2. CASE PerformCancelRequest
  <2> DEFINE a == cancelRequestTimers[Top.path]
             rest == <<DropTimerFrame(Top.path)>> \o Tail(stack)
  <2>1. Top.path \in Paths
    BY <1>1, <1>2, FrameFields DEF PerformCancelRequest, Running
  <2>2. CASE a = NoActor
    BY <1>1, <1>2, <2>2, QuietFrame DEF PerformCancelRequest
  <2>3. CASE a # NoActor
    <3>1. PICK b \in Actors : b = a
      BY <2>1, <2>3 DEF TypeOK
    <3>2. <<DropTimerFrame(Top.path)>> \in Seq(Frame)
      BY <2>1, FrameTypes
    <3>3. /\ rest \in Seq(Frame)
          /\ \A f : Contains(Tail(stack), f) => Contains(rest, f)
      BY <1>1, <3>2, ConcatKeeps, ConcatProperties
    <3>4. CancelFrames(b) \in Seq(Frame)
      BY FrameTypes, ConstantsAssumption DEF CancelFrames, CancelCode
    <3>5. (CancelFrames(b) \o <<DropTimerFrame(Top.path)>>) \o Tail(stack)
            = CancelFrames(b) \o rest
      BY <1>1, <3>2, <3>4, ConcatAssociative
    <3>6. stack' = CancelFrames(b) \o rest
      BY <1>2, <2>3, <3>1, <3>5 DEF PerformCancelRequest, Become
    <3>7. /\ cancelled' = [cancelled EXCEPT ![b] = TRUE]
          /\ UNCHANGED <<requestQueues, path, status>>
      BY <1>2, <2>3, <3>1 DEF PerformCancelRequest
    <3> HIDE DEF rest
    <3>8. PICK r \in Seq(Frame) : r = rest
      BY <3>3
    <3> QED BY <1>1, <3>3, <3>6, <3>7, <3>8, CancelQueue
  <2> QED BY <2>2, <2>3
<1>3. CASE DetachKey
  <2>1. /\ Top.handle \in Handles /\ Top.path \in Paths \cup {AllPaths}
        /\ Top.keys \in SUBSET Paths
    BY <1>1, <1>3, FrameFields DEF DetachKey, Running
  <2>2. PICK p \in Top.keys :
          LET rest == <<DetachFrame(Top.handle, Top.path, Top.keys \ {p})>>
                        \o Tail(stack)
          IN IF activeRequests[p] = NoActor
             THEN stack' = rest /\ UNCHANGED tables
             ELSE /\ ScheduleCancel(p, watchers[activeRequests[p]] \ {Top.handle},
                                    rest)
                  /\ UNCHANGED <<requestQueues, path, status>>
    BY <1>3 DEF DetachKey
  <2> DEFINE f == DetachFrame(Top.handle, Top.path, Top.keys \ {p})
  <2>3. PICK r \in Seq(Frame) : r = <<f>> \o Tail(stack)
    BY <1>1, <2>1, FrameTypes, StackType
  <2>4. \A g : Contains(Tail(stack), g) => Contains(r, g)
    <3>1. f \in Frame
      BY <2>1, FrameTypes
    <3> HIDE DEF f
    <3>2. <<f>> \in Seq(Frame)
      BY <3>1
    <3> QED BY <1>1, <2>3, <3>2, ConcatKeeps
  <2>5. CASE activeRequests[p] = NoActor
    BY <1>1, <2>2, <2>5, QuietFrame DEF tables, Become
  <2>6. CASE activeRequests[p] # NoActor
    <3>1. PICK a \in Actors : a = activeRequests[p]
      BY <2>1, <2>6 DEF TypeOK
    <3>2. \/ stack' = r /\ UNCHANGED cancelled
          \/ /\ stack' = CancelFrames(a) \o r
             /\ cancelled' = [cancelled EXCEPT ![a] = TRUE]
      BY <2>2, <2>3, <2>6, <3>1 DEF ScheduleCancel
    <3>3. UNCHANGED <<requestQueues, path, status>>
      BY <2>2, <2>6
    <3> QED BY <1>1, <2>4, <3>2, <3>3, CancelQueue
  <2> QED BY <2>5, <2>6
<1>4. CASE RemoveAllWatchersFromPath
  <2>1. Top.path \in Paths
    BY <1>1, <1>4, FrameFields DEF RemoveAllWatchersFromPath, Running
  <2>2. CASE activeRequests[Top.path] = NoActor
    BY <1>1, <1>4, <2>2, QuietFrame DEF RemoveAllWatchersFromPath, tables
  <2>3. CASE activeRequests[Top.path] # NoActor
    <3>1. PICK a \in Actors : a = activeRequests[Top.path]
      BY <2>1, <2>3 DEF TypeOK
    <3>2. PICK r \in Seq(Frame) : r = Tail(stack)
      BY <1>1
    <3>3. \/ stack' = r /\ UNCHANGED cancelled
          \/ /\ stack' = CancelFrames(a) \o r
             /\ cancelled' = [cancelled EXCEPT ![a] = TRUE]
      BY <1>4, <2>3, <3>1, <3>2 DEF RemoveAllWatchersFromPath, ScheduleCancel
    <3>4. UNCHANGED <<requestQueues, path, status>>
      BY <1>4, <2>3 DEF RemoveAllWatchersFromPath
    <3> QED BY <1>1, <3>2, <3>3, <3>4, CancelQueue
  <2> QED BY <2>2, <2>3
<1> QED BY <1>2, <1>3, <1>4

(* The steps of other threads, and the start of a block. *)
LEMMA OutsideStepsQueue ==
  ASSUME TypeOK, QueueInv, TypeOK', ClientStep \/ QueueStep
  PROVE  QueueInv'
<1> USE DEF tables
<1>1. CASE ClientStep
  <2>1. UNCHANGED <<stack, requestQueues, path, cancelled>>
    BY <1>1 DEF ClientStep, ClientPosts, ClientRemovesAll, ClientRemoves,
                DispatchDrain, Reset, ActorFinishes
  <2>2. \A x \in Actors : DequeuePending(x) => DequeuePending(x)'
    BY <2>1 DEF DequeuePending, OnStack
  <2>3. \/ UNCHANGED status
        \/ \E a \in Actors : /\ status[a] = "running"
                             /\ status' = [status EXCEPT ![a] = "done"]
    BY <1>1 DEF ClientStep, ClientPosts, ClientRemovesAll, ClientRemoves,
                DispatchDrain, Reset, ActorFinishes
  <2>4. \A a \in Actors : \/ status'[a] = status[a]
                          \/ status[a] = "running" /\ status'[a] = "done"
    BY <2>3 DEF TypeOK
  <2> QED BY <2>1, <2>2, <2>4, QueuesLeftAlone
<1>2. CASE QueueStep
  <2>1. stack = <<>> /\ UNCHANGED <<requestQueues, path, cancelled, status>>
    BY <1>2 DEF QueueStep, RunStageBlock, RunHighPriorityBlock, TimerFires
  <2>2. \A x \in Actors : ~DequeuePending(x)
    BY <2>1 DEF DequeuePending, OnStack, Contains
  <2> QED BY <2>1, <2>2, QueuesLeftAlone
<1> QED BY <1>1, <1>2

(* The request queues of ActionStage.mm stay in order whatever client code *)
(* does inside its callbacks: each lists an actor once and only its first  *)
(* actor has been executed; the first actor is executed or its removal is  *)
(* on the stack; a cancelled actor's removal is on the stack as long as it *)
(* is listed.                                                              *)
THEOREM QueuesSafe == Spec => [](QueueOrder /\ HeadExecuted /\ CancelledLeaves)
<1>1. ASSUME Init PROVE QueueInv
  <2>1. \A q \in Queues : requestQueues[q] = <<>>
    BY <1>1 DEF Init
  <2>2. \A a \in Actors : status[a] # "waiting"
    BY <1>1 DEF Init
  <2> QED BY <2>1, <2>2 DEF QueueInv, QueueOrder, HeadExecuted, CancelledLeaves
<1>2. ASSUME TypeOK, TypeOK', QueueInv, [Next]_vars PROVE QueueInv'
  <2>1. CASE UNCHANGED vars
    <3>1. \A x \in Actors : DequeuePending(x) => DequeuePending(x)'
      BY <2>1 DEF vars, DequeuePending, OnStack
    <3> QED BY <1>2, <2>1, <3>1, QueuesLeftAlone DEF vars, tables
  <2>2. CASE RequestStep
    BY <1>2, <2>2, QuietSteps, RequestNewQueue, ChangeActorPriorityQueue
       DEF RequestStep
  <2>3. CASE FinishStep
    BY <1>2, <2>3, QuietSteps, DequeueMissingQueue, DequeueFirstQueue,
       DequeueOtherQueue DEF FinishStep
  <2>4. CASE CancelStep
    BY <1>2, <2>4, QuietSteps, CancelStepsQueue DEF CancelStep
  <2>5. CASE WatchStep \/ UserStep
    BY <1>2, <2>5, QuietSteps
  <2>6. CASE ClientStep \/ QueueStep
    BY <1>2, <2>6, OutsideStepsQueue
  <2> QED BY <1>2, <2>1, <2>2, <2>3, <2>4, <2>5, <2>6 DEF Next, FrameStep
<1>3. QueueInv <=> QueueOrder /\ HeadExecuted /\ CancelledLeaves
  BY DEF QueueInv
<1> QED BY <1>1, <1>2, <1>3, TypeCorrect, PTL DEF Spec

(* Its part about the head of a queue: removeRequestFromQueueAndProceed-   *)
(* IfFirst: executes the next actor, or another dequeue on the stack will. *)
THEOREM HeadsExecuted == Spec => []HeadExecuted
BY QueuesSafe, PTL

(* Its part about cancellation: performCancelRequest: always gets to the   *)
(* removal of the actor it cancelled, whatever the actor's cancel does.    *)
THEOREM CancelledLeave == Spec => []CancelledLeaves
BY QueuesSafe, PTL
=============================================================================
