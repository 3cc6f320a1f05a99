---------------------------- MODULE ActionStage ----------------------------
(***************************************************************************)
(* The ActionStage actor scheduler (LegacyComponents/ActionStage.mm).      *)
(*                                                                         *)
(* Clients ask for an actor by path; requests for the same path share one  *)
(* actor, actors of the same request queue run one at a time, watchers are *)
(* told when the actor completes, and an actor nobody watches is           *)
(* cancelled.  All tables are touched on one serial thread, the stage, fed *)
(* by two dispatch queues (global and high priority) that share a target.  *)
(* Client code that runs on the stage (a watcher's callback, an actor's    *)
(* execute, cancel or watcherJoined) may call back into ActionStage, and   *)
(* such calls run inline.  The stage is therefore modelled with an         *)
(* explicit call stack of frames; between two frames other threads act.    *)
(***************************************************************************)
EXTENDS Integers, FiniteSets, SequencesExt

CONSTANTS
  Handles,        \* ASHandle objects, one per watcher
  Paths,          \* actor paths
  Actors,         \* ASActor instances (an unreferenced one may be reused)
  Queues,         \* requestQueueName values
  QueueOf,        \* the queue name an actor of a path sets in prepare:
  TimedPaths,     \* paths whose actors set cancelTimeout > 0 when executed
  StopsOnCancel,  \* paths whose actors report nothing once cancelled
  Operations,     \* the client operations a model instance explores
  NoQueue, NoActor, AllPaths,
  MaxBlocks,      \* bound: client blocks waiting on a dispatch queue
  MaxDepth,       \* bound: frames on the stage's call stack
  MaxCalls        \* bound: calls one run of client code makes

ASSUME ConstantsAssumption ==
  /\ QueueOf \in [Paths -> Queues \cup {NoQueue}]
  /\ NoQueue \notin Queues
  /\ NoActor \notin Actors
  /\ Paths # {} /\ AllPaths \notin Paths
  /\ TimedPaths \subseteq Paths
  /\ StopsOnCancel \subseteq Paths
  /\ MaxBlocks \in Nat /\ MaxDepth \in Nat /\ MaxCalls \in Nat

VARIABLES
  requestQueues,        \* [Queues -> Seq(Actors)], <<>> when the key is absent
  activeRequests,       \* [Paths -> actor of the active requestInfo or NoActor]
  cancelRequestTimers,  \* [Paths -> actor of the parked requestInfo or NoActor]
  watchers,             \* [Actors -> watchers of the actor's requestInfo]
  liveNodeWatchers,     \* <<handle, path>> pairs of live node, message watchers
  path, status, cancelled,  \* per actor
  removals,             \* the two spin-locked removal lists, by kind
  dispatching,          \* removers between the unlock and the dispatch, by kind
  delegate,             \* handles whose delegate is not nil
  forgotten,            \* history: reset handles whose removal was drained
  stageQ, highQ,        \* blocks on the global and high priority queues
  stack                 \* frames of the block the stage is running

tables == <<requestQueues, activeRequests, cancelRequestTimers, watchers,
            path, status, cancelled>>
lists  == <<removals, dispatching, forgotten>>
vars   == <<tables, liveNodeWatchers, lists, delegate, stageQ, highQ, stack>>

Kinds == {"all", "path"}

-----------------------------------------------------------------------------
(* Frames: what is left to do of a block or of a call made inside it.      *)

UserFrame(n)       == [op |-> "user", calls |-> n]
CancelFrame(n)     == [op |-> "cancel", calls |-> n]
RequestFrame(h, p, join, prio) ==
  [op |-> "request", handle |-> h, path |-> p, join |-> join, prio |-> prio]
FinishFrame(a)     == [op |-> "finish", actor |-> a]
NotifyFrame(a, S)  == [op |-> "notify", actor |-> a, todo |-> S]
TellFrame(S)       == [op |-> "tell", todo |-> S]
ResourceFrame(p)   == [op |-> "resource", path |-> p]
MessageFrame(p)    == [op |-> "message", path |-> p]
WatchFrame(h, p)   == [op |-> "watch", handle |-> h, path |-> p]
DequeueFrame(a)    == [op |-> "dequeue", actor |-> a]
PriorityFrame(p)   == [op |-> "priority", path |-> p]
DrainFrame(k)      == [op |-> "drain", kind |-> k]
ItemsFrame(S)      == [op |-> "items", todo |-> S]
DetachFrame(h, p, K) == [op |-> "detach", handle |-> h, path |-> p, keys |-> K]
RemoveAllFrame(p)  == [op |-> "removeAll", path |-> p]
TimerFrame(p)      == [op |-> "timer", path |-> p]
DropTimerFrame(p)  == [op |-> "dropTimer", path |-> p]

Frame ==
       [op : {"user", "cancel"}, calls : Nat]
  \cup [op : {"request"}, handle : Handles, path : Paths,
        join : BOOLEAN, prio : BOOLEAN]
  \cup [op : {"finish", "dequeue"}, actor : Actors]
  \cup [op : {"notify"}, actor : Actors, todo : SUBSET Handles]
  \cup [op : {"tell"}, todo : SUBSET Handles]
  \cup [op : {"resource", "message", "priority", "removeAll", "timer",
              "dropTimer"}, path : Paths]
  \cup [op : {"watch"}, handle : Handles, path : Paths]
  \cup [op : {"drain"}, kind : Kinds]
  \cup [op : {"items"}, todo : SUBSET (Handles \X (Paths \cup {AllPaths}))]
  \cup [op : {"detach"}, handle : Handles, path : Paths \cup {AllPaths},
        keys : SUBSET Paths]

Top == Head(stack)
Running(op) == stack # <<>> /\ Top.op = op
Return == stack' = Tail(stack)
Become(frames) == stack' = frames \o Tail(stack)
ClientCode == UserFrame(MaxCalls)
CancelCode == CancelFrame(MaxCalls)

-----------------------------------------------------------------------------
Init ==
  /\ requestQueues = [q \in Queues |-> <<>>]
  /\ activeRequests = [p \in Paths |-> NoActor]
  /\ cancelRequestTimers = [p \in Paths |-> NoActor]
  /\ watchers = [a \in Actors |-> {}]
  /\ liveNodeWatchers = {}
  /\ path = [a \in Actors |-> CHOOSE p \in Paths : TRUE]
  /\ status = [a \in Actors |-> "idle"]
  /\ cancelled = [a \in Actors |-> FALSE]
  /\ removals = [k \in Kinds |-> {}]
  /\ dispatching = [k \in Kinds |-> 0]
  /\ delegate = Handles /\ forgotten = {}
  /\ stageQ = <<>> /\ highQ = <<>> /\ stack = <<>>

(* An instance that nothing refers to any more stands for a new one. *)
Mentions(f, a) == f.op \in {"finish", "dequeue", "notify"} /\ f.actor = a
Fresh(a) ==
  /\ status[a] \in {"idle", "done"}
  /\ \A p \in Paths : activeRequests[p] # a /\ cancelRequestTimers[p] # a
  /\ \A q \in Queues : ~Contains(requestQueues[q], a)
  /\ \A i \in DOMAIN stack : ~Mentions(stack[i], a)
  /\ \A i \in DOMAIN stageQ : ~Mentions(stageQ[i], a)

QueueName(a) == QueueOf[path[a]]

-----------------------------------------------------------------------------
(* requestActor, _requestGeneric: the block that runs on the stage.        *)

(* Mutant of Accepts: the hasDelegate check is dropped. *)
AcceptsAll(h) == TRUE

Accepts(h) == h \in delegate

RequestDead ==
  /\ Running("request")
  /\ ~Accepts(Top.handle)
  /\ Return
  /\ UNCHANGED <<tables, liveNodeWatchers, lists, delegate, stageQ, highQ>>

(* Mutant of RequestInfo: the cancel timers are not looked at. *)
IgnoresTimers(p) == activeRequests[p]

RequestInfo(p) == IF cancelRequestTimers[p] # NoActor
                  THEN cancelRequestTimers[p] ELSE activeRequests[p]

RequestJoinOnly ==
  /\ Running("request")
  /\ Accepts(Top.handle)
  /\ Top.join /\ RequestInfo(Top.path) = NoActor
  /\ Return
  /\ UNCHANGED <<tables, liveNodeWatchers, lists, delegate, stageQ, highQ>>

(* Mutant of Enqueued: a new actor goes before the executing one. *)
EnqueuedFirst(s, a, prio) == InsertAt(s, 1, a)

(* Where a new actor goes in its queue s. *)
Enqueued(s, a, prio) ==
  IF prio /\ Len(s) > 1 THEN InsertAt(s, 2, a) ELSE Append(s, a)

ExecuteNow(q) == q = NoQueue \/ requestQueues[q] = <<>>

RequestNew(a) ==
  /\ Running("request")
  /\ Accepts(Top.handle)
  /\ ~Top.join /\ RequestInfo(Top.path) = NoActor
  /\ Fresh(a)
  /\ LET p == Top.path
         q == QueueOf[p]
     IN /\ activeRequests' = [activeRequests EXCEPT ![p] = a]
        /\ watchers' = [watchers EXCEPT ![a] = {Top.handle}]
        /\ path' = [path EXCEPT ![a] = p]
        /\ cancelled' = [cancelled EXCEPT ![a] = FALSE]
        /\ status' = [status EXCEPT ![a] =
                        IF ExecuteNow(q) THEN "running" ELSE "waiting"]
        /\ requestQueues' =
             IF q = NoQueue THEN requestQueues
             ELSE [requestQueues EXCEPT ![q] = Enqueued(@, a, Top.prio)]
        /\ IF ExecuteNow(q) THEN Become(<<ClientCode>>) ELSE Return
  /\ UNCHANGED <<cancelRequestTimers, liveNodeWatchers, lists, delegate,
                 stageQ, highQ>>

RequestJoin ==
  /\ Running("request")
  /\ Accepts(Top.handle)
  /\ LET p == Top.path
         a == RequestInfo(p)
     IN /\ a # NoActor
        /\ activeRequests' = [activeRequests EXCEPT ![p] = a]
        /\ cancelRequestTimers' = [cancelRequestTimers EXCEPT ![p] = NoActor]
        /\ watchers' = [watchers EXCEPT ![a] = @ \cup {Top.handle}]
        /\ Become(IF Top.prio THEN <<ClientCode, PriorityFrame(p)>>
                              ELSE <<ClientCode>>)
  /\ UNCHANGED <<requestQueues, path, status, cancelled, liveNodeWatchers,
                 lists, delegate, stageQ, highQ>>

(* changeActorPriority: an actor waiting behind the second place moves there. *)
MovedToSecond(s, i) == InsertAt(RemoveAt(s, i), 2, s[i])

ChangeActorPriority ==
  /\ Running("priority")
  /\ LET a == activeRequests[Top.path]
         moves(q, i) == a # NoActor /\ QueueName(a) = q /\ i > 2
                        /\ requestQueues[q][i] = a
     IN \/ \E q \in Queues : \E i \in DOMAIN requestQueues[q] :
             /\ moves(q, i)
             /\ requestQueues' = [requestQueues EXCEPT ![q] =
                                    MovedToSecond(@, i)]
        \/ /\ \A q \in Queues : \A i \in DOMAIN requestQueues[q] : ~moves(q, i)
           /\ UNCHANGED requestQueues
  /\ Return
  /\ UNCHANGED <<activeRequests, cancelRequestTimers, watchers, path, status,
                 cancelled, liveNodeWatchers, lists, delegate, stageQ, highQ>>

-----------------------------------------------------------------------------
(* actionCompleted and actionFailed.  The actor reports by path: whatever  *)
(* actor is active under that path is the one that is completed.           *)

(* Mutant of Withdrawn: actors complete although they were cancelled. *)
NeverWithdrawn(a) == FALSE

(* An actor that tests self.cancelled before it reports.  TGFileUploadActor *)
(* does so when it succeeds, but not when a part fails (569-572): what is   *)
(* said of StopsOnCancel is true of it as long as no part fails.            *)
Withdrawn(a) == cancelled[a] /\ path[a] \in StopsOnCancel

ActionCompleted ==
  /\ Running("finish")
  /\ LET p == path[Top.actor]
         a == activeRequests[p]
     IN IF Withdrawn(Top.actor) \/ a = NoActor
        THEN Return /\ UNCHANGED activeRequests
        ELSE /\ activeRequests' = [activeRequests EXCEPT ![p] = NoActor]
             /\ Become(<<NotifyFrame(a, watchers[a])>>)
  /\ UNCHANGED <<requestQueues, cancelRequestTimers, watchers, path, status,
                 cancelled, liveNodeWatchers, lists, delegate, stageQ, highQ>>

(* Calls back handle h if it still has a delegate, then goes on with rest. *)
CallBack(h, rest) ==
  Become(IF h \in delegate THEN <<ClientCode, rest>> ELSE <<rest>>)

NotifyWatcher ==
  /\ Running("notify")
  /\ \E h \in Top.todo : CallBack(h, NotifyFrame(Top.actor, Top.todo \ {h}))
  /\ UNCHANGED <<tables, liveNodeWatchers, lists, delegate, stageQ, highQ>>

NotifyDone ==
  /\ Running("notify") /\ Top.todo = {}
  /\ watchers' = [watchers EXCEPT ![Top.actor] = {}]
  /\ Become(<<DequeueFrame(Top.actor)>>)
  /\ UNCHANGED <<requestQueues, activeRequests, cancelRequestTimers, path,
                 status, cancelled, liveNodeWatchers, lists, delegate,
                 stageQ, highQ>>

(* removeRequestFromQueueAndProceedIfFirst *)
NotQueued(a) ==
  QueueName(a) # NoQueue => ~Contains(requestQueues[QueueName(a)], a)

DequeueMissing ==
  /\ Running("dequeue")
  /\ NotQueued(Top.actor)
  /\ Return
  /\ UNCHANGED <<tables, liveNodeWatchers, lists, delegate, stageQ, highQ>>

Retired(a) == IF status[a] = "waiting" THEN "done" ELSE status[a]

(* Mutant of Proceeds: off by one. *)
ProceedsLate(s) == Len(s) > 2 /\ ~cancelled[s[2]]

(* The first of s leaves; the next one is executed unless it is cancelled. *)
Proceeds(s) == Len(s) > 1 /\ ~cancelled[s[2]]

DequeueFirst ==
  /\ Running("dequeue")
  /\ LET a == Top.actor
         q == QueueName(a)
         s == requestQueues[q]
     IN /\ ~NotQueued(a) /\ s[1] = a
        /\ requestQueues' = [requestQueues EXCEPT ![q] = Tail(@)]
        /\ status' = IF Proceeds(s)
                     THEN [status EXCEPT ![a] = Retired(a), ![s[2]] = "running"]
                     ELSE [status EXCEPT ![a] = Retired(a)]
        /\ IF Proceeds(s) THEN Become(<<ClientCode>>) ELSE Return
  /\ UNCHANGED <<activeRequests, cancelRequestTimers, watchers, path,
                 cancelled, liveNodeWatchers, lists, delegate, stageQ, highQ>>

DequeueOther ==
  /\ Running("dequeue")
  /\ LET a == Top.actor
         q == QueueName(a)
     IN /\ ~NotQueued(a)
        /\ \E i \in DOMAIN requestQueues[q] :
             /\ i > 1 /\ requestQueues[q][i] = a
             /\ requestQueues' = [requestQueues EXCEPT ![q] = RemoveAt(@, i)]
        /\ requestQueues[q][1] # a
        /\ status' = [status EXCEPT ![a] = Retired(a)]
  /\ Return
  /\ UNCHANGED <<activeRequests, cancelRequestTimers, watchers, path,
                 cancelled, liveNodeWatchers, lists, delegate, stageQ, highQ>>

-----------------------------------------------------------------------------
(* Mutants of CancelFrames: cancel without dequeue, and with two. *)
CancelOnly(a) == <<CancelCode>>
CancelTwice(a) == <<CancelCode, DequeueFrame(a), DequeueFrame(a)>>

(* cancel, then removeRequestFromQueueAndProceedIfFirst *)
CancelFrames(a) == <<CancelCode, DequeueFrame(a)>>

(* scheduleCancelRequest, for a request whose watchers are now ws.  The    *)
(* timeout is set by execute, so an actor still waiting has none.          *)

HasTimeout(a) == path[a] \in TimedPaths /\ status[a] # "waiting"

NeedsCancel(p, ws) == ws = {} /\ cancelRequestTimers[p] = NoActor

ScheduleCancel(p, ws, rest) ==
  LET a == activeRequests[p] IN
  /\ watchers' = [watchers EXCEPT ![a] = ws]
  /\ IF ~NeedsCancel(p, ws)
     THEN /\ stack' = rest
          /\ UNCHANGED <<activeRequests, cancelRequestTimers, cancelled>>
     ELSE /\ activeRequests' = [activeRequests EXCEPT ![p] = NoActor]
          /\ IF HasTimeout(a)
             THEN /\ cancelRequestTimers' =
                       [cancelRequestTimers EXCEPT ![p] = a]
                  /\ stack' = rest
                  /\ UNCHANGED cancelled
             ELSE /\ cancelled' = [cancelled EXCEPT ![a] = TRUE]
                  /\ stack' = CancelFrames(a) \o rest
                  /\ UNCHANGED cancelRequestTimers

(* performCancelRequest: the timer's block *)
PerformCancelRequest ==
  /\ Running("timer")
  /\ LET a == cancelRequestTimers[Top.path]
     IN IF a = NoActor
        THEN Return /\ UNCHANGED cancelled
        ELSE /\ cancelled' = [cancelled EXCEPT ![a] = TRUE]
             /\ Become(CancelFrames(a) \o <<DropTimerFrame(Top.path)>>)
  /\ UNCHANGED <<requestQueues, activeRequests, cancelRequestTimers, watchers,
                 path, status, liveNodeWatchers, lists, delegate, stageQ, highQ>>

DropTimer ==
  /\ Running("dropTimer")
  /\ cancelRequestTimers' = [cancelRequestTimers EXCEPT ![Top.path] = NoActor]
  /\ Return
  /\ UNCHANGED <<requestQueues, activeRequests, watchers, path, status,
                 cancelled, liveNodeWatchers, lists, delegate, stageQ, highQ>>

-----------------------------------------------------------------------------
(* removeWatcherByHandle, removeWatcherByHandle:fromPath: the drain block  *)
(* takes the whole list, then detaches each handle from the requests it    *)
(* watches (every key, or one path) and from the live watchers.            *)

Drain ==
  /\ Running("drain")
  /\ Become(<<ItemsFrame(removals[Top.kind])>>)
  /\ removals' = [removals EXCEPT ![Top.kind] = {}]
  /\ UNCHANGED <<tables, liveNodeWatchers, dispatching, forgotten, delegate,
                 stageQ, highQ>>

KeysToDetach(scope) ==
  {p \in Paths : activeRequests[p] # NoActor /\ scope \in {p, AllPaths}}

NextItem ==
  /\ Running("items") /\ Top.todo # {}
  /\ \E x \in Top.todo :
       /\ Become(<<DetachFrame(x[1], x[2], KeysToDetach(x[2])),
                   ItemsFrame(Top.todo \ {x})>>)
       /\ forgotten' = IF x[2] = AllPaths /\ x[1] \notin delegate
                       THEN forgotten \cup {x[1]} ELSE forgotten
  /\ UNCHANGED <<tables, liveNodeWatchers, removals, dispatching, delegate,
                 stageQ, highQ>>

ItemsDone ==
  /\ Running("items") /\ Top.todo = {}
  /\ Return
  /\ UNCHANGED <<tables, liveNodeWatchers, lists, delegate, stageQ, highQ>>

DetachKey ==
  /\ Running("detach")
  /\ \E p \in Top.keys :
       LET a == activeRequests[p]
           rest == <<DetachFrame(Top.handle, Top.path, Top.keys \ {p})>>
                     \o Tail(stack)
       IN IF a = NoActor
          THEN stack' = rest /\ UNCHANGED tables
          ELSE /\ ScheduleCancel(p, watchers[a] \ {Top.handle}, rest)
               /\ UNCHANGED <<requestQueues, path, status>>
  /\ UNCHANGED <<liveNodeWatchers, lists, delegate, stageQ, highQ>>

DetachLive ==
  /\ Running("detach") /\ Top.keys = {}
  /\ liveNodeWatchers' =
       {x \in liveNodeWatchers : ~(x[1] = Top.handle
                                   /\ Top.path \in {x[2], AllPaths})}
  /\ Return
  /\ UNCHANGED <<tables, lists, delegate, stageQ, highQ>>

(* removeAllWatchersFromPath *)
RemoveAllWatchersFromPath ==
  /\ Running("removeAll")
  /\ IF activeRequests[Top.path] = NoActor
     THEN Return /\ UNCHANGED tables
     ELSE /\ ScheduleCancel(Top.path, {}, Tail(stack))
          /\ UNCHANGED <<requestQueues, path, status>>
  /\ UNCHANGED <<liveNodeWatchers, lists, delegate, stageQ, highQ>>

-----------------------------------------------------------------------------
(* watchForPath and its variants; dispatchResource, and                    *)
(* dispatchMessageToWatchers, which tells the request's watchers first.    *)

WatchForPath ==
  /\ Running("watch")
  /\ liveNodeWatchers' = liveNodeWatchers \cup {<<Top.handle, Top.path>>}
  /\ Return
  /\ UNCHANGED <<tables, lists, delegate, stageQ, highQ>>

(* A path here is its own generic path, so only the first loop of           *)
(* dispatchResource is there, which enumerates a copy of the watchers.      *)
(* nodeRetrieveProgress and the loop for the generic path enumerate the     *)
(* array itself, which no callback may change; they are left out.           *)
DispatchResource ==
  /\ Running("resource")
  /\ Become(<<TellFrame({h \in Handles : <<h, Top.path>> \in liveNodeWatchers})>>)
  /\ UNCHANGED <<tables, liveNodeWatchers, lists, delegate, stageQ, highQ>>

DispatchMessage ==
  /\ Running("message")
  /\ LET a == activeRequests[Top.path] IN
       Become(IF a = NoActor THEN <<ResourceFrame(Top.path)>>
              ELSE <<TellFrame(watchers[a]), ResourceFrame(Top.path)>>)
  /\ UNCHANGED <<tables, liveNodeWatchers, lists, delegate, stageQ, highQ>>

TellWatcher ==
  /\ Running("tell")
  /\ \/ Top.todo = {} /\ Return
     \/ \E h \in Top.todo : CallBack(h, TellFrame(Top.todo \ {h}))
  /\ UNCHANGED <<tables, liveNodeWatchers, lists, delegate, stageQ, highQ>>

-----------------------------------------------------------------------------
(* Client code.  On the stage a call runs inline, as a frame above the     *)
(* caller's; on any other thread it becomes a block on a dispatch queue.   *)

Offers(op) == op \in Operations

(* Bound: a request is made only while an instance is left for every       *)
(* request that may need one.                                              *)
IsRequest(f) == f.op = "request"
InstanceLeft ==
    Cardinality({i \in DOMAIN stack : IsRequest(stack[i])})
  + Cardinality({i \in DOMAIN stageQ : IsRequest(stageQ[i])})
  < Cardinality({a \in Actors : Fresh(a)})

ClientBlocks ==
       {f \in {RequestFrame(h, p, j, prio) :
                 h \in delegate, p \in Paths, j, prio \in BOOLEAN} :
          /\ Offers("request") /\ InstanceLeft
          /\ f.prio => Offers("priority")
          /\ f.join => Offers("join")}
  \cup {f \in {WatchFrame(h, p) : h \in delegate, p \in Paths} :
          Offers("watch")}
  \cup {f \in {ResourceFrame(p) : p \in Paths} \cup
               {MessageFrame(p) : p \in Paths} : Offers("watch")}

RemovalItems(k) ==
  IF k = "all" THEN IF Offers("remove") THEN Handles \X {AllPaths} ELSE {}
  ELSE IF Offers("removeFromPath") THEN Handles \X Paths ELSE {}

InlineCall(f) ==
  /\ Top.calls > 0 /\ Len(stack) < MaxDepth
  /\ Become(<<f, [Top EXCEPT !.calls = @ - 1]>>)
  /\ UNCHANGED <<stageQ, highQ>>

UserReturns ==
  /\ Running("user") \/ Running("cancel")
  /\ Return
  /\ UNCHANGED <<tables, liveNodeWatchers, lists, delegate, stageQ, highQ>>

UserCalls ==
  /\ Offers("reenter") /\ Running("user")
  /\ \E f \in ClientBlocks \cup {RemoveAllFrame(p) : p \in
                IF Offers("removeAll") THEN Paths ELSE {}} : InlineCall(f)
  /\ UNCHANGED <<tables, liveNodeWatchers, lists, delegate>>

(* A call to removeWatcher on the stage drains at once, whatever thread    *)
(* filled the list.  It is the call that cancel makes, for the actors that *)
(* the cancelled actor itself was watching.                                *)
UserRemoves ==
  /\ Offers("reenter") /\ (Running("user") \/ Running("cancel"))
  /\ \E k \in Kinds : \E x \in RemovalItems(k) :
       /\ InlineCall(DrainFrame(k))
       /\ removals' = [removals EXCEPT ![k] = @ \cup {x}]
  /\ UNCHANGED <<tables, liveNodeWatchers, dispatching, forgotten, delegate>>

(* An executing actor finishes, on the stage or on a thread of its own. *)
UserFinishes ==
  /\ Running("user")
  /\ \E a \in Actors :
       /\ status[a] = "running"
       /\ InlineCall(FinishFrame(a))
       /\ status' = [status EXCEPT ![a] = "done"]
  /\ UNCHANGED <<requestQueues, activeRequests, cancelRequestTimers, watchers,
                 path, cancelled, liveNodeWatchers, lists, delegate>>

ActorFinishes(a) ==
  /\ status[a] = "running"
  /\ status' = [status EXCEPT ![a] = "done"]
  /\ stageQ' = Append(stageQ, FinishFrame(a))
  /\ UNCHANGED <<requestQueues, activeRequests, cancelRequestTimers, watchers,
                 path, cancelled, liveNodeWatchers, lists, delegate, highQ, stack>>

ClientPosts ==
  /\ Len(stageQ) < MaxBlocks
  /\ \E f \in ClientBlocks : stageQ' = Append(stageQ, f)
  /\ UNCHANGED <<tables, liveNodeWatchers, lists, delegate, highQ, stack>>

ClientRemovesAll ==
  /\ Offers("removeAll") /\ Len(highQ) < MaxBlocks
  /\ \E p \in Paths : highQ' = Append(highQ, RemoveAllFrame(p))
  /\ UNCHANGED <<tables, liveNodeWatchers, lists, delegate, stageQ, stack>>

(* removeWatcherByHandle off the stage: the push under the lock, then, by  *)
(* the caller that found the list empty, the dispatch of the drain block.  *)
(* Mutant of MustDispatch: the test is the wrong way round. *)
DispatchesWhenBusy(k) == removals[k] # {}

MustDispatch(k) == removals[k] = {}

ClientRemoves(k) ==
  /\ dispatching[k] + Len(highQ) < MaxBlocks
  /\ \E x \in RemovalItems(k) :
       removals' = [removals EXCEPT ![k] = @ \cup {x}]
  /\ dispatching' = IF MustDispatch(k)
                    THEN [dispatching EXCEPT ![k] = @ + 1] ELSE dispatching
  /\ UNCHANGED <<tables, liveNodeWatchers, forgotten, delegate, stageQ, highQ,
                 stack>>

(* Mutant of DispatchDrain: every remover dispatches. *)
DispatchAlways(k) ==
  /\ Len(highQ) < MaxBlocks
  /\ dispatching' = [dispatching EXCEPT ![k] = @ - 1]
  /\ highQ' = Append(highQ, DrainFrame(k))
  /\ UNCHANGED <<tables, liveNodeWatchers, removals, forgotten, delegate,
                 stageQ, stack>>

DispatchDrain(k) ==
  /\ dispatching[k] > 0
  /\ dispatching' = [dispatching EXCEPT ![k] = @ - 1]
  /\ highQ' = Append(highQ, DrainFrame(k))
  /\ UNCHANGED <<tables, liveNodeWatchers, removals, forgotten, delegate,
                 stageQ, stack>>

(* ASHandle reset, by the watcher's owner on any thread *)
Reset(h) ==
  /\ Offers("reset")
  /\ h \in delegate
  /\ delegate' = delegate \ {h}
  /\ UNCHANGED <<tables, liveNodeWatchers, lists, stageQ, highQ, stack>>

-----------------------------------------------------------------------------
(* The serial target queue takes a block of either queue when it is idle,  *)
(* or the block of an expired cancel timer.                                *)

RunStageBlock ==
  /\ stack = <<>> /\ stageQ # <<>>
  /\ stack' = <<Head(stageQ)>> /\ stageQ' = Tail(stageQ)
  /\ UNCHANGED <<tables, liveNodeWatchers, lists, delegate, highQ>>

RunHighPriorityBlock ==
  /\ stack = <<>> /\ highQ # <<>>
  /\ stack' = <<Head(highQ)>> /\ highQ' = Tail(highQ)
  /\ UNCHANGED <<tables, liveNodeWatchers, lists, delegate, stageQ>>

TimerFires(p) ==
  /\ stack = <<>> /\ cancelRequestTimers[p] # NoActor
  /\ stack' = <<TimerFrame(p)>>
  /\ UNCHANGED <<tables, liveNodeWatchers, lists, delegate, stageQ, highQ>>

RequestStep == \/ RequestDead \/ RequestJoinOnly \/ RequestJoin
               \/ \E a \in Actors : RequestNew(a)
               \/ ChangeActorPriority
FinishStep  == \/ ActionCompleted \/ NotifyWatcher \/ NotifyDone
               \/ DequeueMissing \/ DequeueFirst \/ DequeueOther
CancelStep  == \/ PerformCancelRequest \/ DropTimer \/ Drain \/ NextItem
               \/ ItemsDone
               \/ DetachKey \/ DetachLive \/ RemoveAllWatchersFromPath
WatchStep   == \/ WatchForPath \/ DispatchResource \/ DispatchMessage
               \/ TellWatcher
UserStep    == \/ UserReturns \/ UserCalls \/ UserRemoves \/ UserFinishes
FrameStep   == \/ RequestStep \/ FinishStep \/ CancelStep \/ WatchStep
               \/ UserStep
ClientStep  == \/ ClientPosts \/ ClientRemovesAll
               \/ \E k \in Kinds : ClientRemoves(k) \/ DispatchDrain(k)
               \/ \E h \in Handles : Reset(h)
               \/ \E a \in Actors : ActorFinishes(a)
QueueStep   == \/ RunStageBlock \/ RunHighPriorityBlock
               \/ \E p \in Paths : TimerFires(p)

Next == FrameStep \/ ClientStep \/ QueueStep

Spec == Init /\ [][Next]_vars

(* The stage runs its frames; libdispatch serves both queues; a remover    *)
(* that took the lock dispatches; an executing actor finishes.             *)
Fairness ==
  /\ WF_vars(FrameStep)
  /\ SF_vars(RunStageBlock) /\ SF_vars(RunHighPriorityBlock)
  /\ \A p \in Paths : SF_vars(TimerFires(p))
  /\ \A k \in Kinds : WF_vars(DispatchDrain(k))
  /\ \A a \in Actors : WF_vars(ActorFinishes(a))

FairSpec == Spec /\ Fairness

-----------------------------------------------------------------------------
(* Every table, queue, list and frame holds what the code puts there. *)
TypeOK ==
  /\ requestQueues \in [Queues -> Seq(Actors)]
  /\ activeRequests \in [Paths -> Actors \cup {NoActor}]
  /\ cancelRequestTimers \in [Paths -> Actors \cup {NoActor}]
  /\ watchers \in [Actors -> SUBSET Handles]
  /\ liveNodeWatchers \subseteq Handles \X Paths
  /\ path \in [Actors -> Paths]
  /\ status \in [Actors -> {"idle", "waiting", "running", "done"}]
  /\ cancelled \in [Actors -> BOOLEAN]
  /\ removals \in [Kinds -> SUBSET (Handles \X (Paths \cup {AllPaths}))]
  /\ dispatching \in [Kinds -> Nat]
  /\ delegate \subseteq Handles /\ forgotten \subseteq Handles
  /\ stageQ \in Seq(Frame) /\ highQ \in Seq(Frame) /\ stack \in Seq(Frame)

OnStack(f) == Contains(stack, f)
DequeuePending(a) == OnStack(DequeueFrame(a))

(* A request queue lists each of its actors once, only its first actor has *)
(* been executed, and an actor is waiting only while it is listed.         *)
QueueOrder ==
  /\ \A q \in Queues : \A i \in DOMAIN requestQueues[q] :
       LET a == requestQueues[q][i] IN
       /\ QueueName(a) = q /\ status[a] # "idle"
       /\ i > 1 => status[a] = "waiting"
       /\ \A j \in DOMAIN requestQueues[q] : requestQueues[q][j] = a => i = j
  /\ \A a \in Actors : status[a] = "waiting" => ~NotQueued(a)

(* The first actor of a queue is never left unexecuted: it has been        *)
(* executed, or it was cancelled and the call that dequeues it (and then   *)
(* executes the next one) is still on the stage's stack.                   *)
HeadExecuted ==
  \A q \in Queues : LET s == requestQueues[q] IN
    s # <<>> /\ status[s[1]] = "waiting" =>
      cancelled[s[1]] /\ DequeuePending(s[1])

(* A cancelled actor leaves its queue with the cancellation: nothing       *)
(* cancelled is still queued once the stage is idle.                       *)
CancelledLeaves ==
  \A q \in Queues : \A i \in DOMAIN requestQueues[q] :
    LET a == requestQueues[q][i] IN cancelled[a] => DequeuePending(a)

(* An executing actor of a queue whose actors all honour their cancellation*)
(* is the first of its queue: two actors of such a queue never run at once.*)
Cooperative(q) ==
  \A p \in Paths : QueueOf[p] = q => p \in StopsOnCancel \ TimedPaths
Exclusive ==
  \A a \in Actors : LET q == QueueName(a) IN
    /\ status[a] = "running" /\ ~cancelled[a]
    /\ q # NoQueue /\ Cooperative(q)
    => requestQueues[q] # <<>> /\ requestQueues[q][1] = a

(* The actor of an active request is a live instance for that path, is     *)
(* watched by somebody, and is not also parked behind a cancel timer.      *)
ActiveIsWatched ==
  \A p \in Paths : LET a == activeRequests[p] IN
    a # NoActor => /\ path[a] = p /\ status[a] # "idle" /\ watchers[a] # {}
                   /\ cancelRequestTimers[p] = NoActor
                   /\ p \notin TimedPaths => ~cancelled[a]

(* An actor that keeps a place in a queue is active, or the call that will *)
(* take it out is under way: no request blocks its queue after it is gone. *)
QueuedIsOwned ==
  \A q \in Queues : \A i \in DOMAIN requestQueues[q] :
    LET a == requestQueues[q][i] IN
    path[a] \notin TimedPaths =>
      \/ activeRequests[path[a]] = a
      \/ DequeuePending(a)
      \/ \E S \in SUBSET Handles : OnStack(NotifyFrame(a, S))

(* A removal left on a list always has a drain on its way, although all    *)
(* but the first remover rely on a drain somebody else dispatches.         *)
NoLostRemoval ==
  \A k \in Kinds : removals[k] # {} =>
    \/ dispatching[k] > 0
    \/ \E i \in DOMAIN highQ : highQ[i] = DrainFrame(k)
    \/ OnStack(DrainFrame(k))

(* What the warnings of removeRequestFromQueueAndProceedIfFirst say:       *)
(* "requestQueue is nil" and "request queue doesn't contain request" are   *)
(* never met: an actor being dequeued is in its queue, and leaves it once. *)
(* It is not so for actors with a cancel timeout.                          *)
DequeuedIsQueued ==
  Running("dequeue") /\ path[Top.actor] \notin TimedPaths
    /\ QueueName(Top.actor) # NoQueue => ~NotQueued(Top.actor)

Watching(h, p) == activeRequests[p] # NoActor /\ h \in watchers[activeRequests[p]]

Detaching(h) ==
  \E i \in DOMAIN stack : stack[i].op = "detach" /\ stack[i].handle = h

(* Once the removal of a watcher that has reset its handle is drained, the *)
(* handle is in no request's watchers again, although requests it made     *)
(* before may still be waiting on the slower queue.                        *)
ForgottenStays ==
  \A h \in forgotten : ~Detaching(h) => \A p \in Paths : ~Watching(h, p)

(* Whoever watches a request is told of its end or leaves: the queue keeps *)
(* moving, so no request waits for ever.                                   *)
RequestSettles ==
  \A h \in Handles, p \in Paths \ TimedPaths : Watching(h, p) ~> ~Watching(h, p)

=============================================================================
