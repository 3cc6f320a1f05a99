# TLA+ models of Bettergram for iOS

Bettergram is a Telegram client. Its interface is large, and its correctness
lies in a few machines underneath: a scheduler that every request of the client
goes through, queues that must survive crashes and refused requests, protocols
that must keep two devices in step, and the voice library with its four threads.
This directory models those machines, checks the models with TLC and proves
with TLAPS, for every value of the constants, most of the invariants TLC checks.

    tlc -workers 2 -config ActionStageQueues.cfg MCActionStage
    tlc -workers 2 -config SecretChatFaults.cfg MCSecretChat
    tlc -workers 2 -config PacketLayer.cfg MCPacketLayer
    tlapm ActionStageProofs.tla
    tlapm ActionStageOwnership.tla
    tlapm PacketLayerProofs.tla
    tlapm SecretChatProofs.tla

`PROJECT.json` lists the components, the runs, which lines of the source each
definition stands for, the hazards, the findings and the theorems.

## Inventory

Paths are below `src/`.

| Component | State | Operations | What is hard | What makes it correct |
|---|---|---|---|---|
| ActionStage scheduler (`submodules/LegacyComponents`: `ActionStage.mm`, `ASActor.m`, `ASHandle.m`) | request queues, active requests, watchers, cancel timers, spin-locked removal lists | request an actor by path, join, complete, fail, cancel, remove watchers, watch, dispatch resources and messages | client code re-enters it inline; other threads remove watchers; a high-priority queue overtakes the ordinary one; cancel timers | one actor at a time per queue, in order; an actor lives while it is watched; no removal is lost; every request ends |
| Secret chat queues (`Telegraph/TGSecretOutgoingQueueActor.m`, `TGSecretIncomingQueueActor.mm`, `TGModernSendSecretMessageActor.mm`) | three tables, two sequence numbers, ids of executing requests, actors that wait | enqueue, poll, send, complete, fail, receive, process, ask again, send again, confirm | stale snapshots, crashes between two queries, refused requests, two devices | rows are kept until processed; messages are shown once and in order; what is marked delivered was shown; everything is processed in the end |
| Secret chat key exchange (`Telegraph/TGRequestEncryptedChatActor.m`, `TGEncryptedChatResponseActor.m`, `TGModernSendSecretMessageActor.mm`) | keys with the numbers they are valid for, a pending exchange | request, accept, commit, abort, discard old keys | crossing exchanges, loss of the commit | both ends agree on the key of every number; a key is not dropped while needed |
| Message database (`legacy/TelegraphKit/TGDatabase.mm`) | SQL tables on one serial thread | transactions | a crash between two queries | see its users |
| Update state and gaps (`Telegraph/TGUpdateStateRequestBuilder.mm`, `TGApplyUpdatesActor.mm`) | pts, qts, seq, date, updates held back | apply, hold back, time out, fetch the difference | updates out of order, timers racing late updates | pts never passes an update that was not applied |
| Channel state (`Telegraph/TGChannelStateSignals.m`) | pts by channel | poll, apply, validate | two sources of updates | as above, by channel |
| Queued and service actions (`Telegraph/TGSynchronizeActionQueueActor.mm`, `TGSynchronizeServiceActionsActor.mm`) | persisted actions | store, execute, retry, delete | an action replaced while it executes | the last action of a user reaches the server |
| Calls (`Telegraph/TGCallManager.m`, `TGCallSession.mm`, `TGCallContext.m`, `TGCallSignals.m`) | one state per call | request, accept, confirm, discard, time out | user, server and voice controller act at once | both ends agree that the call is on, or it ends |
| Voice: jitter buffer (`submodules/libtgvoip`: `JitterBuffer.cpp`, with the decoder in `OpusDecoder.cpp`) | slots, a buffer pool, the playhead, the delay and its adaptation | put, get, tick, reset | frames late, repeated and out of order; two calls per missing frame; a full buffer | no buffer is leaked; frames are played in order; a copy never displaces its frame |
| Voice: send queue and threads (`VoIPController.cpp`, `BlockingQueue.h`, `Buffers.cpp`) | a buffer pool, a queue that aborts when full, a semaphore, the threads | produce, send, stop | three producers, one consumer, Stop at any time | no overflow, no leak, first in first out, Stop returns |
| Voice: packets and acknowledgements (`VoIPController.cpp`) | numbers, receive window, masks, reliable packets, extras | make, write header, receive, retry, give up | loss, repetition, reordering; window and header without a lock | what counts as acknowledged arrived; nothing is processed twice |
| Voice: congestion control (`CongestionControl.cpp`) | packets in flight, RTT history | sent, acknowledged, tick | an acknowledgement racing the timeout; a full table | each packet is settled, and once |
| Voice: call state and endpoints (`VoIPController.cpp`) | call state, endpoints, transports, UDP probing | connect, tick steps, packets, network change | three threads, fallbacks, a network that changes | the endpoint in use exists; a call always has a transport; what failed stays failed |
| Voice: rate control, reassembly, audio, group calls, sockets | | | | not modelled, see below |
| Media box (`Telegraph/MediaBox.m`), file transfer (`TGMultipartFileDownloadActor.m`, `TGFileUploadActor.mm`) | fetch contexts, part windows | subscribe, fetch, complete, cancel, resume | subscribers that come and go; restart with a partly written file | a file marked complete has every part |
| Live location, datacenter watchdog, audio session, caches, prices and feed | small | timers and lists | little | not modelled |

How they interact: everything except the voice library and the media box runs
as an actor on the stage and reads and writes through the database thread. An
actor hears of the completion of another one through watchers, and the network
layer answers on its own thread and posts a block to the stage. So the stage's
order of blocks and the database thread's order of queries are the two sources
of interleaving within a client, and the models have both: `ActionStage` models
the stage itself, `SecretChat` uses a stage and a database thread as two serial
queues per client. The voice library has threads of its own: audio, tick and
receive threads make packets, a send thread writes and sends them, a decoder
thread plays. `SendQueue` models the threads and what is between them;
`PacketLayer` takes from it that a number is drawn before a packet is sent, in
any order; `CongestionControl` takes from `PacketLayer` that acknowledgements
come late, repeated and wrong; `CallEndpoints` decides which packets can arrive
at all; `JitterBuffer` takes what arrives, in any order.

The hazards found in the survey are in `PROJECT.json`, each at its line, with
the properties that would catch it.

## Plan

Done, in this order: `ActionStage` with `ActionStageProofs`; `SecretChat`;
`JitterBuffer`; `SendQueue` with `Outbox`, the promise it is shown to keep;
`PacketLayer`; `CongestionControl`; `CallEndpoints`; then a module of proofs for
each of them: `CallEndpointsProofs`, `SendQueueProofs` (with the safety part of
the refinement), `JitterBufferProofs`, `PacketLayerProofs`,
`CongestionControlProofs`, `SecretChatProofs`; last `ActionStageOwnership`, the
invariants of `ActionStage` about who holds an actor and about removals, on top
of `ActionStageProofs`. In the end `SecretChatProofs`, `PacketLayerProofs` and
`CongestionControlProofs` were extended, so that a theorem speaks of every
invariant the runs check. Two of the properties are proved under a condition,
`ShownInOrder` and `DeliveredIsShown`, because the proof does not reach further.

Still worth a module: the secret chats' key exchange, the update state with its
gaps (pts, qts, seq, timers, the difference), the persisted action queue, the
call state machine of `TGCallSession`, file transfer with the media box.

## ActionStage

### The model

One serial thread, the stage, runs blocks from two dispatch queues (`stageQ`,
`highQ`). The tables are `requestQueues`, `activeRequests`,
`cancelRequestTimers`, `watchers` and `liveNodeWatchers`, under the names they
have in the code. Client code that runs on the stage (a watcher's callback, an
actor's `execute:`, `cancel` or `watcherJoined:`) may call the scheduler again,
and such calls run inline; this is what makes the code hard, so the stage has an
explicit call stack, `stack`, of frames, each with what is left to do of one
function. `UserFrame` and `CancelFrame` are client code. Between two frames
other threads act: they post blocks, append to the removal lists under the spin
lock (`removals`), dispatch the drain they became responsible for
(`dispatching`), and reset handles (`delegate`).

| Action | Code in `ActionStage.mm` |
|---|---|
| `RequestDead`, `RequestJoinOnly`, `RequestJoin`, `RequestNew` | `_requestGeneric:` and its branches |
| `ChangeActorPriority` | `changeActorPriority:` |
| `ActionCompleted`, `NotifyWatcher`, `NotifyDone` | `actionCompleted:`, `actionFailed:` |
| `DequeueMissing`, `DequeueFirst`, `DequeueOther` | `removeRequestFromQueueAndProceedIfFirst:` |
| `ScheduleCancel`, `PerformCancelRequest`, `DropTimer`, `TimerFires` | `scheduleCancelRequest:`, `performCancelRequest:` |
| `ClientRemoves`, `DispatchDrain`, `Drain`, `NextItem`, `DetachKey`, `DetachLive` | `removeWatcherByHandle:` and `...fromPath:` and the drains |
| `RemoveAllWatchersFromPath`, `WatchForPath`, `DispatchResource`, `DispatchMessage` | the functions of these names |
| `Reset` | `ASHandle reset` |

An actor instance that nothing refers to any more stands for a new one
(`Fresh`), so a small set of actors gives unbounded behaviours. Live, generic
and message watchers are one table. A path is its own generic path, so of the
loops that notify watchers `DispatchResource` models the first, which goes over
a copy of the array; the loop for the generic path goes over the live array, and
a watcher that comes or goes in one of its callbacks changes an array that is
being enumerated, which the model does not have. Left out besides:
`cancelActorTimeout:` (it has no caller), `nodeRetrieveProgress:`, the read-only
queries, `dumpGraphState` and the hashing of paths.

### Runs

| Run | Instance | States | Checks |
|---|---|---|---|
| `stage_queues` | two paths of a queue, three actors, priorities, client code five frames deep | 1.3 M | `QueueOrder`, `HeadExecuted`, `CancelledLeaves`, `Exclusive`, `QueuedIsOwned`, `DequeuedIsQueued` |
| `stage_watchers` | a queued path and a path with a cancel timeout, removals from other threads, resets, live watchers | 3.3 M | `TypeOK`, `ActiveIsWatched`, `NoLostRemoval`, `ForgottenStays` |
| `stage_settles` | two paths of a queue, removals by handle and by path, under fairness | 176 k | `RequestSettles` |

Bounds: `MaxBlocks` blocks wait on a dispatch queue, `MaxDepth` frames on the
stack, `MaxCalls` calls per run of client code. One waiting block is enough for
a block to be overtaken, since removals have a queue of their own; five frames are enough
for a callback inside a dequeue inside a completion to make a request that
starts another actor, and for a high-priority request to be inserted while one
actor executes and another waits: an actor that was cancelled stays queued while
its `cancel` runs, so two paths and three actors give queues of three. The
proofs below do not depend on the bounds.

`Exclusive` speaks of queues all of whose paths are in `StopsOnCancel` and have
no cancel timeout: a late
report of a cancelled actor completes the new actor of the same path, and what
prevents this is the check of `self.cancelled` in the actors, not the scheduler.
Not every actor makes it on every path: `TGFileUploadActor` does when a part
arrives and not when a part fails (569). Such an actor is outside
`StopsOnCancel`, and `Exclusive` does not speak of its queue.

Fairness (`FairSpec`): the stage runs the frames of its block; libdispatch
serves both queues and the timers however often the other one is served, hence
strong fairness; a remover that took the lock comes to its dispatch; an actor
that executes finishes. Nothing obliges a client to request, remove or reset.
`RequestSettles` then says that a watched request ends. It is checked without
the priority flag, which can starve, and without cancel timeouts.

### Proofs

`ActionStageProofs` proves, for every set of handles, paths, actors and queues
and every bound:

- `TypeCorrect`: `Spec => []TypeOK`;
- `QueuesSafe`: `Spec => [](QueueOrder /\ HeadExecuted /\ CancelledLeaves)`,
  with its parts `HeadsExecuted` and `CancelledLeave` as theorems of their own.

All rest on `ConstantsAssumption` only. No part of the second is inductive
alone. `QueueOrder` says that a queue lists an actor once and that only its
first actor has been executed; to keep it when the first one leaves, the proof
must know why the next may be executed, which is `HeadExecuted` (the first actor
is executed, or its removal is on the stack) and `CancelledLeaves` (a cancelled
actor that is still queued has its removal on the stack, so `Proceeds` may skip
it). The conjunction is inductive together with `TypeOK`. The proof states the
invariant element by element (`OrderForm`, `HeadForm`), which is what the
provers handle, and shows that the two forms agree; lemmas say what `InsertAt`,
`RemoveAt`, `Tail` and `MovedToSecond` do to a list without repetition;
`QuietSteps` deals at once with the many steps that leave queues, states and
removals alone, and one lemma each with those that do not.

`ActionStageOwnership` goes on from there and proves, from the same assumption,
the other six invariants of the runs:

- `RemovalsDrained`: `Spec => []NoLostRemoval`. The property is inductive with
  `TypeOK`: a drain leaves the stack only in the step that empties its list.
- `ActiveWatched`, `QueuedOwned`, `DequeuedQueued`, `RunningExclusive`:
  `ActiveIsWatched`, `QueuedIsOwned`, `DequeuedIsQueued` and `Exclusive`, all
  from one inductive invariant, `OwnInv`.
- `ForgottenStay`: `Spec => []ForgottenStays`, from `ForgottenInv` on top of
  `OwnInv`.

`OwnInv` says, actor by actor, who is responsible for it:

| Part | What it says | Why it is needed |
|---|---|---|
| `BlocksInv` | blocks on the dispatch queues are reports, requests, removals, never the inside of a call | a block that starts puts no removal from a queue on the stack |
| `ParkedInv` | an actor behind a cancel timer belongs to that path, is live and unwatched | a request that takes it over makes it active with one watcher, itself |
| `NotifyInv` | an actor whose watchers are being told is in no table | the callback may request the path again and gets another actor |
| `OwnedBy` | without a timeout: active or on its way out by exactly one frame, and in its queue exactly then | `QueuedIsOwned` is half of it; the other half, and that there is one frame, is `DequeuedIsQueued` |
| `RunsBy` | in a queue of `Cooperative` actors: active while it runs, one report at most, on its way out only when done | a second report would complete the next actor of the path, and `Exclusive` would fail |

`Exclusive` then follows: an actor that runs is active, so it is queued, and by
`QueueOrder` only the first of a queue has been executed. `ForgottenInv` says
that a forgotten handle has no delegate, which is why a request of it that comes
late is refused, and that each path it still watches is among the keys of a
detach on the stack; `ForgottenStays` alone forgets which keys are left.

The proofs replace the top of the stack by a short list of frames (`Swap`), and
lemmas say which frames about an actor come and go (`Has`, `Single`).
`NeutralSteps` deals with the steps that touch no actor, `OthersKept` with the
actors a step is not about, and one lemma with each action that moves an actor.
TLC checked the parts of `OwnInv` and `ForgottenInv` before they were proved: on
the instances of `stage_queues` and `stage_watchers`, and on two paths of a queue
one of which has a cancel timeout, with client code eight frames deep.

The first attempt at `DequeuedIsQueued` failed where a timed actor is resumed
while it is cancelled. The property spoke of all actors and held in its run only
because that instance has no cancel timeouts. It now names the actors it is
about, and the table below has the counterexample for the others.

Only model-checked: `RequestSettles`, a liveness property.

## SecretChat

### The model

Two clients, a server that takes requests and queues messages for the other
client, and per client two serial threads. A poll is a query on the database
thread (`dequeuePeerOutgoingActions`, `dequeuePeerIncomingActions`) that hands
what it read to a block on the stage, so that the block works on a snapshot;
`stage[p]` holds the waiting blocks with their snapshots. What a block posts to
the database thread without waiting is in `writes[p]` and happens one query at a
time, so that a crash can come between any two.

| State | Code |
|---|---|
| `outgoing`, `stored` | the rows ever put in the outgoing table, and those still in it |
| `resends`, `incoming`, `lastId` | the resend table, the incoming table, their autoincrement ids |
| `sentSeqOut`, `seqIn` | the properties `sent_seq_out` and `seq_in` of the conversation |
| `executing`, `waiting` | `_executingRequestsActionIds`; the `_actionId` of the executing `sendSecretMessage` actors |
| `requests`, `network` | external: the network layer's requests, the server's queue |
| `shown`, `delivered` | the peer's messages in the conversation; own messages with delivery state Delivered |

| Action | Code |
|---|---|
| `Send` | `enqueueOutgoingMessageForPeerId:` with both polls it causes |
| `RunPollOutgoing`, `RunOutgoing` | `_poll` of the outgoing queue: query and block |
| `Complete`, `Fail` | `actionCompletedWithId:` and the error branch of the request |
| `Receive` | the update handler and `enqueueIncomingMessagesByPeerId:`, for one or several messages |
| `RunPollIncoming`, `RunIncoming` | `_poll` of the incoming queue: query and block |
| `WriteDelete` ... `WriteRemove` | the block's queries, in its order |
| `Restart` | a crash, then the polls of `TGSynchronizeServiceActionsActor` |
| `Accept` | external: the server takes a request whose `shouldDependOnRequest` is met |

Numbers travel doubled with a bit for the side they belong to (`Wire`,
`Halved`, `Genuine`). A message is its number and one of three contents: a
text, a request to send a range again, and the deletion that stands in for a text
whose actor is gone. A step of the stage starts when the client's pending
writes are done: its first query is synchronous and the thread is serial, or it
commutes with them. After a crash the polls come before anything new arrives.

Left out: layers below 17 and the layer notifications, keys and the table of
undecrypted messages, `ENCRYPTION_DECLINED`, the service actions that only
change messages, and `setCurrentPeerResendSeqIn`, whose value is never used.

### Runs

| Run | Instance | States | Checks |
|---|---|---|---|
| `secret_faults` | alice sends 2, bob 1; a refused request of alice or a crash of either; ids that meet; under fairness | 603 k | `TypeOK`, `KeptUntilProcessed`, `ShownInOrder`, `ExecutingIsRequestedOrAlike`, `DeliveredIsShown`, `EventuallyProcessed` |
| `secret_ids` | the ids of both tables start from 1, one refused request | violation | `ExecutingIsRequested` |

Bounds: a refused request is what makes a later message overtake an earlier one,
for the dependency on it is gone. Two messages and one refusal give a gap, the
request to fill it, the copies, and a peer that confirms in between. `MaxFaults`
bounds refusals and crashes together. Larger instances were simulated at random,
with five messages on each side and up to three faults; 42 million states had no
violation of the invariants as they are stated now.

Two of them were restated when their proofs failed, although the run passed:

- `ShownInOrder` promised the order of messages in all cases. After a refusal
  the copy of a message may be a deletion that overtakes the original; the peer
  goes on to later messages, its `seqIn` goes back, and the original is then
  added behind them. A scripted behaviour with five refusals of the sender and
  one of the receiver ends with a conversation that reads 0, 3, 2. The order is
  now promised as long as none of the sender's requests was refused, and that no
  message is shown twice, always.
- `DeliveredIsShown` excepted only refused requests of the sender. The receiver's
  `seqIn` can go back when a resend request of the sender is among the rows it
  processes (`NeverExpectsAgain`, below); the receiver then asks again for
  messages it has shown, and the answer is a deletion of each, which removes it.
  A scripted behaviour with eleven refused requests of the receiver and two of
  its crashes ends with messages 3 and 4 delivered and removed. `OneNeverAsks`
  excludes it: the receiver has not crashed, or the sender has no reason to ask,
  since it has not crashed and no request of the receiver was refused.

`FirstOutgoingId` and `FirstResendId` are where the ids of the two tables start:
the tables are shared by all chats, so any offset occurs. The id of a completed
request stays in `_executingRequestsActionIds`, and a copy whose id is that of
an earlier message is skipped until the next start; `secret_ids` shows it with
both tables starting from 1, as they do. `ExecutingIsRequestedOrAlike` says that
nothing else holds a copy back. It is checked where ids meet: the outgoing table
starts from 2 and the resend table from 1, so that the first copy is sent, is
answered, and the second has the id of the first message. A chat in which
nothing is left to send really stops, so deadlock is not checked.

Fairness (`FairSpec`): both threads of a client run what is queued on them, the
server takes and answers requests and delivers. The two threads of a client are
one condition and the server's three actions another, each a weak fairness of a
disjunction, which is less than fairness of every action and enough.
`EventuallyProcessed` excepts refused requests and crashes of the receiver,
after which a gap is only asked for when another message arrives.

### Proofs

`SecretChatProofs` proves, from `PeersAssumption`, for any number of messages,
refusals and crashes on either side:

| Theorem | Says | Under which condition |
|---|---|---|
| `KeptSafe` | `KeptUntilProcessed` | none |
| `TypeSafe` | `TypeOK` | none |
| `ShownOnceSafe` | no message is shown twice, the first half of `ShownInOrder` | none |
| `ExecutingSafe` | `ExecutingIsRequestedOrAlike` | none: the ids of the two tables may start anywhere |
| `SmoothSafe` | the conversation is in order, what is delivered and passed is in it or about to be added, and the receiver never asks for a range again | for each direction by itself, `Smooth`: none of the sender's requests was refused and the receiver has not crashed. The sender may crash, and the other direction may do anything |
| `InOrderSafe`, `DeliveredSafe` | `ShownInOrder`, `DeliveredIsShown` | `Undisturbed`: each direction is smooth or had a refusal of its sender, which both properties except |

The conditions of the last two leave the receiver's own crashes to TLC. After a
crash the table, the number expected and the conversation may be out of step by
any number of queries, and what is then asked for and answered is the part of
the protocol with the counterexamples above.

`KeptSafe` is what a peer relies on when it asks for a range again.
`KeptUntilProcessed` is not inductive: a row is deleted by a number that was
computed by the peer long ago and has been in six places since. The invariant
follows it (`Sound`): what a client writes into a row is at most the largest
number it ever expected (`Told`); so is what the row's request, the message on
the network, the row in the peer's table, the snapshots on the peer's stage and
the query on its database thread carry; numbers of rows in snapshots and in the
resend table are numbers of rows that exist (`Numbers`). That the number
expected can go back (`NeverExpectsAgain` is false) does no harm, because the
invariant speaks of the largest one. What is in a queue is described by a set
whose members are sound and of which the queue is a sequence; the sets grow with
the queues, and `Grows` says when soundness survives a step. `Halves` shows that
a number written on the wire is read back, `NextThere` that the next number of a
snapshot exists with copies and gaps in it, `BoundedMax` that the largest seqIn
does.

`TypeSafe` needs what sorting and filtering make of a sequence. The library's
induction theorems cannot be instantiated by the installed provers, but no
induction is needed: `Ascending` lists a finite set by rank, the number of
elements that are not larger, and facts about cardinalities show that each rank
from 1 on belongs to one element (`RankHits`, `AscendingList`,
`AscendingRises`); filtering is sorting the positions that stay (`WithoutList`).
The types also say that the rows of a snapshot have ids of their own and that a
query adds no number twice, from which `ShownOnceSafe` follows.

`ExecutingSafe` needs that an id of the resend table belongs to one row for good.
`Copies` says so of all the rows a client has read since it started: those in the
table, in the snapshots that wait and behind the ids that are executing.

`SmoothSafe` has the longest argument. Its invariant, `FlowInv`, follows the way
of the messages from `p` to its peer `q` by five values whose existence it
asserts:

| Value | Meaning |
|---|---|
| `f` | the server has taken exactly the numbers below it |
| `t` | of those, `q` has received the ones below it; what is between is on the network, without a gap |
| `e` | `q` will have processed the ones below it when the queries that wait on its database thread are done |
| `T` | the numbers that the server first took as a text, not as a deletion |
| `a` | the messages that the query which waits adds to the conversation |

`Sender` says that a request the server has not taken depends on all smaller
numbers it has not taken, which is why nothing overtakes. It holds because every
poll hands out the untaken rows without a gap (`FlowBlocks`), also after a crash,
when the set of executing ids is lost and rows that were taken are sent again.
`Net` says that the first message with a number decides whether it is a text;
the repetitions of a crashed sender, which are deletions because the actor is
gone, come later and are ignored. `Receiver` says that every waiting snapshot
starts at or before `e` and ends between `e` and `t`, that snapshots wait in the
order of their ends, and that of several rows with a number the first is the one
the server took first; so a stale snapshot neither moves the number expected
back nor finds a gap. `Conversation` says that the texts below `e` are shown, but
for those in `a`. `Quiet` says that `q` has asked for nothing, neither in its
table nor on the way to `p`: the resend table of `p` is empty, and every request
is for a row of the outgoing table. None of the parts is inductive without the
others. `SenderFlow` and `ReceiverFlow` have a lemma for each action of the
sender and of the receiver.

Only model-checked: order and delivery when the receiver itself crashes without
a refusal of the sender's requests; `EventuallyProcessed`, a liveness property.

## JitterBuffer

The buffer of one incoming stream and the decoder that empties it. The receive
thread puts frames (`HandleInput`), the decoder takes the frame at the playhead
once per frame duration (`DecodeFrame`) and, when it is missing, makes a second
call for the following one (`DecodeFec`) between which anything may happen, the
tick thread adapts the delay (`Tick`), and the controller sets the delay when the
peer switches extra error correction (`SetMinPacketCount`). A frame is its
timestamp and whether it is an error correction copy. What `Tick` computes from
clock readings (the deviation of the delays, the average delay) is a choice.
`latePacketCount` and `nextTimestamp` are not initialised by the constructor;
`Init` starts the first with nothing or enough for a resync, and the second is
not looked at before the first put sets it.

Run `jitter` (13.0 M states): four frames and a copy of one of them, in any
order and each of them any number of times, six puts in all (`MaxPuts`), since a
sender repeats a frame and its copy; the counters are scaled down (a pool of 3, 2 slots in use, 4 losses to a
reset, 1 late frame to a resync) so that eviction, reset and resync all happen
and are mixed. `MaxTicks` bounds ticks and `MaxTimestamp` the playhead. It
checks

- `BuffersMatchSlots`: the pool never runs dry, which `PutInternal` relies on;
- `OneSlotPerTimestamp`: a frame and its copies share a slot, whichever comes
  first;
- `OnlyLateBehind`: the playhead passes a frame only by the eviction of a full
  buffer;
- `PlayedInOrder`: between two resyncs frames are played in rising order;
- `FecIsSuccessor`: the second call finds the successor of the missing frame,
  unless a put moved the playhead in between.

`JitterBufferProofs` proves all five for every number of slots, every bound and
every set of frames whose timestamps are multiples of the step
(`SizeAssumption`): `BuffersSafe`, `SlotsDistinct`, `NoFramePassed`, `FecSafe`
and `PlaysInOrder`. The invariant adds that the playhead and every slot are
multiples of the step (`PlayheadAligned`, `SlotsInv`), so that a frame behind
the playhead is behind it by at least one step; that what was played is behind
the playhead (`PlayedBehind`); and that, between the decoder's two calls, the
playhead is one step past the missing frame (`FecNext`).

Met while modelling, and in the model: `dontIncMinDelay` is set and never
counted down, so `Tick` raises the delay at most once in the
buffer's life; the call for error correction takes the successor's frame out of
the buffer; a miss works off `outstandingDelayChange` twice; a copy of a frame
that was played already counts as a late packet.

## SendQueue and Outbox

Three kinds of threads produce packets, each with a program counter (`pc`): a
round starts (`Round`), the receive thread waits in select (`SelectCanceled`,
`SelectReadable`), a buffer is taken and the number read (`GetBuffer`), the
number written back (`GenerateOutSeq`), the packet put (`Put`). The send thread
waits for the semaphore (`Acquire`), takes the mutex and the packet (`Pop`),
sends it and gives the buffer back (`SendPacket`). `Stop` sets its flags, wakes
the select, puts a packet without data and joins the threads in the code's
order. `BlockingQueue` and `BufferPool` work under their own mutexes and are one
step each; `seq++` is a read and a write.

`Outbox` states what the producers may rely on: a bounded first-in first-out
queue whose packets are handled once and, until it is closed, eventually.
`SendQueue` implements it under the mapping that takes the packets with data, in
the send thread's hand and in the queue, for the pending ones and `stopping` for
`closed` (`ImplementsOutbox`, safety and liveness).

Run `send_queue` (527 k states): two buffers, a queue of three, as the code has
twenty and twenty-one; three producers, four packets, one arrival. It checks
that buffers are accounted for, that the queue never reaches its `abort()`, that
a permit of the semaphore stands for an element of the list (`front()` of an
empty list is undefined), that `Stop` returns, and the refinement. The property
that matters about the sizes is that the queue is larger than the pool by one,
the packet of `Stop`; two buffers are enough for a full pool with packets in two
places.

`SendQueueProofs` proves, for every pool, every capacity larger than the pool,
every set of audio threads and every number of packets: `BuffersSafe`,
`PutNeverAborts`, `PermitsSafe`, and `ImplementsSafely`, that every behaviour of
`SendQueue` is one of `Outbox` as far as safety goes (`Outbox!Safety`: the
initial state maps to the initial state and every step to a step or a stutter).
The three invariants hold each other up: the queue does not overflow because its
packets hold different buffers (`CountInv`: buffers in the pool, in the threads'
hands, in the queue and in the send thread's hand add up, with the one packet
without data, `NullInv`, counted apart), and the send thread's pop finds a
packet because of the permits. `MineInv` and `SendingInv` say when a thread
holds a packet. The fair part of the refinement stays with TLC.

Fairness: the operating system runs every thread. Rounds are begun and ended,
a number that was read is written and its packet put, the send thread goes on
while the semaphore lets it, `Stop` goes on. Nothing makes a packet arrive, and
nothing makes `Stop` be called. A stopped call really stops: deadlock is not
checked.

## PacketLayer

Both ends of an established call over a network in which every packet ever sent
can arrive, any number of times, or never (`net` only grows). A packet is made
(`MakePacket`, `Retry`), which draws its number, and later the send thread reads
the mask from the window (`CollectAcks`) and then `lastRemoteSeq` and the extras
(`WritePacketHeader`); the receive thread enters a packet into the window
(`Receive`), moves `lastRemoteSeq` (`UpdateLastRemoteSeq`) and works on the rest
(`ProcessIncomingPacket`). Neither thread takes a lock for this, so the steps
interleave. Peers older than protocol 6 are told of changes by reliable packets
that are retried and given up, newer ones by extras that ride in every header
until they are acknowledged. Lost packets need no action: a packet need not be
received. `seqgt` compares numbers modulo 2^32; a call that draws 2^31 numbers
lasts years, so numbers are naturals.

Run `packets` (2.67 M states): the caller sends three packets, one reliable or
two values of an extra, the callee answers with two; the window is 2 instead of
32, so that a jump, a full window and a late packet happen with three numbers,
and two packets are remembered instead of 64. Both protocol generations are in
the run (`Versions`). Three threads hold packets whose headers are not written
(`Producers`), as the audio, receive and tick threads of the code do: a number
drawn first may be written last.

- `AckIsAccepted`: the highest number taken for acknowledged arrived;
- `WindowIsTrue`, `TwiceOnlyAfterJump`: the window knows what arrived, except a
  packet that jumped ahead of it, and only such a packet passes twice;
- `RemovedIsReached`: a reliable packet is taken for acknowledged only when one
  sent under its number or later arrived;
- `NewestIsKept`: the newest value of an extra waits until it counts as
  confirmed;
- `ConfirmedIsSeenOrOvertaken`: a confirmed extra was read by the peer, or the
  header that first carried it was written after one with a higher number;
- `BackOnlyWhenLateOrOvertaken`: an older value replaces a newer one only with a
  packet that is late, or after the newer one was read in such a header.

The last two say how far the damage goes when headers leave out of the order of
their numbers. What the code promises without the exceptions, `ConfirmedIsSeen`
and `BackOnlyWhenLate`, is violated, the first in a run of its own.

`PacketLayerProofs` proves for every window, every number of packets, of
producing threads and of extras, from `LayerAssumption` (two peers) and
`NoneAssumption`: `TypeCorrect`, `AcksSafe`, `WindowSafe`, `TwiceSafe`,
`RemovedSafe`, `NewestSafe`, `ConfirmedSafe` and `BackSafe`, none of them under a
condition on the order of headers.
`WindowIsTrue` speaks only of the moments
between packets, because the receive thread changes the window and
`lastRemoteSeq` in two steps; the invariant (`WindowInv`) counts from the number
the window is aligned with at each moment (`Last`), and says what is in between.
`LastInv` bounds it, `NetInv` and `RxInv` say that a packet on the network or in
the receive thread's hand acknowledges only what was accepted when its header
was written.

The invariant for the last two (`ExtrasInv`) says that every packet on the
network from the first that carried an extra onwards carries it or a newer value,
until the extra is dropped, unless that first header was overtaken (`Riding`);
whoever acknowledges such a packet has read the value (`Known`), and what a peer
has applied came in a packet whose number is not above `lastRemoteSeq`
(`Reading`).

Extras and packets that wait are sets of records, with the one of each type or
load in it: the code replaces an extra of the same type, and the order of the
entries has no effect.

Run `packets_ack` is a violation. The writer of a header sets the highest bit of
the mask for `lastRemoteSeq` itself (line 540); the reader takes that bit for
the number before it (1211). A lost packet is taken for acknowledged when its
successor arrived, and a packet that must arrive is never sent again.

Run `packets_key` is a violation. `firstContainingSeq` is the number of the
header that first carries an extra (626); a packet with a higher number may have
been sent already without it, and its acknowledgement confirms the extra (1253).
`groupCallKeySent`, which comes "after the peer acknowledges the key"
(`VoIPController.h:349`), may come before the peer has it, and the key is not in
any later header.

`CollectAcks` reads the window in one step where the code makes 32 unlocked
reads. Each property that speaks of acknowledgements is about the number in the
header or holds for any mask: what the bits of a mask stand for is wrong without
the race already.

## CongestionControl

The table of packets in flight: `PacketSent`, `PacketAcknowledged`, `Tick`, all
under one mutex. The clock is the number of packets sent, a tick expires the
packets up to some cut, an acknowledgement may come at any time for any number,
also again. `GetAverageRTT` is the set of entries it reads (`ReadIndices`), with
the unsigned arithmetic of the code (`Word`).

Run `inflight` (51 k states): two slots, four packets of two sizes, an RTT
history of three. `SizeIsInflight`, `SettledOnce` and, under the fairness that a tick comes which finds every
packet older than two seconds (the tick thread runs every 100 ms),
`EventuallySettled`. Two slots and four packets make a packet displace another
and be acknowledged after that.

`CongestionControlProofs` proves `SettledSafe`, `Spec => []SettledOnce`, for
every number of slots and packets. The invariant says that live slots hold
different packets, all of which were sent (`Distinct`, `SentInv`), and that what
was sent is live, acknowledged or lost and in one place only (`Partition`,
`LossInv`). `SizeSafe` proves `Spec => []SizeIsInflight`, for all sizes of
packets: the total the code adds to and subtracts from is the sum over the live
slots. It needs that the sum over a set loses exactly its term when an element
leaves, in whatever order the sum is taken; this is proved by induction over the
size of the set, which is derived from the well-foundedness of the naturals
(`Induction`, `SizeLaws`). `EventuallySettled` stays with TLC.

## CallEndpoints

One end of a call. `currentEndpoint`, `preferredRelay` and `useTCP` are shared by
three threads, and not all of the code that changes them holds `endpointsMutex`.
The model cuts a thread's step where the code takes no lock and another thread
can come in between with an effect on the endpoints; a program counter per thread
says where it is.

| Counter | Steps | Code in `VoIPController.cpp` |
|---|---|---|
| `app` | `SetNetworkType`, `DropLan`, `ResetUdp`, `EndChange` | the call is moved to the preferred relay (2279-2281) before the mutex is taken; the loop over the endpoints under it (2282-2302); the state of the probing is reset, then the proxy is set up again and the peer's address asked for |
| `tick` | `AddTcpRelays`, `MoveToTcp`, `PreferTcp`, `InsertTcp` | `useTCP` is looked at (1757), the copy of the first relay becomes the endpoint in use (1772), then the preferred one (1773), and the copies are added (1777), all without a lock |
| `tick` | `StartResend`, `EndResend` | the state is looked at (1894) and set (712) around the sending of the init packet |
| `rx` | `ReceiveInit`, `AdoptTest`, `AdoptPrefer` | the source of the first init packet becomes the endpoint in use (1291), `useTCP` is looked at (1292) and the source preferred (1293), without a lock |

Everything else is one action. The verdict on UDP, `SendRelayPings`, the peer's
address and its LAN address hold the mutex; `FollowPeer`, `ReceiveTimeout`,
`ReceiveNetworkChanged` and the first step of `SetNetworkType` look at what is in
use and overwrite it in the next statement, and a step that came in between
would be overwritten or have come before. The first answer to the init packet
has three outcomes, as the code returns early when the version does not fit, when
it names no stream (1381) and when it names no audio stream (1420). Simultaneous
accesses of two threads to the vector of endpoints or to one `shared_ptr`, which
C++ leaves undefined, are not modelled.

An endpoint's average round trip is known or 0, and which of two known ones is
better is a choice; so is the verdict on UDP, which the code makes by counting
the answers to its pings (`Verdicts` are the verdicts each state allows), and
what packets arrive. Timeouts come at any time. A receive thread that ended with
an error of its socket is one that receives nothing any more.

The history variable `races` remembers that two threads met in one of two
windows, and the properties say what can only happen then:

- `lan`: `SetNetworkType` has taken the call to a relay (2281) and waits for the
  mutex, and another thread takes it back to a peer to peer endpoint or prefers
  another relay;
- `tcp`: `SetNetworkType` clears `useTCP` (2286) while a thread that has read it
  is about to prefer a TCP relay.

Run `endpoints` (6.43 M states): one relay with its TCP copy, peer to peer, LAN,
a proxy that may be unreachable, unresolved or without UDP, and two changes of
the network, so that the second meets what the first left behind. It checks

- `CurrentIsKept`: the endpoint in use is one the call has or the TCP copy that is
  about to be added, or it is a LAN endpoint that `SetNetworkType` dropped after
  one of the two races; in particular the receive thread, which drops both peer
  to peer endpoints, never drops the one in use;
- `PreferredIsUsable`: the relay to fall back to is one the call has or is about
  to have, and a TCP relay only while TCP is used or after the race `tcp`;
- `EstablishedIsAnswered`: a call is established only after the peer's answer.

One relay suffices for every branch except the choice between relays, which the
code makes by round trips.

`CallEndpointsProofs` proves the three, and `TypeOK`, for every set of relays
and any number of changes from `EndpointsAssumption`: `TypeCorrect`,
`CurrentSafe`, `PreferredSafe`, `EstablishedSafe`. The first two need each other;
besides them `PathsInv` says that UDP relays are never dropped (`RelaysStay`),
that a relay about to be adopted is in the list (`AdoptedIsListed`), that TCP is
used while a thread is about to prefer a TCP relay, or the race `tcp` has
happened (`CommittedUsesTCP`), and that before the LAN endpoint is dropped the
call is on a relay, prefers one over TCP, or the race `lan` has happened
(`LeavesLan`). `EstablishedSafe` needs that a delayed verdict (`setEstablished`)
is pending only after the peer's answer (`AnswerInv`).

Met while modelling: `setCurrentEndpointToTCP` is honoured only while the TCP
relays are being added; a reconnecting call is set back to established only by
stream data, so with a silent peer it stays reconnecting although packets
arrive.

## Statements of the code that do not hold

Three of them are runs, `secret_ids`, `packets_ack` and `packets_key`. The others are definitions
marked "Violated" in their modules, or definitions that a run checks with a
condition left out. Each is refuted by TLC in less than half a minute with the
change to a configuration given here, unless the table says otherwise. None of them is assumed
anywhere, and where a weaker statement holds, a run checks it.

| Definition | Configuration | What happens |
|---|---|---|
| `ActionStage.DequeuedIsQueued` without `path[Top.actor] \notin TimedPaths` | `ActionStageQueues.cfg` with `TimedPaths = {p1}`, `MaxDepth = 8`, without `"priority"` | `performCancelRequest:` cancels and dequeues the parked actor, whose successor is executed inline, and removes the timer's entry only afterwards (`ActionStage.mm:1238`). A request for the path made in between resumes the cancelled actor, which is dequeued again later; the code warns "request queue doesn't contain request" (771) and the new watcher waits for a cancelled actor. |
| `SecretChat.DeliveredIsShown` without `failures[p] = 0` | `SecretChatFaults.cfg` | A refused message that was asked for again waits for the id in the outgoing table, so the copy, with another id, is replaced by a deletion (`TGSecretOutgoingQueueActor.m:210`). When it overtakes the original, the peer never shows the message and the sender marks it as delivered. |
| `SecretChat.ShownInOrder` without `failures[Other(p)] = 0` | five refusals of the sender and one of the receiver, by a scripted behaviour of 87 states; beyond exhaustive search | As above, a deletion overtakes the text and a later message is shown; then `seqIn` goes back and the text is added behind it. |
| `SecretChat.DeliveredIsShown` without `OneNeverAsks` | eleven refusals and two crashes of the receiver, by a scripted behaviour; beyond exhaustive search | `seqIn` goes back, what was shown is asked for again and answered by a deletion. |
| `SecretChat.AsksForMissing` | `SecretChatFaults.cfg` with `MaxMessages <- ThreeAndOne`, `MaxRestarts <- None` | The end of the range to ask for is the smallest number of the whole snapshot, what was just processed included (`TGSecretIncomingQueueActor.mm:155`), so the "Requesting resend from ... to" of line 237 asks for an empty range. |
| `SecretChat.NeverExpectsAgain` | `SecretChatFaults.cfg` with `MaxMessages <- Two`, `MaxFailures <- One`, `MaxRestarts <- None`, `MaxFaults = 2`, `CONSTRAINT Unanswered` | A resend request that came too early is processed and its row deleted; a snapshot from before and one from after give different next numbers, and the second overwrites the first (line 252). |
| `JitterBuffer.TooLateIsDropped` | `JitterBuffer.cfg` | "dropping packet ... because it is too late" (`JitterBuffer.cpp:280`) stands behind a condition that every late packet meets first (275): it is counted and stored. |
| `JitterBuffer.LostInARow` | `JitterBuffer.cfg` | "lost %d packets in a row" (206) counts a missing frame twice, once for each of the decoder's calls (`OpusDecoder.cpp:203`): the reset comes after half as many. |
| `SendQueue.DistinctSeqs` | `SendQueue.cfg` | `return seq++;` (`VoIPController.cpp:533`) is called by three threads without a lock: two packets get one number, and the receiver drops the second as repeated. |
| `PacketLayer.NeverTwice` | `PacketLayer.cfg` | When the number jumps by more than 31, the window is cleared and the number itself not entered (1166): its repetition passes "Received duplicated packet" (1177). |
| `PacketLayer.BackOnlyWhenLate` | `PacketLayer.cfg` | Of two headers the one with the higher number is written first, with the old value of an extra, and the other one with the new value. When they arrive in the order of their numbers, the second brings the old value back and is not late (1583-1592). |
| `CongestionControl.ReadsNewest` | `CongestionControl.cfg` | `rttHistoryTop-i-1` is computed modulo 2^32 and then modulo 100 (`CongestionControl.cpp:49`), so an index below 0 becomes 96 more than it, not 100, and `x>=0` is always true: after the ring wraps the average misses the newest entries. |
| `CallEndpoints.CurrentIsListed` | `CallEndpoints.cfg` | The copy of the relay is in use before it is in the list (1772, 1777). |
| `CallEndpoints.CurrentIsKept` without `races # {}` | `CallEndpoints.cfg` | A call that uses the LAN endpoint is moved to the relay (2281); before `SetNetworkType` has the mutex, `SendRelayPings` moves it back (3012), and the LAN endpoint is erased while it is in use (2299). The call goes on sending to it, and what comes back from its address is not recognised as an endpoint's. |
| `CallEndpoints.PreferredIsUsed` | `CallEndpoints.cfg` | The relays are copied because `useTCP` was set (1757), `SetNetworkType` clears it (2286), and the TCP relay is preferred all the same (1773); the call falls back to a relay that nothing is sent to. |
| `CallEndpoints.TransportLeft` | `CallEndpoints.cfg` | `useUDP` is never set to true again, and a network change sets `useTCP` to false (`VoIPController.cpp:2286`): the call has no transport until the probing ends in "No UDP ping replies received; ... trying TCP" (2021), and has none for good when the new network answers the pings. |
| `CallEndpoints.FailedIsFinal` | `CallEndpoints.cfg` | After "Packet receive timeout, disconnecting" (2055), stream data (1440), the delayed timer (2072) or `SendInit` set the state back, although the failure was reported. |
| `CallEndpoints.ProxiedOrFailed` | `CallEndpoints.cfg` | `InitUDPProxy` sets `STATE_FAILED` when the proxy cannot be reached and returns; `Connect` goes on to `SendInit` (517), which overwrites the state and sends past the proxy, against "Set the proxy server to route the data through." (`VoIPController.h:322`). |

Two more facts without a statement to compare them with: a network change resets
`udpPingCount` and not the relays' `udpPongCount` (2304), so replies of the old
network count on the new one (`CallEndpoints` does not count, a verdict is a
choice); an average loss between the thresholds of lines 1815 and 1853 switches
extra error correction on and off in one tick, every second (not modelled). A
group call key has 256 bytes (3139) where the header asserts at most 254 (616);
lengths are not modelled.

## What is only model-checked

| What | Why |
|---|---|
| `RequestSettles`, `EventuallyProcessed`, `StopReturns`, `EventuallySettled`, the liveness of `ImplementsOutbox` | liveness under fairness is beyond the prover |
| `SecretChat`: the order in `ShownInOrder`, and `DeliveredIsShown`, when the receiver has crashed and no request of the sender was refused | no inductive invariant was found for what a crash leaves behind |

The `TypeOK` of `PacketLayer` and `CallEndpoints` is proved and not spent a run
on. Those of `JitterBuffer`, `SendQueue` and `CongestionControl` describe their
state; TLC confirms them on the configurations above, and the proofs use what
they need of them.

## Not modelled

- Rate control of calls: steps of the bitrate and the switching of extra error
  correction, by averages of real numbers, on one thread.
- Audio devices, codec, echo cancellation; sockets, SOCKS5, the table of server
  parameters: signal processing and I/O. What sockets may do is a choice in
  `CallEndpoints` and `PacketLayer`.
- `PacketReassembler.cpp` is empty at this commit. `VoIPGroupController.cpp` is
  not used by the application.
- When audio is held back (`waitingForAcks`, `dontSendPackets`), IPv6 endpoints,
  TCP sockets that reconnect, stream flags.
- The secret chats' key exchange, update state, channel state, queued actions,
  the call state machine of the application, media box and file transfer: the
  plan says what is worth a module.
- Live location, datacenter watchdog, audio session, caches, prices and feed:
  little state, no shared state, or I/O around a list.
- Vendored code (SQLite, LMDB, OpenSSL headers, Opus, WebRTC's signal
  processing, emoji tables, generated API layers) makes up most of the C and C++
  lines of the repository and is not the application's logic.
