SPECIFICATION Spec
CONSTANTS
  p1 = p1
  p2 = p2
  p3 = p3
  p4 = p4
  q1 = q1
  Handles = {h1}
  Paths = {p1, p2}
  Actors = {a1, a2, a3}
  Queues = {q1}
  QueueOf <- QueueOfPath
  TimedPaths = {}
  StopsOnCancel = {p1, p2}
  Operations = {"request", "reenter", "priority", "remove"}
  NoQueue = NoQueue
  NoActor = NoActor
  AllPaths = AllPaths
  MaxBlocks = 1
  MaxDepth = 5
  MaxCalls = 1
SYMMETRY ActorSymmetry
INVARIANTS QueueOrder HeadExecuted CancelledLeaves Exclusive QueuedIsOwned DequeuedIsQueued
