SPECIFICATION Spec
CONSTANTS
  p1 = p1
  p2 = p2
  p3 = p3
  p4 = p4
  q1 = q1
  Handles = {h1}
  Paths = {p1, p4}
  Actors = {a1, a2}
  Queues = {q1}
  QueueOf <- QueueOfPath
  TimedPaths = {p4}
  StopsOnCancel = {}
  Operations = {"request", "join", "remove", "removeAll", "reset", "watch"}
  NoQueue = NoQueue
  NoActor = NoActor
  AllPaths = AllPaths
  MaxBlocks = 1
  MaxDepth = 3
  MaxCalls = 1
SYMMETRY ActorSymmetry
INVARIANTS TypeOK ActiveIsWatched NoLostRemoval ForgottenStays
