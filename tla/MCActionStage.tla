--------------------------- MODULE MCActionStage ---------------------------
(* Instances of ActionStage: up to three paths in one request queue, a      *)
(* fourth path outside any queue.                                         *)
EXTENDS ActionStage, TLC

CONSTANTS p1, p2, p3, p4, q1

QueueOfPath == [p \in Paths |-> IF p = p4 THEN NoQueue ELSE q1]

ActorSymmetry == Permutations(Actors)
=============================================================================
