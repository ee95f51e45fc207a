------------------------------ MODULE MCPhase1 ------------------------------
(***************************************************************************)
(* The trials of phase 1: three blocks through the queues of three         *)
(* semaphores, two through them and back to the pool, three through any    *)
(* tree and back to the pool, and four in two families, so that a child    *)
(* can have siblings on both sides.                                        *)
(***************************************************************************)
EXTENDS Phase1Lists

MCQueues(n, reuse) ==
  [part |-> "queues", blocks |-> n, reuse |-> reuse, parents |-> {}]

MCTree(n, reuse, parents) ==
  [part |-> "tree", blocks |-> n, reuse |-> reuse, parents |-> parents]

MCTrials == {MCQueues(3, FALSE), MCQueues(2, TRUE),
             MCTree(3, TRUE, Proc), MCTree(4, FALSE, {1, 2})}
=============================================================================
