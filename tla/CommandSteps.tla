---------------------------- MODULE CommandSteps ----------------------------
(***************************************************************************)
(* The loops of start_workers and stop_workers (supervisor.cpp) as lists   *)
(* of steps, each an operation and the worker it is for.                   *)
(***************************************************************************)
EXTENDS Naturals, Sequences

\* The workers a loop acts on: those of that name, all of them without a name.
Targets(order, service) == IF service = "" THEN order ELSE <<service>>

\* For each worker in order, the steps a and then b.
Pairs(a, b, workers) ==
  [i \in 1..(2 * Len(workers)) |-> <<IF i % 2 = 1 THEN a ELSE b, workers[(i + 1) \div 2]>>]

=============================================================================
