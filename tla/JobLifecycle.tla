---------------------------- MODULE JobLifecycle ----------------------------
(***************************************************************************)
(* What the pipeline promises about one job, whatever its processes do:    *)
(* the job is in one stage at a time, moves only along the transitions of  *)
(* state_machine.cpp, and leaves them by a conclusion of qm, by a detector *)
(* exception, or with the process that held it.                            *)
(***************************************************************************)
EXTENDS FileJob

VARIABLE stage  \* stage[j]: a status while j is in flight, else its fate

Concluded == {"failed", "done", "dropped", "lost"}
Stage == {"absent", "moved"} \union Status \union Concluded

TypeInv == stage \in [Jobs -> Stage]

Init == stage = [j \in Jobs |-> "absent"]

Step(j, from, to) == stage[j] = from /\ stage' = [stage EXCEPT ![j] = to]

\* The upload's file reaches "new", then its job reaches qm's inbox.
Arrive(j) == Step(j, "absent", "moved") \/ Step(j, "moved", "NEW")

\* One transition of the table of state_machine.cpp, whoever performs it.
Fire(j) ==
  \E event \in Event :
    /\ <<stage[j], event>> \in Transitions
    /\ stage' = [stage EXCEPT ![j] =
         Transition([DefaultJob EXCEPT !.status = stage[j]], event).status]

\* qm logs the outcome, or the detector's exception ends the task.
Conclude(j) ==
  \/ Step(j, "FAILED", "failed")
  \/ Step(j, "DONE", "done")
  \/ Step(j, "DETECTING", "dropped")

\* Some process dies with the jobs S in its memory.
Lose(S) ==
  /\ \A j \in S : stage[j] \in {"moved"} \union Status
  /\ stage' = [j \in Jobs |-> IF j \in S THEN "lost" ELSE stage[j]]

Next ==
  \/ \E j \in Jobs : Arrive(j) \/ Fire(j) \/ Conclude(j)
  \/ \E S \in SUBSET Jobs : Lose(S)

Spec == Init /\ [][Next]_stage
=============================================================================
