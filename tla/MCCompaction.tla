---------------------------- MODULE MCCompaction ----------------------------
(* Compaction from both ends, each explored on its own: the plan for one     *)
(* item, where a and b wrote one op each and c only signs snapshots; and the *)
(* workers over their queue.                                                 *)
EXTENDS CompactionPlan, CompactionWorker

CONSTANTS a, b, c

MCWritten == [d \in Devices |-> IF d \in {a, b} THEN 1 ELSE 0]

VARIABLE mode

\* Swapping a and b changes nothing, so the oldest snapshot is not b's.
MCInit ==
  /\ mode \in {"plan", "queue"}
  /\ Init
  /\ \/ mode = "plan"
        /\ PlanInit
        /\ \A s \in snaps : s.store = 1 => s.author # b
     \/ mode = "queue"
        /\ snaps = {} /\ held = {} /\ bodiless = {} /\ page = NoPage

MCNext ==
  /\ UNCHANGED mode
  /\ \/ mode = "plan"  /\ PlanNext /\ UNCHANGED vars
     \/ mode = "queue" /\ Next     /\ UNCHANGED planVars

MCSpec == MCInit /\ [][MCNext]_<<mode, vars, planVars>> /\ (mode = "queue" => Fairness)
=============================================================================
