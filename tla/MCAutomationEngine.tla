------------------------- MODULE MCAutomationEngine -------------------------
(***************************************************************************)
(* Two engines and one or two executions of one task.                      *)
(***************************************************************************)
EXTENDS AutomationEngine, TLC

\* Engines are interchangeable.
Symmetry == Permutations(Workers)

MCScopeOf == [e \in Executions |-> "task"]
MCMaxConcurrentRuns == [e \in Executions |-> 2]
MCMaxQueuedRuns == [e \in Executions |-> 2]
MCWorkItemId ==
  [k \in {"execute", "expire_interrupt"} |->
     [e \in Executions |-> (IF k = "execute" THEN 0 ELSE 2) + (IF e = "a" THEN 1 ELSE 2)]]

=============================================================================
