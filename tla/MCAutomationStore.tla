------------------------- MODULE MCAutomationStore -------------------------
(***************************************************************************)
(* A small Store: three executions of one task whose limits were changed   *)
(* between them.                                                           *)
(***************************************************************************)
EXTENDS AutomationStore

MCScopeOf == [e \in Executions |-> "task"]
MCMaxConcurrentRuns == [e \in Executions |-> IF e = "b" THEN 2 ELSE 1]
MCMaxQueuedRuns == [e \in Executions |-> IF e = "b" THEN 2 ELSE 1]
MCWorkItemId ==
  [k \in {"execute", "expire_interrupt"} |->
     [e \in Executions |->
        (IF k = "execute" THEN 0 ELSE 3)
          + (CASE e = "a" -> 2 [] e = "b" -> 1 [] e = "c" -> 3)]]

=============================================================================
