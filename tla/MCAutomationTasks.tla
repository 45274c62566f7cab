------------------------- MODULE MCAutomationTasks -------------------------
(***************************************************************************)
(* One or two tasks with a one-time and two recurring schedules.           *)
(***************************************************************************)
EXTENDS AutomationTasks, TLC

\* Workers are interchangeable.
Symmetry == Permutations(Workers)

Once == {{1}}
Recurring == {{1, 2}, {2}}

=============================================================================
