------------------------ MODULE MCAutomationSchedule ------------------------
(***************************************************************************)
(* Every small interval and one-time schedule, and Cron schedules in zones *)
(* that jump forward, jump back, or do neither, at several instants.       *)
(***************************************************************************)
EXTENDS AutomationSchedule

Zone(change, shift) ==
  [u \in 0..Horizon |-> IF u < change THEN u + DayLength ELSE u + DayLength + shift]

Zones == {Zone(0, 0)} \cup {Zone(c, d) : c \in {4, 5, 7}, d \in {-3, -1, 2}}

MCSchedules ==
  {[kind |-> "once", at |-> t] : t \in 1..4}
    \cup {[kind |-> "interval", every |-> n, start_at |-> t] : n \in 1..3, t \in 0..4}
    \cup {[kind |-> "cron", days |-> d, minutes |-> m, zone |-> z] :
            d \in {0..99, {k \in 0..99 : k % 2 = 0}},
            m \in (SUBSET (0..DayLength - 1)) \ {{}},
            z \in Zones}

MCPolicies ==
  {[mode |-> "skip", grace |-> g, catch_up_window |-> 1, max_catch_up |-> 1] : g \in {0, 2}}
    \cup {[mode |-> "latest", grace |-> 0, catch_up_window |-> w, max_catch_up |-> 1] : w \in {1, 4}}
    \cup {[mode |-> "catch_up", grace |-> 0, catch_up_window |-> w, max_catch_up |-> m] :
            w \in {2, 9}, m \in {1, 3}}

=============================================================================
