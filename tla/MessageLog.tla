----------------------------- MODULE MessageLog -----------------------------
(***************************************************************************)
(* What tinkerfin-messaging promises the readers of one thread: a log that *)
(* only grows while it is open, that one run at a time writes, and whose   *)
(* runs end exactly once.  Leases, fences, retries, settlement, recovery   *)
(* and the physical cleanup of a generation are all invisible here:        *)
(* MessagingLedger implements this module.                                 *)
(***************************************************************************)
EXTENDS Naturals, Sequences

CONSTANTS Runs, Ids

Outcomes == {"completed", "cancelled", "failed", "owner_lost"}
Nobody == "nobody"

VARIABLES
  epoch,      \* generation of the log
  open,       \* readers and writers may use it
  entries,    \* what readers can see
  writer,     \* the run whose messages are accepted
  outcome     \* [Runs -> "none" | "live" | "cancelling" | Outcomes]

logVars == <<epoch, open, entries, writer, outcome>>

LogInit ==
  /\ epoch = 0
  /\ open = FALSE
  /\ entries = <<>>
  /\ writer = Nobody
  /\ outcome = [r \in Runs |-> "none"]

\* A run starts on the open log; a run that still wrote to it was lost.
Start(r) ==
  /\ open
  /\ outcome[r] = "none"
  /\ writer' = r
  /\ outcome' = [s \in Runs |-> IF s = r THEN "live"
                                ELSE IF s = writer THEN "owner_lost" ELSE outcome[s]]
  /\ UNCHANGED <<epoch, open, entries>>

\* A run opens an empty log, which nothing of an earlier one survives in.
OpenAndStart(r) ==
  /\ ~open
  /\ epoch' = epoch + 1
  /\ open' = TRUE
  /\ entries' = <<>>
  /\ writer' = r
  /\ outcome' = [s \in Runs |-> IF s = r THEN "live" ELSE "none"]

Append1(r, i) ==
  /\ open
  /\ writer = r
  /\ \A k \in DOMAIN entries : entries[k].id # i
  /\ entries' = Append(entries, [run |-> r, id |-> i])
  /\ UNCHANGED <<epoch, open, writer, outcome>>

AcceptCancel(r) ==
  /\ open
  /\ writer = r
  /\ outcome[r] = "live"
  /\ outcome' = [outcome EXCEPT ![r] = "cancelling"]
  /\ UNCHANGED <<epoch, open, entries, writer>>

\* A run whose cancellation was accepted never reports that it completed.
End(r, o) ==
  /\ open
  /\ writer = r
  /\ o = "completed" => outcome[r] = "live"
  /\ writer' = Nobody
  /\ outcome' = [outcome EXCEPT ![r] = o]
  /\ UNCHANGED <<epoch, open, entries>>

\* Deletion or expiry hides the whole log in one step.
Close ==
  /\ open
  /\ open' = FALSE
  /\ entries' = <<>>
  /\ writer' = Nobody
  /\ outcome' = [r \in Runs |-> "none"]
  /\ UNCHANGED epoch

LogNext ==
  \/ \E r \in Runs : Start(r) \/ OpenAndStart(r) \/ AcceptCancel(r)
  \/ \E r \in Runs, i \in Ids : Append1(r, i)
  \/ \E r \in Runs, o \in Outcomes : End(r, o)
  \/ Close

LogSpec == LogInit /\ [][LogNext]_logVars

=============================================================================
