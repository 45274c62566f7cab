----------------------------- MODULE MCMessaging -----------------------------
(***************************************************************************)
(* One thread, a recoverable cancellable run "r1" and a plain run "r2".    *)
(***************************************************************************)
EXTENDS MessagingDelivery

MCItems == [r \in Runs |-> IF r = "r1" THEN 2 ELSE 1]
MCIds == {<<r, k>> : r \in Runs, k \in 0..MaxMessages + 1}

=============================================================================
