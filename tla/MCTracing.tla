------------------------------ MODULE MCTracing ------------------------------
(***************************************************************************)
(* Two sessions on one thread, of one Run that changes hands or of two.    *)
(* Every second fact of a session is twice as long.                        *)
(***************************************************************************)
EXTENDS TraceWriting

MCThreadOf == [r \in Runs |-> "t"]
MCOpens == (Tokens \X Runs) \ {<<"s1", "r2">>}
MCMaxFacts == [s \in Tokens |-> IF s = "s1" THEN 3 ELSE 0]
MCSizeOf(id) == IF id[2] % 2 = 0 THEN 2 ELSE 1

=============================================================================
