------------------------ MODULE MCSandboxAvailability ------------------------
(***************************************************************************)
(* Two managers of one owner's sandbox.                                    *)
(***************************************************************************)
EXTENDS SandboxAvailability

CONSTANTS a, b

Everything == [m \in Managers |-> Services]
\* b never holds a handle: it only pauses the sandbox that a uses.
PausedByOther == [m \in Managers |-> IF m = b THEN {"pause"} ELSE Services]

PausedTwice == <<6, 2>>        \* a pause, a resume, a pause of the successor
RecreatedPaused == <<0, 3>>    \* the successor is paused

=============================================================================
