----------------------------- MODULE MCCapture -----------------------------
(* Model-checking instance of Capture: two flows.                            *)
EXTENDS Capture

CONSTANTS a, b

MCFlows == {a, b}
=============================================================================
