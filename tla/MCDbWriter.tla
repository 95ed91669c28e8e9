----------------------------- MODULE MCDbWriter -----------------------------
(* Model-checking instance of DbWriter: two tables, one drain() call.        *)
EXTENDS DbWriter

CONSTANTS logs, detections, replay

MCStatements == {logs, detections}

MCDrainers == {replay}
=============================================================================
