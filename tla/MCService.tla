------------------------------ MODULE MCService ------------------------------
(* Model-checking instance of Service.                                       *)
EXTENDS Service

CONSTANTS flow, packet, untyped, t1, t2, attacker, alice

MCFlowRows == {flow}

MCPacketRows == {packet}

MCUntypedRows == {untyped}

MCCaptures == <<<<"telemetry", "detections">>, <<"detections">>>>

MCThreads == {t1, t2}

MCAddresses == {attacker}

MCUsernames == {alice}
=============================================================================
