--------------------------- MODULE MCFlowTracker ---------------------------
(* Model-checking instance of FlowTracker: one TCP conversation between      *)
(* endpoints 1 and 2, with packets in both directions, and a UDP one from    *)
(* endpoint 3 that only shares the table, and so the expiry, with it.        *)
EXTENDS FlowTracker

MCPacketKinds ==
    { [src |-> 2, dst |-> 1, tcp |-> TRUE,  flag |-> "fin"],
      [src |-> 1, dst |-> 2, tcp |-> TRUE,  flag |-> "fin"],
      [src |-> 1, dst |-> 2, tcp |-> TRUE,  flag |-> "rst"],
      [src |-> 3, dst |-> 1, tcp |-> FALSE, flag |-> "none"] }

MCGaps == {-1, 1, 2}
=============================================================================
