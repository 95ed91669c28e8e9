----------------------------- MODULE MCPipeline -----------------------------
(* Model-checking instance of Pipeline.                                      *)
EXTENDS Pipeline

P(no, src, dst, tcp, flag, ts) ==
    [no |-> no, src |-> src, dst |-> dst, tcp |-> tcp, flag |-> flag, ts |-> ts, parsed |-> TRUE]

\* Two conversations.  The first pauses longer than the idle timeout and goes on; if
\* they share a shard, the packet of the second one in the pause cuts it in two.
Pause == << P(1, 1, 2, TRUE, "none", 0), P(2, 3, 2, FALSE, "none", 5), P(3, 2, 1, TRUE, "none", 6) >>

\* A frame without a flow key, a conversation closed by FINs in both directions, and a
\* packet of another one in between.
Close == << P(1, 1, 2, TRUE, "fin", 0), [P(2, 0, 0, FALSE, "none", 0) EXCEPT !.parsed = FALSE],
            P(3, 3, 2, FALSE, "none", 1), P(4, 2, 1, TRUE, "fin", 1) >>

\* The same conversation again after it was closed, started by the other side.
Again == << P(1, 1, 2, TRUE, "fin", 0), P(2, 2, 1, TRUE, "fin", 1), P(3, 2, 1, TRUE, "none", 1),
            P(4, 3, 2, FALSE, "none", 2) >>

MCCaptures == {Pause, Close, Again}
=============================================================================
