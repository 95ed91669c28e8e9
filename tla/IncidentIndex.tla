---------------------------- MODULE IncidentIndex ----------------------------
(***************************************************************************)
(* rag.py: the state of Bm25Index and what a sync() does to it.  Rows are  *)
(* never deleted, so the detections table is the ids 1..n.  Scores, terms  *)
(* and document lengths follow from the documents and are left out.        *)
(***************************************************************************)
EXTENDS Integers, Sequences, SequencesExt

\* docs: the ids indexed, in order; lastId: where the next sync goes on.
Index == [docs : Seq(Nat), lastId : Nat]

EmptyIndex == [docs |-> <<>>, lastId |-> 0]

\* Seeded bug: only an id that went backwards makes the index rebuild.
ShrunkId(ix, count) == count < ix.lastId

\* The table shrank, or the index holds more than the table (count and maximum id agree).
Shrunk(ix, count) == count < ix.lastId \/ count < Len(ix.docs)

\* Either the index as it is or, when it cannot be right, an empty one.
SelfHeal(ix, count) == IF Shrunk(ix, count) THEN EmptyIndex ELSE ix

\* The rows above the last id, up to `upto`, as the SELECT delivers them.
Delta(ix, upto) == [i \in 1..(upto - ix.lastId) |-> ix.lastId + i]

\* Seeded bug: the two reads are made in the other order.
IndexBeforeMax(ix, max, upto) ==
    [docs |-> ix.docs \o Delta(ix, max), lastId |-> upto]

\* The SELECT delivered every row up to `upto`; the maximum was read before it.
IndexDelta(ix, max, upto) ==
    [docs |-> ix.docs \o Delta(ix, upto), lastId |-> max]

\* The SELECT broke off after the row `upto`: the rows stay, the last id does not move.
IndexPart(ix, upto) == [ix EXCEPT !.docs = @ \o Delta(ix, upto)]

Indexed(ix) == ToSet(ix.docs)

\* Every row up to n once, and no other.
Exact(ix, n) == Len(ix.docs) = n /\ Indexed(ix) = 1..n
=============================================================================
