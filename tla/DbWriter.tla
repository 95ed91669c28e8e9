------------------------------ MODULE DbWriter ------------------------------
(***************************************************************************)
(* Stage 3, BatchedDBWriter of pipeline.py: rows are submitted without     *)
(* ever blocking, one thread batches them and writes each batch in one     *)
(* SQLite transaction, and drain() is a barrier through the same queue.    *)
(*                                                                         *)
(* SQLite is modelled by how this code uses it: executemany adds rows to   *)
(* the connection's open transaction and may raise part-way (a lock held   *)
(* by a direct writer for too long, a full disk, a bad row), commit may    *)
(* raise, a transaction nobody rolls back stays open, and close() rolls    *)
(* it back.                                                                *)
(***************************************************************************)
EXTENDS SequencesExt, Subsequences

CONSTANTS
    Statements,     \* the INSERT statements, one per table
    Drainers,       \* threads that call drain()
    QueueMax,       \* config.WRITE_QUEUE_MAX
    BatchSize,      \* config.DB_BATCH_SIZE
    MaxRows,        \* bound: rows submitted
    MaxErrors       \* bound: SQLite exceptions

ASSUME DbWriterAssumption ==
    /\ QueueMax \in Nat \ {0}
    /\ BatchSize \in Nat \ {0}
    /\ MaxRows \in Nat
    /\ MaxErrors \in Nat

VARIABLES
    q,              \* the write queue, oldest first
    submitted,      \* submit() calls so far; a row is named by its number
    refused,        \* the rows submit() dropped because the queue was full
    pc,             \* where the writer thread is
    batch,          \* its `batch`, in the order of the queue
    rest,           \* the rows of the batch whose group _flush has still to execute
    item,           \* the barrier or stop being served, NoItem otherwise
    tx,             \* rows executed in the open transaction
    db,             \* rows committed
    stats,          \* written, batches, dropped, errors
    failed,         \* rows of the batches whose flush raised (history)
    vanished,       \* those of them that were not executed, or rolled back (history)
    drainer,        \* drainer -> where its drain() call is
    saw,            \* drainer -> the rows queued when drain() was called (history)
    signalled,      \* drainers whose event is set
    stopping        \* stop() was called

queueVars == <<q, submitted, refused>>
writerVars == <<pc, batch, rest, item>>
sqlVars == <<tx, db, failed, vanished>>
drainVars == <<drainer, saw, signalled, stopping>>
vars == <<queueVars, writerVars, sqlVars, stats, drainVars>>

RowItem(no, sql) == [kind |-> "row", no |-> no, sql |-> sql]
DrainItem(d) == [kind |-> "drain", by |-> d]
StopItem == [kind |-> "stop"]
NoItem == [kind |-> "none"]

\* The rows of some of the tables.
RowsOf(tables) == [kind : {"row"}, no : 1..MaxRows, sql : tables]

Row == RowsOf(Statements)

Item == Row \cup {DrainItem(d) : d \in Drainers} \cup {StopItem}

Numbers(rows) == {r.no : r \in Range(rows)}

Init ==
    /\ q = <<>> /\ submitted = 0 /\ refused = {}
    /\ pc = "connect" /\ batch = <<>> /\ rest = <<>> /\ item = NoItem
    /\ tx = <<>> /\ db = <<>> /\ failed = {} /\ vanished = {}
    /\ stats = [written |-> 0, batches |-> 0, dropped |-> 0, errors |-> 0]
    /\ drainer = [d \in Drainers |-> "idle"]
    /\ saw = [d \in Drainers |-> {}]
    /\ signalled = {}
    /\ stopping = FALSE

Room == Len(q) < QueueMax

-----------------------------------------------------------------------------
(* Producers: submit, drain, stop *)

Submit(sql) ==
    /\ submitted < MaxRows
    /\ submitted' = submitted + 1
    /\ IF Room THEN /\ q' = Append(q, RowItem(submitted + 1, sql))
                    /\ UNCHANGED <<refused, stats>>
               ELSE /\ refused' = refused \cup {submitted + 1}
                    /\ stats' = [stats EXCEPT !.dropped = @ + 1]
                    /\ UNCHANGED q
    /\ UNCHANGED <<writerVars, sqlVars, drainVars>>

\* drain() first asks whether the writer thread is alive.
DrainCall(d) ==
    /\ drainer[d] = "idle"
    /\ drainer' = [drainer EXCEPT ![d] = IF pc = "closed" THEN "false" ELSE "put"]
    /\ saw' = [saw EXCEPT ![d] = (1..submitted) \ refused]
    /\ UNCHANGED <<queueVars, writerVars, sqlVars, stats, signalled, stopping>>

DrainPut(d) ==
    /\ drainer[d] = "put" /\ Room
    /\ q' = Append(q, DrainItem(d))
    /\ drainer' = [drainer EXCEPT ![d] = "wait"]
    /\ UNCHANGED <<submitted, refused, writerVars, sqlVars, stats, saw, signalled, stopping>>

DrainReturns(d) ==
    /\ drainer[d] = "wait"
    /\ d \in signalled
    /\ drainer' = [drainer EXCEPT ![d] = "true"]
    /\ UNCHANGED <<queueVars, writerVars, sqlVars, stats, saw, signalled, stopping>>

DrainTimesOut(d) ==
    /\ drainer[d] = "wait"
    /\ d \notin signalled
    /\ drainer' = [drainer EXCEPT ![d] = "false"]
    /\ UNCHANGED <<queueVars, writerVars, sqlVars, stats, saw, signalled, stopping>>

Stop ==
    /\ ~stopping /\ Room
    /\ stopping' = TRUE
    /\ q' = Append(q, StopItem)
    /\ UNCHANGED <<submitted, refused, writerVars, sqlVars, stats, drainer, saw, signalled>>

-----------------------------------------------------------------------------
(* The writer thread: run *)

Connect ==
    /\ pc = "connect"
    /\ pc' = "get"
    /\ UNCHANGED <<queueVars, batch, rest, item, sqlVars, stats, drainVars>>

\* The exception ends the thread; submit() goes on filling the queue.
ConnectFails ==
    /\ pc = "connect"
    /\ stats.errors < MaxErrors
    /\ pc' = "closed"
    /\ UNCHANGED <<queueVars, batch, rest, item, sqlVars, stats, drainVars>>

\* _flush(rows), which does nothing for an empty batch; `done` is where it returns to.
StartFlush(rows, done) ==
    /\ pc' = IF rows = <<>> THEN done ELSE "flush"
    /\ rest' = rows

\* A row joins the batch, which is flushed when it is full or its time is up.
GetRow ==
    \E due \in BOOLEAN :
        /\ pc = "get" /\ q # <<>> /\ Head(q).kind = "row"
        /\ q' = Tail(q)
        /\ batch' = Append(batch, Head(q))
        /\ IF due \/ Len(batch') >= BatchSize THEN StartFlush(batch', "get")
                                              ELSE UNCHANGED <<pc, rest>>
        /\ UNCHANGED <<submitted, refused, item, sqlVars, stats, drainVars>>

\* Seeded bug: only a full batch is flushed.
GetTimesOutForgets ==
    /\ pc = "get" /\ q = <<>> /\ Len(batch) >= BatchSize
    /\ StartFlush(batch, "get")
    /\ UNCHANGED <<queueVars, batch, item, sqlVars, stats, drainVars>>

\* queue.Empty at the deadline.
GetTimesOut ==
    /\ pc = "get" /\ q = <<>> /\ batch # <<>>
    /\ StartFlush(batch, "get")
    /\ UNCHANGED <<queueVars, batch, item, sqlVars, stats, drainVars>>

\* Seeded bug: the barrier is answered without flushing the batch first.
GetBarrierSkipsFlush ==
    /\ pc = "get" /\ q # <<>> /\ Head(q).kind \in {"drain", "stop"}
    /\ q' = Tail(q)
    /\ item' = Head(q)
    /\ pc' = Head(q).kind
    /\ UNCHANGED <<submitted, refused, batch, rest, sqlVars, stats, drainVars>>

\* A barrier or the stop item: flush what was queued before it, then serve it.
GetBarrier ==
    /\ pc = "get" /\ q # <<>> /\ Head(q).kind \in {"drain", "stop"}
    /\ q' = Tail(q)
    /\ item' = Head(q)
    /\ StartFlush(batch, Head(q).kind)
    /\ UNCHANGED <<submitted, refused, batch, sqlVars, stats, drainVars>>

\* Where the writer goes after a flush.
AfterFlush == IF item = NoItem THEN "get" ELSE item.kind

\* Seeded bug: a batch is written from its newest row back.
GroupNewestFirst == Reverse(Only(rest, RowsOf({Head(rest).sql})))

\* The rows of the next group: those with the statement of the first row left.
Group == Only(rest, RowsOf({Head(rest).sql}))

Execute ==
    /\ pc = "flush" /\ rest # <<>>
    /\ tx' = tx \o Group
    /\ rest' = Only(rest, RowsOf(Statements \ {Head(rest).sql}))
    /\ UNCHANGED <<queueVars, pc, batch, item, db, failed, vanished, stats, drainVars>>

\* Seeded bug: the failed batch is kept and flushed again with the next rows.
FlushRaisesRetries(executed) ==
    /\ stats.errors < MaxErrors
    /\ stats' = [stats EXCEPT !.errors = @ + 1]
    /\ tx' = tx \o executed
    /\ failed' = failed \cup Numbers(batch)
    /\ vanished' = vanished
    /\ batch' = batch /\ rest' = <<>>
    /\ pc' = AfterFlush
    /\ UNCHANGED <<queueVars, item, db, drainVars>>

\* Seeded bug: the counters are updated in a `finally`.
FlushRaisesCounts(executed) ==
    /\ stats.errors < MaxErrors
    /\ stats' = [stats EXCEPT !.errors = @ + 1, !.written = @ + Len(batch)]
    /\ tx' = tx \o executed
    /\ failed' = failed \cup Numbers(batch)
    /\ vanished' = vanished \cup (Numbers(rest) \ Numbers(executed))
    /\ batch' = <<>> /\ rest' = <<>>
    /\ pc' = AfterFlush
    /\ UNCHANGED <<queueVars, item, db, drainVars>>

\* _flush catches the exception, counts one error and forgets the batch -- but nobody
\* rolls back: what was executed waits in the transaction for the next commit.
FlushRaises(executed) ==
    /\ stats.errors < MaxErrors
    /\ stats' = [stats EXCEPT !.errors = @ + 1]
    /\ tx' = tx \o executed
    /\ failed' = failed \cup Numbers(batch)
    /\ vanished' = vanished \cup (Numbers(rest) \ Numbers(executed))
    /\ batch' = <<>> /\ rest' = <<>>
    /\ pc' = AfterFlush
    /\ UNCHANGED <<queueVars, item, db, drainVars>>

\* executemany raises at a row of the group, with the rows before it executed.
ExecuteFails ==
    /\ pc = "flush" /\ rest # <<>>
    /\ \E n \in 0..(Len(Group) - 1) : FlushRaises(SubSeq(Group, 1, n))

Commit ==
    /\ pc = "flush" /\ rest = <<>>
    /\ db' = db \o tx
    /\ tx' = <<>>
    /\ pc' = "count"
    /\ UNCHANGED <<queueVars, batch, rest, item, failed, vanished, stats, drainVars>>

CommitFails == pc = "flush" /\ rest = <<>> /\ FlushRaises(<<>>)

\* Seeded bug: the batch is not emptied.
CountWrittenKeepsBatch ==
    /\ pc = "count"
    /\ stats' = [stats EXCEPT !.written = @ + Len(batch), !.batches = @ + 1]
    /\ pc' = AfterFlush
    /\ UNCHANGED <<queueVars, batch, rest, item, sqlVars, drainVars>>

\* The counters of a batch, after its commit.
CountWritten ==
    /\ pc = "count"
    /\ stats' = [stats EXCEPT !.written = @ + Len(batch), !.batches = @ + 1]
    /\ batch' = <<>>
    /\ pc' = AfterFlush
    /\ UNCHANGED <<queueVars, rest, item, sqlVars, drainVars>>

\* A barrier: set the event of its drain() call and go on.
Signal ==
    /\ pc = "drain"
    /\ signalled' = signalled \cup {item.by}
    /\ item' = NoItem
    /\ pc' = "get"
    /\ UNCHANGED <<queueVars, batch, rest, sqlVars, stats, drainer, saw, stopping>>

\* The stop item: the connection is closed, and with it goes an open transaction.
Close ==
    /\ pc = "stop"
    /\ item' = NoItem
    /\ vanished' = vanished \cup Numbers(tx)
    /\ tx' = <<>>
    /\ pc' = "closed"
    /\ UNCHANGED <<queueVars, batch, rest, db, failed, stats, drainVars>>

Writer ==
    \/ Connect \/ GetRow \/ GetTimesOut \/ GetBarrier
    \/ Execute \/ Commit \/ CountWritten \/ Signal \/ Close

Next ==
    \/ \E sql \in Statements : Submit(sql)
    \/ \E d \in Drainers : DrainCall(d) \/ DrainPut(d) \/ DrainReturns(d) \/ DrainTimesOut(d)
    \/ Stop
    \/ Writer \/ ConnectFails \/ ExecuteFails \/ CommitFails

\* The writer thread goes on (get() times out when nothing comes), and so does a drain()
\* whose event was set.  Nothing obliges SQLite to fail or a wait to time out.
Fairness ==
    /\ WF_vars(Writer)
    /\ \A d \in Drainers : SF_vars(DrainPut(d)) /\ WF_vars(DrainReturns(d))

Spec == Init /\ [][Next]_vars /\ Fairness

-----------------------------------------------------------------------------
(* Properties *)

\* Types; a flush is under way only with a batch, and the batch never outgrows its size.
TypeOK ==
    /\ submitted \in 0..MaxRows /\ refused \subseteq 1..MaxRows
    /\ pc \in {"connect", "get", "flush", "count", "drain", "stop", "closed"}
    /\ q \in Seq(Item) /\ Len(q) <= QueueMax
    /\ batch \in Seq(Row) /\ Len(batch) <= BatchSize
    /\ rest \in Seq(Row) /\ tx \in Seq(Row) /\ db \in Seq(Row)
    /\ item \in {DrainItem(d) : d \in Drainers} \cup {StopItem, NoItem}
    /\ stats \in [written : Nat, batches : Nat, dropped : Nat, errors : 0..MaxErrors]
    /\ failed \subseteq 1..MaxRows /\ vanished \subseteq 1..MaxRows
    /\ drainer \in [Drainers -> {"idle", "put", "wait", "true", "false"}]
    /\ saw \in [Drainers -> SUBSET (1..MaxRows)]
    /\ signalled \subseteq Drainers
    /\ stopping \in BOOLEAN

\* The rows of the pipeline from the database back to the queue, in write order.
Waiting == IF pc = "count" THEN <<>> ELSE IF pc = "flush" THEN rest ELSE batch

Queued == Only(q, Row)

Pending == tx \o Waiting \o Queued

\* No row is written twice and none disappears without a trace: a submitted row is
\* refused and counted, or vanished in a flush that was counted as an error, or it is
\* exactly once in the queue, the batch, the open transaction or the database.
RowOnce ==
    LET rows == db \o Pending
    IN /\ IsInjective(rows)
       /\ Numbers(rows) \cup refused \cup vanished = 1..submitted
       /\ Numbers(rows) \cap (refused \cup vanished) = {}
       /\ refused \cap vanished = {}
       /\ vanished \subseteq failed
       /\ Cardinality(refused) = stats.dropped

\* Every table keeps the order its rows were submitted in, through grouping, failed
\* batches and the transaction a failed batch leaves open: detections are numbered by
\* the id SQLite gives them, and the console pages by it.
TableOrder ==
    \A i, j \in 1..Len(db \o Pending) :
        LET rows == db \o Pending
        IN i < j /\ rows[i].sql = rows[j].sql => rows[i].no < rows[j].no

\* The counters of /pipeline-stats: `written` never counts a row that is not in the
\* database, and without errors it is exact between two batches.
WrittenIsHonest ==
    /\ stats.written <= Len(db)
    /\ stats.errors = 0 /\ pc # "count" => stats.written = Len(db)

\* drain() is a barrier: when it returns True, every row queued before the call is in the
\* database, or was in a batch whose flush raised -- also while others go on submitting.
DrainIsBarrier ==
    \A d \in Drainers :
        drainer[d] = "true" => saw[d] \subseteq Numbers(db) \cup failed

\* drain's docstring says more: "Block until everything queued so far is committed.
\* Returns True if the flush completed within `timeout`."
DrainMeansCommitted ==
    \A d \in Drainers : drainer[d] = "true" => saw[d] \subseteq Numbers(db)

\* No row waits for ever in the queue or in a partial batch: it is committed, or its
\* batch fails, or the writer has been stopped or never connected.
RowsLeave ==
    \A n \in 1..MaxRows :
        (n <= submitted /\ n \notin refused)
            ~> (n \in Numbers(db) \cup failed \/ pc = "closed")
=============================================================================
