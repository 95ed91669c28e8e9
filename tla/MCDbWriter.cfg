\* Three rows through a queue of two and batches of two: full queues, full and partial
\* batches, batches of one and of two statements, one SQLite failure anywhere.
CONSTANTS
    logs = logs
    detections = detections
    replay = replay
    Statements <- MCStatements
    Drainers <- MCDrainers
    QueueMax = 2
    BatchSize = 2
    MaxRows = 3
    MaxErrors = 1
SPECIFICATION Spec
INVARIANTS TypeOK RowOnce TableOrder WrittenIsHonest DrainIsBarrier
PROPERTIES RowsLeave
CHECK_DEADLOCK FALSE
