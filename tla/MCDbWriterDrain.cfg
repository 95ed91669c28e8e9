\* The instance of MCDbWriter.cfg; one failed flush is enough.
CONSTANTS
    logs = logs
    detections = detections
    replay = replay
    Statements <- MCStatements
    Drainers <- MCDrainers
    QueueMax = 2
    BatchSize = 2
    MaxRows = 3
    MaxErrors = 1
SPECIFICATION Spec
INVARIANT DrainMeansCommitted
CHECK_DEADLOCK FALSE
