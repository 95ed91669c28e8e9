\* Three requests of any kind, two tool calls, two detections, one failing index read.
CONSTANTS
    Nobody = Nobody
    NoResult = NoResult
    MaxRequests = 3
    MaxToolCalls = 2
    Focus = 1
    MaxRows = 2
    MaxMessage = 3
    MaxReadErrors = 1
SPECIFICATION Spec
INVARIANTS AnsweredIsSeen NothingMissed HealsWhenQuiet
PROPERTIES RequestsEnd
CHECK_DEADLOCK FALSE
