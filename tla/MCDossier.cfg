\* Three stored detections and one classified while the operator reads, of two verdicts; two
\* rows to a page and to a section of a report; three requests, for pages in any order and
\* one of them perhaps for a report.
CONSTANTS
    normal = normal
    suspicious = suspicious
    Verdicts <- MCVerdicts
    Filters <- MCFilters
    Workers = 1
    All = All
    PageSize = 2
    Stored = 3
    MaxDetections = 4
    MaxAsks = 3
    Suspicious = suspicious
    Role <- MCRole
    RowLimit = 2
    MaxReports = 1
SPECIFICATION ReportSpec
INVARIANTS ScreenIsOneAnswer NoneSkipped ReportAddsUp TimelineIsTrue
CHECK_DEADLOCK FALSE
