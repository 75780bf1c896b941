\* Begins and transitions of one plan, four in all, each with a failure, a
\* short write or a dying process at any step, and two power losses.
CONSTANTS
    MaxCommits = 4
    MaxLosses = 2
    Torn = Torn
    None = None
SPECIFICATION Spec
INVARIANTS
    TypeOK
    DocumentsBesideMarker
    LogNeverAhead
    ReportedIsKept
CHECK_DEADLOCK FALSE
