\* Two processes that enroll twice between them, with a CA whose
\* clock is ahead, lost answers, revocations and old snapshots.
CONSTANTS
    Proc = {p1, p2}
    Lifetimes = {1, 2}
    MaxTime = 3
    MaxKeys = 2
    Garbage = Garbage
    None = None
SPECIFICATION Spec
INVARIANTS
    StoredPairMatches
    ClientIsLetIn
    RefusedForGoodReason
CHECK_DEADLOCK FALSE
