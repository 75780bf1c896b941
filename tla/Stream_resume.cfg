\* Three events, the second of them unreadable, over connections that are
\* refused, cut, recycled and wedged.
CONSTANTS
    MaxSequence = 3
    Unreadable = {2}
    MaxDelay = 60
    MaxMisses = 7
    None = None
SPECIFICATION FairSpec
INVARIANTS
    ResumesLosslessly
    BackoffPaced
PROPERTIES
    EventuallyDelivered
CHECK_DEADLOCK FALSE
