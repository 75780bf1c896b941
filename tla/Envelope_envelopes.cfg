\* Envelopes of up to two blobs and a trust rotation, over a medium with one
\* fault, scanned with a limit that the longest one exceeds.
CONSTANTS
    Blob = {b1, b2}
    MaxBlobs = 2
    MaxDamage = 1
    MaxEntries = 7
SPECIFICATION Spec
INVARIANTS
    TypeOK
    AcceptedIsSealed
    ExtractedIsTrusted
    RejectedForCause
CHECK_DEADLOCK FALSE
