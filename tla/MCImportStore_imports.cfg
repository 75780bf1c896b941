\* Two callers over two blobs and two receipts, with failed calls and power
\* losses between any two steps.
CONSTANTS
    Proc = {p1, p2}
    Digest = {d1, d2}
    MaxReceipts = 2
    None = None
SYMMETRY Symmetry
SPECIFICATION Spec
INVARIANTS
    TypeOK
    ReceiptSigned
    SettledReceiptVerifies
    HeldBlobsKept
    PreflightListsMissing
CHECK_DEADLOCK FALSE
