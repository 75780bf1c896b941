\* Two callers racing over two plans of one channel, with deaths and failed
\* writes or appends between any two steps; nothing is evicted.
CONSTANTS
    A = A
    B = B
    C = C
    b1 = b1
    env = env
    bcast = bcast
    foreign = foreign
    None = None
    Proc = {p1, p2}
    PlanId = {A, B}
    Blob = {b1}
    Channel <- ThreeChannels
    LocalEnv = env
    Broadcast = bcast
    Doc <- TwoPlans
    LegacyDoc = {}
    TransitionTargets <- UpgradeTargets
    KeepPolicies = {}
    Corruptible = {}
SYMMETRY Workers
SPECIFICATION Spec
INVARIANTS
    TypeOK
    AtMostOneApplying
    AdmissionSnapshotFresh
    PromotedPlansComplete
    AuditTrailMatches
PROPERTIES
    ImplementsLifecycle
CHECK_DEADLOCK FALSE
