\* apply_retention keeping one terminal plan of two, interrupted half way,
\* with ids that are begun again after their eviction.
CONSTANTS
    A = A
    B = B
    C = C
    b1 = b1
    env = env
    bcast = bcast
    foreign = foreign
    None = None
    Proc = {p1}
    PlanId = {A, B}
    Blob = {b1}
    Channel <- ThreeChannels
    LocalEnv = env
    Broadcast = bcast
    Doc <- TwoPlans
    LegacyDoc = {}
    TransitionTargets <- FailingTargets
    KeepPolicies = {1}
    Corruptible = {}
SPECIFICATION FairSpec
INVARIANTS
    ActivePlanVerifiable
PROPERTIES
    RetentionKeepsNewest
    LockReleased
CHECK_DEADLOCK FALSE
