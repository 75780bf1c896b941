\* apply_retention may evict the plan with the highest applied sequence.
CONSTANTS
    A = A
    B = B
    C = C
    b1 = b1
    env = env
    bcast = bcast
    foreign = foreign
    None = None
    Proc = {p1}
    PlanId = {A, B}
    Blob = {}
    Channel <- ThreeChannels
    LocalEnv = env
    Broadcast = bcast
    Doc <- TwoPlans
    LegacyDoc = {}
    TransitionTargets <- UpgradeTargets
    KeepPolicies = {0}
    Corruptible = {}
SPECIFICATION Spec
PROPERTIES
    NoReplay
CHECK_DEADLOCK FALSE
