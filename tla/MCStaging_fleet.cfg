\* One caller over the environment's and the broadcast channel: a plan staged
\* without a recorded channel, a cross-channel requirement, a plan for another
\* environment, and a marker that rots.
CONSTANTS
    A = A
    B = B
    C = C
    b1 = b1
    env = env
    bcast = bcast
    foreign = foreign
    None = None
    Proc = {p1}
    PlanId = {A, B, C}
    Blob = {}
    Channel <- ThreeChannels
    LocalEnv = env
    Broadcast = bcast
    Doc <- FleetPlans
    LegacyDoc <- LegacyFleet
    TransitionTargets <- UpgradeTargets
    KeepPolicies = {}
    Corruptible = {C}
SPECIFICATION Spec
INVARIANTS
    AtMostOneApplying
PROPERTIES
    NoReplay
CHECK_DEADLOCK FALSE
