\* One environment over nine documents, two keys and ten archives; the trust
\* root rotates and the process dies between any two steps.
CONSTANTS
    PlanId = {"p1", "p2", "p3"}
    EnvId = {"prod", "dev", "_"}
    Nonce = {"n1", "n2"}
    Name = {"pack", "flow", "old", "gtc"}
    Target = {"x86", "arm"}
    Abi = {"abi"}
    Hex = {"h1", "h2", "h0"}
    Key = {"k1", "k2"}
    Broadcast = "_"
    Junk = Junk
    None = None
    Archives <- AllArchives
    Cap = 3
    Docs <- AllDocs
    Envelopes <- AllEnvelopes
    Catalogues <- AllCatalogues
    LocalEnv = "prod"
    HostAbi = "abi"
    HostName = "gtc"
    HostTarget = "x86"
    FirstVersion = 1
    FirstContent = "h0"
    MaxAttempts = 4
SPECIFICATION FairSpec
INVARIANTS
    TypeOK
    AdmittedWasReleased
    HistoryCompatible
    NothingLeftOut
    RunningBinaryIsPlanned
    UnpackedIsFirstMatch
PROPERTIES
    WorkConverges
CHECK_DEADLOCK FALSE
