SPECIFICATION Spec
CONSTANTS
    alice = alice
    bob = bob
    n1 = n1
    n2 = n2
    Keys = {alice, bob}
    Challenges = {ch}
    K1s = {k1}
    Events <- MCEvents
    SessionIds = {s1, s2, s3}
    Requests = {r1, r2}
    AnyKey = anyKey
    ChallengeTtl = 1
    SessionTtl = 1
    Window = 1
    NonceTtl = 2
    Owners = {alice}
    KeyIds = {s1, s2, s3}
    KeyCalls = {r1, r2}
    KeyLimit = 1
    KeyEnds = {0, 9}
    Pubkeys = {alice, bob}
    Notable = {alice}
    BatchSize = 2
    Enabled = TRUE
    MaxFaults = 2
    Relays = {relay}
    RateLimit = 2
    RateWindow = 3
    RequestDelay = 1
    MaxBackoff = 2
    Users = {alice, bob}
    Notes = {n1, n2}
    AuthorOf <- MCAuthorOf
    NoteDates = {1, 3}
    Syncs = {r1, r2}
    StopBound = 1
    Urls = {n1, n2}
    Namers = {alice, bob}
    Persists = {r1, r2}
    RestartBound = 1
    Addresses = {n1}
    Claimants = {alice, bob}
    Nobody = nobody
    Checks = {r1, r2}
    VerifyTtl = 1
    FetchTime = 1
    MaxTime = 7
    Horizon <- MCHorizon
    Focuses = {"challenges", "wallets", "events", "keys", "queue", "window", "notes", "registry", "checks"}
SYMMETRY MCSymmetry
CHECK_DEADLOCK FALSE
INVARIANTS
    TypeOK
    ChallengeUse
    EventUse
    KeysWithinLimit
    InWorkIsCurrent
    AskedIsServed
    RateKept
    CursorCoversLocal
    RegistryIsKept
    VerifiedWasNamed
