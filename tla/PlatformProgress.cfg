SPECIFICATION FairSpec
CONSTANTS
    alice = alice
    bob = bob
    n1 = n1
    n2 = n2
    Keys = {alice, bob}
    Challenges = {ch}
    K1s = {k1}
    Events <- MCEvents
    SessionIds = {s1, s2}
    Requests = {r1, r2}
    AnyKey = anyKey
    ChallengeTtl = 1
    SessionTtl = 1
    Window = 1
    NonceTtl = 2
    Owners = {alice}
    KeyIds = {x1, x2, x3}
    KeyCalls = {c1, c2}
    KeyLimit = 1
    KeyEnds = {0, 9}
    Pubkeys = {alice, bob}
    Notable = {alice}
    BatchSize = 2
    Enabled = TRUE
    MaxFaults = 2
    Relays = {relay}
    RateLimit = 2
    RateWindow = 3
    RequestDelay = 1
    MaxBackoff = 2
    Users = {alice, bob}
    Notes = {n1, n2}
    AuthorOf <- MCAuthorOf
    NoteDates = {1, 3}
    Syncs = {u1, u2}
    StopBound = 1
    Urls = {n1, n2}
    Namers = {alice, bob}
    Persists = {r1, r2}
    RestartBound = 0
    Addresses = {n1}
    Claimants = {alice, bob}
    Nobody = nobody
    Checks = {v1, v2}
    VerifyTtl = 1
    FetchTime = 1
    MaxTime = 7
    Horizon <- MCHorizon
    Focuses = {"wallets", "queue"}
CHECK_DEADLOCK FALSE
PROPERTIES
    LnurlLogin
    QueuedIsTaken
