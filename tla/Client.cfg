SPECIFICATION FairSpec
CONSTANTS
    p1 = p1
    p2 = p2
    p3 = p3
    p4 = p4
    Posts <- MCPosts
    PostTime <- MCPostTime
    PostScore <- MCPostScore
    InMode <- MCInMode
    Loads = {l1, l2}
    Tabs = {"following", "wot", "custom", "bookmarks"}
    Filters <- MCFilters
    PageSize = 2
    CustomPage = 1
    Relays = {r1, r2}
    Items = {x1, x2}
    Copies = {c1, c2}
    EditBound = 2
    LastSecond = 2
    Keys = {k1, k2}
    Tasks = {t1, t2}
    NewestVersion = 1
    Persons = {alice, bob}
    Requests = {q1, q2}
    Sessions = {s1, s2}
    Pubkeys = {k1, k2}
    Submits = {u1}
    ZapItems = {p1}
    PosterOf <- MCPosterOf
    Zaps = {z1, z2}
    ZapLoads = {l1, l2}
    OtherReceipts = {o1}
\* The bounds on edits, versions and sessions stop a part, and the wizard has an end.
CHECK_DEADLOCK FALSE
INVARIANTS
    TypeOK
    FeedIsComplete
    EditsCompose
    ServedIsCurrent
    ShownIsSignedIn
    WizardIsConsistent
    ZapsAddUp
PROPERTIES
    SessionsEnd
