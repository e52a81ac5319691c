SPECIFICATION BothSpec
CONSTANTS
    h1 = h1
    alice = alice
    human = human
    tea = tea
    r1 = r1
    w1 = w1
    w2 = w2
    None = None
    Hops = {}
    Actors = {alice}
    Approver = human
    Skus = {tea}
    Refs = {r1}
    Amounts = {1}
    Asks <- NoAsks
    Drafts <- OnePolicy
    DayOf <- MCDayOf
    MaxVersions = 1
    MaxTime = 1
    MaxWait = 0
    MaxDepth = 0
    AuthorityTtl = 1
    Workers = {w1, w2}
    MaxOrders = 2
    MaxLate = 0
    Patient = FALSE
    WebhookMaxAge = 1
    MaxOpened = 1
    Restarts = TRUE
    Agreements = {TRUE}
INVARIANTS
    OneOrderPerPurchase
CHECK_DEADLOCK FALSE
