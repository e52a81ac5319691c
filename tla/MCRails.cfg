SPECIFICATION BothSpec
CONSTANTS
    h1 = h1
    alice = alice
    human = human
    tea = tea
    r1 = r1
    w1 = w1
    w2 = w2
    None = None
    Hops = {h1}
    Actors = {alice}
    Approver = human
    Skus = {tea}
    Refs = {r1}
    Amounts = {1}
    Asks <- OneAsk
    Drafts <- TwoPolicies
    DayOf <- MCDayOf
    MaxVersions = 1
    MaxTime = 1
    MaxWait = 0
    MaxDepth = 0
    AuthorityTtl = 1
    Workers = {w1, w2}
    MaxOrders = 3
    MaxLate = 1
    Patient = FALSE
    WebhookMaxAge = 1
    MaxOpened = 2
    Restarts = TRUE
    Agreements = {TRUE, FALSE}
INVARIANTS
    BothTypeOK
    ConsumedLeavesIntent
    TrailAccounts
    OneRail
    CapturedIsConfirmed
    RowsAgree
PROPERTIES
    OrdersGated
SYMMETRY WorkerSymmetry
CHECK_DEADLOCK FALSE
