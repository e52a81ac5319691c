SPECIFICATION EvidenceSpec
CONSTANTS
    h1 = h1
    h2 = h2
    alice = alice
    bob = bob
    human = human
    tea = tea
    r1 = r1
    None = None
    Hops = {h1}
    Actors = {alice}
    Approver = human
    Skus = {tea}
    Refs = {r1}
    Amounts = {1, 2}
    Asks <- OneAsk
    Drafts <- OneDraft
    DayOf <- MCDayOf
    MaxVersions = 1
    MaxTime = 2
    MaxWait = 1
    MaxDepth = 1
    AuthorityTtl = 1
INVARIANTS
    AllowedWasTrue
    PageHangsTogether
CHECK_DEADLOCK FALSE
