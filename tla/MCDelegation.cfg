SPECIFICATION DelegationSpec
CONSTANTS
    h1 = h1
    h2 = h2
    h3 = h3
    alice = alice
    bob = bob
    carol = carol
    tea = tea
    None = None
    Hops = {h1, h2, h3}
    Actors = {alice, bob, carol}
    Skus = {tea}
    Refs = {r1, r2}
    Amounts = {1, 2}
    Asks <- MCAsks
    Drafts <- MCDrafts
    DayOf <- MCDayOf
    MaxVersions = 1
    MaxTime = 2
    MaxWait = 1
    MaxDepth = 2
INVARIANTS
    DelegationTypeOK
    CountersAreTheBooks
    BranchWithinBudget
    ChainNarrows
    OneHopPerActor
PROPERTIES
    SpendNeedsWholeChain
    HistoryIsFixed
SYMMETRY HopSymmetry
CHECK_DEADLOCK FALSE
