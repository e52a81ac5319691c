SPECIFICATION Spec
CONSTANTS
    h1 = h1
    h2 = h2
    alice = alice
    bob = bob
    human = human
    tea = tea
    r1 = r1
    r2 = r2
    r3 = r3
    None = None
    Hops = {}
    Actors = {alice}
    Approver = human
    Skus = {tea}
    Refs = {r1, r2}
    Amounts = {1, 2}
    Asks <- NoAsks
    Drafts <- TwoDrafts
    DayOf <- MCDayOf
    MaxVersions = 2
    MaxTime = 2
    MaxWait = 1
    MaxDepth = 1
    AuthorityTtl = 1
INVARIANTS
    TypeOK
    ReservationIsClaims
    DayWithinLimit
    ApprovalGate
    EventsExplainPayment
    AuthorityStandsForDecision
SYMMETRY RefSymmetry
CHECK_DEADLOCK FALSE
