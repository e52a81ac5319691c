SPECIFICATION FairLockSpec
CONSTANTS
    MaxTx = 3
    Actors = {a1, a2}
    Keys = {k1}
    Purchases = {p1}
    Hops = {root, middle, leaf}
    None = None
    a1 = a1
    a2 = a2
    k1 = k1
    p1 = p1
    root = root
    middle = middle
    leaf = leaf
    PathTo <- PathDef
    Holder <- HolderDef
    Buyer <- BuyerDef
CHECK_DEADLOCK FALSE
INVARIANTS
    OrderedLocksNeverCircle
    LooksStayTrue
PROPERTIES
    EveryTransactionEnds
