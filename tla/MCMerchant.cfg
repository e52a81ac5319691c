SPECIFICATION FairDeskSpec
CONSTANTS
    MaxTx = 3
    MaxLines = 2
    PollLimit = 6
    MaxAmount = 2
    MaxDaily = 3
    ApprovalAbove = 1
    Id <- IdDef
    None = None
    Garbled = Garbled
    Blank = Blank
    dal = dal
    oil = oil
    nosuch = nosuch
    Skus = {dal, oil}
    Price <- PriceDef
    MaxQuantity <- MaxQuantityDef
    Injected <- InjectedDef
    Goals <- GoalsDef
    Answers <- AnswersDef
INVARIANTS
    DeskTypeOK
    BasketIsWhole
    ScreenAgreesWithLimit
    ToldOnceInOrder
PROPERTIES
    PanelCatchesUp
