SPECIFICATION FairCatalogueSpec
CONSTANTS
    Item = {i1, i2, i3}
    NewItem = {i3}
    Hourly = hourly
    Asked = {asked}
    Toggle = {t1}
    BatchLimit = 2
    NoItem = NoItem
    MaxActs = 2
    MaxTroubles = 1
INVARIANTS
    ShortFeedRetiresNothing
PROPERTIES
    AnsweredIsKept
    StoreFollowsPos
