CONSTANTS
    ChanCap = 2
    CtlCap = 1
    GraceCap = 1
    EngSymbols = {"a"}
    MaxTicks = 2
    EngOrders = {1}
    EngConfigs <- McEngConfigs
    GwOrders = {1, 2, 3}
    OrderQty = 2
    Shards = 2
    ShardCap = 1
    Admins = {100, 101}
    GwInstruments = {"p", "q"}
    Ticks <- McTicks
    RuleSet <- McRules
    Scripts <- McScripts
    OkxOrders = {1, 2}
    OkxDerivatives = {2}
    OkxQty = 2
    OkxInstruments = {"p", "q"}
    MaxOutages = 2
    OkxCases <- McOkxCases
    QueryFails = TRUE
    RecOrders = {1}
    RecTrades = {1, 2}
    MaxVersions = 2
    RecQueueCap = 1
    InboxCap = 2
    RecFaults = 2
    LastMonth = 3
    RetentionMonths = 1
    RecCases <- McRecCases
    TimerKeys = {1}
    Menus <- McMenus
    MaxTime = 6
    MaxRegs = 3
    CronCap = 2
    MtConfigs <- McMtConfigs
    MaxReloads = 2
    MaxRefs = 3
SPECIFICATION SvcSpec
INVARIANTS
    LatestTickSettled ContextConverges
    EveryCommandReported PositionsExplicit
    OkTradesRecovered
    AckedIsStored
    
    RefsKeepMeaning
CHECK_DEADLOCK FALSE
