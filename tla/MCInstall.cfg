SPECIFICATION InstallSpec
CONSTANTS
    None = None
    Orders = {o1}
    Moments = {1, 2}
    MaxCommands = 3
    MaxTampering = 1
    Boots = {"b1", "b2"}
    Codes = {"main", "other"}
    CodeOf <- MCCodeOf
    Main = "main"
    SeedCode = None
    SeedTags <- MCSeedTags
    DemoTag = "demo"
    Goal <- MCGoal
    Qty <- MCQty
    Desired <- MCDesired
    Spoilable = {"company", "period"}
    MaxKills = 1
    MaxMeddling = 1
INVARIANTS
    SchemaOfRevision
    MigrationsSucceed
    HistoryKept
    FirstAdminOnce
    NeverDuplicated
PROPERTIES
    FailsOnlyForCause
    SeedConverges
CHECK_DEADLOCK FALSE
