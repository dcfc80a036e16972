\* Two updates race, with restarts that leave the dependent plugin on; no symmetry,
\* for liveness.
SPECIFICATION GateSpec
CONSTANTS
    prereq = prereq
    dependent = dependent
    alone = alone
    plain = plain
    grace = grace
    bad = bad
    Txns = {t1, t2}
    Plugins = {prereq, dependent, alone}
    Requires <- MCRequires
    DefaultEnabled = {prereq}
    Configs = {plain, grace, bad}
    ValidConfigs = {plain, grace}
    DefaultConfig = plain
    Settings <- Harmless
    Omitted = Omitted
    NoRow = NoRow
    Firings = {f1}
    Rank <- MCRank
INVARIANTS
    DependenciesMet
    PrerequisitesRunFirst
PROPERTIES
    NothingOverwritten
    EveryUpdateEnds
CHECK_DEADLOCK FALSE
