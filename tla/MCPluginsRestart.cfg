\* The dependent plugin is switched off in the settings, and on again.
SPECIFICATION GateSpec
CONSTANTS
    prereq = prereq
    dependent = dependent
    alone = alone
    plain = plain
    grace = grace
    bad = bad
    Txns = {t1, t2}
    Plugins = {prereq, dependent, alone}
    Requires <- MCRequires
    DefaultEnabled = {prereq}
    Configs = {plain, grace, bad}
    ValidConfigs = {plain, grace}
    DefaultConfig = plain
    Settings <- DependentOff
    Omitted = Omitted
    NoRow = NoRow
    Firings = {}
    Rank <- MCRank
INVARIANTS
    DependenciesMet
CHECK_DEADLOCK FALSE
