SPECIFICATION WiringSpec
CONSTANTS
    settings = settings
    notes = notes
    plugin = plugin
    cli = cli
    p1 = p1
    p2 = p2
    n1 = n1
    u1 = u1
    u2 = u2
    None = None
    Procs = {p1, p2}
    Pieces = {n1}
    Endpoints = {u1, u2}
    Settings = {settings}
    Notes = {notes}
    Plugins = {plugin}
    CliFiles = {cli}
    EnforceOrder <- MCEnforceOrder
    Machines <- MCMachines
    MaxSecond = 1
    MaxCutOffs = 1
SYMMETRY Symmetry
INVARIANTS
    OwnContentKept
    WiringKept
CHECK_DEADLOCK FALSE
