\* Two calls for overlapping bundles of a workspace and its component.
SPECIFICATION Spec
CONSTANTS
    n1 = n1
    n2 = n2
    ws = ws
    comp = comp
    s1 = s1
    s2 = s2
    None = None
    Calls <- MCCalls
    Keys <- MCKeys
    Sessions <- MCSessions
    Files <- MCFiles
    RootOf <- MCRootOf
    Below <- MCBelow
    Canonical <- MCCanonical
    NameOf <- MCNameOf
    Requests <- MCRequests
    ForeignFiles <- MCForeignFiles
    Cap = 3
    MaxFaults = 1
SYMMETRY CallSymmetry
INVARIANTS
    SlotHeld
    SingleBootstrap
    OncePerSession
    BundleWhole
    CommitsWhole
CHECK_DEADLOCK FALSE
