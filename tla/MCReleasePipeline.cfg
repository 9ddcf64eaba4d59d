SPECIFICATION Spec
CONSTANTS
    c1 = c1
    c2 = c2
    Nil = Nil
    Commits = {c1, c2}
    Impact <- MCImpact
    Builds = {1, 2}
    MaxBuilt = 2
    MoveRc = TRUE
    MaxReleases = 1
    MaxFaults = 1
SYMMETRY MCSymmetry
INVARIANTS
    PublishedComplete
    TagBindsBytes
    StableComplete
    HeadKept
    AbsenceTold
