SPECIFICATION Spec
CONSTANTS
    Nil = Nil
    Sessions = {s1, s2}
    Paths = {p1, p2, m1}
    Inbox = {m1}
    Ids = {i1, i2}
    MaxProposals = 2
    MaxUpstream = 1
SYMMETRY MCSymmetry
INVARIANTS
    GoverningReviewed
    RejectedBeforeDemoted
