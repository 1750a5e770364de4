CONSTANTS
    j1 = j1
    c1 = c1
    c2 = c2
    Jobs <- MCJobs
    Callers <- MCCallers
SPECIFICATION Spec
SYMMETRY MCSymmetry
INVARIANTS
    StrayNeedsStaleCheck
    OnlyUpdatesUnconfirmed
    OursStaysOurs
