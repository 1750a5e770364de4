--------------------------- MODULE MCJobLifecycle ---------------------------
EXTENDS JobLifecycle, TLC

CONSTANTS j1, c1, c2

MCJobs == {j1}
MCCallers == {c1, c2}
MCSymmetry == Permutations(MCCallers)
=============================================================================
