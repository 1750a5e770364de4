--------------------------- MODULE MCHfHomePatch ---------------------------
EXTENDS HfHomePatch

CONSTANTS a, b, c, d

MCCalls == {a, b, c, d}
=============================================================================
