--------------------------- MODULE MCRateLimiter ---------------------------
\* A bucket of two and two thirds of a call, refilled by two thirds of a call per
\* unit of time, so that balances between whole calls occur.
EXTENDS RateLimiter

MCRate == 2
MCCost == 3
MCCapacity == 8
=============================================================================
