---------------------------- MODULE MCRateLimiter ----------------------------
\* Instances of RateLimiter for TLC.
EXTENDS RateLimiter

CONSTANTS k1, k2

TwoKeys == {k1, k2}
=============================================================================
