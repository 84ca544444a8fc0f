----------------------------- MODULE MCRecommend -----------------------------
\* Constants of Recommend for TLC.
EXTENDS Recommend

CONSTANTS r1, r2

=============================================================================
