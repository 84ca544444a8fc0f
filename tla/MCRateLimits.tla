----------------------------- MODULE MCRateLimits -----------------------------
\* Constants of RateLimits for TLC.
EXTENDS RateLimits, TLC

CONSTANTS q1, q2, q3

McLimit == [k \in Kinds |-> 2]
McWindow == [k \in Kinds |-> 2]
McSymmetry == Permutations(Requests)

=============================================================================
