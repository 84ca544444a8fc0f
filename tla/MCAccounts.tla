----------------------------- MODULE MCAccounts -----------------------------
(***************************************************************************)
(* Values of the constants of Accounts for TLC.                            *)
(***************************************************************************)
EXTENDS Accounts, TLC

CONSTANTS s1, s2

\* Each identity's stand-in for an address.
McSynthetic == [o \in Identities |-> IF o = CHOOSE p \in Identities : TRUE THEN s1 ELSE s2]

\* Requests are interchangeable.
Symmetry == Permutations(Requests)
=============================================================================
