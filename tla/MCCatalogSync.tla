--------------------------- MODULE MCCatalogSync ---------------------------
(***************************************************************************)
(* Values of the constants of CatalogSync for TLC.                         *)
(***************************************************************************)
EXTENDS CatalogSync, TLC

CONSTANTS c1, c2, p1, r1, r2, r3, t1, t2

\* r1 and r2 differ only in fields that are not embedded.
McTextOf == (r1 :> t1) @@ (r2 :> t1) @@ (r3 :> t2)
McTextOf2 == (r1 :> t1) @@ (r3 :> t2)

\* r2 has a flag at 0 where r1 has 1.
McCoerced == (r1 :> r1) @@ (r2 :> r1) @@ (r3 :> r3)
McCoerced2 == (r1 :> r1) @@ (r3 :> r3)

\* The image ships one capability with one product.
McSeed == [caps |-> [c \in Caps |-> IF c = c1 THEN r1 ELSE None],
           prods |-> [p \in Prods |-> c1]]
=============================================================================
