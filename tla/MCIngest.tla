------------------------------ MODULE MCIngest ------------------------------
(* Two sources with three lots of two columns, one of them compared; the       *)
(* database refuses the first price of one.                                    *)
EXTENDS Ingest, TLC

CONSTANTS s1, s2, k1, k2, k3

TwoSources == {s1, s2}
ThreeKeys == {k1, k2, k3}
TwoAndOne == (k1 :> s1) @@ (k2 :> s1) @@ (k3 :> s2)
FirstChanges == {k1}
Both == {"scheduled", "admin"}
TwoColumns == {"price", "region"}
OnlyPrice == {"price"}
FirstBad == {<<k1, "price", 0>>}
=============================================================================
