------------------------------ MODULE MCSources ------------------------------
EXTENDS Sources

CONSTANTS a, b, c, d, e, n, m

AllItems == {a, b, c, d, e, n, m}
SomeLots == [i \in AllItems |-> IF i \in {a, e} THEN 2 ELSE 1]
FiveShown == <<a, b, c, d, e>>
ServedSizes == [k \in Kinds |-> IF k = "torgi" THEN 1 ELSE 2]
InvalidOnes == {b}
NamelessOnes == {c}
OldOnes == {d}
BrokenOnes == {m}

=============================================================================
