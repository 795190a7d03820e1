-------------------------------- MODULE MCSite --------------------------------
EXTENDS Site

CONSTANTS all, cars, s1, s2

SomeLots == 1..3
TwoFilters == {all, cars}
Matching == [f \in TwoFilters |-> IF f = all THEN SomeLots ELSE {2}]
Prices == [l \in SomeLots |-> IF l = 1 THEN 5 ELSE 7]
Cars == {2}
TwoSeeds == {s1, s2}
Hashes == [s \in TwoSeeds |-> IF s = s1 THEN <<2, 3, 1>> ELSE <<1, 2, 3>>]
AllOrOneLess == {SomeLots, {1, 2}}
OneHeart == {{2}}

=============================================================================
