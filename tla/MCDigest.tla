------------------------------ MODULE MCDigest ------------------------------
(* Small days: one user with one or two filters. *)
EXTENDS Digest, TLC

CONSTANTS u1, f1, f2

OneUser == {u1}
OneFilter == {f1}
TwoFilters == {f1, f2}
BothOfOne == [f \in TwoFilters |-> u1]
OneOfOne == [f \in OneFilter |-> u1]
DueMidnight == (u1 :> 0)
Both == {"scheduled", "forced"}
AllTemplates == {"named", "positional", "unknown"}
=============================================================================
