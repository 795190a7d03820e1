---------------------------- MODULE MCAdminGuard ----------------------------
(* Three users, two of them administrators. *)
EXTENDS AdminGuard, TLC

CONSTANTS u1, u2, u3, r1, r2

TwoUsers == {u1, u2}
ThreeUsers == {u1, u2, u3}
TwoRequests == {r1, r2}
PromoteDemoteBlock == {<<"true", "absent">>, <<"false", "absent">>, <<"absent", "true">>}
SameRequests == Permutations(TwoRequests)
=============================================================================
