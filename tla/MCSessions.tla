----------------------------- MODULE MCSessions -----------------------------
(* A browser with two tabs: the page of one makes two calls at once, the other *)
(* logs in and out; two logins of the user, one cookie. *)
EXTENDS Sessions, TLC

CONSTANTS u1, t1, t2, c1, c2

OneUser == {u1}
TwoTabs == {t1, t2}
TwoCalls == {c1, c2}
SameTab == (c1 :> t1) @@ (c2 :> t1)
FirstQuiet == {c1}
=============================================================================
