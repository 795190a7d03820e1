--------------------------- MODULE MCTelegramLink ---------------------------
(* Two users, two Telegram accounts, two requests at once. *)
EXTENDS TelegramLink, TLC

CONSTANTS u1, u2, c1, c2, r1, r2

TwoUsers == {u1, u2}
TwoChats == {c1, c2}
TwoRequests == {r1, r2}

Symmetric == Permutations(TwoUsers) \cup Permutations(TwoChats) \cup Permutations(TwoRequests)
=============================================================================
