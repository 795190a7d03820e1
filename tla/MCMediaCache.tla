----------------------------- MODULE MCMediaCache -----------------------------
EXTENDS MediaCache, Sequences

CONSTANTS p, q

TwoUrls == {p, q}
TwoLots == <<p, q>>
OnlyQ == {q}

=============================================================================
