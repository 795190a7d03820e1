----------------------------- MODULE MCLogStream -----------------------------
EXTENDS LogStream

CONSTANTS c1

OneConn == {c1}

=============================================================================
