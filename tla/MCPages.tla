------------------------------- MODULE MCPages -------------------------------
EXTENDS Pages
=============================================================================
