------------------------------ MODULE MCRunPage ------------------------------
EXTENDS RunPage, TLC
=============================================================================
