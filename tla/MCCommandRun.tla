---------------------------- MODULE MCCommandRun ----------------------------
EXTENDS CommandRun, TLC
=============================================================================
