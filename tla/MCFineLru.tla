----------------------------- MODULE MCFineLru ------------------------------
EXTENDS FineLru
CONSTANTS t1, t2
MCKeys == 0 .. 1
=============================================================================
