------------------------------ MODULE MCServer ------------------------------
EXTENDS Server

CONSTANTS c1, c2, c3
=============================================================================
