------------------------------ MODULE MCProgram ------------------------------
EXTENDS Program

CONSTANTS n1, n2
=============================================================================
