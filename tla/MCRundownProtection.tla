------------------------ MODULE MCRundownProtection ------------------------
EXTENDS RundownProtection

CONSTANTS c1, c2, c3

MCCalls == {c1, c2, c3}
=============================================================================
