------------------------- MODULE MCDaemonRetirement -------------------------
EXTENDS DaemonRetirement
CONSTANTS c1, c2
=============================================================================
