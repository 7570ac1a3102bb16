--------------------------- MODULE MCDaemonBringup ---------------------------
EXTENDS DaemonBringup
CONSTANTS c1, c2, c3
=============================================================================
