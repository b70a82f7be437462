--------------------------- MODULE MCClientCoreLL ---------------------------
\* Instances of ClientCoreLL for TLC.
EXTENDS ClientCoreLL
CONSTANTS m1, m2, m3, r1, r2
=============================================================================
