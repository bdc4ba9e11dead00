----------------------------- MODULE MCStartup -----------------------------
EXTENDS Startup

CONSTANTS k1, k2
=============================================================================
