---------------------------- MODULE MC_Connection ----------------------------
EXTENDS Connection
=============================================================================
