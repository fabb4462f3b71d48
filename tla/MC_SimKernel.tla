---------------------------- MODULE MC_SimKernel ----------------------------
EXTENDS SimKernel
=============================================================================
