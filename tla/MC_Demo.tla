------------------------------- MODULE MC_Demo -------------------------------
EXTENDS Demo
=============================================================================
