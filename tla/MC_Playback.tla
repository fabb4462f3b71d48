----------------------------- MODULE MC_Playback -----------------------------
EXTENDS Playback
=============================================================================
