--------------------------- MODULE MCSchedulingCycle ---------------------------
EXTENDS SchedulingCycle
=============================================================================
