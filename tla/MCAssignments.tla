--------------------------- MODULE MCAssignments ---------------------------
EXTENDS Assignments
=============================================================================
