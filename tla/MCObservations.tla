--------------------------- MODULE MCObservations ---------------------------
EXTENDS Observations
=============================================================================
