------------------------- MODULE MCBuildingRegistry -------------------------
EXTENDS BuildingRegistry
=============================================================================
