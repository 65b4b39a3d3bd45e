------------------------------ MODULE MCChains ------------------------------
EXTENDS Chains
=============================================================================
