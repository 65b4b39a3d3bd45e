--------------------------- MODULE MCOpsDashboard ---------------------------
EXTENDS OpsDashboard, TLC

\* Identifiers are uuids; the order of the lists is not looked at.
Symmetry == Permutations(PaymentIds)

=============================================================================
