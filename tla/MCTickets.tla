----------------------------- MODULE MCTickets -----------------------------
EXTENDS Tickets, TLC

\* Identifiers are uuids; nothing is ordered by them.
Symmetry ==
    Permutations(TicketIds) \cup Permutations(EstimateIds)
        \cup Permutations(WorkOrderIds) \cup Permutations(Calls)
=============================================================================
