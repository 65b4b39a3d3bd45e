---------------------------- MODULE MCWorkOrders ----------------------------
EXTENDS WorkOrders, TLC

\* Every proper slot within four instants, so that two of them may be apart, touch,
\* overlap, share an end, contain each other or be equal; an empty and a reversed one.
SlotsAskedFor ==
    {slot \in (0 .. 3) \X (0 .. 3) : slot[1] < slot[2]} \cup {<<1, 1>>, <<2, 1>>}

\* Identifiers are uuids: no handler orders or computes with them.
Symmetry ==
    Permutations(WorkOrderIds) \cup Permutations(TaskIds)
        \cup Permutations(BookingIds) \cup Permutations(Calls)
=============================================================================
