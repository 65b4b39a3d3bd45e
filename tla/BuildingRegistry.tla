-------------------------- MODULE BuildingRegistry --------------------------
(***************************************************************************)
(* building-registry, the microservice that keeps the topology for the     *)
(* others.  Its TopologyRegistry is the backend's, line by line: sync_once *)
(* and run_sync_loop are those of Topology.  The registry is in memory, so *)
(* that a process that restarts begins with nothing while Building OS and  *)
(* what it has said before have gone on; this holds for both builds.       *)
(***************************************************************************)
EXTENDS Topology

CONSTANT MaxRestarts    \* bounds the restarts of the process

ASSUME RestartsAssumption == MaxRestarts \in Nat

VARIABLE restarts       \* the restarts so far

registryVars == <<vars, restarts>>

\* The registry of a process that has restarted is still one of Topology's.
RegistryTypeOK == TypeOK /\ restarts \in 0 .. MaxRestarts

RegistryInit == Init /\ restarts = 0

-----------------------------------------------------------------------------

\* sync_once, one answer or failure at a time, and the sleep of run_sync_loop.
SyncOnce(s) == Resume(s)
RunSyncLoop == Wake

\* The process ends, whatever its syncs are at, and lifespan begins again with the
\* first sync.  A sync that was asked for is not made up for.
Restart ==
    /\ restarts < MaxRestarts /\ restarts' = restarts + 1
    /\ serving' = FALSE
    /\ topologies' = [b \in Buildings |-> Absent]
    /\ at' = [s \in Syncs |-> CASE s = Loop -> "buildings"
                                [] s # Loop /\ at[s] = "idle" -> "idle"
                                [] OTHER -> "over"]
    /\ todo' = [s \in Syncs |-> {}]
    /\ fetched' = [s \in Syncs |-> Nothing]
    /\ overtaken' = [s \in Syncs |-> FALSE]
    /\ UNCHANGED <<upstream, listed, changes, failures>>

RegistryNext ==
    \/ /\ \/ \E b \in Buildings : Change(b)
          \/ \E s \in Syncs : SyncOnce(s)
          \/ \E s \in Requests : TriggerSync(s)
          \/ RunSyncLoop
       /\ UNCHANGED restarts
    \/ Restart

\* As in Topology: a request is answered or given up, and a sleep ends.
RegistrySpec == RegistryInit /\ [][RegistryNext]_registryVars /\ Fairness

-----------------------------------------------------------------------------

\* Only a restart makes the registry forget a building: no failing request, no
\* overlapping sync and no change of Building OS does.
ForgetsOnlyByRestart ==
    [][restarts' = restarts => \A b \in Known : topologies'[b] # Absent]_registryVars

=============================================================================
