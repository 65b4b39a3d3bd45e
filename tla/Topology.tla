------------------------------ MODULE Topology ------------------------------
(***************************************************************************)
(* The topology registry of the backend: TopologyRegistry of state.py, the *)
(* first sync and the loop main.py starts, and POST /topology/sync of      *)
(* routes/buildings.py.  A sync asks Building OS for the buildings, then   *)
(* for each building's floors, devices and spaces, and stores the building *)
(* when it has all three; it is suspended in each of these requests, so    *)
(* that the syncs asked for over HTTP overlap with the loop's.             *)
(*                                                                         *)
(* Building OS is external.  What it says of a building is abstracted to   *)
(* the number of the change that last touched it; the building's own       *)
(* record, which GET /buildings names and the registry copies, is left out.*)
(***************************************************************************)
EXTENDS Naturals

CONSTANTS
    Buildings,      \* the dt_ids Building OS may list
    Requests,       \* the syncs POST /topology/sync may start
    Loop,           \* the sync loop, which also stands for the first sync
    MaxChanges,     \* bounds the changes in Building OS
    MaxFailures,    \* bounds the requests that fail
    Absent

Syncs == Requests \cup {Loop}

VARIABLES
    upstream,       \* upstream[b]: the last change of b, its listing or delisting included
    listed,         \* the buildings GET /buildings names
    changes,        \* the changes made in Building OS so far
    failures,       \* the requests that have failed so far
    serving,        \* the first sync is over: the loop runs, requests are served
    topologies,     \* _topologies
    at,             \* at[s]: the request sync s is suspended in
    todo,           \* todo[s]: the buildings sync s has still to do after this one
    fetched,        \* fetched[s]: the building it is at and what it has got of it
    overtaken       \* history: overtaken[s]: since s is at its building another
                    \* sync has stored that building

vars == <<upstream, listed, changes, failures, serving, topologies, at, todo, fetched, overtaken>>

Versions == 0 .. MaxChanges

\* Floors and devices come from requests for the building; GET /spaces takes no
\* parameter and names the spaces of every building, told apart here by theirs.
BuildingTopology == [floors : Versions, devices : Versions, spaces : SUBSET Buildings]

ASSUME TopologyAssumption ==
    /\ Loop \notin Requests
    /\ Absent \notin Versions \cup BuildingTopology
    /\ MaxChanges \in Nat \ {0} /\ MaxFailures \in Nat

Places == {"idle", "buildings", "floors", "devices", "spaces", "sleeping", "over"}

\* A stored building is complete, and a sync is at one of its requests.
TypeOK ==
    /\ upstream \in [Buildings -> Versions]
    /\ listed \in SUBSET Buildings
    /\ changes \in Versions
    /\ failures \in 0 .. MaxFailures
    /\ serving \in BOOLEAN
    /\ topologies \in [Buildings -> BuildingTopology \cup {Absent}]
    /\ at \in [Syncs -> Places]
    /\ todo \in [Syncs -> SUBSET Buildings]
    /\ fetched \in [Syncs -> [building : Buildings \cup {Absent}, floors : Versions,
                              devices : Versions]]
    /\ overtaken \in [Syncs -> BOOLEAN]

Nothing == [building |-> Absent, floors |-> 0, devices |-> 0]

Init ==
    /\ upstream = [b \in Buildings |-> 0]
    /\ listed \in SUBSET Buildings
    /\ changes = 0
    /\ failures = 0
    /\ serving = FALSE
    /\ topologies = [b \in Buildings |-> Absent]
    /\ at = [s \in Syncs |-> IF s = Loop THEN "buildings" ELSE "idle"]
    /\ todo = [s \in Syncs |-> {}]
    /\ fetched = [s \in Syncs |-> Nothing]
    /\ overtaken = [s \in Syncs |-> FALSE]

-----------------------------------------------------------------------------

\* Building OS: a building changes, appears or goes.
Change(b) ==
    /\ changes < MaxChanges
    /\ changes' = changes + 1
    /\ upstream' = [upstream EXCEPT ![b] = changes + 1]
    /\ \/ listed' = listed \cup {b}
       \/ b \in listed /\ listed' = listed \ {b}
    /\ UNCHANGED <<failures, serving, topologies, at, todo, fetched, overtaken>>

Failure == failures < MaxFailures /\ failures' = failures + 1

-----------------------------------------------------------------------------

\* sync_once is left, with an exception or without.  Whoever awaits it survives
\* both: the first sync is followed by the loop's own, which sleeps after each,
\* and the task of a request is over.
End(s, error) ==
    /\ \/ s # Loop /\ at' = [at EXCEPT ![s] = "over"] /\ UNCHANGED serving
       \/ s = Loop /\ serving /\ at' = [at EXCEPT ![s] = "sleeping"] /\ UNCHANGED serving
       \/ s = Loop /\ ~serving /\ at' = [at EXCEPT ![s] = "buildings"] /\ serving' = TRUE
    /\ todo' = [todo EXCEPT ![s] = {}]
    /\ fetched' = [fetched EXCEPT ![s] = Nothing]

\* (mutant) sync_once returns from inside the loop, after the first building.
NextBuildingOnly(s, left) ==
    \/ /\ left = {} \/ fetched[s].building # Absent
       /\ End(s, FALSE)
    \/ \E b \in left :
          /\ fetched[s].building = Absent
          /\ at' = [at EXCEPT ![s] = "floors"]
          /\ todo' = [todo EXCEPT ![s] = left \ {b}]
          /\ fetched' = [fetched EXCEPT ![s] = [Nothing EXCEPT !.building = b]]
          /\ UNCHANGED serving

\* The next pass of the for loop of sync_once, or its end.
NextBuilding(s, left) ==
    \/ /\ left = {} /\ End(s, FALSE)
    \/ \E b \in left :
          /\ at' = [at EXCEPT ![s] = "floors"]
          /\ todo' = [todo EXCEPT ![s] = left \ {b}]
          /\ fetched' = [fetched EXCEPT ![s] = [Nothing EXCEPT !.building = b]]
          /\ UNCHANGED serving

\* The answer to GET /buildings, or the exception that ends the sync.
GetBuildings(s) ==
    /\ at[s] = "buildings"
    /\ \/ NextBuilding(s, listed) /\ UNCHANGED failures
       \/ Failure /\ End(s, TRUE)
    /\ UNCHANGED <<upstream, listed, changes, topologies, overtaken>>

\* (mutant) what is known of a building is given up when one request fails.
BuildingFailsForgetting(s) ==
    /\ at[s] \in {"floors", "devices", "spaces"}
    /\ \/ Failure
       \/ at[s] # "spaces" /\ fetched[s].building \notin listed /\ UNCHANGED failures
    /\ NextBuilding(s, todo[s])
    /\ topologies' = [topologies EXCEPT ![fetched[s].building] = Absent]
    /\ overtaken' = [overtaken EXCEPT ![s] = FALSE]
    /\ UNCHANGED <<upstream, listed, changes>>

\* A request for one building failed: it is logged, and the next one is tried.
\* A building that has gone meanwhile may be answered with an error.
BuildingFails(s) ==
    /\ at[s] \in {"floors", "devices", "spaces"}
    /\ \/ Failure
       \/ at[s] # "spaces" /\ fetched[s].building \notin listed /\ UNCHANGED failures
    /\ NextBuilding(s, todo[s])
    /\ overtaken' = [overtaken EXCEPT ![s] = FALSE]
    /\ UNCHANGED <<upstream, listed, changes, topologies>>

\* (mutant) the lists of a building are kept on the registry, for whoever stores next.
GetFloorsShared(s) == LET b == fetched[s].building IN
    /\ at[s] = "floors"
    /\ at' = [at EXCEPT ![s] = "devices"]
    /\ fetched' = [r \in Syncs |-> IF fetched[r].building = b
                                   THEN [fetched[r] EXCEPT !.floors = upstream[b]]
                                   ELSE fetched[r]]
    /\ UNCHANGED <<upstream, listed, changes, failures, serving, topologies, todo, overtaken>>

\* The answers to GET /floors, GET /device-details and GET /spaces; the last one
\* lets the building be stored.  Of a building that has gone meanwhile the answer may
\* also be a list, of what is left of it, which is stored like any other.
GetFloors(s) == LET b == fetched[s].building IN
    /\ at[s] = "floors"
    /\ at' = [at EXCEPT ![s] = "devices"]
    /\ fetched' = [fetched EXCEPT ![s].floors = upstream[b]]
    /\ UNCHANGED <<upstream, listed, changes, failures, serving, topologies, todo, overtaken>>

GetDevices(s) == LET b == fetched[s].building IN
    /\ at[s] = "devices"
    /\ at' = [at EXCEPT ![s] = "spaces"]
    /\ fetched' = [fetched EXCEPT ![s].devices = upstream[b]]
    /\ UNCHANGED <<upstream, listed, changes, failures, serving, topologies, todo, overtaken>>

GetSpaces(s) == LET f == fetched[s] IN
    /\ at[s] = "spaces"
    /\ topologies' = [topologies EXCEPT ![f.building] =
                         [floors |-> f.floors, devices |-> f.devices, spaces |-> listed]]
    /\ NextBuilding(s, todo[s])
    /\ overtaken' = [r \in Syncs |->
                        r # s /\ (overtaken[r] \/ fetched[r].building = f.building)]
    /\ UNCHANGED <<upstream, listed, changes, failures>>

-----------------------------------------------------------------------------

\* BUILDING_SYNC_INTERVAL_SEC have passed.
Wake ==
    /\ at[Loop] = "sleeping"
    /\ at' = [at EXCEPT ![Loop] = "buildings"]
    /\ UNCHANGED <<upstream, listed, changes, failures, serving, topologies, todo, fetched, overtaken>>

\* POST /topology/sync starts a task and answers at once, whatever else runs.
TriggerSync(s) ==
    /\ s \in Requests /\ serving /\ at[s] = "idle"
    /\ at' = [at EXCEPT ![s] = "buildings"]
    /\ UNCHANGED <<upstream, listed, changes, failures, serving, topologies, todo, fetched, overtaken>>

Resume(s) == GetBuildings(s) \/ BuildingFails(s) \/ GetFloors(s) \/ GetDevices(s) \/ GetSpaces(s)

Next ==
    \/ \E b \in Buildings : Change(b)
    \/ \E s \in Syncs : Resume(s)
    \/ \E s \in Requests : TriggerSync(s)
    \/ Wake

\* The HTTP client gives up after its timeout, so that a suspended sync is always
\* resumed, and a sleep ends.
Fairness == WF_vars(Wake) /\ \A s \in Syncs : WF_vars(Resume(s))

Spec == Init /\ [][Next]_vars /\ Fairness

-----------------------------------------------------------------------------

Known == {b \in Buildings : topologies[b] # Absent}

\* The answers of Building OS are those of one moment each, and syncs overlap: a slow
\* one may store what it has read before a faster one, and the older reading stays
\* until the next sync.  That is all the overlap can do.  What is stored is read by
\* one sync, the floors before the devices, and all of it after all of what it
\* replaces, unless the building was stored by another sync while this one was at it.
OlderOnlyIfOvertaken ==
    [][\A b \in Buildings :
          \/ topologies'[b] \in {topologies[b], Absent}
          \/ /\ topologies'[b].floors <= topologies'[b].devices
             /\ b \in Known => topologies[b].devices <= topologies'[b].floors
          \/ \E s \in Syncs : at[s] = "spaces" /\ fetched[s].building = b /\ overtaken[s]]_vars

\* Once Building OS stops changing and its requests stop failing, which the
\* bounds see to, the registry ends up with the current topology of every listed
\* building, in spite of every failed and every overlapping sync before.
Converges ==
    <>[](\A b \in listed :
            topologies[b] = [floors |-> upstream[b], devices |-> upstream[b], spaces |-> listed])

=============================================================================
