--------------------------- MODULE Topology_proofs ---------------------------
EXTENDS BuildingRegistry, OpsDashboard, TLAPS

(***************************************************************************)
(* The two components that read what others change in several requests:    *)
(* the registry, which reads Building OS, and the operations dashboard,    *)
(* which reads the backend.  First the registry.                           *)
(***************************************************************************)

(***************************************************************************)
(* What a sync that was not overtaken stores is read after all that is     *)
(* stored: its floors come from a request made since, and what is stored   *)
(* was no later than what Building OS said when it was stored.  So the     *)
(* invariant orders, for each building, the stored reading, the readings   *)
(* under way and what Building OS says now.                                *)
(***************************************************************************)
Busy == {"floors", "devices", "spaces"}

\* The reading sync s has begun.
ReadingOf(s) == LET f == fetched[s] IN
    /\ at[s] \in Busy => f.building \in Buildings
    /\ at[s] = "devices" => f.floors <= upstream[f.building]
    /\ at[s] = "spaces" => f.floors <= f.devices /\ f.devices <= upstream[f.building]
    /\ at[s] \in {"devices", "spaces"} /\ ~overtaken[s] /\ f.building \in Known
          => topologies[f.building].devices <= f.floors

ReadingsOrdered ==
    /\ \A b \in Buildings : upstream[b] <= changes
    /\ \A b \in Known : topologies[b].devices <= upstream[b]
    /\ \A s \in Syncs : ReadingOf(s)

IInv == RegistryTypeOK /\ ReadingsOrdered

-----------------------------------------------------------------------------

\* What a sync's move to its next building, or to its end, does.
Moves(s) ==
    /\ \A r \in Syncs \ {s} : at'[r] = at[r] /\ fetched'[r] = fetched[r]
    /\ at'[s] \notin {"devices", "spaces"}
    /\ at'[s] = "floors" => fetched'[s].building \in Buildings
    /\ serving' \in BOOLEAN
    /\ at' \in [Syncs -> Places]
    /\ todo' \in [Syncs -> SUBSET Buildings]
    /\ fetched' \in [Syncs -> [building : Buildings \cup {Absent}, floors : Versions,
                               devices : Versions]]

LEMMA EndMoves ==
    ASSUME TypeOK, NEW s \in Syncs, NEW error \in BOOLEAN, End(s, error)
    PROVE  Moves(s)
<1>1. Nothing \in [building : Buildings \cup {Absent}, floors : Versions, devices : Versions]
  BY TopologyAssumption DEF Nothing, Versions
<1>2. PICK p \in {"over", "sleeping", "buildings"} : at' = [at EXCEPT ![s] = p]
  BY DEF End
<1> QED
  BY <1>1, <1>2 DEF End, Moves, TypeOK, Places

LEMMA NextMoves ==
    ASSUME TypeOK, NEW s \in Syncs, NEW left \in SUBSET Buildings, NextBuilding(s, left)
    PROVE  Moves(s)
<1>1. CASE End(s, FALSE)
  BY <1>1, EndMoves
<1>2. ASSUME NEW b \in left,
             at' = [at EXCEPT ![s] = "floors"],
             todo' = [todo EXCEPT ![s] = left \ {b}],
             fetched' = [fetched EXCEPT ![s] = [Nothing EXCEPT !.building = b]],
             UNCHANGED serving
      PROVE  Moves(s)
  <2>1. /\ [Nothing EXCEPT !.building = b] = [building |-> b, floors |-> 0, devices |-> 0]
        /\ 0 \in Versions
    BY TopologyAssumption DEF Nothing, Versions
  <2> QED
    BY <1>2, <2>1 DEF Moves, TypeOK, Places
<1> QED
  BY <1>1, <1>2 DEF NextBuilding

-----------------------------------------------------------------------------

LEMMA InitIInv == RegistryInit => IInv
<1> SUFFICES ASSUME RegistryInit PROVE IInv
  OBVIOUS
<1>1. 0 \in Versions /\ 0 \in 0 .. MaxFailures /\ 0 \in 0 .. MaxRestarts
  BY TopologyAssumption, RestartsAssumption DEF Versions
<1>2. RegistryTypeOK
  BY <1>1 DEF RegistryInit, Init, RegistryTypeOK, TypeOK, Places, Nothing
<1>3. ReadingsOrdered
  BY DEF RegistryInit, Init, ReadingsOrdered, ReadingOf, Known, Busy
<1> QED
  BY <1>2, <1>3 DEF IInv

\* The steps of Topology, one lemma each where there is something to say.
LEMMA ChangeStep ==
    ASSUME IInv, NEW b \in Buildings, Change(b), UNCHANGED restarts
    PROVE  IInv'
<1> USE DEF IInv, RegistryTypeOK, TypeOK
<1>1. changes \in Nat /\ changes' = changes + 1 /\ changes' \in Versions
  BY TopologyAssumption DEF Change, Versions
<1>2. upstream' = [upstream EXCEPT ![b] = changes + 1] /\ listed' \in SUBSET Buildings
  BY DEF Change
<1>3. RegistryTypeOK'
  BY <1>1, <1>2 DEF Change
<1>4. ASSUME NEW c \in Buildings
      PROVE  upstream[c] \in Nat /\ upstream'[c] <= changes' /\ upstream[c] <= upstream'[c]
                                 /\ upstream'[c] \in Nat
  <2>1. upstream[c] \in Nat /\ upstream[c] <= changes
    BY DEF ReadingsOrdered, Versions
  <2>2. upstream'[c] \in {upstream[c], changes + 1}
    BY <1>2
  <2> QED
    BY <1>1, <2>1, <2>2
<1>5. \A c \in Known : topologies[c].devices \in Nat
  BY DEF Known, BuildingTopology, Versions
<1>6. \A s \in Syncs : fetched[s].floors \in Nat /\ fetched[s].devices \in Nat
  BY DEF Versions
<1>7. UNCHANGED <<topologies, at, fetched, overtaken>>
  BY DEF Change
<1>8. \A s \in Syncs : ReadingOf(s)'
  BY <1>4, <1>6, <1>7 DEF ReadingsOrdered, ReadingOf, Known, Busy
<1>9. \A c \in Known' : topologies'[c].devices <= upstream'[c]
  BY <1>4, <1>5, <1>7 DEF ReadingsOrdered, Known
<1> QED
  BY <1>3, <1>4, <1>8, <1>9 DEF ReadingsOrdered

\* A sync moves on without storing anything.
LEMMA MoveStep ==
    ASSUME IInv, NEW s \in Syncs, Moves(s),
           UNCHANGED <<upstream, listed, changes, topologies, restarts>>,
           failures' \in 0 .. MaxFailures, NEW o \in BOOLEAN, overtaken' = [overtaken EXCEPT ![s] = o]
    PROVE  IInv'
<1> USE DEF IInv, RegistryTypeOK, TypeOK
<1>1. RegistryTypeOK'
  BY DEF Moves
<1>2. \A r \in Syncs : ReadingOf(r)'
  BY DEF ReadingsOrdered, ReadingOf, Moves, Known, Busy
<1> QED
  BY <1>1, <1>2 DEF ReadingsOrdered, Known

\* A sync has an answer about its building and holds it.
LEMMA HoldStep ==
    ASSUME IInv, NEW s \in Syncs, NEW p \in {"devices", "spaces"}, at' = [at EXCEPT ![s] = p],
           fetched' \in [Syncs -> [building : Buildings \cup {Absent}, floors : Versions,
                                   devices : Versions]],
           \A r \in Syncs \ {s} : fetched'[r] = fetched[r], ReadingOf(s)',
           UNCHANGED <<upstream, listed, changes, failures, serving, topologies, todo, overtaken,
                       restarts>>
    PROVE  IInv'
<1> USE DEF IInv, RegistryTypeOK, TypeOK
<1>1. RegistryTypeOK'
  BY DEF Places
<1>2. ASSUME NEW r \in Syncs \ {s} PROVE ReadingOf(r)'
  BY <1>2 DEF ReadingsOrdered, ReadingOf, Known, Busy
<1> QED
  BY <1>1, <1>2 DEF ReadingsOrdered, Known

\* What GetSpaces stores is one reading, and a later one unless the sync was overtaken.
LEMMA StoredReading ==
    ASSUME IInv, NEW s \in Syncs, GetSpaces(s)
    PROVE  LET b == fetched[s].building
               new == [floors |-> fetched[s].floors, devices |-> fetched[s].devices, spaces |-> listed]
           IN /\ b \in Buildings /\ new \in BuildingTopology
              /\ topologies' = [topologies EXCEPT ![b] = new]
              /\ new.floors <= new.devices /\ new.devices <= upstream[b]
              /\ overtaken[s] \/ b \notin Known \/ topologies[b].devices <= new.floors
<1> USE DEF IInv, RegistryTypeOK, TypeOK
<1>1. at[s] = "spaces" /\ ReadingOf(s)
  BY DEF GetSpaces, ReadingsOrdered
<1>2. fetched[s].building \in Buildings
  BY <1>1 DEF ReadingOf, Busy
<1> QED
  BY <1>1, <1>2 DEF GetSpaces, ReadingOf, BuildingTopology

LEMMA ResumeStep ==
    ASSUME IInv, NEW s \in Syncs, Resume(s), UNCHANGED restarts
    PROVE  IInv'
<1> USE DEF IInv, RegistryTypeOK, TypeOK
<1> DEFINE b == fetched[s].building
<1>0. Failure => failures' \in 0 .. MaxFailures
  BY TopologyAssumption DEF Failure
<1>1. CASE GetBuildings(s)
  <2>1. Moves(s)
    BY <1>1, NextMoves, EndMoves DEF GetBuildings
  <2>2. overtaken' = [overtaken EXCEPT ![s] = overtaken[s]]
    BY <1>1 DEF GetBuildings
  <2> QED
    BY <1>0, <1>1, <2>1, <2>2, MoveStep DEF GetBuildings
<1>2. CASE BuildingFails(s)
  <2>1. Moves(s)
    BY <1>2, NextMoves DEF BuildingFails
  <2> QED
    BY <1>0, <1>2, <2>1, MoveStep DEF BuildingFails
<1>3. CASE GetFloors(s)
  <2>1. at[s] = "floors" /\ b \in Buildings /\ upstream[b] \in Versions
    BY <1>3 DEF GetFloors, ReadingsOrdered, ReadingOf, Busy
  <2>2. /\ fetched'[s].floors = upstream[b] /\ fetched'[s].building = b
        /\ \A r \in Syncs \ {s} : fetched'[r] = fetched[r]
        /\ at'[s] = "devices"
        /\ fetched' \in [Syncs -> [building : Buildings \cup {Absent}, floors : Versions,
                                   devices : Versions]]
    BY <1>3, <2>1 DEF GetFloors
  <2>3. ReadingOf(s)'
    <3>1. upstream[b] <= upstream[b]
      BY <2>1 DEF Versions
    <3>2. b \in Known => topologies[b].devices <= upstream[b]
      BY DEF ReadingsOrdered
    <3>3. UNCHANGED <<upstream, topologies>>
      BY <1>3 DEF GetFloors
    <3> QED
      BY <2>1, <2>2, <3>1, <3>2, <3>3 DEF ReadingOf, Known
  <2> QED
    BY <1>3, <2>2, <2>3, HoldStep DEF GetFloors
<1>4. CASE GetDevices(s)
  <2>1. at[s] = "devices" /\ b \in Buildings /\ upstream[b] \in Versions
    BY <1>4 DEF GetDevices, ReadingsOrdered, ReadingOf, Busy
  <2>2. /\ fetched'[s].devices = upstream[b] /\ fetched'[s].building = b
        /\ fetched'[s].floors = fetched[s].floors
        /\ \A r \in Syncs \ {s} : fetched'[r] = fetched[r]
        /\ at'[s] = "spaces"
        /\ fetched' \in [Syncs -> [building : Buildings \cup {Absent}, floors : Versions,
                                   devices : Versions]]
    BY <1>4, <2>1 DEF GetDevices
  <2>3. ReadingOf(s)'
    <3>1. ReadingOf(s) /\ upstream[b] <= upstream[b]
      BY <2>1 DEF ReadingsOrdered, Versions
    <3>2. UNCHANGED <<upstream, topologies, overtaken>>
      BY <1>4 DEF GetDevices
    <3> QED
      BY <2>1, <2>2, <3>1, <3>2 DEF ReadingOf, Known
  <2> QED
    BY <1>4, <2>2, <2>3, HoldStep DEF GetDevices
<1>5. CASE GetSpaces(s)
  <2> DEFINE new == [floors |-> fetched[s].floors, devices |-> fetched[s].devices, spaces |-> listed]
  <2>1. Moves(s)
    BY <1>5, NextMoves DEF GetSpaces
  <2>2. /\ b \in Buildings /\ new \in BuildingTopology
        /\ topologies' = [topologies EXCEPT ![b] = new]
        /\ new.devices <= upstream[b]
    BY <1>5, StoredReading
  <2> HIDE DEF new
  <2>3. overtaken' = [r \in Syncs |-> r # s /\ (overtaken[r] \/ fetched[r].building = b)]
    BY <1>5 DEF GetSpaces
  <2>4. RegistryTypeOK'
    BY <1>5, <2>1, <2>2, <2>3 DEF GetSpaces, Moves
  <2>5. \A c \in Known' : topologies'[c].devices <= upstream'[c]
    BY <1>5, <2>2 DEF GetSpaces, ReadingsOrdered, Known
  <2>6. ASSUME NEW r \in Syncs PROVE ReadingOf(r)'
    <3>1. CASE r = s
      BY <2>1, <3>1 DEF ReadingOf, Moves, Busy
    <3>2. CASE r # s
      <4>1. /\ at'[r] = at[r] /\ fetched'[r] = fetched[r] /\ upstream' = upstream
            /\ ReadingOf(r)
        BY <1>5, <2>1, <3>2 DEF GetSpaces, Moves, ReadingsOrdered
      <4>2. ~overtaken'[r] => ~overtaken[r] /\ fetched[r].building # b
        BY <2>3, <3>2
      <4>3. fetched[r].building # b =>
               topologies'[fetched[r].building] = topologies[fetched[r].building]
        BY <2>2
      <4> QED
        BY <4>1, <4>2, <4>3 DEF ReadingOf, Known
    <3> QED
      BY <3>1, <3>2
  <2> QED
    BY <1>5, <2>4, <2>5, <2>6 DEF GetSpaces, ReadingsOrdered
<1> QED
  BY <1>1, <1>2, <1>3, <1>4, <1>5 DEF Resume

LEMMA InductiveStep == IInv /\ [RegistryNext]_registryVars => IInv'
<1> SUFFICES ASSUME IInv, [RegistryNext]_registryVars PROVE IInv'
  OBVIOUS
<1> USE DEF IInv, RegistryTypeOK, TypeOK
<1>1. CASE UNCHANGED registryVars
  BY <1>1 DEF registryVars, vars, ReadingsOrdered, ReadingOf, Known
<1>2. ASSUME NEW b \in Buildings, Change(b), UNCHANGED restarts
      PROVE  IInv'
  BY <1>2, ChangeStep
<1>3. ASSUME NEW s \in Syncs, SyncOnce(s), UNCHANGED restarts
      PROVE  IInv'
  BY <1>3, ResumeStep DEF SyncOnce
<1>4. ASSUME NEW s \in Requests, TriggerSync(s), UNCHANGED restarts
      PROVE  IInv'
  BY <1>4 DEF TriggerSync, Syncs, Places, ReadingsOrdered, ReadingOf, Known, Busy
<1>5. CASE RunSyncLoop /\ UNCHANGED restarts
  BY <1>5 DEF RunSyncLoop, Wake, Syncs, Places, ReadingsOrdered, ReadingOf, Known, Busy
<1>6. CASE Restart
  <2>1. \A s \in Syncs : at'[s] \in {"buildings", "idle", "over"}
    BY <1>6 DEF Restart
  <2>2. Nothing \in [building : Buildings \cup {Absent}, floors : Versions, devices : Versions]
    BY TopologyAssumption DEF Nothing, Versions
  <2>3. restarts' \in 0 .. MaxRestarts
    BY <1>6, RestartsAssumption DEF Restart
  <2>4. at' \in [Syncs -> Places]
    BY <1>6, <2>1 DEF Restart, Places
  <2>5. RegistryTypeOK'
    BY <1>6, <2>2, <2>3, <2>4 DEF Restart
  <2>6. ReadingsOrdered'
    BY <1>6, <2>1 DEF Restart, ReadingsOrdered, ReadingOf, Known, Busy
  <2> QED
    BY <2>5, <2>6
<1> QED
  BY <1>1, <1>2, <1>3, <1>4, <1>5, <1>6 DEF RegistryNext

-----------------------------------------------------------------------------

\* The inductive invariant holds in every reachable state.
THEOREM Invariance == RegistrySpec => []IInv
  BY InitIInv, InductiveStep, PTL DEF RegistrySpec

\* building-registry: the registry and the syncs are well formed, restarts included.
THEOREM TypeCorrect == RegistrySpec => []RegistryTypeOK
<1>1. IInv => RegistryTypeOK
  BY DEF IInv
<1> QED
  BY <1>1, Invariance, PTL

\* Only GetSpaces stores a building.
LEMMA OnlyGetSpacesStores ==
    ASSUME RegistryNext, NEW b \in Buildings, topologies \in [Buildings -> BuildingTopology \cup {Absent}],
           topologies'[b] \notin {topologies[b], Absent}
    PROVE  \E s \in Syncs : GetSpaces(s)
  BY DEF RegistryNext, Change, SyncOnce, Resume, GetBuildings, BuildingFails, GetFloors, GetDevices,
     TriggerSync, RunSyncLoop, Wake, Restart

\* sync_once: for any number of buildings, syncs, changes, failures and restarts what is
\* stored is one sync's reading, and only a sync that was overtaken stores an older one.
THEOREM OlderOnlyWhenOvertaken == RegistrySpec => OlderOnlyIfOvertaken
<1> DEFINE Stores ==
             \A b \in Buildings :
                \/ topologies'[b] \in {topologies[b], Absent}
                \/ /\ topologies'[b].floors <= topologies'[b].devices
                   /\ b \in Known => topologies[b].devices <= topologies'[b].floors
                \/ \E s \in Syncs : at[s] = "spaces" /\ fetched[s].building = b /\ overtaken[s]
<1>1. IInv /\ [RegistryNext]_registryVars => [Stores]_vars
  <2> SUFFICES ASSUME IInv, RegistryNext, NEW b \in Buildings,
                      topologies'[b] \notin {topologies[b], Absent}
               PROVE  \/ /\ topologies'[b].floors <= topologies'[b].devices
                         /\ b \in Known => topologies[b].devices <= topologies'[b].floors
                      \/ \E s \in Syncs : at[s] = "spaces" /\ fetched[s].building = b /\ overtaken[s]
    BY DEF registryVars
  <2>1. PICK s \in Syncs : GetSpaces(s)
    BY OnlyGetSpacesStores DEF IInv, RegistryTypeOK, TypeOK
  <2> DEFINE new == [floors |-> fetched[s].floors, devices |-> fetched[s].devices, spaces |-> listed]
  <2>2. /\ topologies' = [topologies EXCEPT ![fetched[s].building] = new]
        /\ new.floors <= new.devices
        /\ \/ overtaken[s] \/ fetched[s].building \notin Known
           \/ topologies[fetched[s].building].devices <= new.floors
        /\ at[s] = "spaces"
    BY <2>1, StoredReading DEF GetSpaces
  <2> HIDE DEF new
  <2>3. fetched[s].building = b /\ topologies'[b] = new
    BY <2>2 DEF IInv, RegistryTypeOK, TypeOK
  <2> QED
    BY <2>2, <2>3
<1> QED
  BY <1>1, Invariance, PTL DEF RegistrySpec, OlderOnlyIfOvertaken

\* sync_once: nothing but a restart takes a known building away.
THEOREM KeptUntilRestart == RegistrySpec => ForgetsOnlyByRestart
<1> DEFINE Kept == restarts' = restarts => \A b \in Known : topologies'[b] # Absent
<1>1. IInv /\ [RegistryNext]_registryVars => [Kept]_registryVars
  <2> SUFFICES ASSUME IInv, RegistryNext, restarts' = restarts, NEW b \in Known
               PROVE  topologies'[b] # Absent
    BY DEF Known
  <2> USE DEF IInv, RegistryTypeOK, TypeOK
  <2>1. ~Restart
    BY RestartsAssumption DEF Restart
  <2>2. CASE UNCHANGED topologies
    BY <2>2 DEF Known
  <2>3. ASSUME NEW s \in Syncs, GetSpaces(s)
        PROVE  topologies'[b] # Absent
    <3> DEFINE new == [floors |-> fetched[s].floors, devices |-> fetched[s].devices, spaces |-> listed]
    <3>1. new \in BuildingTopology
      BY DEF IInv, RegistryTypeOK, TypeOK, BuildingTopology
    <3>2. topologies' = [topologies EXCEPT ![fetched[s].building] = new]
      BY <2>3 DEF GetSpaces
    <3> QED
      BY <3>1, <3>2, TopologyAssumption DEF Known
  <2> QED
    BY <2>1, <2>2, <2>3 DEF RegistryNext, Change, SyncOnce, Resume, GetBuildings, BuildingFails,
       GetFloors, GetDevices, TriggerSync, RunSyncLoop, Wake
<1> QED
  BY <1>1, Invariance, PTL DEF RegistrySpec, ForgetsOnlyByRestart

-----------------------------------------------------------------------------
(***************************************************************************)
(* The operations dashboard.  Its four lists are of four moments between   *)
(* the request and its answer.  What is proved rests on what no handler of *)
(* the backend takes back: records stay, with what they refer to, and      *)
(* completions and payments are final.  So each list lies between what the *)
(* backend had when the request came and what it has now.                  *)
(***************************************************************************)
Dictionary(path) ==
    CASE path = "issues" -> [IssueIds -> BOOLEAN \cup {None}]
      [] path = "tickets" -> [TicketIds -> (SUBSET IssueIds) \cup {None}]
      [] path = "work-orders" -> [WorkOrderIds -> WorkOrder \cup {None}]
      [] path = "payments" -> [PaymentIds -> Payment \cup {None}]

\* Record r of the list under path may become s.
Kept(path, r, s) ==
    /\ path = "tickets" => s = r
    /\ path = "work-orders" => s.ticket = r.ticket /\ (r.completed => s.completed)
    /\ path = "payments" => s.workOrder = r.workOrder /\ (r.paid => s.paid)

\* The list d under path may become e.
Earlier(path, d, e) ==
    /\ d \in Dictionary(path) /\ e \in Dictionary(path)
    /\ \A k \in Stored(d) : k \in Stored(e) /\ Kept(path, d[k], e[k])

\* The lists of query q lie between the backend's then and now.
BetweenFor(q) ==
    /\ phase[q] = "idle" => failed[q] = {}
    /\ phase[q] # "waiting" => DOMAIN got[q] = {}
    /\ phase[q] # "idle" =>
          /\ DOMAIN before[q] = Paths
          /\ \A path \in Paths : Earlier(path, before[q][path], backend[path])
    /\ phase[q] = "waiting" =>
          /\ failed[q] \subseteq DOMAIN got[q]
          /\ \A path \in DOMAIN got[q] :
                /\ Earlier(path, got[q][path], backend[path])
                /\ path \notin failed[q] => Earlier(path, before[q][path], got[q][path])
    /\ phase[q] = "answered" =>
          \A f \in flows[q] : f.workOrders \subseteq Stored(backend["work-orders"])

ListsBetween ==
    /\ \A path \in Paths : backend[path] \in Dictionary(path)
    /\ \A q \in Queries : BetweenFor(q)

FlowsIInv == FlowsTypeOK /\ ListsBetween /\ NoFalseAlarm /\ NoAlarmMissed /\ EveryIssueShown

-----------------------------------------------------------------------------

LEMMA EarlierItself ==
    ASSUME NEW path, NEW d \in Dictionary(path) PROVE Earlier(path, d, d)
  BY DEF Earlier, Kept

LEMMA EarlierTransitive ==
    ASSUME NEW path, NEW c, NEW d, NEW e, Earlier(path, c, d), Earlier(path, d, e)
    PROVE  Earlier(path, c, e)
<1>1. ASSUME NEW k \in Stored(c)
      PROVE  k \in Stored(e) /\ Kept(path, c[k], e[k])
  <2>1. k \in Stored(d) /\ Kept(path, c[k], d[k])
    BY DEF Earlier
  <2>2. k \in Stored(e) /\ Kept(path, d[k], e[k])
    BY <2>1 DEF Earlier
  <2> QED
    BY <2>1, <2>2 DEF Kept
<1> QED
  BY <1>1 DEF Earlier

\* A list that could not be fetched is earlier than any.
LEMMA EmptyEarlier ==
    ASSUME NEW path \in Paths, NEW d \in Dictionary(path) PROVE Earlier(path, Empty(d), d)
<1>1. Empty(d) \in Dictionary(path)
  BY DEF Dictionary, Empty, Paths
<1>2. Stored(Empty(d)) = {}
  BY DEF Stored, Empty
<1> QED
  BY <1>1, <1>2 DEF Earlier

\* One record of one list is stored or changed.
LEMMA RecordChange ==
    ASSUME NEW path \in Paths, NEW d \in Dictionary(path), NEW id \in DOMAIN d, NEW record,
           [d EXCEPT ![id] = record] \in Dictionary(path), record # None,
           id \in Stored(d) => Kept(path, d[id], record)
    PROVE  Earlier(path, d, [d EXCEPT ![id] = record])
<1> DEFINE e == [d EXCEPT ![id] = record]
<1>1. /\ DOMAIN e = DOMAIN d /\ e[id] = record
      /\ \A k \in DOMAIN d \ {id} : e[k] = d[k]
  BY DEF Dictionary, Paths
<1> HIDE DEF e
<1>2. \A k \in Stored(d) : k \in Stored(e) /\ Kept(path, d[k], e[k])
  BY <1>1 DEF Stored, Kept
<1> QED
  BY <1>2 DEF Earlier, e

\* Whatever the backend serves for others, its lists may become what they then are.
LEMMA BackendMoves ==
    ASSUME FlowsTypeOK, ListsBetween, BackendStep
    PROVE  /\ DOMAIN backend' = Paths
           /\ \A path \in Paths : Earlier(path, backend[path], backend'[path])
           /\ UNCHANGED <<phase, got, failed, before, flows>>
<1> DEFINE Moved == /\ DOMAIN backend' = Paths
                    /\ \A path \in Paths : Earlier(path, backend[path], backend'[path])
                    /\ UNCHANGED <<phase, got, failed, before, flows>>
<1>1. ASSUME NEW path \in Paths, NEW id \in DOMAIN backend[path], NEW record,
             [backend[path] EXCEPT ![id] = record] \in Dictionary(path), record # None,
             id \in Stored(backend[path]) => Kept(path, backend[path][id], record),
             backend' = [backend EXCEPT ![path][id] = record],
             UNCHANGED <<phase, got, failed, before, flows>>
      PROVE  Moved
  <2>1. backend[path] \in Dictionary(path)
    BY DEF ListsBetween
  <2>2. Earlier(path, backend[path], [backend[path] EXCEPT ![id] = record])
    BY <1>1, <2>1, RecordChange
  <2>3. /\ DOMAIN backend' = Paths
        /\ backend'[path] = [backend[path] EXCEPT ![id] = record]
        /\ \A p \in Paths \ {path} : backend'[p] = backend[p]
    BY <1>1 DEF FlowsTypeOK
  <2>4. \A p \in Paths \ {path} : Earlier(p, backend[p], backend'[p])
    BY <2>3, EarlierItself DEF ListsBetween
  <2> QED
    BY <1>1, <2>2, <2>3, <2>4
<1> USE DEF Create, Put, Stored, Unissued, Kept, Dictionary, Paths
<1>2. ASSUME NEW i \in IssueIds, CreateIssue(i) \/ HandleReportEvaluated(i) \/ ReviewIssue(i)
      PROVE  Moved
  BY <1>1, <1>2, DashboardAssumption DEF CreateIssue, HandleReportEvaluated, ReviewIssue, FlowsTypeOK
<1>3. ASSUME NEW k \in TicketIds, NEW is \in SUBSET IssueIds, CreateTicket(k, is)
      PROVE  Moved
  BY <1>1, <1>3, DashboardAssumption DEF CreateTicket, FlowsTypeOK
<1>4. ASSUME NEW w \in WorkOrderIds, NEW k \in TicketIds \cup {None}, CreateWorkOrder(w, k)
      PROVE  Moved
  <2>1. [ticket |-> k, completed |-> FALSE] \in WorkOrder
    BY DEF WorkOrder
  <2>2. /\ w \in DOMAIN backend["work-orders"]
        /\ [backend["work-orders"] EXCEPT ![w] = [ticket |-> k, completed |-> FALSE]]
              \in Dictionary("work-orders")
        /\ w \notin Stored(backend["work-orders"])
    BY <1>4, <2>1 DEF CreateWorkOrder, FlowsTypeOK
  <2> QED
    BY <1>1, <1>4, <2>1, <2>2, DashboardAssumption DEF CreateWorkOrder
<1>5. ASSUME NEW w \in WorkOrderIds, CompleteTask(w)
      PROVE  Moved
  <2> DEFINE r == backend["work-orders"][w]
             s == [r EXCEPT !.completed = TRUE]
  <2>1. r \in WorkOrder
    BY <1>5 DEF CompleteTask, FlowsTypeOK
  <2>2. s \in WorkOrder /\ s.ticket = r.ticket /\ s.completed
    BY <2>1 DEF WorkOrder
  <2>3. /\ backend' = [backend EXCEPT !["work-orders"][w] = s]
        /\ UNCHANGED <<phase, got, failed, before, flows>>
    BY <1>5 DEF CompleteTask
  <2> HIDE DEF s
  <2>4. /\ w \in DOMAIN backend["work-orders"]
        /\ [backend["work-orders"] EXCEPT ![w] = s] \in Dictionary("work-orders")
    BY <2>2 DEF FlowsTypeOK
  <2>5. s # None /\ Kept("work-orders", r, s)
    BY <2>2, DashboardAssumption
  <2> HIDE DEF r
  <2> QED
    BY <1>1, <2>3, <2>4, <2>5 DEF r
<1>6. ASSUME NEW p \in PaymentIds, NEW w \in WorkOrderIds, CreatePayment(p, w)
      PROVE  Moved
  <2>1. [workOrder |-> w, paid |-> FALSE] \in Payment
    BY DEF Payment
  <2>2. /\ p \in DOMAIN backend["payments"]
        /\ [backend["payments"] EXCEPT ![p] = [workOrder |-> w, paid |-> FALSE]]
              \in Dictionary("payments")
        /\ p \notin Stored(backend["payments"])
    BY <1>6, <2>1 DEF CreatePayment, FlowsTypeOK
  <2> QED
    BY <1>1, <1>6, <2>1, <2>2, DashboardAssumption DEF CreatePayment
<1>7. ASSUME NEW p \in PaymentIds, MarkPaid(p)
      PROVE  Moved
  <2> DEFINE r == backend["payments"][p]
             s == [r EXCEPT !.paid = TRUE]
  <2>1. r \in Payment
    BY <1>7 DEF MarkPaid, FlowsTypeOK
  <2>2. s \in Payment /\ s.workOrder = r.workOrder /\ s.paid
    BY <2>1 DEF Payment
  <2>3. /\ backend' = [backend EXCEPT !["payments"][p] = s]
        /\ UNCHANGED <<phase, got, failed, before, flows>>
    BY <1>7 DEF MarkPaid
  <2> HIDE DEF s
  <2>4. /\ p \in DOMAIN backend["payments"]
        /\ [backend["payments"] EXCEPT ![p] = s] \in Dictionary("payments")
    BY <2>2 DEF FlowsTypeOK
  <2>5. s # None /\ Kept("payments", r, s)
    BY <2>2, DashboardAssumption
  <2> HIDE DEF r
  <2> QED
    BY <1>1, <2>3, <2>4, <2>5 DEF r
<1> QED
  BY <1>2, <1>3, <1>4, <1>5, <1>6, <1>7 DEF BackendStep

-----------------------------------------------------------------------------
\* The joins only refer to what the later lists have, too.

Lists(lists) ==
    DOMAIN lists = Paths /\ \A path \in Paths : lists[path] \in Dictionary(path)

AllEarlier(l, m) == \A path \in Paths : Earlier(path, l[path], m[path])

LEMMA WorkOrdersGrow ==
    ASSUME NEW l, NEW m, NEW i, Earlier("tickets", l["tickets"], m["tickets"]),
           Earlier("work-orders", l["work-orders"], m["work-orders"])
    PROVE  WorkOrdersOf(l, i) \subseteq WorkOrdersOf(m, i)
<1>1. TicketsOf(l, i) \subseteq TicketsOf(m, i)
  BY DEF Earlier, Kept, TicketsOf
<1>2. ASSUME NEW w \in WorkOrdersOf(l, i) PROVE w \in WorkOrdersOf(m, i)
  <2>1. /\ w \in Stored(l["work-orders"])
        /\ l["work-orders"][w].ticket \in TicketsOf(l, i)
    BY <1>2 DEF WorkOrdersOf
  <2>2. /\ w \in Stored(m["work-orders"])
        /\ m["work-orders"][w].ticket = l["work-orders"][w].ticket
    BY <2>1 DEF Earlier, Kept
  <2> QED
    BY <1>1, <2>1, <2>2 DEF WorkOrdersOf
<1> QED
  BY <1>2

\* What is unpaid later was unpaid before, if it was completed.
LEMMA UnpaidBefore ==
    ASSUME NEW l, NEW m, NEW w, Earlier("payments", l["payments"], m["payments"]),
           \A p \in PaymentsFor(m, w) : ~m["payments"][p].paid,
           NEW p \in PaymentsFor(l, w)
    PROVE  ~l["payments"][p].paid
<1>1. p \in Stored(l["payments"]) /\ l["payments"][p].workOrder = w
  BY DEF PaymentsFor
<1>2. /\ p \in Stored(m["payments"]) /\ m["payments"][p].workOrder = w
      /\ l["payments"][p].paid => m["payments"][p].paid
  BY <1>1 DEF Earlier, Kept
<1> QED
  BY <1>2 DEF PaymentsFor

LEMMA FlowsType == ASSUME NEW l, Lists(l) PROVE BuildFlows(l) \subseteq Flow
<1> DEFINE flow(i) ==
        [issue |-> i, tickets |-> TicketsOf(l, i), workOrders |-> WorkOrdersOf(l, i),
         payments |-> UNION {PaymentsFor(l, w) : w \in WorkOrdersOf(l, i)},
         flags |-> {flag \in {"pending_review", "unpaid"} :
                      \/ flag = "pending_review" /\ l["issues"][i]
                      \/ flag = "unpaid" /\ \E w \in WorkOrdersOf(l, i) : Unpaid(l, w)}]
<1>1. ASSUME NEW i \in Stored(l["issues"])
      PROVE  /\ i \in IssueIds
             /\ TicketsOf(l, i) \subseteq TicketIds
             /\ WorkOrdersOf(l, i) \subseteq WorkOrderIds
             /\ \A w : PaymentsFor(l, w) \subseteq PaymentIds
  BY <1>1 DEF Lists, Dictionary, Paths, Stored, TicketsOf, WorkOrdersOf, PaymentsFor
<1>2. ASSUME NEW i \in Stored(l["issues"]) PROVE flow(i) \in Flow
  <2>1. UNION {PaymentsFor(l, w) : w \in WorkOrdersOf(l, i)} \in SUBSET PaymentIds
    BY <1>1
  <2>2. {flag \in {"pending_review", "unpaid"} :
           \/ flag = "pending_review" /\ l["issues"][i]
           \/ flag = "unpaid" /\ \E w \in WorkOrdersOf(l, i) : Unpaid(l, w)}
           \in SUBSET {"pending_review", "unpaid"}
    OBVIOUS
  <2> QED
    BY <1>1, <2>1, <2>2 DEF Flow
<1>3. \A f \in BuildFlows(l) : \E i \in Stored(l["issues"]) : f = flow(i)
  BY DEF BuildFlows
<1> HIDE DEF flow
<1> QED
  BY <1>2, <1>3

\* Each flow is that of one stored issue, and has its joins.
LEMMA FlowOf ==
    ASSUME NEW l
    PROVE  /\ \A i \in Stored(l["issues"]) : \E f \in BuildFlows(l) : f.issue = i
           /\ \A f \in BuildFlows(l) :
                 /\ f.issue \in Stored(l["issues"])
                 /\ f.workOrders = WorkOrdersOf(l, f.issue)
                 /\ "unpaid" \in f.flags <=> \E w \in f.workOrders : Unpaid(l, w)
           /\ \A f, g \in BuildFlows(l) : f.issue = g.issue => f = g
<1> DEFINE unpaid(i) == {flag \in {"pending_review", "unpaid"} :
                          \/ flag = "pending_review" /\ l["issues"][i]
                          \/ flag = "unpaid" /\ \E w \in WorkOrdersOf(l, i) : Unpaid(l, w)}
           flow(i) ==
        [issue |-> i, tickets |-> TicketsOf(l, i), workOrders |-> WorkOrdersOf(l, i),
         payments |-> UNION {PaymentsFor(l, w) : w \in WorkOrdersOf(l, i)},
         flags |-> unpaid(i)]
<1>1. \A i : "unpaid" \in unpaid(i) <=> \E w \in WorkOrdersOf(l, i) : Unpaid(l, w)
  OBVIOUS
<1>2. BuildFlows(l) = {flow(i) : i \in Stored(l["issues"])}
  BY DEF BuildFlows
<1> HIDE DEF unpaid
<1>3. \A i : /\ flow(i).issue = i /\ flow(i).workOrders = WorkOrdersOf(l, i)
             /\ flow(i).flags = unpaid(i)
  OBVIOUS
<1> HIDE DEF flow
<1> QED
  BY <1>1, <1>2, <1>3

-----------------------------------------------------------------------------
\* The three properties at the moment of the answer: b is what the backend had when
\* the request came, l what was fetched, n what the backend has now.

LEMMA AnswerNoFalseAlarm ==
    ASSUME NEW b, NEW l, NEW n, AllEarlier(l, n),
           Earlier("payments", b["payments"], l["payments"]),
           NEW f \in BuildFlows(l), "unpaid" \in f.flags
    PROVE  \E w \in f.workOrders :
              /\ n["work-orders"][w].completed
              /\ \A p \in PaymentsFor(b, w) : ~b["payments"][p].paid
<1>1. PICK w \in f.workOrders : Unpaid(l, w)
  BY FlowOf
<1>2. w \in Stored(l["work-orders"])
  BY <1>1, FlowOf DEF WorkOrdersOf
<1>3. n["work-orders"][w].completed
  BY <1>1, <1>2 DEF Unpaid, AllEarlier, Earlier, Kept, Paths
<1>4. \A p \in PaymentsFor(b, w) : ~b["payments"][p].paid
  BY <1>1, UnpaidBefore DEF Unpaid
<1> QED
  BY <1>3, <1>4

LEMMA AnswerNoAlarmMissed ==
    ASSUME NEW b, NEW l, NEW n, AllEarlier(b, l), AllEarlier(l, n),
           NEW i \in Stored(b["issues"]), NEW w \in WorkOrdersOf(b, i),
           b["work-orders"][w].completed, Unpaid(n, w)
    PROVE  \E f \in BuildFlows(l) : f.issue = i /\ "unpaid" \in f.flags
<1>1. i \in Stored(l["issues"])
  BY DEF AllEarlier, Earlier, Paths
<1>2. w \in WorkOrdersOf(l, i)
  BY WorkOrdersGrow DEF AllEarlier, Paths
<1>3. w \in Stored(b["work-orders"])
  BY DEF WorkOrdersOf
<1>4. l["work-orders"][w].completed
  BY <1>3 DEF AllEarlier, Earlier, Kept, Paths
<1>5. \A p \in PaymentsFor(l, w) : ~l["payments"][p].paid
  BY UnpaidBefore DEF Unpaid, AllEarlier, Paths
<1>6. PICK f \in BuildFlows(l) : f.issue = i
  BY <1>1, FlowOf
<1>7. "unpaid" \in f.flags
  BY <1>2, <1>4, <1>5, <1>6, FlowOf DEF Unpaid
<1> QED
  BY <1>6, <1>7

LEMMA AnswerShowsIssue ==
    ASSUME NEW b, NEW l, NEW n, AllEarlier(l, n), NEW missing,
           \A path \in Paths \ missing : Earlier(path, b[path], l[path]),
           "issues" \notin missing, NEW i \in Stored(b["issues"])
    PROVE  \E f \in BuildFlows(l) :
              /\ f.issue = i /\ \A g \in BuildFlows(l) : g.issue = i => g = f
              /\ f.workOrders \subseteq WorkOrdersOf(n, i)
              /\ missing = {} => WorkOrdersOf(b, i) \subseteq f.workOrders
<1>1. i \in Stored(l["issues"])
  BY DEF Earlier, Paths
<1>2. PICK f \in BuildFlows(l) : f.issue = i
  BY <1>1, FlowOf
<1>3. \A g \in BuildFlows(l) : g.issue = i => g = f
  BY <1>2, FlowOf
<1>4. f.workOrders = WorkOrdersOf(l, i)
  BY <1>2, FlowOf
<1>5. WorkOrdersOf(l, i) \subseteq WorkOrdersOf(n, i)
  BY WorkOrdersGrow DEF AllEarlier, Paths
<1>6. missing = {} => WorkOrdersOf(b, i) \subseteq WorkOrdersOf(l, i)
  BY WorkOrdersGrow DEF Paths
<1> QED
  BY <1>2, <1>3, <1>4, <1>5, <1>6

-----------------------------------------------------------------------------

LEMMA FlowsInitIInv == FlowsInit => FlowsIInv
<1> SUFFICES ASSUME FlowsInit PROVE FlowsIInv
  OBVIOUS
<1>1. /\ DOMAIN backend = Paths
      /\ backend["issues"] = [id \in IssueIds |-> None]
      /\ backend["tickets"] = [id \in TicketIds |-> None]
      /\ backend["work-orders"] = [id \in WorkOrderIds |-> None]
      /\ backend["payments"] = [id \in PaymentIds |-> None]
  BY DEF FlowsInit, Paths
<1>2. \A q \in Queries : phase[q] = "idle" /\ DOMAIN got[q] = {} /\ failed[q] = {}
  BY DEF FlowsInit, NoLists
<1>3. FlowsTypeOK
  <2>1. /\ phase \in [Queries -> {"idle", "waiting", "answered"}]
        /\ failed \in [Queries -> SUBSET Paths]
        /\ DOMAIN got = Queries /\ DOMAIN before = Queries
        /\ flows \in [Queries -> SUBSET Flow]
    BY DEF FlowsInit
  <2>2. /\ backend["issues"] \in [IssueIds -> BOOLEAN \cup {None}]
        /\ backend["tickets"] \in [TicketIds -> (SUBSET IssueIds) \cup {None}]
        /\ backend["work-orders"] \in [WorkOrderIds -> WorkOrder \cup {None}]
        /\ backend["payments"] \in [PaymentIds -> Payment \cup {None}]
    BY <1>1
  <2> QED
    BY <1>1, <1>2, <2>1, <2>2 DEF FlowsTypeOK
<1>4. ListsBetween
  BY <1>1, <1>2 DEF ListsBetween, BetweenFor, Dictionary, Paths
<1>5. \A q \in Queries : ~Answered(q)
  BY <1>2 DEF Answered
<1>6. NoFalseAlarm /\ NoAlarmMissed
  BY <1>5 DEF NoFalseAlarm, NoAlarmMissed
<1>7. EveryIssueShown
  BY <1>5 DEF EveryIssueShown
<1> QED
  BY <1>3, <1>4, <1>6, <1>7 DEF FlowsIInv

\* Queries are not concerned when the backend serves others, but what they hold may
\* now be older.
LEMMA BackendStepKeeps ==
    ASSUME FlowsIInv, BackendStep PROVE FlowsIInv'
<1> USE DEF FlowsIInv
<1>1. /\ DOMAIN backend' = Paths /\ AllEarlier(backend, backend')
      /\ UNCHANGED <<phase, got, failed, before, flows>>
  BY BackendMoves DEF AllEarlier
<1>2. \A path \in Paths : /\ backend'[path] \in Dictionary(path)
                          /\ Stored(backend[path]) \subseteq Stored(backend'[path])
  BY <1>1 DEF AllEarlier, Earlier
<1>3. FlowsTypeOK'
  <2>1. /\ backend'["issues"] \in [IssueIds -> BOOLEAN \cup {None}]
        /\ backend'["tickets"] \in [TicketIds -> (SUBSET IssueIds) \cup {None}]
        /\ backend'["work-orders"] \in [WorkOrderIds -> WorkOrder \cup {None}]
        /\ backend'["payments"] \in [PaymentIds -> Payment \cup {None}]
    BY <1>2 DEF Dictionary, Paths
  <2>2. \A q \in Queries : \A path \in DOMAIN got[q] :
           path \in Paths /\ Stored(got[q][path]) \subseteq Stored(backend'[path])
    BY <1>2 DEF FlowsTypeOK
  <2> QED
    BY <1>1, <2>1, <2>2 DEF FlowsTypeOK
<1>4. ListsBetween'
  <2>1. ASSUME NEW path \in Paths, NEW d, Earlier(path, d, backend[path])
        PROVE  Earlier(path, d, backend'[path])
    BY <1>1, <2>1, EarlierTransitive DEF AllEarlier
  <2>2. \A q \in Queries : \A path \in DOMAIN got[q] : path \in Paths
    BY DEF FlowsTypeOK
  <2>3. \A f \in UNION {flows[q] : q \in Queries} :
           f.workOrders \subseteq Stored(backend["work-orders"]) =>
              f.workOrders \subseteq Stored(backend'["work-orders"])
    BY <1>2 DEF Paths
  <2> QED
    BY <1>1, <1>2, <2>1, <2>2, <2>3 DEF ListsBetween, BetweenFor
<1>5. NoFalseAlarm'
  <2>1. ASSUME NEW q \in Queries, Answered(q), "payments" \notin failed[q],
               NEW f \in flows[q], "unpaid" \in f.flags
        PROVE  \E w \in f.workOrders :
                  /\ backend'["work-orders"][w].completed
                  /\ \A p \in PaymentsFor(before[q], w) : ~before[q]["payments"][p].paid
    <3>1. PICK w \in f.workOrders :
             /\ backend["work-orders"][w].completed
             /\ \A p \in PaymentsFor(before[q], w) : ~before[q]["payments"][p].paid
      BY <2>1 DEF NoFalseAlarm
    <3>2. w \in Stored(backend["work-orders"])
      BY <2>1, <3>1 DEF ListsBetween, BetweenFor, Answered
    <3> QED
      BY <1>1, <3>1, <3>2 DEF AllEarlier, Earlier, Kept, Paths
  <2> QED
    BY <1>1, <2>1 DEF NoFalseAlarm, Answered
<1>6. NoAlarmMissed'
  <2>1. ASSUME NEW q \in Queries, Answered(q), failed[q] = {},
               NEW i \in Stored(before[q]["issues"]), NEW w \in WorkOrdersOf(before[q], i),
               before[q]["work-orders"][w].completed, Unpaid(backend', w)
        PROVE  \E f \in flows[q] : f.issue = i /\ "unpaid" \in f.flags
    <3>1. \A path \in Paths : Earlier(path, before[q][path], backend[path])
      BY <2>1 DEF ListsBetween, BetweenFor, Answered
    <3>2. w \in Stored(before[q]["work-orders"])
      BY DEF WorkOrdersOf
    <3>3. backend["work-orders"][w].completed
      BY <2>1, <3>1, <3>2 DEF Earlier, Kept, Paths
    <3>4. \A p \in PaymentsFor(backend, w) : ~backend["payments"][p].paid
      BY <1>1, <2>1, UnpaidBefore DEF Unpaid, AllEarlier, Paths
    <3>5. Unpaid(backend, w)
      BY <3>3, <3>4 DEF Unpaid
    <3> QED
      BY <2>1, <3>5 DEF NoAlarmMissed
  <2> QED
    BY <1>1, <2>1 DEF NoAlarmMissed, Answered
<1>7. EveryIssueShown'
  <2>1. \A i : WorkOrdersOf(backend, i) \subseteq WorkOrdersOf(backend', i)
    BY <1>1, WorkOrdersGrow DEF AllEarlier, Paths
  <2> QED
    BY <1>1, <2>1 DEF EveryIssueShown, Answered
<1> QED
  BY <1>3, <1>4, <1>5, <1>6, <1>7

\* Query q moves, and is not answered by that.
LEMMA QueryMoves ==
    ASSUME FlowsIInv, NEW q \in Queries, FlowsTypeOK', BetweenFor(q)', phase'[q] = "waiting",
           UNCHANGED <<backend, flows>>,
           \A r \in Queries \ {q} : /\ phase'[r] = phase[r] /\ got'[r] = got[r]
                                     /\ failed'[r] = failed[r] /\ before'[r] = before[r]
    PROVE  FlowsIInv'
<1> USE DEF FlowsIInv
<1>1. ListsBetween'
  <2>1. ASSUME NEW r \in Queries \ {q} PROVE BetweenFor(r)'
    BY DEF ListsBetween, BetweenFor
  <2> QED
    BY <2>1 DEF ListsBetween
<1>2. \A r \in Queries : Answered(r)' => /\ Answered(r) /\ failed'[r] = failed[r]
                                        /\ before'[r] = before[r]
  BY DEF Answered
<1>3. NoFalseAlarm'
  BY <1>2 DEF NoFalseAlarm
<1>4. NoAlarmMissed'
  BY <1>2 DEF NoAlarmMissed
<1>5. EveryIssueShown'
  BY <1>2 DEF EveryIssueShown
<1> QED
  BY <1>1, <1>3, <1>4, <1>5

LEMMA ListFlowsKeeps ==
    ASSUME FlowsIInv, NEW q \in Queries, ListFlows(q) PROVE FlowsIInv'
<1> USE DEF FlowsIInv
<1>1. /\ phase'[q] = "waiting" /\ before'[q] = backend
      /\ \A r \in Queries \ {q} : phase'[r] = phase[r] /\ before'[r] = before[r]
      /\ UNCHANGED <<backend, got, failed, flows>>
  BY DEF ListFlows, FlowsTypeOK
<1>2. FlowsTypeOK'
  BY DEF ListFlows, FlowsTypeOK
<1>3. \A path \in Paths : Earlier(path, backend[path], backend[path])
  BY EarlierItself DEF ListsBetween
<1>4. failed[q] = {} /\ DOMAIN got[q] = {}
  BY DEF ListFlows, ListsBetween, BetweenFor
<1>5. DOMAIN backend = Paths
  BY DEF FlowsTypeOK
<1>6. BetweenFor(q)'
  BY <1>1, <1>3, <1>4, <1>5 DEF BetweenFor
<1> QED
  BY <1>1, <1>2, <1>6, QueryMoves

\* One request is answered with the list d, which is empty if it failed.
LEMMA FetchKeeps ==
    ASSUME FlowsIInv, NEW q \in Queries, NEW path \in Paths, Fetch(q, path) \/ FetchFails(q, path)
    PROVE  FlowsIInv'
<1> USE DEF FlowsIInv
<1>1. PICK d : /\ got' = [got EXCEPT ![q] = With(@, path, d)]
               /\ Earlier(path, d, backend[path])
               /\ \/ d = backend[path] /\ failed' = failed
                  \/ failed' = [failed EXCEPT ![q] = @ \cup {path}]
  <2>1. backend[path] \in Dictionary(path)
    BY DEF ListsBetween
  <2> QED
    BY <2>1, EarlierItself, EmptyEarlier DEF Fetch, FetchFails
<1>2. /\ phase[q] = "waiting" /\ path \notin DOMAIN got[q]
      /\ UNCHANGED <<backend, phase, before, flows>>
  BY DEF Fetch, FetchFails
<1>3. /\ DOMAIN got'[q] = DOMAIN got[q] \cup {path} /\ got'[q][path] = d
      /\ \A p \in DOMAIN got[q] : got'[q][p] = got[q][p]
      /\ \A r \in Queries \ {q} : got'[r] = got[r] /\ failed'[r] = failed[r]
      /\ DOMAIN got' = Queries /\ failed' \in [Queries -> SUBSET Paths]
      /\ path \notin failed'[q] => d = backend[path]
      /\ \A p \in Paths \ {path} : p \in failed'[q] <=> p \in failed[q]
  BY <1>1, <1>2 DEF With, FlowsTypeOK
<1>4. Stored(d) \subseteq Stored(backend[path])
  BY <1>1 DEF Earlier
<1>5. FlowsTypeOK'
  <2>1. \A r \in Queries : \A p \in DOMAIN got'[r] :
           p \in Paths /\ Stored(got'[r][p]) \subseteq Stored(backend[p])
    BY <1>3, <1>4 DEF FlowsTypeOK
  <2> QED
    BY <1>2, <1>3, <2>1 DEF FlowsTypeOK
<1>6. BetweenFor(q)'
  <2>1. BetweenFor(q) /\ failed[q] \subseteq Paths /\ failed'[q] \subseteq Paths
    BY <1>3 DEF ListsBetween, FlowsTypeOK
  <2>2. \A p \in DOMAIN got[q] : p # path /\ p \in Paths
    BY <1>2 DEF FlowsTypeOK
  <2>3. failed'[q] \subseteq DOMAIN got'[q]
    BY <1>2, <1>3, <2>1 DEF BetweenFor
  <2>4. ASSUME NEW p \in DOMAIN got'[q]
        PROVE  /\ Earlier(p, got'[q][p], backend[p])
               /\ p \notin failed'[q] => Earlier(p, before[q][p], got'[q][p])
    <3>1. CASE p = path
      BY <1>1, <1>2, <1>3, <2>1, <3>1 DEF BetweenFor
    <3>2. CASE p # path
      BY <1>2, <1>3, <2>1, <2>2, <3>2 DEF BetweenFor
    <3> QED
      BY <3>1, <3>2
  <2> QED
    BY <1>2, <2>1, <2>3, <2>4 DEF BetweenFor
<1> QED
  BY <1>2, <1>3, <1>5, <1>6, QueryMoves

LEMMA AnswerKeeps ==
    ASSUME FlowsIInv, NEW q \in Queries, Answer(q) PROVE FlowsIInv'
<1> USE DEF FlowsIInv
<1> DEFINE lists == got[q]
<1>1. /\ phase[q] = "waiting" /\ phase'[q] = "answered" /\ DOMAIN lists = Paths
      /\ flows'[q] = BuildFlows(lists) /\ got'[q] = NoLists
      /\ \A r \in Queries \ {q} : phase'[r] = phase[r] /\ flows'[r] = flows[r] /\ got'[r] = got[r]
      /\ UNCHANGED <<backend, failed, before>>
  BY DEF Answer, FlowsTypeOK
<1>2. /\ AllEarlier(lists, backend)
      /\ \A path \in Paths \ failed[q] : Earlier(path, before[q][path], lists[path])
      /\ \A path \in Paths : Earlier(path, before[q][path], backend[path])
      /\ DOMAIN before[q] = Paths
  BY <1>1 DEF ListsBetween, BetweenFor, AllEarlier
<1> HIDE DEF lists
<1>3. BuildFlows(lists) \subseteq Flow
  BY <1>1, <1>2, FlowsType DEF Lists, AllEarlier, Earlier
<1>4. \A f \in BuildFlows(lists) : f.workOrders \subseteq Stored(backend["work-orders"])
  <2>1. \A i : WorkOrdersOf(lists, i) \subseteq WorkOrdersOf(backend, i)
    BY <1>2, WorkOrdersGrow DEF AllEarlier, Paths
  <2>2. ASSUME NEW f \in BuildFlows(lists) PROVE f.workOrders = WorkOrdersOf(lists, f.issue)
    BY FlowOf
  <2>3. \A i : WorkOrdersOf(backend, i) \subseteq Stored(backend["work-orders"])
    BY DEF WorkOrdersOf
  <2> QED
    BY <2>1, <2>2, <2>3
<1>5. DOMAIN NoLists = {}
  BY DEF NoLists
<1>6. FlowsTypeOK'
  <2>1. \A r \in Queries : \A path \in DOMAIN got'[r] :
           path \in Paths /\ Stored(got'[r][path]) \subseteq Stored(backend[path])
    BY <1>1, <1>5 DEF FlowsTypeOK
  <2>2. /\ phase' \in [Queries -> {"idle", "waiting", "answered"}]
        /\ DOMAIN got' = Queries
        /\ flows' \in [Queries -> SUBSET Flow]
    BY <1>3 DEF FlowsTypeOK, Answer, lists
  <2> QED
    BY <1>1, <2>1, <2>2 DEF FlowsTypeOK
<1>7. ListsBetween'
  <2>1. ASSUME NEW r \in Queries \ {q} PROVE BetweenFor(r)'
    BY <1>1 DEF ListsBetween, BetweenFor
  <2>2. BetweenFor(q)'
    <3>1. \A f \in flows'[q] : f.workOrders \subseteq Stored(backend'["work-orders"])
      BY <1>1, <1>4
    <3> QED
      BY <1>1, <1>2, <1>5, <3>1 DEF BetweenFor
  <2> QED
    BY <1>1, <2>1, <2>2 DEF ListsBetween
<1>8. \A r \in Queries \ {q} : Answered(r)' => Answered(r) /\ flows'[r] = flows[r]
  BY <1>1 DEF Answered
<1>9. NoFalseAlarm'
  <2>1. ASSUME "payments" \notin failed[q], NEW f \in BuildFlows(lists), "unpaid" \in f.flags
        PROVE  \E w \in f.workOrders :
                  /\ backend["work-orders"][w].completed
                  /\ \A p \in PaymentsFor(before[q], w) : ~before[q]["payments"][p].paid
    BY <1>2, <2>1, AnswerNoFalseAlarm DEF Paths
  <2> QED
    BY <1>1, <1>8, <2>1 DEF NoFalseAlarm
<1>10. NoAlarmMissed'
  <2>1. ASSUME failed[q] = {},
               NEW i \in Stored(before[q]["issues"]), NEW w \in WorkOrdersOf(before[q], i),
               before[q]["work-orders"][w].completed, Unpaid(backend, w)
        PROVE  \E f \in BuildFlows(lists) : f.issue = i /\ "unpaid" \in f.flags
    BY <1>2, <2>1, AnswerNoAlarmMissed DEF AllEarlier
  <2> QED
    BY <1>1, <1>8, <2>1 DEF NoAlarmMissed
<1>11. EveryIssueShown'
  <2>1. ASSUME "issues" \notin failed[q], NEW i \in Stored(before[q]["issues"])
        PROVE  LET shown == {f \in BuildFlows(lists) : f.issue = i} IN
               /\ \E f \in shown : shown = {f}
               /\ \A f \in shown :
                     /\ f.workOrders \subseteq WorkOrdersOf(backend, i)
                     /\ failed[q] = {} => WorkOrdersOf(before[q], i) \subseteq f.workOrders
    <3>1. PICK f \in BuildFlows(lists) :
             /\ f.issue = i /\ \A g \in BuildFlows(lists) : g.issue = i => g = f
             /\ f.workOrders \subseteq WorkOrdersOf(backend, i)
             /\ failed[q] = {} => WorkOrdersOf(before[q], i) \subseteq f.workOrders
      BY <1>2, <2>1, AnswerShowsIssue
    <3>2. {g \in BuildFlows(lists) : g.issue = i} = {f}
      BY <3>1
    <3> QED
      BY <3>1, <3>2
  <2> QED
    <3>1. ASSUME NEW r \in Queries, Answered(r)', "issues" \notin failed[r],
                 NEW i \in Stored(before[r]["issues"])
          PROVE  LET shown == {f \in flows'[r] : f.issue = i} IN
                 /\ \E f \in shown : shown = {f}
                 /\ \A f \in shown :
                       /\ f.workOrders \subseteq WorkOrdersOf(backend, i)
                       /\ failed[r] = {} => WorkOrdersOf(before[r], i) \subseteq f.workOrders
      <4>1. CASE r = q
        BY <1>1, <2>1, <3>1, <4>1
      <4>2. CASE r # q
        BY <1>8, <3>1, <4>2 DEF EveryIssueShown
      <4> QED
        BY <4>1, <4>2
    <3> QED
      BY <1>1, <3>1 DEF EveryIssueShown
<1> QED
  BY <1>6, <1>7, <1>9, <1>10, <1>11

LEMMA FlowsInductiveStep == FlowsIInv /\ [FlowsNext]_flowsVars => FlowsIInv'
<1> SUFFICES ASSUME FlowsIInv, [FlowsNext]_flowsVars PROVE FlowsIInv'
  OBVIOUS
<1>1. CASE UNCHANGED flowsVars
  <2> USE <1>1 DEF flowsVars, FlowsIInv
  <2>1. FlowsTypeOK'
    BY DEF FlowsTypeOK
  <2>2. ListsBetween'
    BY DEF ListsBetween, BetweenFor
  <2>3. NoFalseAlarm' /\ NoAlarmMissed' /\ EveryIssueShown'
    BY DEF NoFalseAlarm, NoAlarmMissed, EveryIssueShown, Answered
  <2> QED
    BY <2>1, <2>2, <2>3
<1> QED
  BY <1>1, BackendStepKeeps, ListFlowsKeeps, FetchKeeps, AnswerKeeps DEF FlowsNext

-----------------------------------------------------------------------------
\* The inductive invariant holds in every reachable state, for any records, queries
\* and failing requests.
THEOREM FlowsInvariance == FlowsSpec => []FlowsIInv
  BY FlowsInitIInv, FlowsInductiveStep, PTL DEF FlowsSpec

\* The backend's records and the flows have their schemas, and no list names a record
\* the backend does not have.
THEOREM FlowsTypeCorrect == FlowsSpec => []FlowsTypeOK
<1>1. FlowsIInv => FlowsTypeOK
  BY DEF FlowsIInv
<1> QED
  BY <1>1, FlowsInvariance, PTL

\* _build_flows never calls unpaid what was paid before the request came, as long as
\* the list of payments was fetched.
THEOREM NeverFalseAlarm == FlowsSpec => []NoFalseAlarm
<1>1. FlowsIInv => NoFalseAlarm
  BY DEF FlowsIInv
<1> QED
  BY <1>1, FlowsInvariance, PTL

\* A work order Completed before the request and unpaid ever since is reported with
\* its issue, if all four lists were fetched.
THEOREM AlarmNeverMissed == FlowsSpec => []NoAlarmMissed
<1>1. FlowsIInv => NoAlarmMissed
  BY DEF FlowsIInv
<1> QED
  BY <1>1, FlowsInvariance, PTL

\* Every issue has exactly one flow, with its work orders and no others.
THEOREM IssuesAlwaysShown == FlowsSpec => []EveryIssueShown
<1>1. FlowsIInv => EveryIssueShown
  BY DEF FlowsIInv
<1> QED
  BY <1>1, FlowsInvariance, PTL

=============================================================================
