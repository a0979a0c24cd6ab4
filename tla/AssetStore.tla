---------------------------- MODULE AssetStore ----------------------------
(***************************************************************************)
(* The part of the Postgres schema that the asset writers of vls-server    *)
(* share: factories, devices, valves, work orders and the valve/work order *)
(* join table, with the rows an open transaction has written but not yet   *)
(* committed and the row locks it holds.                                   *)
(*                                                                         *)
(* A statement reads the committed rows overlaid with its own              *)
(* transaction's rows (READ COMMITTED).  A factory row is identified by    *)
(* its unique name and a work order by its unique serial; devices and      *)
(* valves have autoincrement ids, which a rollback does not give back.     *)
(***************************************************************************)
EXTENDS Integers, FiniteSets

CONSTANTS
  Push,           \* transaction owners: the ServiceApp pushes
  Factory,        \* factory names
  Unit,           \* device (unit) names
  Tag,            \* valve tags
  SerialNumber,   \* valve serial numbers, the placeholders among them
  Placeholder,    \* serial numbers the partial unique index leaves out
  WorkOrderNo,    \* work order serials
  Data,           \* the remaining columns of a factory or work order row
  Absent,         \* an optional field that was not given; stored as NULL
  None,           \* "no such row"
  InitialStores   \* the stores a behaviour may start from

NoDevice == 0     \* Valve.deviceId = NULL; ids start at 1
NoValve  == 0

Device    == [id : Nat \ {0}, factory : Factory, name : Unit]
Valve     == [id : Nat \ {0}, factory : Factory, device : Nat, tag : Tag,
              serialNumber : SerialNumber \cup {Absent}]
WorkOrder == [factory : Factory, data : Data]
Link      == (Nat \ {0}) \X WorkOrderNo       \* the join table _ValveToWorkOrder

(***************************************************************************)
(* What an open transaction has written and locked: the factory row and    *)
(* the work order row it upserted, the devices it created, the new         *)
(* versions of the valves it wrote, the links it added, and the devices    *)
(* its foreign key checks hold FOR KEY SHARE.                              *)
(***************************************************************************)
Tx == [factory   : Factory \cup {None},
       serial    : WorkOrderNo \cup {None},
       workOrder : WorkOrder \cup {None},
       devices   : SUBSET Device,
       valves    : SUBSET Valve,
       links     : SUBSET Link,
       keyShare  : SUBSET Nat]

NoTx == [factory |-> None, serial |-> None, workOrder |-> None,
         devices |-> {}, valves |-> {}, links |-> {}, keyShare |-> {}]

VARIABLES
  factories,    \* [Factory -> Data \cup {None}]
  devices,      \* the committed Device rows
  valves,       \* the committed Valve rows
  workOrders,   \* [WorkOrderNo -> WorkOrder \cup {None}]
  links,        \* the committed join table rows
  seq,          \* the next autoincrement ids
  tx            \* [Push -> Tx]

tables    == <<factories, devices, valves, workOrders, links>>
storeVars == <<factories, devices, valves, workOrders, links, seq, tx>>

Store == [factories : [Factory -> Data \cup {None}], devices : SUBSET Device,
          valves : SUBSET Valve,
          workOrders : [WorkOrderNo -> WorkOrder \cup {None}],
          links : SUBSET Link, seq : [device : Nat \ {0}, valve : Nat \ {0}]]

---------------------------------------------------------------------------
(* Reading *)

\* The rows of base with the new versions in written laid over them.
Overlay(base, written) ==
  {r \in base : \A w \in written : w.id # r.id} \cup written

ViewDevices(p) == devices \cup tx[p].devices
ViewValves(p)  == Overlay(valves, tx[p].valves)

\* The partial unique index: writing v collides with another valve of the
\* same factory that carries the same serial number, placeholders excluded.
Collides(rows, v) ==
  /\ v.serialNumber \notin Placeholder \cup {Absent}
  /\ \E w \in rows : /\ w.id # v.id
                     /\ w.factory = v.factory
                     /\ w.serialNumber = v.serialNumber

(* Row locks *)

FactoryLocked(f)     == \E q \in Push : tx[q].factory = f
WorkOrderLocked(s)   == \E q \in Push : tx[q].serial = s
ValveLocked(v)       == \E q \in Push : \E w \in tx[q].valves : w.id = v.id
DeviceKeyShared(d)   == \E q \in Push : d.id \in tx[q].keyShare

\* w, written and not committed, holds its row and two index entries, its own and
\* that of the version it replaces: a write of a row it meets there must wait.
Holds(w, row) ==
  \/ w.id = row.id
  \/ Collides({w} \cup {v \in valves : v.id = w.id}, row)

\* An open transaction holds what the write of the valve row needs.
Blocked(row) == \E q \in Push : \E w \in tx[q].valves : Holds(w, row)

\* A foreign key check of a row that is new to its factory waits while a push
\* holds the factory row: the upsert sets name, a key column, and so takes the
\* row FOR UPDATE.  By then the statement has made its row and index entry.
KeyCheckWaits(row) ==
  /\ FactoryLocked(row.factory)
  /\ \A v \in valves : v.id = row.id => v.factory # row.factory

---------------------------------------------------------------------------
(***************************************************************************)
(* The administrators' delete handlers, of one row (remove) or of all       *)
(* (removeAll).  Each is one DELETE statement in its own transaction whose  *)
(* foreign keys cascade; it waits while an open transaction has locked a    *)
(* row it must delete.                                                      *)
(***************************************************************************)
DeleteValves(gone) ==
  /\ valves' = valves \ gone
  /\ links'  = {l \in links : \A v \in gone : l[1] # v.id}

RemoveValves(gone) ==
  /\ \A v \in gone : ~ValveLocked(v)
  /\ DeleteValves(gone)
  /\ UNCHANGED <<factories, devices, workOrders, seq, tx>>

RemoveDevices(gone) ==
  LET mounted == {v \in valves : \E d \in gone : v.device = d.id} IN
  /\ \A d \in gone : ~DeviceKeyShared(d)
  /\ \A v \in mounted : ~ValveLocked(v)
  /\ devices' = devices \ gone
  /\ DeleteValves(mounted)
  /\ UNCHANGED <<factories, workOrders, seq, tx>>

\* A factory goes with its descendants by parentId; parentId is part of Data,
\* so any set of factories may be one family.  Valves also go with their device.
RemoveFactories(gone) ==
  LET built  == {d \in devices : d.factory \in gone}
      owned  == {v \in valves : v.factory \in gone \/ \E d \in built : v.device = d.id}
      orders == {s \in WorkOrderNo : workOrders[s] # None /\ workOrders[s].factory \in gone}
  IN
  /\ \A f \in gone : factories[f] # None /\ ~FactoryLocked(f)
  /\ \A s \in orders : ~WorkOrderLocked(s)
  /\ \A d \in built : ~DeviceKeyShared(d)
  /\ \A v \in owned : ~ValveLocked(v)
  /\ factories' = [f \in Factory |-> IF f \in gone THEN None ELSE factories[f]]
  /\ devices'   = devices \ built
  /\ valves'    = valves \ owned
  /\ workOrders' = [s \in WorkOrderNo |-> IF s \in orders THEN None ELSE workOrders[s]]
  /\ links' = {l \in links : l[2] \notin orders /\ \A v \in owned : l[1] # v.id}
  /\ UNCHANGED <<seq, tx>>

OneOrAll(rows) == {{r} : r \in rows} \cup {rows}

AdminRemove == \/ \E gone \in OneOrAll(valves)  : RemoveValves(gone)
               \/ \E gone \in OneOrAll(devices) : RemoveDevices(gone)
               \/ \E gone \in SUBSET Factory    : RemoveFactories(gone)

---------------------------------------------------------------------------
(* What a store may look like before the modelled writers start. *)

DevicesNamedOnce(ds) ==
  \A d, e \in ds : d.factory = e.factory /\ d.name = e.name => d = e

ASSUME InitialStoresAssumption ==
  /\ None \notin Factory \cup WorkOrderNo \cup Data \cup WorkOrder
  /\ Absent \notin Unit
  /\ InitialStores \subseteq Store
  /\ \A s \in InitialStores :
       /\ DevicesNamedOnce(s.devices)
       /\ \A d \in s.devices : d.id < s.seq.device
       /\ \A v \in s.valves : v.id < s.seq.valve
       /\ \A d, e \in s.devices : d.id = e.id => d = e
       /\ \A v, w \in s.valves : v.id = w.id => v = w
       /\ \A v \in s.valves : ~Collides(s.valves, v)
       /\ \A l \in s.links : s.workOrders[l[2]] # None /\ \E v \in s.valves : v.id = l[1]
       /\ IsFiniteSet(s.devices) /\ IsFiniteSet(s.valves)

StoreInit ==
  /\ \E s \in InitialStores :
       /\ factories = s.factories
       /\ devices = s.devices
       /\ valves = s.valves
       /\ workOrders = s.workOrders
       /\ links = s.links
       /\ seq = s.seq
  /\ tx = [p \in Push |-> NoTx]

StoreTypeOK ==
  /\ factories \in [Factory -> Data \cup {None}]
  /\ devices \subseteq Device
  /\ valves \subseteq Valve
  /\ workOrders \in [WorkOrderNo -> WorkOrder \cup {None}]
  /\ links \subseteq Link
  /\ seq \in [device : Nat \ {0}, valve : Nat \ {0}]
  /\ tx \in [Push -> Tx]
===========================================================================
