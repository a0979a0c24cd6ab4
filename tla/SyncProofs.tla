----------------------------- MODULE SyncProofs -----------------------------
(***************************************************************************)
(* Proofs about AssetSync, for any pushes, imports, forms and stores, all   *)
(* writers of the asset tables running beside each other: valves stay       *)
(* mounted at home unless an administrator moves them or their device, the  *)
(* index of serial numbers holds for the tables and for what every open     *)
(* transaction sees, imports count what they create, and devices are        *)
(* duplicated by imports only.                                              *)
(***************************************************************************)
EXTENDS AssetSync, ServiceAppPushProofs, ImportProofs, FiniteSetTheorems

---------------------------------------------------------------------------
(* Types *)

SyncTypes ==
  /\ PushTypeOK /\ CursorInLoop /\ LocksHeld /\ OneWriterPerFactory
  /\ ImportTypeOK /\ WritesUsableRow

\* What an update makes of a device is a device, under the same id.
LEMMA EditedDevice ==
  ASSUME NEW d \in Device, NEW form \in DeviceForms
  PROVE  /\ Edited(d, form) \in Device
         /\ Edited(d, form).id = d.id
<1>1. DOMAIN d = {"id", "factory", "name"} /\ DOMAIN form \subseteq {"name", "factory"}
  BY FormsAssumption DEF Device
<1>2. Edited(d, form).id = d.id
  BY <1>1 DEF Edited
<1>3. Edited(d, form) \in Device
  BY <1>1, FormsAssumption DEF Device, Edited
<1> QED
  BY <1>2, <1>3

\* The same of a valve.
LEMMA EditedValve ==
  ASSUME NEW v \in Valve, NEW form \in ValveForms
  PROVE  Edited(v, form) \in Valve
<1>1. /\ DOMAIN v = {"id", "factory", "device", "tag", "serialNumber"}
      /\ DOMAIN form \subseteq {"factory", "device", "tag", "serialNumber"}
  BY FormsAssumption DEF Valve
<1> QED
  BY <1>1, FormsAssumption DEF Valve, Edited

\* A complete form makes a device or a valve.
LEMMA CompleteForms ==
  ASSUME StoreTypeOK
  PROVE  /\ \A form \in DeviceForms : Complete(form, {"name", "factory"}) =>
              [id |-> seq.device, factory |-> form.factory, name |-> form.name] \in Device
         /\ \A form \in ValveForms : Complete(form, {"factory", "device", "tag", "serialNumber"}) =>
              [id |-> seq.valve, factory |-> form.factory, device |-> form.device,
               tag |-> form.tag, serialNumber |-> form.serialNumber] \in Valve
<1>1. seq.device \in Nat \ {0} /\ seq.valve \in Nat \ {0}
  BY DEF StoreTypeOK
<1> QED
  BY <1>1, FormsAssumption DEF Complete, Device, Valve

\* The statements of administrators, by what they write.
LEMMA EditCases ==
  ASSUME StoreTypeOK, AssetEdit
  PROVE  \/ /\ factories' \in [Factory -> Data \cup {None}]
            /\ UNCHANGED <<devices, valves, workOrders, links, seq, tx, placed, moved, misplaced>>
         \/ \E form \in DeviceForms : CreateAdminDevice(form)
         \/ \E form \in DeviceForms, d \in devices : UpdateDevice(d, form)
         \/ \E row \in Valve : /\ StoreValve(row)
                               /\ seq' = seq \/ seq' = [seq EXCEPT !.valve = @ + 1]
<1>1. ASSUME NEW f \in Factory, NEW data \in Data, CreateFactory(f, data) \/ UpdateFactory(f, data)
      PROVE  /\ factories' \in [Factory -> Data \cup {None}]
             /\ UNCHANGED <<devices, valves, workOrders, links, seq, tx, placed, moved, misplaced>>
  BY <1>1 DEF CreateFactory, UpdateFactory, StoreTypeOK
<1>2. ASSUME NEW form \in ValveForms, CreateValve(form)
      PROVE  \E row \in Valve : StoreValve(row) /\ seq' = [seq EXCEPT !.valve = @ + 1]
  BY <1>2, CompleteForms DEF CreateValve
<1>3. ASSUME NEW form \in ValveForms, NEW v \in valves, UpdateValve(v, form)
      PROVE  \E row \in Valve : StoreValve(row) /\ seq' = seq
  <2>1. Edited(v, form) \in Valve
    BY EditedValve DEF StoreTypeOK
  <2> QED
    BY <1>3, <2>1 DEF UpdateValve
<1> QED
  BY <1>1, <1>2, <1>3 DEF AssetEdit

LEMMA EditTypes ==
  ASSUME StoreTypeOK, AssetEdit
  PROVE  StoreTypeOK' /\ tx' = tx
<1>1. CASE /\ factories' \in [Factory -> Data \cup {None}]
           /\ UNCHANGED <<devices, valves, workOrders, links, seq, tx, placed, moved, misplaced>>
  BY <1>1 DEF StoreTypeOK
<1>2. ASSUME NEW form \in DeviceForms, CreateAdminDevice(form)
      PROVE  StoreTypeOK' /\ tx' = tx
  <2>1. [id |-> seq.device, factory |-> form.factory, name |-> form.name] \in Device
    BY <1>2, CompleteForms DEF CreateAdminDevice
  <2>2. seq' \in [device : Nat \ {0}, valve : Nat \ {0}]
    BY <1>2 DEF CreateAdminDevice, StoreTypeOK
  <2>3. /\ devices' = devices \cup {[id |-> seq.device, factory |-> form.factory, name |-> form.name]}
        /\ UNCHANGED <<factories, valves, workOrders, links, tx>>
    BY <1>2 DEF CreateAdminDevice
  <2> QED
    BY <2>1, <2>2, <2>3 DEF StoreTypeOK
<1>3. ASSUME NEW form \in DeviceForms, NEW d \in devices, UpdateDevice(d, form)
      PROVE  StoreTypeOK' /\ tx' = tx
  <2>1. Edited(d, form) \in Device
    BY EditedDevice DEF StoreTypeOK
  <2> QED
    BY <1>3, <2>1 DEF UpdateDevice, StoreTypeOK
<1>4. ASSUME NEW row \in Valve, StoreValve(row),
             seq' = seq \/ seq' = [seq EXCEPT !.valve = @ + 1]
      PROVE  StoreTypeOK' /\ tx' = tx
  <2>1. seq' \in [device : Nat \ {0}, valve : Nat \ {0}]
    BY <1>4 DEF StoreTypeOK
  <2>2. valves' = Overlay(valves, {row}) /\ UNCHANGED <<factories, devices, workOrders, links, tx>>
    BY <1>4 DEF StoreValve
  <2>3. valves' \subseteq Valve
    BY <2>2 DEF Overlay, StoreTypeOK
  <2> QED
    BY <2>1, <2>2, <2>3 DEF StoreTypeOK
<1> QED
  BY <1>1, <1>2, <1>3, <1>4, EditCases

\* An import or an administrator leaves the pushes and their locks as they are.
LEMMA LocksUntouched ==
  ASSUME SyncTypes, UNCHANGED <<pushVars, tx>>, StoreTypeOK'
  PROVE  PushTypeOK' /\ CursorInLoop' /\ LocksHeld' /\ OneWriterPerFactory'
<1>1. UNCHANGED <<pc, cursor, log, answer, committed, tx>>
  BY DEF pushVars
<1>2. PushTypeOK'
  BY <1>1 DEF SyncTypes, PushTypeOK
<1> QED
  BY <1>1, <1>2 DEF SyncTypes, CursorInLoop, LocksHeld, OneWriterPerFactory, FactoryOf

\* A push or an administrator leaves the imports as they are.
LEMMA ImportsUntouched ==
  ASSUME SyncTypes, UNCHANGED <<step, deviceOf, found, done>>, orphaned' \subseteq Import, StoreTypeOK'
  PROVE  ImportTypeOK' /\ WritesUsableRow'
  BY DEF SyncTypes, ImportTypeOK, WritesUsableRow, Unusable, Row

LEMMA SyncTypesKept ==
  ASSUME SyncTypes, [SyncNext]_syncVars
  PROVE  SyncTypes'
<1> USE DEF SyncTypes
<1>1. CASE PushNext /\ WatchPlants
  <2>1. [PushNext]_vars
    BY <1>1
  <2>2. /\ PushTypeOK' /\ CursorInLoop' /\ LocksHeld' /\ OneWriterPerFactory'
    BY <2>1, TypesPreserved, LocksPreserved
  <2>3. UNCHANGED <<step, deviceOf, found, done>> /\ orphaned' \subseteq Import
    BY <1>1 DEF WatchPlants, ImportTypeOK
  <2> QED
    BY <2>2, <2>3, ImportsUntouched DEF PushTypeOK
<1>2. CASE ImportNext /\ UNCHANGED pushVars
  <2>1. ImportTypeOK' /\ WritesUsableRow'
    BY <1>2, ImportTypesKept
  <2>2. tx' = tx
    BY <1>2, ImportCases
       DEF ImportNext, Reads, Skips, CreateUnit, FindRow, WriteRow, BeginRow, EndRow, storeVars
  <2> QED
    BY <1>2, <2>1, <2>2, LocksUntouched DEF ImportTypeOK
<1>3. CASE AssetEdit /\ UNCHANGED <<pushVars, importVars>>
  <2>1. StoreTypeOK' /\ tx' = tx
    BY <1>3, EditTypes DEF PushTypeOK
  <2>2. UNCHANGED <<step, deviceOf, found, done>> /\ orphaned' \subseteq Import
    BY <1>3 DEF importVars, ImportTypeOK
  <2> QED
    BY <1>3, <2>1, <2>2, LocksUntouched, ImportsUntouched
<1>4. CASE UNCHANGED syncVars
  <2>1. UNCHANGED <<storeVars, pushVars, step, deviceOf, found, done, orphaned>>
    BY <1>4 DEF syncVars, importVars
  <2>2. StoreTypeOK' /\ tx' = tx
    BY <2>1 DEF storeVars, StoreTypeOK, PushTypeOK
  <2> QED
    BY <2>1, <2>2, LocksUntouched, ImportsUntouched DEF ImportTypeOK
<1> QED
  BY <1>1, <1>2, <1>3, <1>4 DEF SyncNext

---------------------------------------------------------------------------
(* Why the valves stay mounted at home: the inductive invariant. *)

\* Committed rows and those of open transactions.
AllDevices == devices \cup UNION {tx[p].devices : p \in Push}
AllValves  == valves \cup UNION {tx[p].valves : p \in Push}

\* Whatever device has or gets the id x, it is one of factory f, or was moved.
AtHome(x, f) ==
  /\ x < seq.device
  /\ \A d \in AllDevices : d.id = x => d.factory = f \/ x \in moved

\* An id was given to one device, which keeps its factory unless it is moved.
DeviceIds ==
  /\ \A d \in AllDevices : d.id < seq.device
  /\ \A d, e \in AllDevices : d.id = e.id => d.factory = e.factory \/ d.id \in moved

\* The device of a valve belongs to the valve's factory.
ValvesHome ==
  \A v \in AllValves : AtHome(v.device, v.factory) \/ v.id \in misplaced

\* The device of a valve exists; that of a valve in an open transaction cannot
\* be deleted, because the transaction has a key-share lock on it.
DevicesThere ==
  /\ \A v \in valves : v.device # NoDevice => \E d \in devices : d.id = v.device
  /\ \A p \in Push : \A v \in tx[p].valves :
       v.device \in tx[p].keyShare /\ \E d \in ViewDevices(p) : d.id = v.device

\* So does the device a push has found and the one an import has mapped, which
\* may both be deleted before they are used.
FoundAtHome ==
  \A p \in Push : pc[p] \in {"findValve", "writeValve"} => AtHome(cursor[p].device, FactoryOf(p))
MappedAtHome ==
  \A i \in Import, u \in Unit : AtHome(deviceOf[i][u], Plant(i))

HomeInv == DeviceIds /\ ValvesHome /\ DevicesThere /\ FoundAtHome /\ MappedAtHome

\* The ids, devices and valves have their types.
RowsTyped ==
  /\ seq.device \in Nat \ {0} /\ AllDevices \subseteq Device /\ AllValves \subseteq Valve
  /\ \A d \in AllDevices : d.id \in Nat \ {0} /\ d.factory \in Factory
  /\ \A v \in AllValves : v.device \in Nat /\ v.factory \in Factory

LEMMA RowTypes == StoreTypeOK => RowsTyped
<1> SUFFICES ASSUME StoreTypeOK PROVE RowsTyped
  OBVIOUS
<1>1. \A p \in Push : tx[p].devices \subseteq Device /\ tx[p].valves \subseteq Valve
  BY DEF StoreTypeOK, Tx
<1>2. AllDevices \subseteq Device /\ AllValves \subseteq Valve
  BY <1>1 DEF AllDevices, AllValves, StoreTypeOK
<1>3. \A d \in AllDevices : d.id \in Nat \ {0} /\ d.factory \in Factory
  BY <1>2 DEF Device
<1>4. \A v \in AllValves : v.device \in Nat /\ v.factory \in Factory
  BY <1>2 DEF Valve
<1> QED
  BY <1>2, <1>3, <1>4 DEF StoreTypeOK, RowsTyped

LEMMA RowTypesNext == StoreTypeOK' => RowsTyped'
  BY RowTypes, PTL

\* A device is at home in its factory.
LEMMA DeviceAtHome ==
  ASSUME StoreTypeOK, DeviceIds, NEW d \in AllDevices, NEW x, x = d.id
  PROVE  AtHome(x, d.factory)
<1>1. \A e \in AllDevices : e.id = d.id => e.factory = d.factory \/ e.id \in moved
  BY DEF DeviceIds
<1>2. d.id < seq.device
  BY DEF DeviceIds
<1> QED
  BY <1>1, <1>2 DEF AtHome

\* What a step may do to the devices: remove some, move some, and add one.
HomesStep ==
  /\ seq.device <= seq'.device /\ moved \subseteq moved'
  /\ \A e \in AllDevices' :
       \/ e.id = seq.device /\ seq.device < seq'.device
       \/ \E d \in AllDevices : d.id = e.id /\ (d.factory = e.factory \/ e.id \in moved')
  /\ \A d, e \in AllDevices' : d.id = seq.device /\ e.id = seq.device => d.factory = e.factory

\* Then no home changes.
LEMMA HomesStay ==
  ASSUME StoreTypeOK, StoreTypeOK', DeviceIds, HomesStep
  PROVE  /\ DeviceIds'
         /\ \A x \in Nat, f \in Factory : AtHome(x, f) => AtHome(x, f)'
<1>1. /\ seq.device \in Nat /\ seq'.device \in Nat /\ seq.device <= seq'.device
      /\ \A d \in AllDevices : d.id \in Nat /\ d.id < seq.device
      /\ \A d \in AllDevices' : d.id \in Nat
  BY RowTypes, RowTypesNext DEF RowsTyped, DeviceIds, HomesStep
<1>2. \A e \in AllDevices' : e.id < seq'.device
  BY <1>1 DEF HomesStep
<1>3. ASSUME NEW d \in AllDevices', NEW e \in AllDevices', d.id = e.id
      PROVE  d.factory = e.factory \/ d.id \in moved'
  <2>1. CASE d.id = seq.device
    BY <2>1, <1>3 DEF HomesStep
  <2>2. CASE d.id # seq.device
    <3>1. PICK d0 \in AllDevices : d0.id = d.id /\ (d0.factory = d.factory \/ d.id \in moved')
      BY <2>2 DEF HomesStep
    <3>2. PICK e0 \in AllDevices : e0.id = e.id /\ (e0.factory = e.factory \/ e.id \in moved')
      BY <2>2, <1>3 DEF HomesStep
    <3>3. d0.factory = e0.factory \/ d0.id \in moved
      BY <3>1, <3>2, <1>3 DEF DeviceIds
    <3> QED
      BY <3>1, <3>2, <3>3, <1>3 DEF HomesStep
  <2> QED
    BY <2>1, <2>2
<1>4. DeviceIds'
  BY <1>2, <1>3 DEF DeviceIds
<1>5. ASSUME NEW x \in Nat, NEW f \in Factory, AtHome(x, f)
      PROVE  AtHome(x, f)'
  <2>1. x < seq.device /\ x < seq'.device
    BY <1>1, <1>5 DEF AtHome
  <2>2. ASSUME NEW e \in AllDevices', e.id = x
        PROVE  e.factory = f \/ x \in moved'
    <3>1. PICK d \in AllDevices : d.id = e.id /\ (d.factory = e.factory \/ e.id \in moved')
      BY <2>1, <2>2, <1>1 DEF HomesStep
    <3> QED
      BY <3>1, <2>2, <1>5 DEF AtHome, HomesStep
  <2> QED
    BY <2>1, <2>2 DEF AtHome
<1> QED
  BY <1>4, <1>5

\* A device under a new id is at home where it was put.
LEMMA NewAtHome ==
  ASSUME StoreTypeOK, StoreTypeOK', HomesStep, seq.device < seq'.device,
         NEW x \in Nat, x = seq.device, NEW d \in AllDevices', d.id = x
  PROVE  AtHome(x, d.factory)'
  BY DEF HomesStep, AtHome

\* What a step may do to the valves: remove some, and put some where they are at home.
ValvesStep ==
  /\ misplaced \subseteq misplaced'
  /\ \A v \in AllValves' : \/ v \in AllValves \/ v.id \in misplaced'
                           \/ AtHome(v.device, v.factory)

\* A push or an import that has a device now had it before, or it is at home.
FoundStep ==
  \A p \in Push : pc'[p] \in {"findValve", "writeValve"} =>
     \/ pc[p] \in {"findValve", "writeValve"} /\ cursor'[p].device = cursor[p].device
     \/ AtHome(cursor'[p].device, FactoryOf(p))
     \/ AtHome(cursor[p].device, FactoryOf(p))'
MappedStep ==
  \A i \in Import, u \in Unit :
     \/ deviceOf'[i][u] = deviceOf[i][u]
     \/ AtHome(deviceOf'[i][u], Plant(i))
     \/ AtHome(deviceOf[i][u], Plant(i))'

LEMMA HomeFrame ==
  ASSUME SyncTypes, SyncTypes', HomeInv, HomesStep, ValvesStep, DevicesThere', FoundStep, MappedStep
  PROVE  HomeInv'
<1>0. StoreTypeOK /\ StoreTypeOK'
  BY DEF SyncTypes, PushTypeOK
<1>1. DeviceIds' /\ \A x \in Nat, f \in Factory : AtHome(x, f) => AtHome(x, f)'
  BY <1>0, HomesStay DEF HomeInv
<1>2. ValvesHome'
  <2> SUFFICES ASSUME NEW v \in AllValves', v.id \notin misplaced'
               PROVE  AtHome(v.device, v.factory)'
    BY DEF ValvesHome
  <2>1. v.device \in Nat /\ v.factory \in Factory
    BY <1>0, RowTypesNext DEF RowsTyped
  <2>2. AtHome(v.device, v.factory)
    BY DEF ValvesStep, HomeInv, ValvesHome
  <2> QED
    BY <1>1, <2>1, <2>2
<1>3. FoundAtHome'
  <2> SUFFICES ASSUME NEW p \in Push, pc'[p] \in {"findValve", "writeValve"}
               PROVE  AtHome(cursor[p].device, FactoryOf(p))'
    BY DEF FoundAtHome
  <2>1. PICK x \in Nat : x = cursor'[p].device
    BY DEF SyncTypes, PushTypeOK
  <2>2. CASE AtHome(cursor[p].device, FactoryOf(p))'
    BY <2>2
  <2>3. CASE ~AtHome(cursor[p].device, FactoryOf(p))'
    <3>1. AtHome(x, FactoryOf(p))
      BY <2>1, <2>3 DEF FoundStep, HomeInv, FoundAtHome
    <3>2. AtHome(x, FactoryOf(p))'
      BY <3>1, <1>1, RequestTypes DEF FactoryOf
    <3> QED
      BY <2>1, <3>2 DEF AtHome
  <2> QED
    BY <2>2, <2>3
<1>4. MappedAtHome'
  <2> SUFFICES ASSUME NEW i \in Import, NEW u \in Unit
               PROVE  AtHome(deviceOf[i][u], Plant(i))'
    BY DEF MappedAtHome
  <2>1. PICK x \in Nat : x = deviceOf'[i][u]
    BY DEF SyncTypes, ImportTypeOK
  <2>2. CASE AtHome(deviceOf[i][u], Plant(i))'
    BY <2>2
  <2>3. CASE ~AtHome(deviceOf[i][u], Plant(i))'
    <3>1. AtHome(x, Plant(i))
      BY <2>1, <2>3 DEF MappedStep, HomeInv, MappedAtHome
    <3>2. AtHome(x, Plant(i))'
      BY <3>1, <1>1, SheetTypes DEF Plant
    <3> QED
      BY <2>1, <3>2 DEF AtHome
  <2> QED
    BY <2>2, <2>3
<1> QED
  BY <1>1, <1>2, <1>3, <1>4 DEF HomeInv


---------------------------------------------------------------------------
(* What the steps of all writers do to devices and valves, in seven kinds. *)

Holdings(p) == <<tx[p].devices, tx[p].valves, tx[p].keyShare>>

\* Rows go, unless a transaction relies on them; transactions end without a trace.
Drops ==
  /\ seq'.device = seq.device /\ UNCHANGED <<moved, misplaced>>
  /\ devices' \subseteq devices /\ valves' \subseteq valves
  /\ \A d \in devices : (\E v \in valves' : v.device = d.id) => d \in devices'
  /\ \A d \in devices : (\E p \in Push : d.id \in tx'[p].keyShare) => d \in devices'
  /\ \A p \in Push : Holdings(p)' = Holdings(p) \/ Holdings(p)' = <<{}, {}, {}>>

\* A transaction ends, and its rows become visible.
Publishes(p) ==
  /\ devices' = ViewDevices(p) /\ valves' = ViewValves(p)
  /\ Holdings(p)' = <<{}, {}, {}>> /\ \A q \in Push \ {p} : Holdings(q)' = Holdings(q)
  /\ seq' = seq /\ UNCHANGED <<moved, misplaced>>
  /\ tx[p].valves # {} => tx[p].factory = FactoryOf(p)

\* A transaction creates a device.
CreatesHidden(p) ==
  /\ \E d \in Device : /\ d.id = seq.device /\ d.factory = FactoryOf(p)
                       /\ Holdings(p)' = <<tx[p].devices \cup {d}, tx[p].valves, tx[p].keyShare>>
  /\ \A q \in Push \ {p} : Holdings(q)' = Holdings(q)
  /\ seq'.device = seq.device + 1
  /\ UNCHANGED <<devices, valves, moved, misplaced>>

\* A device is created outside of transactions.
Creates(d) ==
  /\ d.id = seq.device
  /\ devices' = devices \cup {d}
  /\ seq'.device = seq.device + 1
  /\ UNCHANGED <<valves, tx, moved, misplaced>>

\* A device gets other columns.
Changes(d, row) ==
  /\ d \in devices /\ row.id = d.id
  /\ devices' = (devices \ {d}) \cup {row}
  /\ moved' = IF row.factory = d.factory THEN moved ELSE moved \cup {d.id}
  /\ UNCHANGED <<valves, seq, tx, misplaced>>

\* A transaction writes a valve.
Writes(p, row) ==
  /\ row.factory = FactoryOf(p)
  /\ AtHome(row.device, row.factory)
  /\ Writable(p, row)
  /\ Holdings(p)' = <<tx[p].devices, Overlay(tx[p].valves, {row}), tx[p].keyShare \cup {row.device}>>
  /\ \A q \in Push \ {p} : Holdings(q)' = Holdings(q)
  /\ seq'.device = seq.device
  /\ UNCHANGED <<devices, valves, moved, misplaced>>

\* A valve is written outside of transactions.
Stores(row) ==
  /\ ~Blocked(row) /\ ~Collides(valves, row)
  /\ row.device = NoDevice \/ \E d \in devices : d.id = row.device
  /\ AtHome(row.device, row.factory) \/ row.id \in misplaced'
  /\ valves' = Overlay(valves, {row})
  /\ misplaced \subseteq misplaced'
  /\ seq'.device = seq.device
  /\ UNCHANGED <<devices, tx, moved>>

Mounts == HomesStep /\ ValvesStep /\ DevicesThere'

\* The rows of transactions, by the pushes that hold them.
LEMMA AllRows ==
  /\ \A d : d \in AllDevices <=> d \in devices \/ \E p \in Push : d \in tx[p].devices
  /\ \A v : v \in AllValves <=> v \in valves \/ \E p \in Push : v \in tx[p].valves
  BY DEF AllDevices, AllValves

LEMMA AllRowsNext ==
  /\ \A d : d \in AllDevices' <=> d \in devices' \/ \E p \in Push : d \in tx'[p].devices
  /\ \A v : v \in AllValves' <=> v \in valves' \/ \E p \in Push : v \in tx'[p].valves
  BY DEF AllDevices, AllValves

\* A step that creates no device and moves none keeps every home.
LEMMA SameHomes ==
  ASSUME StoreTypeOK, StoreTypeOK', HomeInv, seq'.device = seq.device, AllDevices' \subseteq AllDevices,
         moved \subseteq moved'
  PROVE  HomesStep
<1>1. seq.device \in Nat /\ \A d \in AllDevices : d.id \in Nat /\ d.id < seq.device
  BY RowTypes DEF RowsTyped, HomeInv, DeviceIds
<1> QED
  BY <1>1 DEF HomesStep

LEMMA DropsMounts ==
  ASSUME StoreTypeOK, StoreTypeOK', HomeInv, Drops
  PROVE  Mounts
<1>1. \A p \in Push : /\ tx'[p].devices \in {tx[p].devices, {}} /\ tx'[p].valves \in {tx[p].valves, {}}
                      /\ tx'[p].valves # {} => /\ tx'[p].devices = tx[p].devices
                                               /\ tx'[p].keyShare = tx[p].keyShare
  BY DEF Drops, Holdings
<1>2. AllDevices' \subseteq AllDevices /\ AllValves' \subseteq AllValves
  BY <1>1, AllRows, AllRowsNext DEF Drops
<1>3. HomesStep
  BY <1>2, SameHomes DEF Drops
<1>4. ValvesStep
  BY <1>2 DEF ValvesStep, Drops
<1>5. ASSUME NEW v \in valves', v.device # NoDevice
      PROVE  \E d \in devices' : d.id = v.device
  BY <1>5 DEF Drops, HomeInv, DevicesThere
<1>6. ASSUME NEW p \in Push, NEW v \in tx'[p].valves
      PROVE  v.device \in tx'[p].keyShare /\ \E d \in ViewDevices(p)' : d.id = v.device
  <2>1. v \in tx[p].valves /\ tx'[p].devices = tx[p].devices /\ tx'[p].keyShare = tx[p].keyShare
    BY <1>1, <1>6
  <2>2. PICK d \in ViewDevices(p) : d.id = v.device
    BY <2>1 DEF HomeInv, DevicesThere
  <2>3. v.device \in tx'[p].keyShare
    BY <2>1 DEF HomeInv, DevicesThere
  <2>4. d \in devices => d \in devices'
    BY <2>2, <2>3 DEF Drops
  <2> QED
    BY <2>1, <2>2, <2>3, <2>4 DEF ViewDevices
<1> QED
  BY <1>3, <1>4, <1>5, <1>6 DEF Mounts, DevicesThere

LEMMA PublishesMounts ==
  ASSUME StoreTypeOK, StoreTypeOK', HomeInv, NEW p \in Push, Publishes(p)
  PROVE  Mounts
<1>1. /\ tx'[p].devices = {} /\ tx'[p].valves = {}
      /\ \A q \in Push \ {p} : /\ tx'[q].devices = tx[q].devices /\ tx'[q].valves = tx[q].valves
                               /\ tx'[q].keyShare = tx[q].keyShare
  BY DEF Publishes, Holdings
<1>2. /\ devices' = devices \cup tx[p].devices
      /\ \A v \in valves' : v \in valves \/ v \in tx[p].valves
  BY DEF Publishes, ViewDevices, ViewValves, Overlay
<1>3. AllDevices' \subseteq AllDevices /\ AllValves' \subseteq AllValves
  BY <1>1, <1>2, AllRows, AllRowsNext
<1>4. HomesStep
  BY <1>3, SameHomes DEF Publishes
<1>5. ValvesStep
  BY <1>3 DEF ValvesStep, Publishes
<1>6. DevicesThere'
  <2>1. ASSUME NEW v \in valves', v.device # NoDevice
        PROVE  \E d \in devices' : d.id = v.device
    BY <2>1, <1>2 DEF HomeInv, DevicesThere, ViewDevices
  <2>2. ASSUME NEW q \in Push, NEW v \in tx'[q].valves
        PROVE  v.device \in tx'[q].keyShare /\ \E d \in ViewDevices(q)' : d.id = v.device
    BY <2>2, <1>1, <1>2 DEF HomeInv, DevicesThere, ViewDevices
  <2> QED
    BY <2>1, <2>2 DEF DevicesThere
<1> QED
  BY <1>4, <1>5, <1>6 DEF Mounts


\* One device more, under a new id.
LEMMA OneMoreHome ==
  ASSUME StoreTypeOK, StoreTypeOK', HomeInv, NEW d, d.id = seq.device,
         AllDevices' \subseteq AllDevices \cup {d}, seq'.device = seq.device + 1, moved' = moved
  PROVE  HomesStep
<1>1. seq.device \in Nat /\ \A e \in AllDevices : e.id \in Nat /\ e.id < seq.device
  BY RowTypes DEF RowsTyped, HomeInv, DeviceIds
<1>2. \A e \in AllDevices' : e = d \/ (e \in AllDevices /\ e.id # seq.device)
  BY <1>1
<1> QED
  BY <1>1, <1>2 DEF HomesStep

LEMMA CreatesHiddenMounts ==
  ASSUME StoreTypeOK, StoreTypeOK', HomeInv, NEW p \in Push, CreatesHidden(p)
  PROVE  Mounts
<1>1. PICK d \in Device :
        /\ d.id = seq.device /\ tx'[p].devices = tx[p].devices \cup {d}
        /\ tx'[p].valves = tx[p].valves /\ tx'[p].keyShare = tx[p].keyShare
  BY DEF CreatesHidden, Holdings
<1>2. \A q \in Push \ {p} : /\ tx'[q].devices = tx[q].devices /\ tx'[q].valves = tx[q].valves
                            /\ tx'[q].keyShare = tx[q].keyShare
  BY DEF CreatesHidden, Holdings
<1>3. devices' = devices /\ valves' = valves /\ UNCHANGED <<moved, misplaced>>
  BY DEF CreatesHidden
<1>4. AllDevices' \subseteq AllDevices \cup {d} /\ AllValves' \subseteq AllValves
  BY <1>1, <1>2, <1>3, AllRows, AllRowsNext
<1>5. HomesStep
  BY <1>1, <1>3, <1>4, OneMoreHome DEF CreatesHidden
<1>6. ValvesStep
  BY <1>3, <1>4 DEF ValvesStep
<1>7. DevicesThere'
  BY <1>1, <1>2, <1>3 DEF HomeInv, DevicesThere, ViewDevices
<1> QED
  BY <1>5, <1>6, <1>7 DEF Mounts

LEMMA CreatesMounts ==
  ASSUME StoreTypeOK, StoreTypeOK', HomeInv, NEW d, Creates(d)
  PROVE  Mounts
<1>1. d.id = seq.device /\ devices' = devices \cup {d} /\ UNCHANGED <<valves, tx, moved, misplaced>>
  BY DEF Creates
<1>2. AllDevices' \subseteq AllDevices \cup {d} /\ AllValves' \subseteq AllValves
  BY <1>1 DEF AllDevices, AllValves
<1>3. HomesStep
  BY <1>1, <1>2, OneMoreHome DEF Creates
<1>4. ValvesStep
  BY <1>1, <1>2 DEF ValvesStep
<1>5. DevicesThere'
  BY <1>1 DEF HomeInv, DevicesThere, ViewDevices
<1> QED
  BY <1>3, <1>4, <1>5 DEF Mounts

LEMMA ChangesMounts ==
  ASSUME StoreTypeOK, StoreTypeOK', HomeInv, NEW d, NEW row, Changes(d, row)
  PROVE  Mounts
<1>1. /\ d \in devices /\ row.id = d.id /\ devices' = (devices \ {d}) \cup {row}
      /\ moved' = IF row.factory = d.factory THEN moved ELSE moved \cup {d.id}
      /\ UNCHANGED <<valves, seq, tx, misplaced>>
  BY DEF Changes
<1>2. seq.device \in Nat /\ \A e \in AllDevices : e.id \in Nat /\ e.id < seq.device
  BY RowTypes DEF RowsTyped, HomeInv, DeviceIds
<1>3. d \in AllDevices /\ \A e \in AllDevices' : e = row \/ e \in AllDevices
  BY <1>1, AllRows, AllRowsNext
<1>4. row.factory = d.factory \/ row.id \in moved'
  BY <1>1
<1>5. HomesStep
  <2>1. \A e \in AllDevices' : e.id < seq.device /\ e.id \in Nat
    BY <1>1, <1>2, <1>3
  <2>2. \A e \in AllDevices' : \E c \in AllDevices : c.id = e.id /\ (c.factory = e.factory \/ e.id \in moved')
    BY <1>1, <1>3, <1>4
  <2> QED
    BY <1>1, <1>2, <2>1, <2>2 DEF HomesStep
<1>6. ValvesStep
  BY <1>1 DEF ValvesStep, AllValves
\* Every device has its id still.
<1>7. \A e \in devices : \E c \in devices' : c.id = e.id
  BY <1>1
<1>8. DevicesThere'
  <2>1. ASSUME NEW v \in valves', v.device # NoDevice
        PROVE  \E c \in devices' : c.id = v.device
    BY <2>1, <1>1, <1>7 DEF HomeInv, DevicesThere
  <2>2. ASSUME NEW q \in Push, NEW v \in tx'[q].valves
        PROVE  v.device \in tx'[q].keyShare /\ \E c \in ViewDevices(q)' : c.id = v.device
    <3>1. v.device \in tx[q].keyShare /\ \E c \in ViewDevices(q) : c.id = v.device
      BY <2>2, <1>1 DEF HomeInv, DevicesThere
    <3> QED
      BY <3>1, <1>1, <1>7 DEF ViewDevices
  <2> QED
    BY <2>1, <2>2 DEF DevicesThere
<1> QED
  BY <1>5, <1>6, <1>8 DEF Mounts

LEMMA WritesMounts ==
  ASSUME StoreTypeOK, StoreTypeOK', HomeInv, NEW p \in Push, NEW row, Writes(p, row)
  PROVE  Mounts
<1>1. /\ tx'[p].devices = tx[p].devices /\ tx'[p].valves = Overlay(tx[p].valves, {row})
      /\ tx'[p].keyShare = tx[p].keyShare \cup {row.device}
      /\ \A q \in Push \ {p} : /\ tx'[q].devices = tx[q].devices /\ tx'[q].valves = tx[q].valves
                               /\ tx'[q].keyShare = tx[q].keyShare
      /\ UNCHANGED <<devices, valves, moved, misplaced>>
  BY DEF Writes, Holdings
<1>2. \A v \in tx'[p].valves : v \in tx[p].valves \/ v = row
  BY <1>1 DEF Overlay
<1>3. AllDevices' \subseteq AllDevices /\ \A v \in AllValves' : v \in AllValves \/ v = row
  BY <1>1, <1>2, AllRows, AllRowsNext
<1>4. HomesStep
  BY <1>1, <1>3, SameHomes DEF Writes
<1>5. ValvesStep
  BY <1>1, <1>3 DEF ValvesStep, Writes
<1>6. DevicesThere'
  <2>1. \A q \in Push : ViewDevices(q)' = ViewDevices(q)
    BY <1>1 DEF ViewDevices
  <2>2. ASSUME NEW q \in Push, NEW v \in tx'[q].valves
        PROVE  v.device \in tx'[q].keyShare /\ \E d \in ViewDevices(q)' : d.id = v.device
    <3>1. CASE q = p /\ v = row
      BY <3>1, <1>1, <2>1 DEF Writes, Writable
    <3>2. CASE v \in tx[q].valves
      BY <3>2, <1>1, <2>1 DEF HomeInv, DevicesThere
    <3> QED
      BY <1>1, <1>2, <3>1, <3>2
  <2> QED
    BY <1>1, <2>2 DEF HomeInv, DevicesThere
<1> QED
  BY <1>4, <1>5, <1>6 DEF Mounts

LEMMA StoresMounts ==
  ASSUME StoreTypeOK, StoreTypeOK', HomeInv, NEW row, Stores(row)
  PROVE  Mounts
<1>1. /\ valves' = Overlay(valves, {row}) /\ seq'.device = seq.device
      /\ misplaced \subseteq misplaced' /\ UNCHANGED <<devices, tx, moved>>
  BY DEF Stores
<1>2. \A v \in valves' : v \in valves \/ v = row
  BY <1>1 DEF Overlay
<1>3. AllDevices' \subseteq AllDevices /\ \A v \in AllValves' : v \in AllValves \/ v = row
  BY <1>1, <1>2, AllRows, AllRowsNext
<1>4. HomesStep
  BY <1>1, <1>3, SameHomes
<1>5. ValvesStep
  BY <1>1, <1>3 DEF ValvesStep, Stores
<1>6. DevicesThere'
  BY <1>1, <1>2 DEF HomeInv, DevicesThere, ViewDevices, Stores
<1> QED
  BY <1>4, <1>5, <1>6 DEF Mounts


---------------------------------------------------------------------------
(* Why the index holds: the inductive invariant. *)

NoClash(rows) == \A v \in rows : ~Collides(rows, v)

\* A transaction writes valves of its own factory only, on whose row it has a lock.
OwnValves == \A p \in Push : \A v \in tx[p].valves : v.factory = FactoryOf(p)

\* Each transaction sees rows that the index allows.
ViewsIndexed == \A p \in Push : NoClash(ViewValves(p))

IndexInv == SerialUnique /\ OwnValves /\ ViewsIndexed

\* Two rows of one factory with one serial number do clash.
LEMMA Clash ==
  ASSUME NEW rows
  PROVE  NoClash(rows) <=>
           \A v, w \in rows : ~ (/\ v.serialNumber \notin Placeholder \cup {Absent} /\ w.id # v.id
                                 /\ w.factory = v.factory /\ w.serialNumber = v.serialNumber)
  BY DEF NoClash, Collides

LEMMA DropsIndex ==
  ASSUME IndexInv, Drops
  PROVE  IndexInv'
<1>1. valves' \subseteq valves /\ \A p \in Push : tx'[p].valves \in {tx[p].valves, {}}
  BY DEF Drops, Holdings
<1>2. NoClash(valves')
  BY <1>1 DEF IndexInv, SerialUnique, NoClash, Collides
<1>3. ASSUME NEW p \in Push PROVE NoClash(ViewValves(p)')
  <2>1. CASE tx'[p].valves = {}
    BY <2>1, <1>2 DEF ViewValves, Overlay, NoClash, Collides
  <2>2. CASE tx'[p].valves = tx[p].valves
    <3>1. ViewValves(p)' \subseteq ViewValves(p)
      BY <2>2, <1>1 DEF ViewValves, Overlay
    <3>2. NoClash(ViewValves(p))
      BY DEF IndexInv, ViewsIndexed
    <3> QED
      BY <3>1, <3>2, Clash
  <2> QED
    BY <1>1, <2>1, <2>2
<1>4. SerialUnique' /\ ViewsIndexed'
  BY <1>2, <1>3 DEF SerialUnique, ViewsIndexed, NoClash, Collides
<1>5. OwnValves'
  BY <1>1 DEF IndexInv, OwnValves, FactoryOf
<1> QED
  BY <1>4, <1>5 DEF IndexInv

\* A row added to an indexed table that it does not collide with.
LEMMA OneMoreRow ==
  ASSUME NEW rows, NEW more, NEW row, NoClash(rows),
         \A v \in more : v = row \/ (v \in rows /\ v.id # row.id),
         ~Collides(rows, row)
  PROVE  NoClash(more)
<1>1. ASSUME NEW v \in more, NEW w \in more,
             v.serialNumber \notin Placeholder \cup {Absent}, w.id # v.id,
             w.factory = v.factory, w.serialNumber = v.serialNumber
      PROVE  FALSE
  <2>1. CASE v \in rows /\ w \in rows
    BY <1>1, <2>1 DEF NoClash, Collides
  <2>2. CASE v = row /\ w \in rows
    BY <1>1, <2>2 DEF Collides
  <2>3. CASE w = row /\ v \in rows
    BY <1>1, <2>3 DEF Collides
  <2> QED
    BY <1>1, <2>1, <2>2, <2>3
<1> QED
  BY <1>1 DEF NoClash, Collides

LEMMA WritesIndex ==
  ASSUME IndexInv, NEW p \in Push, NEW row, Writes(p, row)
  PROVE  IndexInv'
<1>1. /\ tx'[p].valves = Overlay(tx[p].valves, {row})
      /\ \A q \in Push \ {p} : tx'[q].valves = tx[q].valves
      /\ valves' = valves
  BY DEF Writes, Holdings
<1>2. SerialUnique'
  BY <1>1 DEF IndexInv, SerialUnique, Collides
<1>3. OwnValves'
  BY <1>1 DEF IndexInv, OwnValves, Overlay, FactoryOf, Writes
<1>4. NoClash(ViewValves(p)')
  <2>1. \A v \in ViewValves(p)' : v = row \/ (v \in ViewValves(p) /\ v.id # row.id)
    BY <1>1 DEF ViewValves, Overlay
  <2>2. ~Collides(ViewValves(p), row) /\ NoClash(ViewValves(p))
    BY DEF Writes, Writable, IndexInv, ViewsIndexed
  <2> QED
    BY <2>1, <2>2, OneMoreRow
<1>5. ASSUME NEW q \in Push \ {p} PROVE NoClash(ViewValves(q)')
  <2>1. ViewValves(q)' = ViewValves(q)
    BY <1>1 DEF ViewValves
  <2> QED
    BY <2>1 DEF IndexInv, ViewsIndexed
<1>6. ViewsIndexed'
  BY <1>4, <1>5 DEF ViewsIndexed, NoClash, Collides
<1> QED
  BY <1>2, <1>3, <1>6 DEF IndexInv

\* The other writers wait for the rows and index entries of open transactions.
LEMMA StoresIndex ==
  ASSUME IndexInv, NEW row, Stores(row)
  PROVE  IndexInv'
<1>1. valves' = Overlay(valves, {row}) /\ tx' = tx /\ ~Collides(valves, row) /\ ~Blocked(row)
  BY DEF Stores
<1>2. \A v \in valves' : v = row \/ (v \in valves /\ v.id # row.id)
  BY <1>1 DEF Overlay
<1>3. NoClash(valves')
  <2>1. NoClash(valves)
    BY DEF IndexInv, SerialUnique, NoClash
  <2> QED
    BY <2>1, <1>1, <1>2, OneMoreRow
<1>4. ASSUME NEW p \in Push PROVE NoClash(ViewValves(p)')
  <2>1. \A v \in ViewValves(p)' : v = row \/ (v \in ViewValves(p) /\ v.id # row.id)
    <3>1. \A w \in tx[p].valves : w.id # row.id
      BY <1>1 DEF Blocked, Holds
    <3> QED
      BY <3>1, <1>1, <1>2 DEF ViewValves, Overlay
  <2>2. ~Collides(ViewValves(p), row)
    <3>1. \A w \in tx[p].valves : ~Collides({w} \cup {v \in valves : v.id = w.id}, row)
      BY <1>1 DEF Blocked, Holds
    <3>2. \A w \in tx[p].valves : ~(/\ row.serialNumber \notin Placeholder \cup {Absent} /\ w.id # row.id
                                    /\ w.factory = row.factory /\ w.serialNumber = row.serialNumber)
      BY <3>1 DEF Collides
    <3> QED
      BY <3>2, <1>1 DEF ViewValves, Overlay, Collides
  <2>3. NoClash(ViewValves(p))
    BY DEF IndexInv, ViewsIndexed
  <2> QED
    BY <2>1, <2>2, <2>3, OneMoreRow
<1>5. SerialUnique' /\ ViewsIndexed'
  BY <1>3, <1>4 DEF SerialUnique, ViewsIndexed, NoClash, Collides
<1>6. OwnValves'
  BY <1>1 DEF IndexInv, OwnValves, FactoryOf
<1> QED
  BY <1>5, <1>6 DEF IndexInv

\* What a transaction has written is in its own factory, where no other one writes.
LEMMA PublishesIndex ==
  ASSUME IndexInv, LocksHeld, OneWriterPerFactory, NEW p \in Push, Publishes(p)
  PROVE  IndexInv'
<1>1. /\ valves' = ViewValves(p) /\ tx'[p].valves = {}
      /\ \A q \in Push \ {p} : tx'[q].valves = tx[q].valves
  BY DEF Publishes, Holdings
<1>2. NoClash(ViewValves(p)) /\ \A q \in Push : NoClash(ViewValves(q))
  BY DEF IndexInv, ViewsIndexed
<1>3. OwnValves'
  BY <1>1 DEF IndexInv, OwnValves, FactoryOf
<1>4. ViewValves(p)' = valves'
  BY <1>1 DEF ViewValves, Overlay
<1>5. ASSUME NEW q \in Push \ {p} PROVE NoClash(ViewValves(q)')
  <2>1. \A v \in tx[p].valves, w \in tx[q].valves : v.factory # w.factory
    <3> SUFFICES ASSUME NEW v \in tx[p].valves, NEW w \in tx[q].valves, v.factory = w.factory
                 PROVE  FALSE
      OBVIOUS
    <3>1. FactoryOf(p) = FactoryOf(q)
      BY DEF IndexInv, OwnValves
    <3>2. tx[p].factory = FactoryOf(p) /\ tx[q].factory = FactoryOf(q)
      <4>1. tx[p].valves # {} /\ tx[q].valves # {}
        OBVIOUS
      <4>2. \A r \in Push : tx[r].valves # {} => tx[r].factory = FactoryOf(r)
        BY DEF LocksHeld, NoTx
      <4> QED
        BY <4>1, <4>2
    <3>3. FactoryOf(p) # None
      BY RequestTypes, InitialStoresAssumption
    <3> QED
      BY <3>1, <3>2, <3>3 DEF OneWriterPerFactory
  <2>2. \A v \in ViewValves(q)' : \/ v \in ViewValves(q)
                                  \/ v \in tx[p].valves /\ v \in ViewValves(p)
    BY <1>1 DEF ViewValves, Overlay
  <2>3. \A v \in ViewValves(q)' : v \in tx[q].valves \/ v \in ViewValves(p)
    BY <1>1 DEF ViewValves, Overlay
  <2>4. ASSUME NEW v \in ViewValves(q)', NEW w \in ViewValves(q)',
               v.serialNumber \notin Placeholder \cup {Absent}, w.id # v.id,
               w.factory = v.factory, w.serialNumber = v.serialNumber
        PROVE  FALSE
    <3>1. CASE v \in ViewValves(q) /\ w \in ViewValves(q)
      BY <3>1, <2>4, <1>2, Clash
    <3>2. CASE v \in ViewValves(p) /\ w \in ViewValves(p)
      BY <3>2, <2>4, <1>2, Clash
    <3>3. CASE \/ v \in tx[p].valves /\ w \in tx[q].valves
               \/ v \in tx[q].valves /\ w \in tx[p].valves
      BY <3>3, <2>1, <2>4
    <3> QED
      BY <2>2, <2>3, <3>1, <3>2, <3>3
  <2> QED
    BY <2>4 DEF NoClash, Collides
<1>6. SerialUnique'
  BY <1>1, <1>2 DEF SerialUnique, NoClash, Collides
<1>7. ViewsIndexed'
  BY <1>1, <1>2, <1>4, <1>5 DEF ViewsIndexed, NoClash, Collides
<1> QED
  BY <1>3, <1>6, <1>7 DEF IndexInv


---------------------------------------------------------------------------
(* Why an import's statement that has waited for its factory can end: the   *)
(* inductive invariant.                                                     *)

\* The index allows v and w together.
Apart(v, w) == v.id # w.id /\ ~Collides({v}, w)

\* The tables have room for the row.
Fits(row) ==
  /\ ~Blocked(row) /\ ~Collides(valves, row)
  /\ \E d \in devices : d.id = row.device

\* While an import's row waits, the others leave it its place.
Stands(i) ==
  /\ found[i] # NoValve
  /\ Fits(NewRow(i))
  /\ \A j \in Import \ {i} : step[j] = "checkRow" => Apart(NewRow(i), NewRow(j))

EntriesInv == \A i \in Import : step[i] = "checkRow" => Stands(i)

LEMMA ApartBoth ==
  ASSUME NEW v, NEW w, Apart(v, w)
  PROVE  Apart(w, v)
  BY DEF Apart, Collides

\* Who does not wait for a row is apart from it.
LEMMA FreeApart ==
  ASSUME NEW w, NEW row, ~Holds(w, row)
  PROVE  Apart(w, row)
  BY DEF Holds, Collides, Apart

\* A row goes on to fit while nobody writes one that it clashes with.
LEMMA FitsAgain ==
  ASSUME NEW row, Fits(row),
         \A x \in valves' \ valves : Apart(row, x),
         \A p \in Push : \A x \in tx'[p].valves \ tx[p].valves : Apart(row, x),
         \E d \in devices' : d.id = row.device
  PROVE  Fits(row)'
<1>1. ~Collides(valves', row)
  BY DEF Fits, Collides, Apart
<1>2. ASSUME NEW p \in Push, NEW x \in tx'[p].valves
      PROVE  Apart(x, row)
  <2>1. CASE x \in tx[p].valves
    BY <2>1, FreeApart DEF Fits, Blocked
  <2>2. CASE x \notin tx[p].valves
    BY <2>2, ApartBoth
  <2> QED
    BY <2>1, <2>2
<1>3. ~Blocked(row)'
  <2>1. ASSUME NEW p \in Push, NEW x \in tx'[p].valves
        PROVE  ~Holds(x, row)'
    BY <1>1, <1>2 DEF Holds, Apart, Collides
  <2> QED
    BY <2>1 DEF Blocked
<1> QED
  BY <1>1, <1>3 DEF Fits

\* The row of an entry is settled: the sequence does not matter to it any more.
LEMMA EntrySettled ==
  ASSUME NEW i \in Import, found[i] # NoValve,
         found'[i] = found[i], done'[i] = done[i], deviceOf'[i] = deviceOf[i]
  PROVE  NewRow(i)' = NewRow(i)
  BY DEF NewRow, Row

\* What import k does leaves the entries of the others alone.
LEMMA OthersStand ==
  ASSUME NEW k, EntriesInv, tx' = tx, devices \subseteq devices',
         \A i \in Import \ {k} : /\ step'[i] = step[i] /\ found'[i] = found[i]
                                 /\ done'[i] = done[i] /\ deviceOf'[i] = deviceOf[i],
         \A i \in Import \ {k} : step[i] = "checkRow" =>
            \A x \in valves' \ valves : Apart(NewRow(i), x),
         NEW i \in Import \ {k}, step'[i] = "checkRow"
  PROVE  /\ step[i] = "checkRow" /\ found'[i] # NoValve
         /\ Fits(NewRow(i))' /\ NewRow(i)' = NewRow(i)
         /\ \A j \in Import \ {i, k} : step'[j] = "checkRow" => Apart(NewRow(i), NewRow(j))'
<1>1. step[i] = "checkRow" /\ Stands(i) /\ found'[i] # NoValve
  BY DEF EntriesInv, Stands
<1>2. \A j \in Import \ {k} : step'[j] = "checkRow" => NewRow(j)' = NewRow(j)
  BY EntrySettled DEF EntriesInv, Stands
<1>3. PICK w : w = NewRow(i)
  OBVIOUS
<1>4. Fits(w)'
  <2>1. Fits(w) /\ \E d \in devices' : d.id = w.device
    BY <1>1, <1>3 DEF Stands, Fits
  <2>2. \A x \in valves' \ valves : Apart(w, x)
    BY <1>1, <1>3
  <2> QED
    BY <2>1, <2>2, FitsAgain
<1>5. Fits(NewRow(i))'
  <2>1. NewRow(i)' = w
    BY <1>2, <1>3
  <2> QED
    BY <1>4, <2>1 DEF Fits, Blocked, Holds, Collides
<1>6. ASSUME NEW j \in Import \ {i, k}, step'[j] = "checkRow"
      PROVE  Apart(NewRow(i), NewRow(j))'
  <2>1. Apart(NewRow(i), NewRow(j))
    BY <1>1, <1>6 DEF Stands
  <2>2. NewRow(i)' = NewRow(i) /\ NewRow(j)' = NewRow(j)
    BY <1>2, <1>6
  <2> QED
    BY <2>1, <2>2 DEF Apart, Collides
<1> QED
  BY <1>1, <1>2, <1>5, <1>6

\* Pushes and administrators wait for them.
LEMMA AwaitedStand ==
  ASSUME EntriesInv, AwaitEntries, UNCHANGED <<step, deviceOf, found, done>>
  PROVE  EntriesInv'
<1> SUFFICES ASSUME NEW i \in Import, step'[i] = "checkRow" PROVE Stands(i)'
  BY DEF EntriesInv
<1>1. step[i] = "checkRow" /\ Stands(i) /\ found'[i] # NoValve
  BY DEF EntriesInv, Stands
<1>2. \A j \in Import : step'[j] = "checkRow" => NewRow(j)' = NewRow(j)
  BY EntrySettled DEF EntriesInv, Stands
<1>3. PICK w : w = NewRow(i)
  OBVIOUS
<1>4. w \in Entries
  BY <1>1, <1>3 DEF Entries
<1>5. Fits(w)'
  <2>1. /\ \A x \in valves' \ valves : ~Holds(w, x)
        /\ \A p \in Push : \A x \in tx'[p].valves \ tx[p].valves : ~Holds(w, x)
        /\ \E d \in devices' : d.id = w.device
    BY <1>4 DEF AwaitEntries
  <2>2. /\ \A x \in valves' \ valves : Apart(w, x)
        /\ \A p \in Push : \A x \in tx'[p].valves \ tx[p].valves : Apart(w, x)
    BY <2>1, FreeApart
  <2>3. Fits(w)
    BY <1>1, <1>3 DEF Stands
  <2> QED
    BY <2>1, <2>2, <2>3, FitsAgain
<1>6. Fits(NewRow(i))'
  <2>1. NewRow(i)' = w
    BY <1>2, <1>3
  <2> QED
    BY <1>5, <2>1 DEF Fits, Blocked, Holds, Collides
<1>7. ASSUME NEW j \in Import \ {i}, step'[j] = "checkRow"
      PROVE  Apart(NewRow(i), NewRow(j))'
  <2>1. Apart(NewRow(i), NewRow(j))
    BY <1>1, <1>7 DEF Stands
  <2>2. NewRow(i)' = NewRow(i) /\ NewRow(j)' = NewRow(j)
    BY <1>2, <1>7
  <2> QED
    BY <2>1, <2>2 DEF Apart, Collides
<1> QED
  BY <1>1, <1>6, <1>7 DEF Stands

\* An import that begins to wait finds its place free.
LEMMA BeginsToStand ==
  ASSUME ImportTypeOK, WritesUsableRow, EntriesInv, NEW k \in Import, BeginRow(k)
  PROVE  EntriesInv'
<1> DEFINE row == NewRow(k)
<1>1. /\ step[k] = "writeRow" /\ step' = [step EXCEPT ![k] = "checkRow"]
      /\ found' = [found EXCEPT ![k] = row.id]
      /\ UNCHANGED <<devices, valves, tx, deviceOf, done>>
      /\ Free(row) /\ Accepted(k, row)
  BY DEF BeginRow, MoveTo, tables
<1>2. /\ step'[k] = "checkRow" /\ found'[k] = row.id
      /\ \A i \in Import \ {k} : /\ step'[i] = step[i] /\ found'[i] = found[i]
                                  /\ done'[i] = done[i] /\ deviceOf'[i] = deviceOf[i]
  BY <1>1 DEF ImportTypeOK
<1>3. row.id \in Nat \ {0}
  BY <1>1, RowType DEF Valve
<1>4. row' = row
  <2>1. found'[k] # NoValve
    BY <1>2, <1>3 DEF NoValve
  <2>2. row' = [id |-> found'[k], factory |-> Plant(k), device |-> deviceOf[k][Row(k).unit],
                tag |-> Row(k).tag, serialNumber |-> Row(k).serialNumber]
    BY <1>1, <2>1 DEF NewRow, Row, Plant
  <2>3. row = [id |-> row.id, factory |-> Plant(k), device |-> deviceOf[k][Row(k).unit],
               tag |-> Row(k).tag, serialNumber |-> Row(k).serialNumber]
    BY DEF NewRow
  <2> QED
    BY <1>2, <2>2, <2>3
<1>5. Fits(row)
  BY <1>1 DEF Free, Accepted, Fits
<1>6. Fits(row)'
  BY <1>1, <1>4, <1>5 DEF Fits, Blocked, Holds, Collides
<1>7. ASSUME NEW i \in Import \ {k}, step[i] = "checkRow"
      PROVE  Apart(NewRow(i), row)
  <2>1. NewRow(i) \in Entries
    BY <1>7 DEF Entries
  <2>2. ~Holds(NewRow(i), row)
    BY <1>1, <2>1 DEF Free
  <2> QED
    BY <2>2 DEF Holds, Collides, Apart
<1>8. ASSUME NEW i \in Import \ {k}, step'[i] = "checkRow"
      PROVE  /\ step[i] = "checkRow" /\ found'[i] # NoValve
             /\ Fits(NewRow(i))' /\ NewRow(i)' = NewRow(i)
             /\ \A j \in Import \ {i, k} : step'[j] = "checkRow" => Apart(NewRow(i), NewRow(j))'
  BY <1>1, <1>2, <1>8, OthersStand
<1>9. ASSUME NEW i \in Import \ {k}, step'[i] = "checkRow"
      PROVE  Apart(NewRow(i), row)' /\ Apart(row, NewRow(i))'
  <2>1. step[i] = "checkRow" /\ NewRow(i)' = NewRow(i)
    BY <1>8, <1>9
  <2>2. Apart(NewRow(i), row)
    BY <1>7, <2>1
  <2> QED
    BY <2>1, <2>2, <1>4 DEF Apart, Collides
<1>10. Stands(k)'
  BY <1>2, <1>3, <1>6, <1>9 DEF Stands, NoValve
<1>11. ASSUME NEW i \in Import \ {k}, step'[i] = "checkRow"
       PROVE  Stands(i)'
  BY <1>8, <1>9, <1>11 DEF Stands
<1> QED
  BY <1>10, <1>11 DEF EntriesInv

\* The other steps of imports.
LEMMA ImportsStand ==
  ASSUME ImportTypeOK, WritesUsableRow, EntriesInv, ImportNext
  PROVE  EntriesInv'
<1> PICK k \in Import :
      \/ StartImport(k) \/ AdvanceImport(k)
      \/ UNCHANGED orphaned /\ (BreakUnit(k) \/ BreakRow(k) \/ LoseImport(k))
  BY DEF ImportNext
<1> DEFINE Ends == /\ tx' = tx /\ devices \subseteq devices' /\ step'[k] # "checkRow"
                   /\ \A i \in Import \ {k} : /\ step'[i] = step[i] /\ found'[i] = found[i]
                                               /\ done'[i] = done[i] /\ deviceOf'[i] = deviceOf[i]
                   /\ \A i \in Import \ {k} : step[i] = "checkRow" =>
                        \A x \in valves' \ valves : Apart(NewRow(i), x)
<1>1. ASSUME Reads(k) PROVE Ends
  <2>1. /\ \E s \in ImportSteps \ {"writeRow", "checkRow"} : step' = [step EXCEPT ![k] = s]
        /\ \/ deviceOf' = deviceOf
           \/ \E u, n : deviceOf' = [deviceOf EXCEPT ![k][u] = n]
        /\ UNCHANGED <<tx, devices, valves, found, done>>
    BY <1>1 DEF Reads, storeVars
  <2> QED
    BY <2>1 DEF ImportTypeOK
<1>2. ASSUME Skips(k) PROVE Ends
  <2>1. /\ step' = [step EXCEPT ![k] = "findRow"]
        /\ done' = [done EXCEPT ![k] = Append(@, "skipped")]
        /\ UNCHANGED <<tx, devices, valves, found, deviceOf>>
    BY <1>2 DEF Skips, Finish, MoveTo, storeVars
  <2> QED
    BY <2>1 DEF ImportTypeOK
<1>3. ASSUME CreateUnit(k) PROVE Ends
  <2>1. /\ \E s \in {"findRow", "findUnit"} : step' = [step EXCEPT ![k] = s]
        /\ \E u, n : deviceOf' = [deviceOf EXCEPT ![k][u] = n]
        /\ devices \subseteq devices' /\ UNCHANGED <<tx, valves, found, done>>
    BY <1>3 DEF CreateUnit, MapUnit, MoveTo
  <2> QED
    BY <2>1 DEF ImportTypeOK
<1>4. ASSUME FindRow(k) PROVE Ends
  <2>1. /\ step' = [step EXCEPT ![k] = "writeRow"]
        /\ \E n : found' = [found EXCEPT ![k] = n]
        /\ UNCHANGED <<tx, devices, valves, done, deviceOf>>
    BY <1>4 DEF FindRow, MoveTo, storeVars
  <2> QED
    BY <2>1 DEF ImportTypeOK
<1>5. ASSUME WriteRow(k) \/ EndRow(k) PROVE Ends
  <2>1. /\ step' = [step EXCEPT ![k] = "findRow"]
        /\ \E o : done' = [done EXCEPT ![k] = Append(@, o)]
        /\ valves' = Overlay(valves, {NewRow(k)})
        /\ UNCHANGED <<tx, devices, found, deviceOf>>
    BY <1>5 DEF WriteRow, EndRow, Finish, MoveTo
  <2>2. ASSUME NEW i \in Import \ {k}, step[i] = "checkRow"
        PROVE  Apart(NewRow(i), NewRow(k))
    <3>1. CASE WriteRow(k)
      <4>1. ~Holds(NewRow(i), NewRow(k))
        BY <2>2, <3>1 DEF WriteRow, Free, Entries
      <4> QED
        BY <4>1 DEF Holds, Collides, Apart
    <3>2. CASE EndRow(k)
      BY <2>2, <3>2 DEF EndRow, EntriesInv, Stands
    <3> QED
      BY <1>5, <3>1, <3>2
  <2>3. \A x \in valves' \ valves : x = NewRow(k)
    BY <2>1 DEF Overlay
  <2> QED
    BY <2>1, <2>2, <2>3 DEF ImportTypeOK
<1>6. CASE Ends
  <2>1. ASSUME NEW i \in Import, step'[i] = "checkRow"
        PROVE  Stands(i)'
    <3>1. i # k
      BY <2>1, <1>6
    <3>2. /\ found'[i] # NoValve /\ Fits(NewRow(i))'
          /\ \A j \in Import \ {i, k} : step'[j] = "checkRow" => Apart(NewRow(i), NewRow(j))'
      BY <2>1, <3>1, <1>6, OthersStand
    <3> QED
      BY <3>2, <1>6 DEF Stands
  <2> QED
    BY <2>1 DEF EntriesInv
<1>7. CASE BeginRow(k)
  BY <1>7, BeginsToStand
<1> QED
  BY <1>1, <1>2, <1>3, <1>4, <1>5, <1>6, <1>7, ImportCases

LEMMA EntriesKept ==
  ASSUME SyncTypes, EntriesInv, [SyncNext]_syncVars
  PROVE  EntriesInv'
<1>1. CASE PushNext /\ AwaitEntries /\ WatchPlants
  BY <1>1, AwaitedStand DEF WatchPlants
<1>2. CASE ImportNext
  BY <1>2, ImportsStand DEF SyncTypes
<1>3. CASE AssetEdit /\ AwaitEntries /\ UNCHANGED importVars
  BY <1>3, AwaitedStand DEF importVars
<1>4. CASE UNCHANGED syncVars
  <2>1. UNCHANGED <<devices, valves, tx, step, deviceOf, found, done>> /\ UNCHANGED seq
    BY <1>4 DEF syncVars, storeVars, importVars
  <2> QED
    BY <2>1 DEF EntriesInv, Stands, Fits, Apart, Blocked, Holds, Collides, NewRow, Row
<1> QED
  BY <1>1, <1>2, <1>3, <1>4 DEF SyncNext

---------------------------------------------------------------------------
(* Each step is of one of the kinds. *)

Effect ==
  \/ Drops
  \/ \E p \in Push : Publishes(p) \/ CreatesHidden(p) \/ \E row : Writes(p, row)
  \/ \E d : Creates(d)
  \/ \E d, row : Changes(d, row)
  \/ \E row : Stores(row)

LEMMA EffectMounts ==
  ASSUME StoreTypeOK, StoreTypeOK', HomeInv, Effect
  PROVE  Mounts
<1>1. CASE Drops
  BY <1>1, DropsMounts
<1>2. ASSUME NEW p \in Push, Publishes(p) \/ CreatesHidden(p) \/ \E row : Writes(p, row)
      PROVE  Mounts
  BY <1>2, PublishesMounts, CreatesHiddenMounts, WritesMounts
<1>3. ASSUME NEW d, Creates(d) PROVE Mounts
  BY <1>3, CreatesMounts
<1>4. ASSUME NEW d, NEW row, Changes(d, row) PROVE Mounts
  BY <1>4, ChangesMounts
<1>5. ASSUME NEW row, Stores(row) PROVE Mounts
  BY <1>5, StoresMounts
<1> QED
  BY <1>1, <1>2, <1>3, <1>4, <1>5 DEF Effect

\* A step that touches neither devices nor valves keeps the index.
LEMMA SameRowsIndex ==
  ASSUME IndexInv, UNCHANGED valves, \A p \in Push : tx'[p].valves = tx[p].valves
  PROVE  IndexInv'
<1>1. \A p \in Push : ViewValves(p)' = ViewValves(p)
  BY DEF ViewValves
<1> QED
  BY <1>1 DEF IndexInv, SerialUnique, OwnValves, ViewsIndexed, NoClash, Collides, FactoryOf

LEMMA EffectIndex ==
  ASSUME SyncTypes, IndexInv, Effect
  PROVE  IndexInv'
<1>1. CASE Drops
  BY <1>1, DropsIndex
<1>2. ASSUME NEW p \in Push, Publishes(p) PROVE IndexInv'
  BY <1>2, PublishesIndex DEF SyncTypes
<1>3. ASSUME NEW p \in Push, CreatesHidden(p) PROVE IndexInv'
  BY <1>3, SameRowsIndex DEF CreatesHidden, Holdings
<1>4. ASSUME NEW p \in Push, NEW row, Writes(p, row) PROVE IndexInv'
  BY <1>4, WritesIndex
<1>5. ASSUME NEW d, Creates(d) PROVE IndexInv'
  BY <1>5, SameRowsIndex DEF Creates
<1>6. ASSUME NEW d, NEW row, Changes(d, row) PROVE IndexInv'
  BY <1>6, SameRowsIndex DEF Changes
<1>7. ASSUME NEW row, Stores(row) PROVE IndexInv'
  BY <1>7, StoresIndex
<1> QED
  BY <1>1, <1>2, <1>3, <1>4, <1>5, <1>6, <1>7 DEF Effect

\* Reads and locks, and transactions that end without a trace.
LEMMA QuietDrops ==
  ASSUME UNCHANGED <<devices, valves, moved, misplaced>>, seq'.device = seq.device,
         \A p \in Push : Holdings(p)' = Holdings(p) \/ Holdings(p)' = <<{}, {}, {}>>
  PROVE  Drops
  BY DEF Drops

LEMMA RollBackDrops ==
  ASSUME NEW p \in Push, StoreTypeOK, RollBack(p), UNCHANGED <<moved, misplaced>>
  PROVE  Drops
<1>1. tx' = [tx EXCEPT ![p] = NoTx] /\ UNCHANGED <<devices, valves, seq>>
  BY DEF RollBack, tables
<1>2. tx'[p] = NoTx /\ \A q \in Push \ {p} : tx'[q] = tx[q]
  BY <1>1 DEF StoreTypeOK
<1>3. Holdings(p)' = <<{}, {}, {}>> /\ \A q \in Push \ {p} : Holdings(q)' = Holdings(q)
  BY <1>2 DEF Holdings, NoTx
<1> QED
  BY <1>1, <1>3, QuietDrops

LEMMA PublishPublishes ==
  ASSUME NEW p \in Push, StoreTypeOK, LocksHeld, Publish(p), UNCHANGED <<moved, misplaced>>
  PROVE  Publishes(p)
<1>1. /\ tx' = [tx EXCEPT ![p] = NoTx] /\ seq' = seq
      /\ devices' = ViewDevices(p) /\ valves' = ViewValves(p)
  BY DEF Publish
<1>2. tx'[p] = NoTx /\ \A q \in Push \ {p} : tx'[q] = tx[q]
  BY <1>1 DEF StoreTypeOK
<1>3. Holdings(p)' = <<{}, {}, {}>> /\ \A q \in Push \ {p} : Holdings(q)' = Holdings(q)
  BY <1>2 DEF Holdings, NoTx
<1>4. tx[p].valves # {} => tx[p].factory = FactoryOf(p)
  BY DEF LocksHeld, NoTx
<1> QED
  BY <1>1, <1>3, <1>4 DEF Publishes

\* The steps that start or stop a push, or lie outside of its loop.
OutsideLoop(p) ==
  \/ Receive(p) \/ UpsertFactory(p) \/ UpsertWorkOrder(p) \/ RefuseDevice(p) \/ RefuseValve(p)
  \/ Commit(p) \/ RecordSuccess(p) \/ RecordFailure(p) \/ Abort(p) \/ LoseCommitAck(p)

LEMMA OutsideEffect ==
  ASSUME SyncTypes, NEW p \in Push, OutsideLoop(p), UNCHANGED <<moved, misplaced>>
  PROVE  Effect
<1>0. tx \in [Push -> Tx] /\ tx[p] \in Tx
  BY DEF SyncTypes, PushTypeOK, StoreTypeOK
<1>1. CASE Receive(p) \/ RecordSuccess(p) \/ RecordFailure(p)
  <2>1. UNCHANGED storeVars
    BY <1>1 DEF Receive, RecordSuccess, RecordFailure, Record
  <2>2. Drops
    BY <2>1, QuietDrops DEF storeVars, Holdings
  <2> QED
    BY <2>2 DEF Effect
<1>2. CASE UpsertFactory(p)
  <2>1. tx' = [tx EXCEPT ![p] = [tx[p] EXCEPT !.factory = FactoryOf(p)]]
    BY <1>2 DEF UpsertFactory
  <2>2. \A q \in Push : Holdings(q)' = Holdings(q)
    BY <1>0, <2>1 DEF Tx, Holdings
  <2>3. UNCHANGED <<devices, valves, seq>>
    BY <1>2 DEF UpsertFactory, tables
  <2> QED
    BY <2>2, <2>3, QuietDrops DEF Effect
<1>3. CASE UpsertWorkOrder(p)
  <2>1. tx' = [tx EXCEPT ![p] = [tx[p] EXCEPT !.serial = Payload[p].serial,
                                              !.workOrder = OrderRow(p)]]
    BY <1>3 DEF UpsertWorkOrder
  <2>2. \A q \in Push : Holdings(q)' = Holdings(q)
    BY <1>0, <2>1 DEF Tx, Holdings
  <2>3. UNCHANGED <<devices, valves, seq>>
    BY <1>3 DEF UpsertWorkOrder, tables
  <2> QED
    BY <2>2, <2>3, QuietDrops DEF Effect
<1>4. CASE RefuseDevice(p) \/ RefuseValve(p) \/ Abort(p)
  BY <1>4, RollBackDrops DEF RefuseDevice, RefuseValve, Abort, SyncTypes, PushTypeOK, Effect
<1>5. CASE Commit(p) \/ LoseCommitAck(p)
  BY <1>5, PublishPublishes DEF Commit, LoseCommitAck, SyncTypes, PushTypeOK, Effect
<1> QED
  BY <1>1, <1>2, <1>3, <1>4, <1>5 DEF OutsideLoop

LEMMA OutsideFound ==
  ASSUME SyncTypes, NEW p \in Push, OutsideLoop(p)
  PROVE  FoundStep
<1>1. pc \in [Push -> Steps] /\ cursor \in [Push -> [index : Nat, device : Nat, valve : Nat]]
  BY DEF SyncTypes, PushTypeOK
<1>2. PICK s \in Steps \ {"findValve", "writeValve"} : pc' = [pc EXCEPT ![p] = s]
  <2>1. CASE Receive(p) \/ UpsertFactory(p) \/ Commit(p) \/ RecordSuccess(p) \/ RecordFailure(p)
    BY <2>1 DEF Receive, UpsertFactory, Commit, RecordSuccess, RecordFailure, Record, Goto, Steps, TxSteps
  <2>2. CASE UpsertWorkOrder(p)
    BY <2>2 DEF UpsertWorkOrder, Loop, Goto, Steps, TxSteps
  <2>3. CASE RefuseDevice(p) \/ RefuseValve(p) \/ Abort(p) \/ LoseCommitAck(p)
    BY <2>3 DEF RefuseDevice, RefuseValve, Abort, LoseCommitAck, RollBack, Goto, Steps
  <2> QED
    BY <2>1, <2>2, <2>3 DEF OutsideLoop
<1>3. \A q \in Push \ {p} : cursor'[q] = cursor[q]
  <2>1. CASE UpsertWorkOrder(p)
    <3>1. cursor' = [cursor EXCEPT ![p] = [NoCursor EXCEPT !.index = 1]]
      BY <2>1 DEF UpsertWorkOrder, Loop
    <3> QED
      BY <3>1, <1>1
  <2>2. CASE ~UpsertWorkOrder(p)
    <3>1. cursor' = cursor
      BY <2>2 DEF OutsideLoop, Receive, UpsertFactory, RefuseDevice, RefuseValve, Commit, RecordSuccess,
            RecordFailure, Record, Abort, LoseCommitAck, RollBack, Publish
    <3> QED
      BY <3>1
  <2> QED
    BY <2>1, <2>2
<1> QED
  BY <1>1, <1>2, <1>3 DEF FoundStep


\* The device a push finds is one of its factory, in what it sees.
LEMMA FindDeviceStep ==
  ASSUME SyncTypes, HomeInv, NEW p \in Push, FindDevice(p), UNCHANGED <<moved, misplaced>>
  PROVE  Effect /\ FoundStep
<1>0. /\ pc \in [Push -> Steps] /\ cursor \in [Push -> [index : Nat, device : Nat, valve : Nat]]
      /\ StoreTypeOK
  BY DEF SyncTypes, PushTypeOK
<1>1. Effect
  <2>1. UNCHANGED storeVars
    BY DEF FindDevice
  <2> QED
    BY <2>1, QuietDrops DEF storeVars, Holdings, Effect
<1>2. ASSUME NEW d \in NamedDevices(p), cursor' = [cursor EXCEPT ![p].device = d.id], Goto(p, "findValve")
      PROVE  FoundStep
  <2>1. d \in AllDevices /\ d.factory = FactoryOf(p)
    BY <1>2, AllRows DEF NamedDevices, ViewDevices
  <2>2. cursor'[p].device = d.id
    BY <1>0, <1>2
  <2>3. AtHome(cursor'[p].device, FactoryOf(p))
    <3>1. AtHome(d.id, d.factory)
      BY <1>0, <2>1, DeviceAtHome DEF HomeInv
    <3> QED
      BY <2>1, <2>2, <3>1
  <2>4. \A q \in Push \ {p} : pc'[q] = pc[q] /\ cursor'[q] = cursor[q]
    BY <1>0, <1>2 DEF Goto
  <2> QED
    BY <2>3, <2>4 DEF FoundStep
<1>3. ASSUME cursor' = cursor, Goto(p, "createDevice")
      PROVE  FoundStep
  BY <1>0, <1>3 DEF Goto, FoundStep
<1> QED
  BY <1>1, <1>2, <1>3 DEF FindDevice

\* The one it creates has a new id.
LEMMA CreateDeviceStep ==
  ASSUME SyncTypes, SyncTypes', HomeInv, NEW p \in Push, CreateDevice(p), UNCHANGED <<moved, misplaced>>
  PROVE  Effect /\ FoundStep
<1> DEFINE row == [id |-> seq.device, factory |-> FactoryOf(p), name |-> Entry(p).unit]
<1>0. /\ pc \in [Push -> Steps] /\ cursor \in [Push -> [index : Nat, device : Nat, valve : Nat]]
      /\ StoreTypeOK /\ StoreTypeOK' /\ tx \in [Push -> Tx] /\ seq.device \in Nat \ {0}
      /\ seq \in [device : Nat \ {0}, valve : Nat \ {0}]
  BY DEF SyncTypes, PushTypeOK, StoreTypeOK
<1>1. /\ tx' = [tx EXCEPT ![p].devices = tx[p].devices \cup {row}]
      /\ cursor' = [cursor EXCEPT ![p].device = seq.device]
      /\ seq' = [seq EXCEPT !.device = seq.device + 1]
      /\ Goto(p, "findValve") /\ UNCHANGED tables
  BY DEF CreateDevice
<1>2. /\ tx'[p].devices = tx[p].devices \cup {row}
      /\ tx'[p].valves = tx[p].valves /\ tx'[p].keyShare = tx[p].keyShare
      /\ \A q \in Push \ {p} : tx'[q] = tx[q]
  BY <1>0, <1>1 DEF Tx
<1>3. row \in Device
  <2>1. pc[p] \in LoopSteps /\ Entry(p).unit # Absent
    BY DEF CreateDevice, LoopSteps
  <2> QED
    BY <1>0, <2>1, EntryType, RequestTypes DEF SyncTypes, Device
<1>4. CreatesHidden(p)
  <2>1. seq'.device = seq.device + 1
    BY <1>0, <1>1
  <2>2. /\ \E d \in Device : /\ d.id = seq.device /\ d.factory = FactoryOf(p)
                             /\ Holdings(p)' = <<tx[p].devices \cup {d}, tx[p].valves, tx[p].keyShare>>
        /\ \A q \in Push \ {p} : Holdings(q)' = Holdings(q)
    BY <1>2, <1>3 DEF Holdings
  <2> QED
    BY <1>1, <2>1, <2>2 DEF CreatesHidden, tables
<1>5. HomesStep
  BY <1>0, <1>4, CreatesHiddenMounts DEF Mounts
<1>6. AtHome(cursor[p].device, FactoryOf(p))'
  <2>1. PICK x \in Nat : x = seq.device
    BY <1>0
  <2>2. PICK d \in AllDevices' : d.id = x /\ d.factory = FactoryOf(p)
    <3>1. row \in AllDevices'
      <4> HIDE DEF row
      <4> QED
        BY <1>2, AllRowsNext
    <3> QED
      BY <2>1, <3>1
  <2>3. AtHome(x, d.factory)'
    BY <1>0, <1>1, <1>5, <2>1, <2>2, NewAtHome
  <2>4. cursor'[p].device = x
    BY <1>0, <1>1, <2>1
  <2> QED
    BY <2>2, <2>3, <2>4 DEF AtHome, FactoryOf
<1>7. \A q \in Push \ {p} : pc'[q] = pc[q] /\ cursor'[q] = cursor[q]
  BY <1>0, <1>1 DEF Goto
<1>8. FoundStep
  BY <1>6, <1>7 DEF FoundStep, FactoryOf
<1> QED
  BY <1>4, <1>8 DEF Effect

LEMMA FindValveStep ==
  ASSUME SyncTypes, NEW p \in Push, FindValve(p), UNCHANGED <<moved, misplaced>>
  PROVE  Effect /\ FoundStep
<1>0. pc \in [Push -> Steps] /\ cursor \in [Push -> [index : Nat, device : Nat, valve : Nat]]
  BY DEF SyncTypes, PushTypeOK
<1>1. UNCHANGED storeVars /\ pc[p] = "findValve" /\ pc' = [pc EXCEPT ![p] = "writeValve"]
  BY DEF FindValve, Goto
<1>2. PICK id : cursor' = [cursor EXCEPT ![p].valve = id]
  BY DEF FindValve
<1>3. \A q \in Push : cursor'[q].device = cursor[q].device /\ (q # p => pc'[q] = pc[q])
  BY <1>0, <1>1, <1>2
<1>4. FoundStep
  BY <1>1, <1>3 DEF FoundStep
<1>5. Drops
  BY <1>1, QuietDrops DEF storeVars, Holdings
<1> QED
  BY <1>4, <1>5 DEF Effect

\* It writes its valves with the device it has found.
LEMMA WriteValveStep ==
  ASSUME SyncTypes, HomeInv, NEW p \in Push, WriteValve(p), UNCHANGED <<moved, misplaced>>
  PROVE  Effect /\ FoundStep
<1>0. /\ pc \in [Push -> Steps] /\ cursor \in [Push -> [index : Nat, device : Nat, valve : Nat]]
      /\ tx \in [Push -> Tx] /\ seq \in [device : Nat \ {0}, valve : Nat \ {0}]
  BY DEF SyncTypes, PushTypeOK, StoreTypeOK
<1>1. PICK row \in NewRows(p) :
        /\ Writable(p, row)
        /\ tx' = [tx EXCEPT ![p].valves = Overlay(tx[p].valves, {row}),
                            ![p].links = tx[p].links \cup {<<row.id, Payload[p].serial>>},
                            ![p].keyShare = tx[p].keyShare \cup {row.device}]
        /\ seq' = [seq EXCEPT !.valve = IF Updates(p) THEN seq.valve ELSE seq.valve + 1]
  BY DEF WriteValve
<1>2. row.factory = FactoryOf(p) /\ row.device = cursor[p].device
  BY <1>1 DEF NewRows
<1>3. AtHome(row.device, row.factory)
  BY <1>2 DEF WriteValve, HomeInv, FoundAtHome
<1>4. /\ tx'[p].devices = tx[p].devices /\ tx'[p].valves = Overlay(tx[p].valves, {row})
      /\ tx'[p].keyShare = tx[p].keyShare \cup {row.device}
      /\ \A q \in Push \ {p} : tx'[q] = tx[q]
  BY <1>0, <1>1 DEF Tx
<1>5. seq'.device = seq.device
  BY <1>0, <1>1
<1>6. Writes(p, row)
  BY <1>1, <1>2, <1>3, <1>4, <1>5 DEF Writes, Holdings, WriteValve, tables
<1>7. FoundStep
  <2>1. /\ pc' = [pc EXCEPT ![p] = IF cursor[p].index + 1 <= Len(Payload[p].valves)
                                   THEN "findDevice" ELSE "commit"]
        /\ \E c : cursor' = [cursor EXCEPT ![p] = c]
    BY DEF WriteValve, Loop, Goto
  <2> QED
    BY <1>0, <2>1 DEF FoundStep
<1> QED
  BY <1>6, <1>7 DEF Effect

LEMMA CrashStep ==
  ASSUME SyncTypes, NEW h \in Host, Crash(h), UNCHANGED <<moved, misplaced>>
  PROVE  Effect /\ FoundStep
<1>1. \A q \in Push : \/ tx'[q] = NoTx /\ pc'[q] = "lost"
                      \/ tx'[q] = tx[q] /\ pc'[q] = pc[q]
  BY DEF Crash
<1>2. UNCHANGED <<devices, valves, seq, cursor>>
  BY DEF Crash, tables
<1>3. FoundStep
  BY <1>1, <1>2 DEF FoundStep
<1>4. \A q \in Push : Holdings(q)' = Holdings(q) \/ Holdings(q)' = <<{}, {}, {}>>
  BY <1>1 DEF Holdings, NoTx
<1> QED
  BY <1>2, <1>3, <1>4, QuietDrops DEF Effect

\* Deletes wait for key-share locks, and take the valves along.
LEMMA RemoveStep ==
  ASSUME SyncTypes, AdminRemove, UNCHANGED <<pushVars, moved, misplaced>>
  PROVE  Effect /\ FoundStep
<1>1. tx' = tx /\ seq' = seq
  BY DEF AdminRemove, RemoveValves, RemoveDevices, RemoveFactories
<1>2. /\ devices' \subseteq devices /\ valves' \subseteq valves
      /\ \A d \in devices : (\E v \in valves' : v.device = d.id) => d \in devices'
      /\ \A d \in devices : (\E p \in Push : d.id \in tx[p].keyShare) => d \in devices'
  <2>1. ASSUME NEW gone, RemoveValves(gone) PROVE devices' = devices /\ valves' \subseteq valves
    BY <2>1 DEF RemoveValves, DeleteValves
  <2>2. ASSUME NEW gone, RemoveDevices(gone)
        PROVE  /\ devices' = devices \ gone
               /\ valves' = valves \ {v \in valves : \E d \in gone : v.device = d.id}
               /\ \A d \in gone, p \in Push : d.id \notin tx[p].keyShare
    BY <2>2 DEF RemoveDevices, DeleteValves, DeviceKeyShared
  <2>3. ASSUME NEW gone \in SUBSET Factory, RemoveFactories(gone)
        PROVE  /\ devices' = devices \ {d \in devices : d.factory \in gone}
               /\ valves' \subseteq valves
               /\ \A d \in devices : d.factory \in gone =>
                    /\ \A v \in valves' : v.device # d.id
                    /\ \A p \in Push : d.id \notin tx[p].keyShare
    BY <2>3 DEF RemoveFactories, DeviceKeyShared
  <2> QED
    BY <2>1, <2>2, <2>3 DEF AdminRemove
<1>3. Drops
  BY <1>1, <1>2 DEF Drops, Holdings
<1>4. FoundStep
  BY DEF FoundStep, pushVars
<1> QED
  BY <1>3, <1>4 DEF Effect


\* So every step of a push or delete is of one of the kinds.
LEMMA PushStep ==
  ASSUME SyncTypes, SyncTypes', HomeInv, PushNext, UNCHANGED <<moved, misplaced>>
  PROVE  Effect /\ FoundStep
<1>1. ASSUME NEW p \in Push, OutsideLoop(p) PROVE Effect /\ FoundStep
  BY <1>1, OutsideEffect, OutsideFound
<1>2. ASSUME NEW p \in Push, FindDevice(p) \/ CreateDevice(p) \/ FindValve(p) \/ WriteValve(p)
      PROVE  Effect /\ FoundStep
  BY <1>2, FindDeviceStep, CreateDeviceStep, FindValveStep, WriteValveStep
<1>3. ASSUME NEW h \in Host, Crash(h) PROVE Effect /\ FoundStep
  BY <1>3, CrashStep
<1>4. CASE AdminRemove /\ UNCHANGED pushVars
  BY <1>4, RemoveStep
<1> QED
  BY <1>1, <1>2, <1>3, <1>4 DEF PushNext, Advance, Fault, OutsideLoop

\* The steps of an import: what it maps is at home, and so is what it writes.
LEMMA ImportStep ==
  ASSUME SyncTypes, SyncTypes', HomeInv, EntriesInv, ImportNext, UNCHANGED <<moved, misplaced>>
  PROVE  Effect /\ MappedStep
<1>0. /\ StoreTypeOK /\ StoreTypeOK' /\ deviceOf \in [Import -> [Unit -> Nat]]
      /\ seq.device \in Nat \ {0} /\ ImportTypeOK /\ WritesUsableRow
      /\ seq \in [device : Nat \ {0}, valve : Nat \ {0}]
  BY DEF SyncTypes, ImportTypeOK, StoreTypeOK
<1> PICK i \in Import :
      \/ StartImport(i) \/ AdvanceImport(i)
      \/ UNCHANGED orphaned /\ (BreakUnit(i) \/ BreakRow(i) \/ LoseImport(i))
  BY DEF ImportNext
<1>1. ASSUME UNCHANGED storeVars PROVE Effect
  BY <1>1, QuietDrops DEF storeVars, Holdings, Effect
<1>2. CASE Reads(i)
  <2>1. UNCHANGED storeVars
    BY <1>2 DEF Reads
  <2>2. ASSUME NEW u \in NextUnit(i), NEW d \in PlantDevices(i, u),
               deviceOf' = [deviceOf EXCEPT ![i][u] = d.id]
        PROVE  MappedStep
    <3>1. d \in AllDevices /\ d.factory = Plant(i)
      BY AllRows DEF PlantDevices
    <3>2. AtHome(d.id, d.factory)
      BY <1>0, <3>1, DeviceAtHome DEF HomeInv
    <3>3. \A j \in Import, w \in Unit :
            deviceOf'[j][w] = deviceOf[j][w] \/ (j = i /\ deviceOf'[j][w] = d.id)
      BY <1>0, <2>2
    <3> QED
      BY <3>1, <3>2, <3>3 DEF MappedStep
  <2>3. MappedStep
    BY <1>2, <2>2 DEF Reads, MappedStep
  <2> QED
    BY <1>1, <2>1, <2>3
<1>3. CASE Skips(i) \/ FindRow(i)
  BY <1>1, <1>3 DEF Skips, FindRow, MappedStep
<1>4. CASE CreateUnit(i) /\ UNCHANGED orphaned
  <2> DEFINE row(u) == [id |-> seq.device, factory |-> Plant(i), name |-> u]
  <2>1. PICK u \in NextUnit(i) :
          /\ devices' = devices \cup {row(u)}
          /\ deviceOf' = [deviceOf EXCEPT ![i][u] = seq.device]
    BY <1>4 DEF CreateUnit, MapUnit
  <2>2. seq'.device = seq.device + 1 /\ UNCHANGED <<valves, tx>>
    BY <1>0, <1>4 DEF CreateUnit
  <2>3. Creates(row(u))
    BY <2>1, <2>2 DEF Creates
  <2>4. HomesStep
    BY <1>0, <2>3, CreatesMounts DEF Mounts
  <2>5. PICK x \in Nat : x = seq.device
    BY <1>0
  <2>6. PICK d \in AllDevices' : d.id = x /\ d.factory = Plant(i)
    <3>1. row(u) \in AllDevices'
      BY <2>1 DEF AllDevices
    <3> QED
      BY <2>5, <3>1
  <2>7. AtHome(x, d.factory)'
    BY <1>0, <2>2, <2>4, <2>5, <2>6, NewAtHome
  <2>8. \A j \in Import, w \in Unit :
          deviceOf'[j][w] = deviceOf[j][w] \/ (j = i /\ deviceOf'[j][w] = x)
    BY <1>0, <2>1, <2>5
  <2>9. MappedStep
    BY <2>6, <2>7, <2>8 DEF MappedStep, AtHome, Plant
  <2> QED
    BY <2>3, <2>9 DEF Effect
<1>5. CASE WriteRow(i) /\ UNCHANGED orphaned
  <2> DEFINE row == NewRow(i)
  <2>1. /\ ~Blocked(row) /\ Accepted(i, row) /\ valves' = Overlay(valves, {row})
        /\ step[i] = "writeRow" /\ UNCHANGED <<devices, tx, deviceOf>>
    BY <1>5 DEF WriteRow, Free
  <2>2. row.device = deviceOf[i][Row(i).unit] /\ row.factory = Plant(i)
    BY DEF NewRow
  <2>3. Row(i).unit \in Unit
    BY <1>0, <2>1, RowType
  <2>4. AtHome(row.device, row.factory)
    BY <2>2, <2>3 DEF HomeInv, MappedAtHome
  <2>5. seq'.device = seq.device
    BY <1>0, <1>5, WriteRowTypes
  <2>6. Stores(row)
    BY <2>1, <2>4, <2>5 DEF Stores, Accepted
  <2>7. MappedStep
    BY <2>1 DEF MappedStep
  <2> QED
    BY <2>6, <2>7 DEF Effect
<1>6. CASE BeginRow(i) /\ UNCHANGED orphaned
  <2>1. UNCHANGED <<devices, valves, tx, deviceOf>> /\ seq'.device = seq.device
    BY <1>0, <1>6, BeginRowTypes DEF BeginRow, tables
  <2>2. Drops
    BY <2>1, QuietDrops DEF Holdings
  <2> QED
    BY <2>1, <2>2 DEF Effect, MappedStep
<1>7. CASE EndRow(i) /\ UNCHANGED orphaned
  <2> DEFINE row == NewRow(i)
  <2>1. /\ step[i] = "checkRow" /\ valves' = Overlay(valves, {row})
        /\ UNCHANGED <<devices, seq, tx, deviceOf>>
    BY <1>7 DEF EndRow
  <2>2. row.device = deviceOf[i][Row(i).unit] /\ row.factory = Plant(i) /\ Row(i).unit \in Unit
    BY <1>0, <2>1, RowType DEF NewRow
  <2>3. AtHome(row.device, row.factory)
    BY <2>2 DEF HomeInv, MappedAtHome
  <2>4. Stores(row)
    BY <2>1, <2>3 DEF Stores, EntriesInv, Stands, Fits
  <2>5. MappedStep
    BY <2>1 DEF MappedStep
  <2> QED
    BY <2>4, <2>5 DEF Effect
<1> QED
  BY <1>0, <1>2, <1>3, <1>4, <1>5, <1>6, <1>7, ImportCases

\* Those of administrators: what they move or mount elsewhere is known.
LEMMA EditStep ==
  ASSUME SyncTypes, HomeInv, AssetEdit
  PROVE  Effect
<1>0. /\ StoreTypeOK /\ seq \in [device : Nat \ {0}, valve : Nat \ {0}]
  BY DEF SyncTypes, PushTypeOK, StoreTypeOK
<1>1. CASE UNCHANGED <<devices, valves, workOrders, links, seq, tx, placed, moved, misplaced>>
  BY <1>1, QuietDrops DEF Holdings, Effect
<1>2. ASSUME NEW form \in DeviceForms, CreateAdminDevice(form) PROVE Effect
  <2> DEFINE row == [id |-> seq.device, factory |-> form.factory, name |-> form.name]
  <2>1. devices' = devices \cup {row} /\ UNCHANGED <<valves, tx, moved, misplaced>>
    BY <1>2 DEF CreateAdminDevice
  <2>2. seq'.device = seq.device + 1
    BY <1>0, <1>2 DEF CreateAdminDevice
  <2>3. Creates(row)
    BY <2>1, <2>2 DEF Creates
  <2> QED
    BY <2>3 DEF Effect
<1>3. ASSUME NEW form \in DeviceForms, NEW d \in devices, UpdateDevice(d, form) PROVE Effect
  <2>1. Edited(d, form).id = d.id
    BY <1>0, EditedDevice DEF StoreTypeOK
  <2>2. Changes(d, Edited(d, form))
    BY <1>3, <2>1 DEF UpdateDevice, Changes
  <2> QED
    BY <2>2 DEF Effect
<1>4. ASSUME NEW row \in Valve, StoreValve(row), seq' = seq \/ seq' = [seq EXCEPT !.valve = @ + 1]
      PROVE  Effect
  <2>1. seq'.device = seq.device
    BY <1>0, <1>4
  <2>2. /\ ~Blocked(row) /\ ~Collides(valves, row) /\ valves' = Overlay(valves, {row})
        /\ row.device = NoDevice \/ \E d \in devices : d.id = row.device
        /\ UNCHANGED <<devices, tx, moved>>
        /\ misplaced' = IF \E d \in devices : d.id = row.device /\ d.factory # row.factory
                        THEN misplaced \cup {row.id} ELSE misplaced
    BY <1>4 DEF StoreValve, Storable
  <2>3. AtHome(row.device, row.factory) \/ row.id \in misplaced'
    <3>1. CASE \E d \in devices : d.id = row.device /\ d.factory # row.factory
      BY <2>2, <3>1
    <3>2. CASE row.device # NoDevice /\ \A d \in devices : d.id = row.device => d.factory = row.factory
      <4>1. PICK d \in devices : d.id = row.device /\ d.factory = row.factory
        BY <2>2, <3>2
      <4>2. AtHome(d.id, d.factory)
        BY <1>0, DeviceAtHome, AllRows DEF HomeInv
      <4> QED
        BY <4>1, <4>2
    <3>3. CASE row.device = NoDevice
      BY <1>0, <3>3, RowTypes DEF RowsTyped, AtHome, NoDevice
    <3> QED
      BY <3>1, <3>2, <3>3
  <2>4. Stores(row)
    BY <2>1, <2>2, <2>3 DEF Stores
  <2> QED
    BY <2>4 DEF Effect
<1> QED
  BY <1>0, <1>1, <1>2, <1>3, <1>4, EditCases

\* So both invariants are inductive.
LEMMA SyncKept ==
  ASSUME SyncTypes, SyncTypes', HomeInv, EntriesInv, [SyncNext]_syncVars
  PROVE  HomeInv' /\ (IndexInv => IndexInv')
<1>0. StoreTypeOK /\ StoreTypeOK'
  BY DEF SyncTypes, PushTypeOK
<1>1. Effect /\ FoundStep /\ MappedStep
  <2>1. CASE PushNext /\ WatchPlants /\ UNCHANGED assetEditVars
    <3>1. Effect /\ FoundStep
      BY <2>1, PushStep DEF assetEditVars
    <3>2. MappedStep
      BY <2>1 DEF WatchPlants, MappedStep
    <3> QED
      BY <3>1, <3>2
  <2>2. CASE ImportNext /\ UNCHANGED <<pushVars, assetEditVars>>
    <3>1. Effect /\ MappedStep
      BY <2>2, ImportStep DEF assetEditVars
    <3>2. FoundStep
      BY <2>2 DEF pushVars, FoundStep
    <3> QED
      BY <3>1, <3>2
  <2>3. CASE AssetEdit /\ UNCHANGED <<pushVars, importVars>>
    BY <2>3, EditStep DEF pushVars, importVars, FoundStep, MappedStep
  <2>4. CASE UNCHANGED syncVars
    BY <2>4, QuietDrops
       DEF syncVars, storeVars, pushVars, importVars, assetEditVars, Holdings, Effect, FoundStep, MappedStep
  <2> QED
    BY <2>1, <2>2, <2>3, <2>4 DEF SyncNext
<1>2. Mounts
  BY <1>0, <1>1, EffectMounts
<1>3. HomeInv'
  BY <1>1, <1>2, HomeFrame DEF Mounts
<1>4. IndexInv => IndexInv'
  BY <1>1, EffectIndex
<1> QED
  BY <1>3, <1>4

---------------------------------------------------------------------------
(* The theorems. *)

SyncInv == SyncTypes /\ HomeInv /\ IndexInv /\ EntriesInv

\* In the stores that the writers start from, valves are mounted at home.
StoresMounted ==
  \A s \in InitialStores : \A v \in s.valves :
     v.device # NoDevice => \E d \in s.devices : d.id = v.device /\ d.factory = v.factory

LEMMA SyncInitially == StoresMounted /\ SyncInit => SyncInv
<1> SUFFICES ASSUME StoresMounted, SyncInit PROVE SyncInv
  OBVIOUS
<1>1. PushInit /\ StoreInit /\ ImportInit
  BY DEF SyncInit, PushInit, ImportInit
<1>2. SyncTypes
  BY <1>1, PushInitially, ImportInitially DEF PushInv, ImportInv, RowsInv, SyncTypes
<1>3. PICK s \in InitialStores : devices = s.devices /\ valves = s.valves /\ seq = s.seq
  BY <1>1 DEF StoreInit
<1>4. \A p \in Push : tx[p].devices = {} /\ tx[p].valves = {}
  BY <1>1 DEF StoreInit, NoTx
<1>5. AllDevices = devices /\ AllValves = valves
  BY <1>4 DEF AllDevices, AllValves
<1>6. RowsTyped
  BY <1>2, RowTypes DEF SyncTypes, PushTypeOK
<1>7. DeviceIds
  BY <1>3, <1>5, InitialStoresAssumption DEF DeviceIds
<1>8. \A f : AtHome(NoDevice, f)
  BY <1>6 DEF AtHome, RowsTyped, NoDevice
<1>9. ValvesHome /\ DevicesThere
  <2>1. ASSUME NEW v \in valves, v.device # NoDevice
        PROVE  AtHome(v.device, v.factory) /\ \E d \in devices : d.id = v.device
    <3>1. PICK d \in devices : d.id = v.device /\ d.factory = v.factory
      BY <2>1, <1>3 DEF StoresMounted
    <3>2. AtHome(v.device, d.factory)
      BY <3>1, <1>2, <1>5, <1>7, DeviceAtHome DEF SyncTypes, PushTypeOK
    <3> QED
      BY <3>1, <3>2
  <2> QED
    BY <2>1, <1>4, <1>5, <1>8 DEF ValvesHome, DevicesThere
<1>10. FoundAtHome
  BY <1>1 DEF PushInit, FoundAtHome
<1>11. MappedAtHome
  BY <1>1, <1>8 DEF ImportInit, ImportStart, MappedAtHome
<1>12. IndexInv
  <2>1. SerialUnique
    BY <1>3, InitialStoresAssumption DEF SerialUnique
  <2>2. OwnValves /\ \A p \in Push : ViewValves(p) = valves
    BY <1>4 DEF OwnValves, ViewValves, Overlay
  <2>3. ViewsIndexed
    BY <2>1, <2>2 DEF ViewsIndexed, NoClash, SerialUnique
  <2> QED
    BY <2>1, <2>2, <2>3 DEF IndexInv
<1>13. EntriesInv
  BY <1>1 DEF ImportInit, ImportStart, EntriesInv
<1> QED
  BY <1>2, <1>7, <1>9, <1>10, <1>11, <1>12, <1>13 DEF SyncInv, HomeInv

\* Pushes, imports and the administrators' statements keep the invariant, in
\* whatever order their statements run.
THEOREM SyncInvariant == StoresMounted /\ SyncSpec => []SyncInv
<1>1. SyncInv /\ [SyncNext]_syncVars => SyncInv'
  <2> SUFFICES ASSUME SyncInv, [SyncNext]_syncVars PROVE SyncInv'
    OBVIOUS
  <2>1. SyncTypes'
    BY SyncTypesKept DEF SyncInv
  <2> QED
    BY <2>1, SyncKept, EntriesKept DEF SyncInv
<1> QED
  BY <1>1, SyncInitially, PTL DEF SyncSpec

\* A valve is on a device of its own factory unless an administrator moved either:
\* neither ServiceAppService.serviceInfo nor FactoryService.import mounts a valve
\* on a device that was deleted, replaced or mapped for another plant meanwhile.
THEOREM MountsStayHome == StoresMounted /\ SyncSpec => []MountedUnlessMoved
<1>1. SyncInv => MountedUnlessMoved
  <2> SUFFICES ASSUME SyncInv, NEW v \in valves, v.device # NoDevice
               PROVE  \E d \in devices : /\ d.id = v.device
                                         /\ d.factory = v.factory \/ d.id \in moved \/ v.id \in misplaced
    BY DEF MountedUnlessMoved
  <2>1. PICK d \in devices : d.id = v.device
    BY DEF SyncInv, HomeInv, DevicesThere
  <2>2. v \in AllValves /\ d \in AllDevices
    BY DEF AllValves, AllDevices
  <2>3. AtHome(v.device, v.factory) \/ v.id \in misplaced
    BY <2>2 DEF SyncInv, HomeInv, ValvesHome
  <2> QED
    BY <2>1, <2>2, <2>3 DEF AtHome
<1> QED
  BY <1>1, SyncInvariant, PTL

\* What a transaction of ServiceAppService sees never violates the partial unique
\* index, whatever imports and administrators commit beside it.
THEOREM IndexHoldsInTransactions == StoresMounted /\ SyncSpec => []IndexSafeAcrossWriters
<1>1. SyncInv => IndexSafeAcrossWriters
  BY DEF SyncInv, IndexInv, ViewsIndexed, NoClash, IndexSafeAcrossWriters
<1> QED
  BY <1>1, SyncInvariant, PTL

\* And so the index holds for the committed valves of all writers together.
THEOREM SerialsUniqueAmongWriters == StoresMounted /\ SyncSpec => []SerialUnique
<1>1. SyncInv => SerialUnique
  BY DEF SyncInv, IndexInv
<1> QED
  BY <1>1, SyncInvariant, PTL

---------------------------------------------------------------------------
(* What the summaries of imports count *)

\* No push has been received, nothing edited: only imports and deletes run.
NoOthers == (\A p \in Push : pc[p] = "idle") /\ assetEdits = 0

\* Every id that has been given out is that of a valve.
AllThere == Cardinality(valves) = seq.valve - 1

\* Each id is given out for a row that is counted; while all ids are in use, the
\* rows that were reported are there.
Counted ==
  /\ Unlocked /\ ValveKeys /\ IsFiniteSet(valves) /\ IsFiniteSet(CreatedRows)
  /\ \E s \in InitialStores : Cardinality(CreatedRows) = seq.valve - s.seq.valve
  /\ AllThere => FoundStays /\ SerialUnique /\ RowsLanded

SummaryInv == assetEdits \in Nat /\ (NoOthers => Counted)

\* A push that has been received stays so: quiet steps are those of imports and
\* deletes.
LEMMA NoOthersSteps ==
  ASSUME SyncTypes, assetEdits \in Nat, [SyncNext]_syncVars, NoOthers'
  PROVE  /\ NoOthers
         /\ \/ ImportNext
            \/ AdminRemove /\ UNCHANGED <<step, deviceOf, found, done>>
            \/ UNCHANGED <<storeVars, step, deviceOf, found, done, orphaned>>
<1>0. pc \in [Push -> Steps] /\ \A p \in Push : pc'[p] = "idle"
  BY DEF SyncTypes, PushTypeOK, NoOthers
<1>1. ASSUME NEW p \in Push, Receive(p) \/ Advance(p) \/ Abort(p) \/ LoseCommitAck(p)
      PROVE  FALSE
  <2>1. \E s \in Steps \ {"idle"} : pc'[p] = s
    BY <1>0, <1>1 DEF Receive, Advance, UpsertFactory, UpsertWorkOrder, FindDevice, CreateDevice,
       RefuseDevice, FindValve, WriteValve, RefuseValve, Commit, RecordSuccess, RecordFailure, Record,
       RollBack, Abort, LoseCommitAck, Loop, Goto, Steps, TxSteps
  <2> QED
    BY <1>0, <2>1
<1>2. ASSUME NEW h \in Host, Crash(h)
      PROVE  FALSE
  <2>1. PICK p \in Push : HostOf[p] = h /\ Running(p)
    BY <1>2 DEF Crash
  <2>2. pc'[p] = "lost"
    BY <1>2, <2>1 DEF Crash
  <2> QED
    BY <1>0, <2>2
<1>3. ~AssetEdit
  BY DEF AssetEdit, NoOthers
<1> QED
  BY <1>0, <1>1, <1>2, <1>3 DEF SyncNext, PushNext, Fault, WatchPlants, NoOthers, syncVars, pushVars,
     importVars, assetEditVars

\* The rows that are counted, now and after a step.
LEMMA CreatedRowsAre ==
  /\ \A x : x \in CreatedRows <=>
       \E j \in Import : \E k \in DOMAIN done[j] : done[j][k] = "created" /\ x = <<j, k>>
  /\ \A x : x \in CreatedRows' <=>
       \E j \in Import : \E k \in DOMAIN done'[j] : done'[j][k] = "created" /\ x = <<j, k>>
  BY DEF CreatedRows

\* A row that is reported as created is one more.
LEMMA OneMoreCreated ==
  ASSUME NEW i \in Import, NEW outcome \in RowOutcome, ImportTypeOK, WritesUsableRow,
         Finish(i, outcome), Len(done[i]) < Len(Rows(i))
  PROVE  \/ outcome = "created" /\ \E x : x \notin CreatedRows /\ CreatedRows' = CreatedRows \cup {x}
         \/ outcome # "created" /\ CreatedRows' = CreatedRows
<1> DEFINE n == Len(done[i]) + 1
<1>1. /\ done[i] \in Seq(RowOutcome) /\ Len(done[i]) \in Nat
      /\ done'[i] = Append(done[i], outcome)
      /\ \A j \in Import \ {i} : done'[j] = done[j]
  <2>1. done[i] \in Seq(RowOutcome)
    BY DEF ImportTypeOK
  <2>2. done'[i] = Append(done[i], outcome) /\ \A j \in Import \ {i} : done'[j] = done[j]
    BY FinishTypes
  <2> QED
    BY <2>1, <2>2
<1>2. /\ DOMAIN done[i] = 1..Len(done[i]) /\ DOMAIN done'[i] = 1..n
      /\ done'[i][n] = outcome /\ \A k \in 1..Len(done[i]) : done'[i][k] = done[i][k]
  BY <1>1
<1>3. n \notin 1..Len(done[i]) /\ 1..n = 1..Len(done[i]) \cup {n}
  BY <1>1
<1>4. \A j \in Import : \A k : k \in DOMAIN done'[j] /\ done'[j][k] = "created" <=>
        \/ k \in DOMAIN done[j] /\ done[j][k] = "created"
        \/ j = i /\ k = n /\ outcome = "created"
  <2> SUFFICES ASSUME NEW j \in Import, NEW k
               PROVE  k \in DOMAIN done'[j] /\ done'[j][k] = "created" <=>
                        \/ k \in DOMAIN done[j] /\ done[j][k] = "created"
                        \/ j = i /\ k = n /\ outcome = "created"
    OBVIOUS
  <2>1. CASE j # i
    BY <2>1, <1>1
  <2>2. CASE j = i
    BY <2>2, <1>2, <1>3
  <2> QED
    BY <2>1, <2>2
<1>5. CASE outcome = "created"
  <2>1. CreatedRows' = CreatedRows \cup {<<i, n>>}
    BY <1>4, <1>5, CreatedRowsAre
  <2>2. <<i, n>> \notin CreatedRows
    <3>1. ASSUME NEW j \in Import, NEW k \in DOMAIN done[j], <<i, n>> = <<j, k>>
          PROVE  FALSE
      BY <3>1, <1>2, <1>3
    <3> QED
      BY <3>1, CreatedRowsAre
  <2> QED
    BY <2>1, <2>2, <1>5
<1>6. CASE outcome # "created"
  <2>1. CreatedRows' = CreatedRows
    BY <1>4, <1>6, CreatedRowsAre
  <2> QED
    BY <2>1, <1>6
<1> QED
  BY <1>5, <1>6

\* There are no more valves than ids; with as many, every id is that of a valve.
LEMMA IdsCount ==
  ASSUME StoreTypeOK, ValveKeys
  PROVE  /\ Cardinality(valves) <= seq.valve - 1
         /\ AllThere => \A n \in 1..(seq.valve - 1) : \E v \in valves : v.id = n
<1> DEFINE Ids == 1..(seq.valve - 1)
           id == [v \in valves |-> v.id]
<1>1. seq.valve \in Nat \ {0} /\ \A v \in valves : v.id \in Nat \ {0}
  BY DEF StoreTypeOK, Valve
<1>2. IsFiniteSet(Ids) /\ Cardinality(Ids) = seq.valve - 1
  <2>1. 1 \in Int /\ seq.valve - 1 \in Int
    BY <1>1
  <2>2. IsFiniteSet(Ids) /\ Cardinality(Ids) = IF 1 > seq.valve - 1 THEN 0 ELSE seq.valve - 1 - 1 + 1
    BY <2>1, FS_Interval
  <2> QED
    BY <1>1, <2>2
<1>3. id \in Injection(valves, Ids)
  BY <1>1 DEF ValveKeys, Injection, IsInjective
<1>4. Cardinality(valves) <= Cardinality(Ids) /\ (Cardinality(valves) = Cardinality(Ids) <=> id \in Surjection(valves, Ids))
  BY <1>2, <1>3, FS_Injection
<1>5. id \in Surjection(valves, Ids) => \A n \in Ids : \E v \in valves : v.id = n
  BY DEF Surjection
<1> QED
  BY <1>2, <1>4, <1>5 DEF AllThere

\* A row that is written has a new id, or that of the valve it replaces.
LEMMA WriteRowCounts ==
  ASSUME NEW i \in Import, ImportTypeOK, WritesUsableRow, WriteRow(i), UNCHANGED orphaned,
         ValveKeys, IsFiniteSet(valves)
  PROVE  /\ ValveKeys' /\ IsFiniteSet(valves')
         /\ Cardinality(valves') =
              IF found[i] = NoValve THEN Cardinality(valves) + 1 ELSE Cardinality(valves)
<1> DEFINE row == NewRow(i)
<1>1. /\ step[i] = "writeRow" /\ Accepted(i, row) /\ valves' = Overlay(valves, {row})
      /\ row.id = IF found[i] = NoValve THEN seq.valve ELSE found[i]
  BY DEF WriteRow, NewRow
<1>2. seq.valve \in Nat \ {0} /\ \A v \in valves : v.id \in Nat /\ v.id < seq.valve
  BY DEF ImportTypeOK, StoreTypeOK, Valve, ValveKeys
<1>3. seq'.valve = IF found[i] = NoValve THEN seq.valve + 1 ELSE seq.valve
  BY WriteRowTypes
<1>4. \A v, w \in valves : v.id = w.id => v = w
  BY DEF ValveKeys
<1>5. valves' = {r \in valves : r.id # row.id} \cup {row}
  BY <1>1 DEF Overlay
<1>6. CASE found[i] = NoValve
  <2>1. valves' = valves \cup {row} /\ row \notin valves /\ row.id = seq.valve
    BY <1>1, <1>2, <1>5, <1>6
  <2>2. IsFiniteSet(valves') /\ Cardinality(valves') = Cardinality(valves) + 1
    BY <2>1, FS_AddElement
  <2>3. ValveKeys'
    BY <2>1, <1>2, <1>3, <1>4, <1>6 DEF ValveKeys
  <2> QED
    BY <2>2, <2>3, <1>6
<1>7. CASE found[i] # NoValve
  <2>1. PICK old \in valves : old.id = row.id
    BY <1>1, <1>7 DEF Accepted
  <2>2. {r \in valves : r.id # row.id} = valves \ {old}
    BY <2>1, <1>4
  <2>3. valves' = (valves \ {old}) \cup {row} /\ row \notin valves \ {old}
    BY <2>2, <1>5
  <2>4. /\ IsFiniteSet(valves \ {old}) /\ Cardinality(valves \ {old}) = Cardinality(valves) - 1
        /\ Cardinality(valves) \in Nat
    BY <2>1, FS_RemoveElement, FS_CardinalityType
  <2>5. IsFiniteSet(valves') /\ Cardinality(valves') = Cardinality(valves \ {old}) + 1
    BY <2>3, <2>4, FS_AddElement
  <2>6. ValveKeys'
    BY <2>1, <1>2, <1>3, <1>4, <1>5, <1>7 DEF ValveKeys
  <2> QED
    BY <2>4, <2>5, <2>6, <1>7
<1> QED
  BY <1>6, <1>7

\* Every row an import creates is counted.
LEMMA ImportCounts ==
  ASSUME ImportTypeOK, WritesUsableRow, ImportNext, Counted
  PROVE  Counted'
<1> PICK i \in Import :
      \/ StartImport(i) \/ AdvanceImport(i)
      \/ UNCHANGED orphaned /\ (BreakUnit(i) \/ BreakRow(i) \/ LoseImport(i))
  BY DEF ImportNext
<1>1. PICK s \in InitialStores : Cardinality(CreatedRows) = seq.valve - s.seq.valve
  BY DEF Counted
<1>2. seq.valve \in Nat /\ s.seq.valve \in Nat /\ Cardinality(valves) \in Nat
  BY InitialStoresAssumption, FS_CardinalityType DEF ImportTypeOK, StoreTypeOK, Store, Counted
\* While every id is in use, this is the invariant of imports among themselves.
<1>3. AllThere => (FoundStays /\ SerialUnique /\ RowsLanded)'
  <2> SUFFICES ASSUME AllThere PROVE (FoundStays /\ SerialUnique /\ RowsLanded)'
    OBVIOUS
  <2>1. ImportInv
    BY DEF Counted, ImportInv, RowsInv
  <2>2. ImportInv'
    BY <2>1, StepKeeps
  <2> QED
    BY <2>2 DEF ImportInv, RowsInv
<1>0. Unlocked' /\ ~BeginRow(i) /\ ~EndRow(i)
  BY StaysUnlocked, NoneWaits DEF Counted
<1>4. CASE Reads(i)
  <2>1. valves' = valves /\ seq' = seq /\ done' = done
    BY <1>4 DEF Reads, storeVars
  <2>2. CreatedRows' = CreatedRows
    BY <2>1 DEF CreatedRows
  <2> QED
    BY <2>1, <2>2, <1>0, <1>3 DEF Counted, ValveKeys, AllThere
<1>5. CASE Skips(i)
  <2>1. valves' = valves /\ seq' = seq /\ Finish(i, "skipped") /\ Len(done[i]) < Len(Rows(i))
    BY <1>5 DEF Skips, storeVars
  <2>2. IsFiniteSet(CreatedRows') /\ Cardinality(CreatedRows') = Cardinality(CreatedRows)
    <3>1. "skipped" \in RowOutcome
      BY DEF RowOutcome
    <3>2. CreatedRows' = CreatedRows
      BY <2>1, <3>1, OneMoreCreated
    <3> QED
      BY <3>2 DEF Counted
  <2> QED
    BY <2>1, <2>2, <1>0, <1>3 DEF Counted, ValveKeys, AllThere
<1>6. CASE CreateUnit(i) /\ UNCHANGED orphaned
  <2>1. valves' = valves /\ done' = done /\ seq'.valve = seq.valve
    BY <1>6, CreateUnitTypes DEF CreateUnit
  <2>2. ValveKeys' /\ CreatedRows' = CreatedRows /\ (AllThere' => AllThere)
    BY <2>1 DEF Counted, ValveKeys, AllThere, CreatedRows
  <2> QED
    BY <2>1, <2>2, <1>0, <1>3 DEF Counted
<1>7. CASE FindRow(i)
  <2>1. valves' = valves /\ seq' = seq /\ done' = done
    BY <1>7 DEF FindRow, storeVars
  <2>2. CreatedRows' = CreatedRows
    BY <2>1 DEF CreatedRows
  <2> QED
    BY <2>1, <2>2, <1>0, <1>3 DEF Counted, ValveKeys, AllThere
<1>8. CASE WriteRow(i) /\ UNCHANGED orphaned
  <2>1. /\ seq'.valve = IF found[i] = NoValve THEN seq.valve + 1 ELSE seq.valve
        /\ ValveKeys' /\ IsFiniteSet(valves')
        /\ Cardinality(valves') =
             IF found[i] = NoValve THEN Cardinality(valves) + 1 ELSE Cardinality(valves)
    BY <1>8, WriteRowTypes, WriteRowCounts DEF Counted
  <2>2. PICK outcome \in RowOutcome :
          Finish(i, outcome) /\ (outcome = "created" <=> found[i] = NoValve)
    BY <1>8 DEF WriteRow, RowOutcome
  <2>3. Len(done[i]) < Len(Rows(i))
    BY <1>8 DEF WriteRow, WritesUsableRow
  <2>4. /\ IsFiniteSet(CreatedRows')
        /\ Cardinality(CreatedRows') =
             IF found[i] = NoValve THEN Cardinality(CreatedRows) + 1 ELSE Cardinality(CreatedRows)
    <3>1. \/ outcome = "created" /\ \E x : x \notin CreatedRows /\ CreatedRows' = CreatedRows \cup {x}
          \/ outcome # "created" /\ CreatedRows' = CreatedRows
      BY <2>2, <2>3, OneMoreCreated
    <3>2. CASE outcome = "created"
      BY <2>2, <3>1, <3>2, FS_AddElement DEF Counted
    <3> QED
      BY <2>2, <3>1, <3>2 DEF Counted
  <2>5. AllThere' => AllThere
    BY <1>2, <2>1 DEF AllThere
  <2>6. Cardinality(CreatedRows') = seq'.valve - s.seq.valve
    BY <1>1, <1>2, <2>1, <2>4
  <2> QED
    BY <2>1, <2>4, <2>5, <2>6, <1>0, <1>3 DEF Counted
<1> QED
  BY <1>0, <1>4, <1>5, <1>6, <1>7, <1>8, ImportCases

\* A delete that leaves every id in use deletes no valve.
LEMMA RemoveCounts ==
  ASSUME StoreTypeOK, StoreTypeOK', AdminRemove, UNCHANGED <<step, deviceOf, found, done>>, Counted
  PROVE  Counted'
<1>0. done' = done /\ CreatedRows' = CreatedRows
  BY DEF CreatedRows
<1>1. valves' \subseteq valves /\ seq' = seq
  BY DEF AdminRemove, RemoveValves, RemoveDevices, RemoveFactories, DeleteValves
<1>2. /\ IsFiniteSet(valves') /\ Cardinality(valves') <= Cardinality(valves)
      /\ Cardinality(valves) = Cardinality(valves') => valves = valves'
      /\ Cardinality(valves) \in Nat /\ Cardinality(valves') \in Nat
  BY <1>1, FS_Subset, FS_CardinalityType DEF Counted
<1>3. ValveKeys'
  BY <1>1 DEF Counted, ValveKeys
<1>4. AllThere' => AllThere /\ valves' = valves
  <2>1. Cardinality(valves) <= seq.valve - 1 /\ seq.valve \in Nat
    BY IdsCount DEF Counted, StoreTypeOK
  <2> QED
    BY <2>1, <1>1, <1>2 DEF AllThere
<1>5. valves' = valves /\ FoundStays /\ SerialUnique /\ RowsLanded =>
        FoundStays' /\ SerialUnique' /\ RowsLanded'
  BY DEF FoundStays, SerialUnique, RowsLanded, Collides, Row
<1>6. Unlocked'
  BY DEF AdminRemove, RemoveValves, RemoveDevices, RemoveFactories, Counted, Unlocked
<1> QED
  BY <1>0, <1>1, <1>2, <1>3, <1>4, <1>5, <1>6 DEF Counted

\* So every step of any writer keeps the count.
LEMMA SummaryStep ==
  ASSUME SyncTypes, SyncTypes', SummaryInv, [SyncNext]_syncVars
  PROVE  SummaryInv'
<1>1. assetEdits' \in Nat
  BY DEF SummaryInv, SyncNext, AssetEdit, assetEditVars, syncVars
<1>2. ASSUME NoOthers'
      PROVE  Counted'
  <2>1. Counted
    BY <1>2, NoOthersSteps DEF SummaryInv
  <2>2. CASE ImportNext
    BY <2>1, <2>2, ImportCounts DEF SyncTypes
  <2>3. CASE AdminRemove /\ UNCHANGED <<step, deviceOf, found, done>>
    BY <2>1, <2>3, RemoveCounts DEF SyncTypes, ImportTypeOK
  <2>4. CASE UNCHANGED <<storeVars, step, deviceOf, found, done, orphaned>>
    <3>1. CreatedRows' = CreatedRows /\ valves' = valves /\ seq' = seq
      BY <2>4 DEF CreatedRows, storeVars
    <3>2. FoundStays /\ SerialUnique /\ RowsLanded => FoundStays' /\ SerialUnique' /\ RowsLanded'
      BY <2>4, <3>1 DEF FoundStays, SerialUnique, RowsLanded, Collides, Row
    <3>3. ValveKeys' /\ (AllThere' => AllThere)
      BY <2>1, <3>1 DEF Counted, ValveKeys, AllThere
    <3>4. Unlocked'
      BY <2>1, <2>4 DEF Counted, Unlocked, storeVars
    <3> QED
      BY <2>1, <3>1, <3>2, <3>3, <3>4 DEF Counted
  <2> QED
    BY <1>2, <2>2, <2>3, <2>4, NoOthersSteps DEF SummaryInv
<1> QED
  BY <1>1, <1>2 DEF SummaryInv

\* Before the first import nothing is counted.
LEMMA SummaryStart == SyncInit => SummaryInv
<1> SUFFICES ASSUME SyncInit PROVE SummaryInv
  OBVIOUS
<1>1. PICK s \in InitialStores : valves = s.valves /\ seq = s.seq
  BY DEF SyncInit, PushInit, StoreInit
<1>2. ImportInv
  BY ImportInitially DEF SyncInit, PushInit, ImportInit
<1>3. done = [i \in Import |-> <<>>]
  BY DEF SyncInit, ImportStart
<1>4. CreatedRows = {}
  BY <1>3, CreatedRowsAre
<1>5. IsFiniteSet(valves) /\ IsFiniteSet(CreatedRows) /\ Cardinality(CreatedRows) = 0
  BY <1>1, <1>4, InitialStoresAssumption, FS_EmptySet
<1>6. seq.valve \in Nat /\ seq.valve - s.seq.valve = 0
  BY <1>1, <1>2 DEF ImportInv, RowsInv, ImportTypeOK, StoreTypeOK
<1> QED
  BY <1>2, <1>5, <1>6 DEF SummaryInv, Counted, ImportInv, RowsInv, SyncInit, AssetEditInit

\* The sequence of valves starts at one value.
OneBirth == \A s, t \in InitialStores : s.seq.valve = t.seq.valve

\* While every id is in use, those from the first new one on are as many as the
\* rows that are counted.
LEMMA SummariesAdd ==
  ASSUME OneBirth, SyncTypes, SummaryInv
  PROVE  SummaryTrue
<1> SUFFICES ASSUME OnlyImports PROVE RowsLanded /\ CreatedIsNew
  BY DEF SummaryTrue
<1>1. Counted /\ AllThere
  BY DEF SummaryInv, OnlyImports, NoOthers, AllThere
<1>2. PICK s \in InitialStores : Cardinality(CreatedRows) = seq.valve - s.seq.valve
  BY <1>1 DEF Counted
<1> DEFINE b == s.seq.valve
           id == [v \in NewValves |-> v.id]
<1>3. /\ seq.valve \in Nat \ {0} /\ b \in Nat \ {0} /\ \A v \in valves : v.id \in Nat \ {0}
      /\ Cardinality(CreatedRows) \in Nat
  BY <1>1, InitialStoresAssumption, FS_CardinalityType
     DEF SyncTypes, ImportTypeOK, StoreTypeOK, Store, Counted, Valve
<1>4. b <= seq.valve
  BY <1>2, <1>3
<1>5. NewValves = {v \in valves : v.id >= b}
  BY DEF NewValves, OneBirth
<1>6. id \in Injection(NewValves, b..(seq.valve - 1))
  BY <1>1, <1>3, <1>5 DEF Injection, IsInjective, Counted, ValveKeys
<1>7. id \in Surjection(NewValves, b..(seq.valve - 1))
  <2>1. ASSUME NEW n \in b..(seq.valve - 1)
        PROVE  \E v \in NewValves : id[v] = n
    <3>1. n \in 1..(seq.valve - 1) /\ n >= b
      BY <1>3
    <3>2. PICK v \in valves : v.id = n
      BY <1>1, <3>1, IdsCount DEF Counted, SyncTypes, ImportTypeOK
    <3> QED
      BY <3>1, <3>2, <1>5
  <2>2. id \in [NewValves -> b..(seq.valve - 1)]
    BY <1>6 DEF Injection
  <2> QED
    BY <2>1, <2>2 DEF Surjection
<1>8. IsFiniteSet(b..(seq.valve - 1)) /\ Cardinality(b..(seq.valve - 1)) = seq.valve - b
  <2> DEFINE e == seq.valve - 1
  <2>1. b \in Int /\ e \in Int
    BY <1>3
  <2>2. IsFiniteSet(b..e) /\ Cardinality(b..e) = IF b > e THEN 0 ELSE e - b + 1
    BY <2>1, FS_Interval
  <2> QED
    BY <1>3, <1>4, <2>2
<1>9. Cardinality(NewValves) = seq.valve - b
  BY <1>6, <1>7, <1>8, FS_Injection
<1> QED
  BY <1>1, <1>2, <1>9 DEF Counted, CreatedIsNew

\* As long as only imports have written, what their summaries say is true of the
\* tables: the valves that are new are those they report as created, however many
\* imports have run beside each other (factory.service.ts:412).
THEOREM SummariesTrue == OneBirth /\ SyncSpec => []SummaryTrue
<1>1. OneBirth /\ SyncInit => SyncTypes /\ SummaryInv /\ OneBirth
  BY SummaryStart, PushInitially, ImportInitially
     DEF SyncInit, SyncTypes, PushInit, ImportInit, ImportInv, RowsInv, PushInv
<1>2. SyncTypes /\ SummaryInv /\ OneBirth /\ [SyncNext]_syncVars => SyncTypes' /\ SummaryInv' /\ OneBirth'
  BY SyncTypesKept, SummaryStep DEF OneBirth
<1>3. SyncTypes /\ SummaryInv /\ OneBirth => SummaryTrue
  BY SummariesAdd
<1> QED
  BY <1>1, <1>2, <1>3, PTL DEF SyncSpec

---------------------------------------------------------------------------
(* Why only imports duplicate devices: the inductive invariant. *)

\* A device that an import has found or made for a unit of its sheet.
Mapped(d) ==
  \E i \in Import : /\ step[i] # "idle" /\ Plant(i) = d.factory
                    /\ \E r \in ToSet(Rows(i)) : r.unit = d.name
                    /\ deviceOf[i][d.name] = d.id

\* The devices that the bound does not count among those of pushes.
Excused(d) == d.id \in placed \/ Mapped(d)

\* Of the others there is one of a name, ...
SoleOfName ==
  \A d, e \in AllDevices :
     ~Excused(d) /\ ~Excused(e) /\ d.factory = e.factory /\ d.name = e.name => d = e

\* ... which a push has made, or was there to begin with.
MadeOrKnown ==
  \A d \in AllDevices : ~Excused(d) =>
     (\E p \in Push : pc[p] # "idle") \/ KnownDevice(d.factory, d.name)

\* A push that is about to create a device has seen none, and no push has
\* made one since.
MissedByPush ==
  \A p \in Push : pc[p] = "createDevice" =>
     \A d \in AllDevices : d.factory = FactoryOf(p) /\ d.name = Entry(p).unit => Excused(d)

Started == {i \in Import : step[i] # "idle"}

DuplicateInv == OwnDevices /\ SoleOfName /\ MadeOrKnown /\ MissedByPush /\ IsFiniteSet(Started)

\* What an import has mapped stays mapped.
MapsStay ==
  /\ placed \subseteq placed'
  /\ \A i \in Import : step[i] # "idle" => step'[i] # "idle"
  /\ \A i \in Import, u \in Unit : deviceOf[i][u] # NoDevice => deviceOf'[i][u] = deviceOf[i][u]

\* A device that is excused stays so.
LEMMA ExcusesStay ==
  ASSUME StoreTypeOK, MapsStay, NEW d \in AllDevices, Excused(d)
  PROVE  Excused(d)'
<1>1. d \in Device
  BY RowTypes DEF RowsTyped
<1>2. d.id # NoDevice /\ d.name \in Unit
  BY <1>1 DEF Device, NoDevice
<1>3. CASE d.id \in placed
  BY <1>3 DEF MapsStay, Excused
<1>4. CASE Mapped(d)
  <2>1. PICK i \in Import : /\ step[i] # "idle" /\ Plant(i) = d.factory
                            /\ \E r \in ToSet(Rows(i)) : r.unit = d.name
                            /\ deviceOf[i][d.name] = d.id
    BY <1>4 DEF Mapped
  <2>2. step'[i] # "idle" /\ deviceOf'[i][d.name] = d.id
    BY <2>1, <1>2 DEF MapsStay
  <2> QED
    BY <2>1, <2>2 DEF Excused, Mapped
<1> QED
  BY <1>3, <1>4 DEF Excused

\* The steps that make no device outside of imports and forms, and after which a
\* push is about to create one only if it has just missed it or was so before.
NoPushMakes ==
  /\ \A d \in AllDevices' : d \in AllDevices \/ Excused(d)'
  /\ \A q \in Push : tx'[q].devices \subseteq tx[q].devices
  /\ \A q \in Push : pc[q] # "idle" => pc'[q] # "idle"
  /\ \A q \in Push : pc'[q] = "createDevice" =>
       /\ cursor'[q] = cursor[q]
       /\ \/ pc[q] = "createDevice"
          \/ NamedDevices(q) = {} /\ ViewDevices(q)' \subseteq ViewDevices(q)

\* Two pushes of one factory are not in their transactions at once.
LEMMA OthersElsewhere ==
  ASSUME LocksHeld', OneWriterPerFactory', OwnDevices', NEW p \in Push, pc'[p] = "createDevice",
         NEW q \in Push \ {p}, NEW d \in tx'[q].devices
  PROVE  d.factory # FactoryOf(p)
<1>1. pc'[q] \in LockedSteps
  BY DEF LocksHeld, NoTx
<1>2. tx'[q].factory = FactoryOf(q) /\ tx'[p].factory = FactoryOf(p)
  BY <1>1 DEF LocksHeld, LockedSteps, TxSteps, FactoryOf
<1>3. FactoryOf(p) # None
  BY RequestTypes, InitialStoresAssumption
<1> QED
  BY <1>2, <1>3 DEF OneWriterPerFactory, OwnDevices, FactoryOf

\* After a step in which no push makes a device the others are as few as before.
LEMMA NoPushMakesKeeps ==
  ASSUME SyncTypes, SyncTypes', DuplicateInv, MapsStay, NoPushMakes, IsFiniteSet(Started)'
  PROVE  DuplicateInv'
<1>0. StoreTypeOK /\ StoreTypeOK' /\ LocksHeld' /\ OneWriterPerFactory'
  BY DEF SyncTypes, PushTypeOK
<1>1. \A d \in AllDevices' : ~Excused(d)' => d \in AllDevices /\ ~Excused(d)
  BY <1>0, ExcusesStay DEF NoPushMakes
<1>2. OwnDevices'
  BY DEF DuplicateInv, OwnDevices, NoPushMakes, FactoryOf
<1>3. SoleOfName'
  BY <1>1 DEF DuplicateInv, SoleOfName
<1>4. MadeOrKnown'
  BY <1>1 DEF DuplicateInv, MadeOrKnown, NoPushMakes
<1>5. MissedByPush'
  <2> SUFFICES ASSUME NEW p \in Push, pc'[p] = "createDevice",
                      NEW d \in AllDevices', d.factory = FactoryOf(p), d.name = Entry(p)'.unit,
                      ~Excused(d)'
               PROVE  FALSE
    BY DEF MissedByPush, FactoryOf
  <2>1. d \in AllDevices /\ ~Excused(d) /\ Entry(p)' = Entry(p)
    BY <1>1 DEF NoPushMakes, Entry
  <2>2. CASE pc[p] = "createDevice"
    BY <2>1, <2>2 DEF DuplicateInv, MissedByPush
  <2>3. CASE NamedDevices(p) = {} /\ ViewDevices(p)' \subseteq ViewDevices(p)
    <3>1. d \notin ViewDevices(p)'
      BY <2>1, <2>3 DEF NamedDevices
    <3>2. PICK q \in Push \ {p} : d \in tx'[q].devices
      BY <3>1, AllRowsNext DEF ViewDevices
    <3> QED
      BY <3>2, <1>0, <1>2, OthersElsewhere
  <2> QED
    BY <2>2, <2>3 DEF NoPushMakes
<1> QED
  BY <1>2, <1>3, <1>4, <1>5 DEF DuplicateInv

\* The device a push makes is the only one of its name that is not excused.
LEMMA PushMakesKeeps ==
  ASSUME SyncTypes, SyncTypes', DuplicateInv, MapsStay, IsFiniteSet(Started)',
         NEW p \in Push, CreateDevice(p)
  PROVE  DuplicateInv'
<1> DEFINE row == [id |-> seq.device, factory |-> FactoryOf(p), name |-> Entry(p).unit]
<1>0. /\ StoreTypeOK /\ StoreTypeOK' /\ LocksHeld' /\ OneWriterPerFactory'
      /\ pc \in [Push -> Steps] /\ tx \in [Push -> Tx]
      /\ cursor \in [Push -> [index : Nat, device : Nat, valve : Nat]]
  BY DEF SyncTypes, PushTypeOK, StoreTypeOK
<1>1. /\ tx' = [tx EXCEPT ![p] = [tx[p] EXCEPT !.devices = tx[p].devices \cup {row}]]
      /\ pc[p] = "createDevice" /\ pc' = [pc EXCEPT ![p] = "findValve"] /\ UNCHANGED tables
  BY DEF CreateDevice, Goto
<1>2. /\ tx'[p].devices = tx[p].devices \cup {row}
      /\ \A q \in Push \ {p} : tx'[q] = tx[q]
  BY <1>0, <1>1 DEF Tx
<1>3. \A q \in Push \ {p} : pc'[q] = pc[q] /\ cursor'[q] = cursor[q]
  BY <1>0, <1>1 DEF CreateDevice
<1>4. row.factory = FactoryOf(p) /\ row.name = Entry(p).unit /\ pc'[p] = "findValve"
  BY <1>0, <1>1
<1> HIDE DEF row
<1>5. \A d \in AllDevices' : d \in AllDevices \/ d = row
  BY <1>1, <1>2, AllRows, AllRowsNext DEF tables
<1>6. \A d \in AllDevices : ~Excused(d)' => ~Excused(d)
  BY <1>0, ExcusesStay
<1>7. \A d \in AllDevices : ~Excused(d) => ~(d.factory = row.factory /\ d.name = row.name)
  BY <1>1, <1>4 DEF DuplicateInv, MissedByPush
<1>8. OwnDevices'
  BY <1>2, <1>4 DEF DuplicateInv, OwnDevices, FactoryOf
<1>9. SoleOfName'
  BY <1>5, <1>6, <1>7 DEF DuplicateInv, SoleOfName
<1>10. MadeOrKnown'
  BY <1>4 DEF MadeOrKnown
<1>11. MissedByPush'
  <2> SUFFICES ASSUME NEW q \in Push, pc'[q] = "createDevice",
                      NEW d \in AllDevices', d.factory = FactoryOf(q), d.name = Entry(q)'.unit,
                      ~Excused(d)'
               PROVE  FALSE
    BY DEF MissedByPush, FactoryOf
  <2>1. q # p /\ pc[q] = "createDevice" /\ Entry(q)' = Entry(q)
    BY <1>3, <1>4 DEF Entry
  <2>2. CASE d \in AllDevices
    BY <2>1, <2>2, <1>6 DEF DuplicateInv, MissedByPush
  <2>3. CASE d = row
    <3>1. row \in tx'[p].devices
      BY <1>2
    <3> QED
      BY <2>1, <2>3, <3>1, <1>0, <1>8, OthersElsewhere
  <2> QED
    BY <1>5, <2>2, <2>3
<1> QED
  BY <1>8, <1>9, <1>10, <1>11 DEF DuplicateInv

\* A step that adds no device at all makes none.
LEMMA AddsNoneMakesNone ==
  ASSUME AddsNoDevice, \A q \in Push : pc[q] # "idle" => pc'[q] # "idle"
  PROVE  NoPushMakes
<1>1. \A d \in AllDevices' : d \in AllDevices
  BY AllRows, AllRowsNext DEF AddsNoDevice
<1>2. \A q \in Push : ViewDevices(q)' \subseteq ViewDevices(q)
  BY DEF AddsNoDevice, ViewDevices
<1> QED
  BY <1>1, <1>2 DEF AddsNoDevice, NoPushMakes

\* Nor does a commit, which shows devices that have been made.
LEMMA CommitMakesNone ==
  ASSUME NEW p \in Push, NEW s \in {"recordSuccess", "recordFailure"}, PushTypeOK,
         Publish(p), Goto(p, s)
  PROVE  NoPushMakes
<1>1. /\ devices' = devices \cup tx[p].devices
      /\ tx' = [tx EXCEPT ![p] = NoTx] /\ cursor' = cursor
      /\ pc' = [pc EXCEPT ![p] = s]
  BY DEF Publish, Goto, ViewDevices
<1>2. /\ tx'[p].devices = {} /\ \A q \in Push \ {p} : tx'[q] = tx[q]
  BY <1>1 DEF PushTypeOK, StoreTypeOK, NoTx
<1>3. pc'[p] = s /\ \A q \in Push \ {p} : pc'[q] = pc[q]
  BY <1>1 DEF PushTypeOK
<1>4. \A d \in AllDevices' : d \in AllDevices
  BY <1>1, <1>2, AllRows, AllRowsNext
<1> QED
  BY <1>1, <1>2, <1>3, <1>4 DEF NoPushMakes

\* A push that has been received is never idle again.
LEMMA NeverIdleAgain ==
  ASSUME PushTypeOK, [PushNext]_vars
  PROVE  \A q \in Push : pc[q] # "idle" => pc'[q] # "idle"
<1>0. pc \in [Push -> Steps]
  BY DEF PushTypeOK
<1>1. ASSUME NEW p \in Push, Receive(p) \/ Advance(p) \/ Abort(p) \/ LoseCommitAck(p)
      PROVE  \A q \in Push : pc[q] # "idle" => pc'[q] # "idle"
  <2>1. \E s \in Steps \ {"idle"} : pc' = [pc EXCEPT ![p] = s]
    BY <1>1 DEF Receive, Advance, UpsertFactory, UpsertWorkOrder, FindDevice, CreateDevice,
       RefuseDevice, FindValve, WriteValve, RefuseValve, Commit, RecordSuccess, RecordFailure, Record,
       RollBack, Abort, LoseCommitAck, Loop, Goto, Steps, TxSteps
  <2> QED
    BY <1>0, <2>1
<1>2. ASSUME NEW h \in Host, Crash(h)
      PROVE  \A q \in Push : pc[q] # "idle" => pc'[q] # "idle"
  BY <1>2 DEF Crash
<1> QED
  BY <1>1, <1>2 DEF PushNext, Fault, vars, pushVars

\* The steps of pushes, of their faults and of deletes.
LEMMA PushDuplicates ==
  ASSUME SyncTypes, SyncTypes', DuplicateInv, PushNext, WatchPlants, UNCHANGED assetEditVars
  PROVE  DuplicateInv'
<1>0. PushTypeOK /\ \A q \in Push : pc[q] # "idle" => pc'[q] # "idle"
  BY NeverIdleAgain DEF SyncTypes
<1>1. MapsStay /\ IsFiniteSet(Started)'
  BY DEF WatchPlants, assetEditVars, MapsStay, DuplicateInv, Started
<1>2. ASSUME NEW p \in Push, CreateDevice(p) PROVE DuplicateInv'
  BY <1>1, <1>2, PushMakesKeeps
<1>3. ASSUME NEW p \in Push, Commit(p) \/ LoseCommitAck(p) PROVE NoPushMakes
  BY <1>0, <1>3, CommitMakesNone DEF Commit, LoseCommitAck
<1>4. ASSUME NEW p \in Push, Receive(p) \/ Advance(p), ~CreateDevice(p), ~Commit(p)
      PROVE  NoPushMakes
  BY <1>0, <1>4, OtherStepsAddNoDevice, AddsNoneMakesNone
<1>5. ASSUME NEW p \in Push, Abort(p) PROVE NoPushMakes
  BY <1>0, <1>5, RollBackDevices, AddsNoneMakesNone DEF Abort
<1>6. ASSUME NEW h \in Host, Crash(h) PROVE NoPushMakes
  <2>1. devices' = devices /\ cursor' = cursor
    BY <1>6 DEF Crash, tables
  <2>2. \A q \in Push : \/ tx'[q] = NoTx /\ pc'[q] = "lost"
                        \/ tx'[q] = tx[q] /\ pc'[q] = pc[q]
    BY <1>6 DEF Crash
  <2>3. AddsNoDevice
    BY <2>1, <2>2 DEF AddsNoDevice, NoTx
  <2> QED
    BY <1>0, <2>3, AddsNoneMakesNone
<1>7. CASE AdminRemove /\ UNCHANGED pushVars
  <2>1. tx' = tx /\ pc' = pc /\ cursor' = cursor
    BY <1>7 DEF AdminRemove, RemoveValves, RemoveDevices, RemoveFactories, pushVars
  <2>2. devices' \subseteq devices
    BY <1>7 DEF AdminRemove, RemoveValves, RemoveDevices, RemoveFactories
  <2>3. AddsNoDevice
    BY <2>1, <2>2 DEF AddsNoDevice
  <2> QED
    BY <1>0, <1>1, <2>3, AddsNoneMakesNone, NoPushMakesKeeps
<1> QED
  BY <1>1, <1>2, <1>3, <1>4, <1>5, <1>6, <1>7, NoPushMakesKeeps DEF PushNext, Fault

\* A step of imports or administrators that makes no device but excused ones.
LEMMA OthersDuplicate ==
  ASSUME SyncTypes, SyncTypes', DuplicateInv, MapsStay, IsFiniteSet(Started)',
         tx' = tx, UNCHANGED pushVars, \A d \in devices' : d \in devices \/ Excused(d)'
  PROVE  DuplicateInv'
<1>1. pc' = pc /\ cursor' = cursor
  BY DEF pushVars
<1>2. \A d \in AllDevices' : d \in AllDevices \/ Excused(d)'
  BY AllRows, AllRowsNext
<1>3. NoPushMakes
  BY <1>1, <1>2 DEF NoPushMakes
<1> QED
  BY <1>3, NoPushMakesKeeps

\* An import starts once, and looks up a unit only while it has no device.
LEMMA ImportMaps ==
  ASSUME ImportTypeOK, WritesUsableRow, ImportNext, placed' = placed, IsFiniteSet(Started)
  PROVE  MapsStay /\ IsFiniteSet(Started)'
<1> PICK i \in Import :
      \/ StartImport(i) \/ AdvanceImport(i)
      \/ UNCHANGED orphaned /\ (BreakUnit(i) \/ BreakRow(i) \/ LoseImport(i))
  BY DEF ImportNext
<1>0. /\ step \in [Import -> ImportSteps] /\ deviceOf \in [Import -> [Unit -> Nat]]
  BY DEF ImportTypeOK
<1>1. \E s \in ImportSteps \ {"idle"} : step' = [step EXCEPT ![i] = s]
  BY DEF StartImport, AdvanceImport, FindUnit, CreateUnit, MapUnit, RefuseUnit, FailImport, SkipRow,
     FindRow, WriteRow, RefuseRow, BeginRow, EndRow, RefuseEntry, Finish, FinishImport, BreakUnit, BreakRow, LoseImport, MoveTo,
     ImportSteps
<1>2. step'[i] # "idle" /\ \A j \in Import \ {i} : step'[j] = step[j]
  BY <1>0, <1>1
<1>3. IsFiniteSet(Started)'
  <2>1. Started' \subseteq Started \cup {i}
    BY <1>2 DEF Started
  <2>2. IsFiniteSet(Started \cup {i})
    BY FS_AddElement
  <2> QED
    BY <2>1, <2>2, FS_Subset
<1>4. \A u \in NextUnit(i) : u \in Unit /\ deviceOf[i][u] = NoDevice
  BY SheetTypes DEF NextUnit, RowsLeft
<1>5. \/ deviceOf' = deviceOf
      \/ \E u \in NextUnit(i), n \in Nat : deviceOf' = [deviceOf EXCEPT ![i][u] = n]
  <2>1. CASE Reads(i)
    BY <2>1 DEF Reads, PlantDevices, ImportTypeOK, StoreTypeOK, Device
  <2>2. CASE CreateUnit(i)
    BY <2>2 DEF CreateUnit, MapUnit, ImportTypeOK, StoreTypeOK
  <2>3. CASE Skips(i) \/ FindRow(i) \/ WriteRow(i) \/ BeginRow(i) \/ EndRow(i)
    BY <2>3 DEF Skips, FindRow, WriteRow, BeginRow, EndRow
  <2> QED
    BY <2>1, <2>2, <2>3, ImportCases
<1>6. \A j \in Import, u \in Unit : deviceOf[j][u] # NoDevice => deviceOf'[j][u] = deviceOf[j][u]
  BY <1>0, <1>4, <1>5
<1> QED
  BY <1>2, <1>3, <1>6 DEF MapsStay

\* The device an import makes is mapped at once.
LEMMA ImportDuplicates ==
  ASSUME SyncTypes, SyncTypes', DuplicateInv, ImportNext, UNCHANGED <<pushVars, assetEditVars>>
  PROVE  DuplicateInv'
<1>0. /\ ImportTypeOK /\ WritesUsableRow /\ step \in [Import -> ImportSteps]
      /\ deviceOf \in [Import -> [Unit -> Nat]]
  BY DEF SyncTypes, ImportTypeOK
<1>1. MapsStay /\ IsFiniteSet(Started)'
  BY <1>0, ImportMaps DEF assetEditVars, DuplicateInv
<1> PICK i \in Import :
      \/ StartImport(i) \/ AdvanceImport(i)
      \/ UNCHANGED orphaned /\ (BreakUnit(i) \/ BreakRow(i) \/ LoseImport(i))
  BY DEF ImportNext
<1>2. tx' = tx /\ \A d \in devices' : d \in devices \/ Excused(d)'
  <2>1. CASE Reads(i) \/ Skips(i) \/ FindRow(i) \/ WriteRow(i) \/ BeginRow(i) \/ EndRow(i)
    BY <2>1 DEF Reads, Skips, FindRow, WriteRow, BeginRow, EndRow, storeVars, tables
  <2>2. CASE CreateUnit(i)
    <3>0. PICK u \in NextUnit(i) :
            /\ devices' = devices \cup {[id |-> seq.device, factory |-> Plant(i), name |-> u]}
            /\ tx' = tx /\ deviceOf' = [deviceOf EXCEPT ![i][u] = seq.device]
      BY <2>2 DEF CreateUnit, MapUnit
    <3>1. PICK d : d = [id |-> seq.device, factory |-> Plant(i), name |-> u]
      OBVIOUS
    <3>2. u \in Unit /\ \E r \in ToSet(Rows(i)) : r.unit = u
      BY SheetTypes DEF NextUnit, RowsLeft, ToSet
    <3>3. deviceOf'[i][u] = seq.device
      BY <1>0, <3>0, <3>2
    <3>4. step[i] # "idle"
      BY <2>2 DEF CreateUnit
    <3>5. step'[i] # "idle"
      BY <1>1, <3>4 DEF MapsStay
    <3>6. d.id = seq.device /\ d.factory = Plant(i) /\ d.name = u
      BY <3>1
    <3>7. Excused(d)'
      BY <3>2, <3>3, <3>5, <3>6 DEF Excused, Mapped
    <3> QED
      BY <3>0, <3>1, <3>7
  <2> QED
    BY <1>0, <2>1, <2>2, ImportCases
<1> QED
  BY <1>1, <1>2, OthersDuplicate

\* What administrators name is excused.
LEMMA EditDuplicates ==
  ASSUME SyncTypes, SyncTypes', DuplicateInv, AssetEdit, UNCHANGED <<pushVars, importVars>>
  PROVE  DuplicateInv'
<1>0. StoreTypeOK
  BY DEF SyncTypes, PushTypeOK
<1>1. IsFiniteSet(Started)' /\ UNCHANGED <<step, deviceOf>>
  BY DEF importVars, DuplicateInv, Started
<1> DEFINE OnlyPlaced == /\ tx' = tx /\ placed \subseteq placed'
                         /\ \A d \in devices' : d \in devices \/ d.id \in placed'
<1>2. OnlyPlaced
  <2>1. CASE UNCHANGED <<devices, valves, workOrders, links, seq, tx, placed, moved, misplaced>>
    BY <2>1
  <2>2. ASSUME NEW form \in DeviceForms, CreateAdminDevice(form)
        PROVE  OnlyPlaced
    BY <2>2 DEF CreateAdminDevice
  <2>3. ASSUME NEW form \in DeviceForms, NEW d \in devices, UpdateDevice(d, form)
        PROVE  OnlyPlaced
    <3>1. Edited(d, form).id = d.id
      BY <1>0, EditedDevice DEF StoreTypeOK
    <3> QED
      BY <2>3, <3>1 DEF UpdateDevice
  <2>4. ASSUME NEW row \in Valve, StoreValve(row)
        PROVE  OnlyPlaced
    BY <2>4 DEF StoreValve
  <2> QED
    BY <1>0, <2>1, <2>2, <2>3, <2>4, EditCases
<1>3. MapsStay
  BY <1>1, <1>2 DEF MapsStay
<1> QED
  BY <1>1, <1>2, <1>3, OthersDuplicate DEF Excused

\* So the invariant is inductive.
LEMMA DuplicatesKept ==
  ASSUME SyncTypes, SyncTypes', DuplicateInv, [SyncNext]_syncVars
  PROVE  DuplicateInv'
<1>1. CASE UNCHANGED syncVars
  <2>1. UNCHANGED <<devices, tx, pushVars, step, deviceOf, placed>>
    BY <1>1 DEF syncVars, storeVars, importVars, assetEditVars
  <2>2. MapsStay /\ IsFiniteSet(Started)'
    BY <2>1 DEF MapsStay, DuplicateInv, Started
  <2> QED
    BY <2>1, <2>2, OthersDuplicate
<1> QED
  BY <1>1, PushDuplicates, ImportDuplicates, EditDuplicates DEF SyncNext

\* To begin with devices are named once.
LEMMA DuplicatesStart == SyncInit => DuplicateInv
<1> SUFFICES ASSUME SyncInit PROVE DuplicateInv
  OBVIOUS
<1>1. PICK s \in InitialStores : devices = s.devices
  BY DEF SyncInit, PushInit, StoreInit
<1>2. \A p \in Push : tx[p].devices = {} /\ pc[p] = "idle"
  BY DEF SyncInit, PushInit, StoreInit, NoTx
<1>3. AllDevices = s.devices
  BY <1>1, <1>2 DEF AllDevices
<1>4. DevicesNamedOnce(s.devices)
  BY InitialStoresAssumption
<1>5. Started = {}
  BY DEF SyncInit, ImportStart, Started
<1> QED
  BY <1>2, <1>3, <1>4, <1>5, FS_EmptySet
     DEF DuplicateInv, OwnDevices, SoleOfName, MadeOrKnown, MissedByPush, DevicesNamedOnce, KnownDevice

\* The imports that have named a unit of a factory.
Namers(f, u) ==
  {i \in Import : step[i] # "idle" /\ Plant(i) = f /\ \E r \in ToSet(Rows(i)) : r.unit = u}

\* Each import has mapped at most one of the devices of a name, and one more is
\* left at most.
LEMMA DuplicatesCount ==
  ASSUME SyncTypes, DuplicateInv, NEW f \in Factory, NEW u \in Unit
  PROVE  Cardinality({d \in devices : d.factory = f /\ d.name = u /\ d.id \notin placed}) <=
           Cardinality(Namers(f, u))
             + (IF (\A p \in Push : pc[p] = "idle") /\ ~KnownDevice(f, u) THEN 0 ELSE 1)
<1> DEFINE D == {d \in devices : d.factory = f /\ d.name = u /\ d.id \notin placed}
           M == {d \in D : Mapped(d)}
           by == [d \in M |-> CHOOSE i \in Namers(f, u) : deviceOf[i][u] = d.id]
<1>1. devices \subseteq Device /\ devices \subseteq AllDevices
  BY DEF SyncTypes, PushTypeOK, StoreTypeOK, AllDevices
<1>2. IsFiniteSet(Namers(f, u))
  BY FS_Subset DEF Namers, Started, DuplicateInv
<1>3. \A d \in M : by[d] \in Namers(f, u) /\ deviceOf[by[d]][u] = d.id
  <2> SUFFICES ASSUME NEW d \in M PROVE \E i \in Namers(f, u) : deviceOf[i][u] = d.id
    OBVIOUS
  <2> QED
    BY DEF Mapped, Namers
<1>4. \A d, e \in M : d.id = e.id => d = e
  <2> SUFFICES ASSUME NEW d \in M, NEW e \in M, d.id = e.id PROVE d = e
    OBVIOUS
  <2>1. d \in Device /\ e \in Device /\ d.factory = e.factory /\ d.name = e.name
    BY <1>1
  <2> QED
    BY <2>1 DEF Device
<1>5. by \in Injection(M, Namers(f, u))
  <2>1. by \in [M -> Namers(f, u)]
    BY <1>3
  <2>2. \A d, e \in M : by[d] = by[e] => d = e
    BY <1>3, <1>4
  <2> QED
    BY <2>1, <2>2 DEF Injection, IsInjective
<1>6. /\ IsFiniteSet(M) /\ Cardinality(M) <= Cardinality(Namers(f, u))
      /\ Cardinality(M) \in Nat /\ Cardinality(Namers(f, u)) \in Nat
  <2> HIDE DEF M, by
  <2> QED
    BY <1>2, <1>5, FS_Injection, FS_CardinalityType
<1>7. \A d, e \in D : d \notin M /\ e \notin M => d = e
  <2>1. ASSUME NEW d \in D, d \notin M PROVE d \in AllDevices /\ ~Excused(d)
    BY <2>1, <1>1 DEF Excused
  <2>2. \A d \in D : d.factory = f /\ d.name = u
    OBVIOUS
  <2>3. SoleOfName
    BY DEF DuplicateInv
  <2> HIDE DEF D, M
  <2> SUFFICES ASSUME NEW d \in D, NEW e \in D, d \notin M, e \notin M PROVE d = e
    OBVIOUS
  <2>4. d \in AllDevices /\ e \in AllDevices /\ ~Excused(d) /\ ~Excused(e)
    BY <2>1
  <2> QED
    BY <2>2, <2>3, <2>4 DEF SoleOfName
<1>8. CASE D = M
  <2>1. Cardinality(D) = Cardinality(M)
    <3> HIDE DEF D, M
    <3> QED
      BY <1>8
  <2> HIDE DEF M
  <2> QED
    BY <2>1, <1>6
<1>9. CASE D # M
  <2>1. PICK d \in D : d \notin M
    BY <1>9
  <2>2. D = M \cup {d}
    BY <2>1, <1>7
  <2>3. Cardinality(D) = Cardinality(M) + 1
    <3> HIDE DEF D, M
    <3> QED
      BY <2>1, <2>2, <1>6, FS_AddElement
  <2>4. (\E p \in Push : pc[p] # "idle") \/ KnownDevice(f, u)
    BY <2>1, <1>1 DEF DuplicateInv, MadeOrKnown, Excused
  <2> QED
    BY <2>3, <2>4, <1>6
<1> QED
  BY <1>8, <1>9

\* ServiceAppService.serviceInfo finds and creates devices under the lock of its
\* factory row, so that pushes never duplicate one among themselves; each
\* FactoryService.import, which takes no lock, adds at most one of a name.
THEOREM DuplicatesBounded == SyncSpec => []DuplicatesOnlyByImports
<1>1. SyncInit => SyncTypes /\ DuplicateInv
  BY DuplicatesStart, PushInitially, ImportInitially
     DEF SyncInit, SyncTypes, PushInit, ImportInit, ImportInv, RowsInv, PushInv
<1>2. SyncTypes /\ DuplicateInv /\ [SyncNext]_syncVars => SyncTypes' /\ DuplicateInv'
  BY SyncTypesKept, DuplicatesKept
<1>3. SyncTypes /\ DuplicateInv => DuplicatesOnlyByImports
  BY DuplicatesCount DEF DuplicatesOnlyByImports, Namers
<1> QED
  BY <1>1, <1>2, <1>3, PTL DEF SyncSpec

=============================================================================
