----------------------------- MODULE AssetAdmin -----------------------------
(***************************************************************************)
(* The administrators' single statements on the asset tables besides their  *)
(* deletes: create and update of factories, devices and valves.  A form     *)
(* holds the columns the request sends; an update leaves the others alone.   *)
(* Nothing compares the factory a valve is given with that of its device.    *)
(*                                                                         *)
(* A factory keeps its name here, by which its rows refer to it.             *)
(*                                                                         *)
(* A statement that waits is taken as not yet begun.  What it may already   *)
(* hold while it waits only keeps others waiting longer; a cycle that this  *)
(* closes ends like any other, with one of its statements failing.          *)
(***************************************************************************)
EXTENDS AssetStore

CONSTANTS
  DeviceForms, ValveForms,  \* records with some of the columns of a row
  MaxAssetEdits             \* bound on these statements

\* A form may have the id too, which an update writes back: it is taken to be
\* the id of the row that the request names.
ASSUME FormsAssumption ==
  /\ \A form \in DeviceForms :
       /\ DOMAIN form \subseteq {"name", "factory"}
       /\ "name" \in DOMAIN form => form.name \in Unit
       /\ "factory" \in DOMAIN form => form.factory \in Factory
  /\ \A form \in ValveForms :
       /\ DOMAIN form \subseteq {"factory", "device", "tag", "serialNumber"}
       /\ "factory" \in DOMAIN form => form.factory \in Factory
       /\ "device" \in DOMAIN form => form.device \in Nat
       /\ "tag" \in DOMAIN form => form.tag \in Tag
       /\ "serialNumber" \in DOMAIN form => form.serialNumber \in SerialNumber \cup {Absent}

VARIABLES
  assetEdits,  \* how many there were
  placed,      \* history: the devices an administrator has created or changed
  moved,       \* history: the devices that were given another factory
  misplaced    \* history: the valves an administrator has mounted in another factory

assetEditVars == <<assetEdits, placed, moved, misplaced>>

AssetEditInit == assetEdits = 0 /\ placed = {} /\ moved = {} /\ misplaced = {}

\* Every column of the row that a database default does not fill.
Complete(form, columns) == columns \subseteq DOMAIN form

\* What an update makes of a row.
Edited(row, form) == [c \in DOMAIN row |-> IF c \in DOMAIN form THEN form[c] ELSE row[c]]

---------------------------------------------------------------------------
CreateFactory(f, data) ==
  /\ factories[f] = None /\ ~FactoryLocked(f)
  /\ factories' = [factories EXCEPT ![f] = data]
  /\ UNCHANGED <<devices, valves, workOrders, links, seq, tx, placed, moved, misplaced>>

UpdateFactory(f, data) ==
  /\ factories[f] # None /\ ~FactoryLocked(f)
  /\ factories' = [factories EXCEPT ![f] = data]
  /\ UNCHANGED <<devices, valves, workOrders, links, seq, tx, placed, moved, misplaced>>

CreateAdminDevice(form) ==
  /\ Complete(form, {"name", "factory"})
  /\ factories[form.factory] # None /\ ~FactoryLocked(form.factory)
  /\ devices' = devices \cup {[id |-> seq.device, factory |-> form.factory, name |-> form.name]}
  /\ seq' = [seq EXCEPT !.device = @ + 1]
  /\ placed' = placed \cup {seq.device}
  /\ UNCHANGED <<factories, valves, workOrders, links, tx, moved, misplaced>>

\* Name and factory are no key columns: the update does not wait for the key-share
\* locks of open pushes.  The valves on the device stay with their factory.
UpdateDevice(d, form) ==
  LET row == Edited(d, form) IN
  /\ d \in devices /\ factories[row.factory] # None
  /\ row.factory # d.factory => ~FactoryLocked(row.factory)
  /\ devices' = (devices \ {d}) \cup {row}
  /\ placed' = placed \cup {d.id}
  /\ moved' = IF row.factory = d.factory THEN moved ELSE moved \cup {d.id}
  /\ UNCHANGED <<factories, valves, workOrders, links, seq, tx, misplaced>>

\* Foreign keys and the partial unique index.
Storable(row) ==
  /\ factories[row.factory] # None
  /\ row.device = NoDevice \/ \E d \in devices : d.id = row.device
  /\ ~Collides(valves, row)

StoreValve(row) ==
  /\ ~Blocked(row) /\ ~KeyCheckWaits(row) /\ Storable(row)
  /\ valves' = Overlay(valves, {row})
  /\ misplaced' =
       IF \E d \in devices : d.id = row.device /\ d.factory # row.factory
       THEN misplaced \cup {row.id} ELSE misplaced
  /\ UNCHANGED <<factories, devices, workOrders, links, tx, placed, moved>>

CreateValve(form) ==
  /\ Complete(form, {"factory", "device", "tag", "serialNumber"})
  /\ StoreValve([id |-> seq.valve, factory |-> form.factory, device |-> form.device,
                 tag |-> form.tag, serialNumber |-> form.serialNumber])
  /\ seq' = [seq EXCEPT !.valve = @ + 1]

UpdateValve(v, form) ==
  /\ v \in valves
  /\ StoreValve(Edited(v, form))
  /\ UNCHANGED seq

AssetEdit ==
  /\ assetEdits < MaxAssetEdits
  /\ assetEdits' = assetEdits + 1
  /\ \/ \E f \in Factory, data \in Data : CreateFactory(f, data) \/ UpdateFactory(f, data)
     \/ \E form \in DeviceForms :
          CreateAdminDevice(form) \/ \E d \in devices : UpdateDevice(d, form)
     \/ \E form \in ValveForms :
          CreateValve(form) \/ \E v \in valves : UpdateValve(v, form)
==============================================================================
