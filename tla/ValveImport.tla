----------------------------- MODULE ValveImport -----------------------------
(***************************************************************************)
(* FactoryService.import: an administrator uploads a sheet of valves for    *)
(* one factory.  The handler first finds or creates a device for every      *)
(* unit the sheet names, then finds or creates a valve per row, by serial   *)
(* number.  There is no transaction: every statement commits by itself, so  *)
(* other imports, pushes and deletes run in between.  Its insert of a valve  *)
(* is two steps where the check of the factory must wait for a push.         *)
(***************************************************************************)
EXTENDS AssetStore, SequencesExt

CONSTANTS
  Import,     \* import requests
  Sheet       \* [Import -> the factory it is for and its data rows]

SheetRow == [unit : Unit \cup {Absent}, tag : Tag,
             serialNumber : SerialNumber \cup {Absent}]

ASSUME SheetAssumption ==
  Sheet \in [Import -> [factory : Factory, rows : Seq(SheetRow)]]

VARIABLES
  step,       \* [Import -> the statement the import is about to execute]
  deviceOf,   \* [Import -> deviceMap: the device id of each unit, or NoDevice]
  found,      \* [Import -> id of the valve the current row found, or has been
              \* given by its insert, or NoValve]
  done,       \* [Import -> outcomes of the rows so far, in sheet order]
  orphaned    \* the imports whose factoryId no row has any more: a factory that
              \* is deleted and made again has another id

importVars == <<step, deviceOf, found, done, orphaned>>

ImportSteps == {"idle", "findUnit", "createUnit", "findRow", "writeRow",
                "checkRow", "finished", "failed", "lost"}
RowOutcome  == {"created", "updated", "skipped"}

Rows(i)  == Sheet[i].rows
Plant(i) == Sheet[i].factory

\* The rows whose unit has no device yet.
RowsLeft(i) ==
  {k \in DOMAIN Rows(i) : Rows(i)[k].unit # Absent /\ deviceOf[i][Rows(i)[k].unit] = NoDevice}

\* deviceNames has every unit once, in the order of the sheet: the loop is at
\* the unit of the first row left.
NextUnit(i) == {Rows(i)[k].unit : k \in {j \in RowsLeft(i) : \A l \in RowsLeft(i) : j <= l}}

\* The row being written.
Row(i) == Rows(i)[Len(done[i]) + 1]

ImportStart ==
  /\ step = [i \in Import |-> "idle"]
  /\ deviceOf = [i \in Import |-> [u \in Unit |-> NoDevice]]
  /\ found = [i \in Import |-> NoValve]
  /\ done = [i \in Import |-> <<>>]
  /\ orphaned = {i \in Import : factories[Plant(i)] = None}

---------------------------------------------------------------------------
MoveTo(i, s) == step' = [step EXCEPT ![i] = s]

\* The page it is sent from may still show a factory that has been replaced.
StartImport(i) ==
  /\ step[i] = "idle"
  /\ MoveTo(i, IF \A r \in ToSet(Rows(i)) : r.unit = Absent THEN "findRow" ELSE "findUnit")
  /\ \/ UNCHANGED orphaned
     \/ factories[Plant(i)] # None /\ orphaned' = orphaned \ {i}
  /\ UNCHANGED <<storeVars, deviceOf, found, done>>

\* Remember the device of unit u and look up the next one.
MapUnit(i, u, id) ==
  /\ deviceOf' = [deviceOf EXCEPT ![i][u] = id]
  /\ MoveTo(i, IF \A k \in RowsLeft(i) : Rows(i)[k].unit = u THEN "findRow" ELSE "findUnit")

PlantDevices(i, u) == {d \in devices : i \notin orphaned /\ d.factory = Plant(i) /\ d.name = u}

FindUnit(i) ==
  /\ step[i] = "findUnit"
  /\ \E u \in NextUnit(i) :
       \/ \E d \in PlantDevices(i, u) : MapUnit(i, u, d.id)
       \/ /\ PlantDevices(i, u) = {}
          /\ MoveTo(i, "createUnit")
          /\ UNCHANGED deviceOf
  /\ UNCHANGED <<storeVars, found, done>>

CreateUnit(i) ==
  /\ step[i] = "createUnit"
  /\ i \notin orphaned
  /\ ~FactoryLocked(Plant(i))
  /\ \E u \in NextUnit(i) :
       /\ devices' = devices \cup {[id |-> seq.device, factory |-> Plant(i), name |-> u]}
       /\ MapUnit(i, u, seq.device)
  /\ seq' = [seq EXCEPT !.device = @ + 1]
  /\ UNCHANGED <<factories, valves, workOrders, links, tx, found, done>>

\* Nothing catches an error of the device loop, such as a factory that does
\* not exist: the request fails.
FailImport(i) ==
  /\ MoveTo(i, "failed")
  /\ UNCHANGED <<storeVars, deviceOf, found, done>>

RefuseUnit(i) ==
  /\ step[i] = "createUnit"
  /\ i \in orphaned
  /\ FailImport(i)

Finish(i, outcome) ==
  /\ done' = [done EXCEPT ![i] = Append(@, outcome)]
  /\ MoveTo(i, "findRow")

\* A row without a mapped unit or without a serial number is skipped.
Unusable(i) ==
  \/ Row(i).unit = Absent
  \/ Row(i).serialNumber = Absent

SkipRow(i) ==
  /\ step[i] = "findRow"
  /\ Len(done[i]) < Len(Rows(i))
  /\ Unusable(i)
  /\ Finish(i, "skipped")
  /\ UNCHANGED <<storeVars, deviceOf, found>>

SameSerial(i) ==
  {v \in valves : /\ i \notin orphaned /\ v.factory = Plant(i)
                  /\ v.serialNumber = Row(i).serialNumber}

FindRow(i) ==
  /\ step[i] = "findRow"
  /\ Len(done[i]) < Len(Rows(i))
  /\ ~Unusable(i)
  /\ \/ \E v \in SameSerial(i) : found' = [found EXCEPT ![i] = v.id]
     \/ SameSerial(i) = {} /\ found' = [found EXCEPT ![i] = NoValve]
  /\ MoveTo(i, "writeRow")
  /\ UNCHANGED <<storeVars, deviceOf, done>>

\* Mutant: an upsert by "existing?.id ?? 0".
NewRowZero(i) ==
  [id |-> found[i], factory |-> Plant(i), device |-> deviceOf[i][Row(i).unit],
   tag |-> Row(i).tag, serialNumber |-> Row(i).serialNumber]

NewRow(i) ==
  [id |-> IF found[i] = NoValve THEN seq.valve ELSE found[i],
   factory |-> Plant(i), device |-> deviceOf[i][Row(i).unit],
   tag |-> Row(i).tag, serialNumber |-> Row(i).serialNumber]

\* Mutant: the schema without the partial unique index.
AcceptedTwice(i, row) ==
  /\ found[i] # NoValve => \E v \in valves : v.id = row.id
  /\ i \notin orphaned
  /\ \E d \in devices : d.id = row.device

Accepted(i, row) ==
  /\ found[i] # NoValve => \E v \in valves : v.id = row.id
  /\ i \notin orphaned
  /\ \E d \in devices : d.id = row.device
  /\ ~Collides(valves, row)

\* The rows of statements that have made their row and index entry and wait for
\* the factory: nobody else sees them yet.
Entries == {NewRow(i) : i \in {j \in Import : step[j] = "checkRow"}}

\* Neither a push nor another import holds what the write of the row needs.
Free(row) == ~Blocked(row) /\ \A w \in Entries : ~Holds(w, row)

WriteRow(i) ==
  LET row == NewRow(i) IN
  /\ step[i] = "writeRow"
  /\ Free(row)
  /\ Accepted(i, row)
  /\ ~KeyCheckWaits(row)
  /\ valves' = Overlay(valves, {row})
  /\ seq' = [seq EXCEPT !.valve = IF found[i] = NoValve THEN @ + 1 ELSE @]
  /\ Finish(i, IF found[i] = NoValve THEN "created" ELSE "updated")
  /\ UNCHANGED <<factories, devices, workOrders, links, tx, deviceOf, found>>

\* The same statement while a push holds the factory row: it holds its entry,
\* which that push may come to need.
BeginRow(i) ==
  LET row == NewRow(i) IN
  /\ step[i] = "writeRow"
  /\ Free(row)
  /\ Accepted(i, row)
  /\ KeyCheckWaits(row)
  /\ seq' = [seq EXCEPT !.valve = IF found[i] = NoValve THEN @ + 1 ELSE @]
  /\ found' = [found EXCEPT ![i] = row.id]
  /\ MoveTo(i, "checkRow")
  /\ UNCHANGED <<tables, tx, deviceOf, done>>

EndRow(i) ==
  /\ step[i] = "checkRow"
  /\ i \notin orphaned
  /\ ~FactoryLocked(Plant(i))
  /\ valves' = Overlay(valves, {NewRow(i)})
  /\ Finish(i, IF \E v \in valves : v.id = found[i] THEN "updated" ELSE "created")
  /\ UNCHANGED <<factories, devices, workOrders, links, seq, tx, deviceOf, found>>

\* The factory has been deleted meanwhile.
RefuseEntry(i) ==
  /\ step[i] = "checkRow"
  /\ i \in orphaned
  /\ Finish(i, "skipped")
  /\ UNCHANGED <<storeVars, deviceOf, found>>

\* Mutant: the row is counted before its statement is awaited.
RefuseRowCounted(i) ==
  /\ step[i] = "writeRow"
  /\ Free(NewRow(i))
  /\ ~Accepted(i, NewRow(i))
  /\ Finish(i, "created")
  /\ UNCHANGED <<storeVars, deviceOf, found>>

\* A statement that is refused by a constraint or finds its row gone costs
\* only this row.
RefuseRow(i) ==
  /\ step[i] = "writeRow"
  /\ Free(NewRow(i))
  /\ ~Accepted(i, NewRow(i))
  /\ Finish(i, "skipped")
  /\ UNCHANGED <<storeVars, deviceOf, found>>

FinishImport(i) ==
  /\ step[i] = "findRow"
  /\ Len(done[i]) = Len(Rows(i))
  /\ MoveTo(i, "finished")
  /\ UNCHANGED <<storeVars, deviceOf, found, done>>

\* The server stops: what has been written stays, nobody reads the summary.
LoseImport(i) ==
  /\ step[i] \notin {"idle", "finished", "failed", "lost"}
  /\ MoveTo(i, "lost")
  /\ UNCHANGED <<storeVars, deviceOf, found, done>>

AdvanceImport(i) ==
  /\ UNCHANGED orphaned
  /\ \/ FindUnit(i) \/ CreateUnit(i) \/ RefuseUnit(i) \/ SkipRow(i)
     \/ FindRow(i) \/ WriteRow(i) \/ RefuseRow(i) \/ FinishImport(i)
     \/ BeginRow(i) \/ EndRow(i) \/ RefuseEntry(i)

\* A statement fails for another reason: the connection, a value of the row that
\* Prisma does not accept, or a deadlock.  It has then had no effect.
BreakUnit(i) == step[i] \in {"findUnit", "createUnit"} /\ FailImport(i)

\* Mutant: the row is counted before its statement is awaited.
BreakRowCounted(i) ==
  /\ step[i] \in {"writeRow", "checkRow"}
  /\ Finish(i, "created")
  /\ UNCHANGED <<storeVars, deviceOf, found>>

BreakRow(i) ==
  /\ \/ step[i] \in {"writeRow", "checkRow"}
     \/ step[i] = "findRow" /\ Len(done[i]) < Len(Rows(i)) /\ ~Unusable(i)
  /\ Finish(i, "skipped")
  /\ UNCHANGED <<storeVars, deviceOf, found>>

ImportNext ==
  \E i \in Import :
    \/ StartImport(i) \/ AdvanceImport(i)
    \/ UNCHANGED orphaned /\ (BreakUnit(i) \/ BreakRow(i) \/ LoseImport(i))

ImportInit == StoreInit /\ ImportStart

ImportSpec == ImportInit /\ [][ImportNext]_<<storeVars, importVars>>

---------------------------------------------------------------------------
(* Properties *)

\* The types of an import's own state.
ImportTypeOK ==
  /\ StoreTypeOK
  /\ step \in [Import -> ImportSteps]
  /\ deviceOf \in [Import -> [Unit -> Nat]]
  /\ found \in [Import -> Nat]
  /\ done \in [Import -> Seq(RowOutcome)]
  /\ \A i \in Import : Len(done[i]) <= Len(Rows(i))
  /\ orphaned \subseteq Import

\* While only imports write, a row reported as created or updated is in the
\* table afterwards and stays: a valve of the factory carries its serial.
RowsLanded ==
  \A i \in Import : \A k \in DOMAIN done[i] : done[i][k] # "skipped" =>
     \E v \in valves : /\ v.factory = Plant(i)
                       /\ v.serialNumber = Rows(i)[k].serialNumber

\* A factory never has two valves with one real serial number, although
\* imports look a serial up and create the valve in separate statements.
SerialUnique ==
  \A v \in valves : ~Collides(valves, v)

\* The summaries of concurrent imports count every new valve exactly once.
NewValves == {v \in valves : \A s \in InitialStores : v.id >= s.seq.valve}
CreatedRows ==
  UNION {{<<i, k>> : k \in {j \in DOMAIN done[i] : done[i][j] = "created"}} : i \in Import}
CreatedIsNew == Cardinality(CreatedRows) = Cardinality(NewValves)

\* The sheet's placeholder rows stay valves of their own: a finished import
\* leaves at least as many as it has reported.
PlaceholdersKept ==
  \A i \in Import : step[i] = "finished" =>
     \A s \in Placeholder :
        Cardinality({v \in valves : v.factory = Plant(i) /\ v.serialNumber = s}) >=
          Cardinality({k \in DOMAIN done[i] : /\ done[i][k] # "skipped"
                                              /\ Rows(i)[k].serialNumber = s})
===============================================================================
