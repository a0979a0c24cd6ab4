---------------------------- MODULE ImportProofs ----------------------------
(***************************************************************************)
(* Proofs about ValveImport, for any number of imports, plants and sheets,  *)
(* and any store to begin with: a row that is reported as written is in     *)
(* the table, and no plant gets two valves with one real serial number.     *)
(***************************************************************************)
EXTENDS ValveImport, TLAPS

---------------------------------------------------------------------------
(* Why the properties hold: the inductive invariant. *)

\* An import that is about to write a row has one, and it names unit and serial number.
WritesUsableRow ==
  \A i \in Import : step[i] \in {"writeRow", "checkRow"} =>
     Len(done[i]) < Len(Rows(i)) /\ ~Unusable(i)

\* Valves are told apart by ids which the sequence has given out.
ValveKeys ==
  /\ \A v \in valves : v.id < seq.valve
  /\ \A v, w \in valves : v.id = w.id => v = w

\* The valve a row has found still carries the row's serial number when it is
\* written: other imports may overwrite it, but only with the same one.
FoundStays ==
  \A i \in Import : step[i] = "writeRow" /\ found[i] # NoValve =>
     \E v \in valves : /\ v.id = found[i] /\ v.factory = Plant(i)
                       /\ v.serialNumber = Row(i).serialNumber

\* Without pushes no factory is locked, and no insert has to wait half-way.
Unlocked ==
  /\ \A p \in Push : tx[p] = NoTx
  /\ \A i \in Import : step[i] # "checkRow"

RowsInv ==
  /\ ImportTypeOK
  /\ WritesUsableRow
  /\ ValveKeys
  /\ FoundStays
  /\ SerialUnique
  /\ RowsLanded

ImportInv == RowsInv /\ Unlocked

---------------------------------------------------------------------------
(* Types *)

\* The rows of a sheet have the types that the statements expect.
LEMMA SheetTypes ==
  ASSUME NEW i \in Import
  PROVE  /\ Plant(i) \in Factory
         /\ Rows(i) \in Seq(SheetRow) /\ Len(Rows(i)) \in Nat
         /\ \A u \in NextUnit(i) : u \in Unit
<1>1. Plant(i) \in Factory /\ Rows(i) \in Seq(SheetRow)
  BY SheetAssumption DEF Plant, Rows
<1>2. ASSUME NEW k \in RowsLeft(i)
      PROVE  Rows(i)[k].unit \in Unit
  <2>1. Rows(i)[k] \in SheetRow /\ Rows(i)[k].unit # Absent
    BY <1>1 DEF RowsLeft
  <2> QED
    BY <2>1 DEF SheetRow
<1>3. \A u \in NextUnit(i) : u \in Unit
  BY <1>2 DEF NextUnit
<1> QED
  BY <1>1, <1>3

\* The row that is written.
LEMMA RowType ==
  ASSUME NEW i \in Import, ImportTypeOK, WritesUsableRow,
         step[i] \in {"writeRow", "checkRow"}
  PROVE  /\ Row(i) \in SheetRow /\ Row(i).unit \in Unit
         /\ Row(i).serialNumber \in SerialNumber
         /\ deviceOf[i][Row(i).unit] \in Nat
         /\ NewRow(i) \in Valve
<1>1. /\ done[i] \in Seq(RowOutcome) /\ Len(done[i]) \in Nat /\ Len(done[i]) < Len(Rows(i))
      /\ ~Unusable(i)
  BY DEF ImportTypeOK, WritesUsableRow
<1>2. Row(i) \in SheetRow
  BY <1>1, SheetTypes DEF Row
<1>3. Row(i).unit \in Unit /\ Row(i).serialNumber \in SerialNumber
  BY <1>1, <1>2 DEF Unusable, SheetRow
<1>4. deviceOf[i][Row(i).unit] \in Nat /\ seq.valve \in Nat \ {0} /\ found[i] \in Nat
  BY <1>3 DEF ImportTypeOK, StoreTypeOK
<1>5. NewRow(i) \in Valve
  BY <1>2, <1>3, <1>4, SheetTypes DEF NewRow, Valve, NoValve, SheetRow
<1> QED
  BY <1>2, <1>3, <1>4, <1>5

\* A row ends without being written.
Skips(i) ==
  /\ step[i] \in {"findRow", "writeRow", "checkRow"}
  /\ UNCHANGED <<storeVars, deviceOf, found>>
  /\ Finish(i, "skipped")
  /\ Len(done[i]) < Len(Rows(i))

\* A row that ends is one more in the summary.
LEMMA FinishTypes ==
  ASSUME NEW i \in Import, NEW outcome \in RowOutcome, ImportTypeOK, WritesUsableRow,
         Finish(i, outcome), Len(done[i]) < Len(Rows(i))
  PROVE  /\ done' \in [Import -> Seq(RowOutcome)] /\ step' \in [Import -> ImportSteps]
         /\ \A j \in Import : Len(done'[j]) <= Len(Rows(j))
         /\ done'[i] = Append(done[i], outcome) /\ step'[i] = "findRow"
         /\ \A j \in Import \ {i} : done'[j] = done[j] /\ step'[j] = step[j]
         /\ WritesUsableRow'
<1>1. /\ step' = [step EXCEPT ![i] = "findRow"]
      /\ done' = [done EXCEPT ![i] = Append(done[i], outcome)]
  BY DEF Finish, MoveTo
<1>2. /\ done[i] \in Seq(RowOutcome) /\ done \in [Import -> Seq(RowOutcome)]
      /\ Len(done[i]) \in Nat /\ Len(Rows(i)) \in Nat
  BY SheetTypes DEF ImportTypeOK
<1>3. /\ done'[i] = Append(done[i], outcome) /\ step'[i] = "findRow"
      /\ \A j \in Import \ {i} : done'[j] = done[j] /\ step'[j] = step[j]
  BY <1>1 DEF ImportTypeOK
<1>4. done'[i] \in Seq(RowOutcome) /\ Len(done'[i]) = Len(done[i]) + 1
  BY <1>2, <1>3
<1>5. done' \in [Import -> Seq(RowOutcome)]
  BY <1>1, <1>2, <1>3, <1>4
<1>6. Len(done'[i]) <= Len(Rows(i))
  BY <1>2, <1>4
<1>7. \A j \in Import : Len(done'[j]) <= Len(Rows(j))
  BY <1>3, <1>6 DEF ImportTypeOK
<1>8. step' \in [Import -> ImportSteps]
  BY <1>1 DEF ImportTypeOK, ImportSteps
<1>9. WritesUsableRow'
  BY <1>3 DEF WritesUsableRow, Unusable, Row
<1> QED
  BY <1>3, <1>5, <1>7, <1>8, <1>9

\* Steps that write no row of the tables and end no row of the sheet.
Reads(i) ==
  /\ UNCHANGED <<storeVars, done>> /\ orphaned' \subseteq orphaned
  /\ \E s \in ImportSteps \ {"writeRow", "checkRow"} : step' = [step EXCEPT ![i] = s]
  /\ \/ UNCHANGED deviceOf
     \/ \E u \in NextUnit(i) : \E d \in PlantDevices(i, u) : deviceOf' = [deviceOf EXCEPT ![i][u] = d.id]
  /\ UNCHANGED found

LEMMA ReadsTypes ==
  ASSUME NEW i \in Import, ImportTypeOK, WritesUsableRow, Reads(i)
  PROVE  ImportTypeOK' /\ WritesUsableRow'
<1>1. deviceOf' \in [Import -> [Unit -> Nat]]
  <2>1. CASE UNCHANGED deviceOf
    BY <2>1 DEF ImportTypeOK
  <2>2. CASE \E u \in NextUnit(i) : \E d \in PlantDevices(i, u) : deviceOf' = [deviceOf EXCEPT ![i][u] = d.id]
    <3>1. PICK u \in NextUnit(i), d \in devices : deviceOf' = [deviceOf EXCEPT ![i][u] = d.id]
      BY <2>2 DEF PlantDevices
    <3>2. d.id \in Nat
      BY DEF ImportTypeOK, StoreTypeOK, Device
    <3> QED
      BY <3>1, <3>2 DEF ImportTypeOK
  <2> QED
    BY <2>1, <2>2 DEF Reads
<1>2. ImportTypeOK'
  <2>1. step' \in [Import -> ImportSteps]
    BY DEF Reads, ImportTypeOK
  <2>2. StoreTypeOK'
    BY DEF Reads, ImportTypeOK, StoreTypeOK, storeVars
  <2>3. found' = found /\ done' = done /\ orphaned' \subseteq Import
    BY DEF Reads, ImportTypeOK
  <2> QED
    BY <1>1, <2>1, <2>2, <2>3 DEF ImportTypeOK
<1>3. WritesUsableRow'
  BY DEF Reads, ImportTypeOK, WritesUsableRow, Unusable, Row
<1> QED
  BY <1>2, <1>3

LEMMA SkipsTypes ==
  ASSUME NEW i \in Import, ImportTypeOK, WritesUsableRow, Skips(i), UNCHANGED orphaned
  PROVE  ImportTypeOK' /\ WritesUsableRow'
<1>1. "skipped" \in RowOutcome /\ Finish(i, "skipped") /\ Len(done[i]) < Len(Rows(i))
  BY DEF RowOutcome, Skips
<1> QED
  BY <1>1, FinishTypes DEF Skips, ImportTypeOK, StoreTypeOK, storeVars

\* A new device is of its type, and has the next id.
LEMMA CreateUnitTypes ==
  ASSUME NEW i \in Import, ImportTypeOK, WritesUsableRow, CreateUnit(i), UNCHANGED orphaned
  PROVE  /\ ImportTypeOK' /\ WritesUsableRow'
         /\ seq'.device = seq.device + 1 /\ seq'.valve = seq.valve /\ seq.device \in Nat
         /\ step'[i] \notin {"writeRow", "checkRow"}
         /\ \A j \in Import \ {i} : step'[j] = step[j]
<1>1. PICK u \in NextUnit(i) :
        /\ devices' = devices \cup {[id |-> seq.device, factory |-> Plant(i), name |-> u]}
        /\ MapUnit(i, u, seq.device)
  BY DEF CreateUnit
<1>2. /\ seq' = [seq EXCEPT !.device = @ + 1]
      /\ UNCHANGED <<factories, valves, workOrders, links, tx, found, done>>
  BY DEF CreateUnit
<1>3. /\ seq.device \in Nat \ {0} /\ seq' \in [device : Nat \ {0}, valve : Nat \ {0}]
      /\ seq'.valve = seq.valve /\ seq'.device = seq.device + 1
  <2>1. seq \in [device : Nat \ {0}, valve : Nat \ {0}]
    BY DEF ImportTypeOK, StoreTypeOK
  <2> QED
    BY <1>2, <2>1
<1>4. /\ \E s \in {"findRow", "findUnit"} : step' = [step EXCEPT ![i] = s]
      /\ deviceOf' = [deviceOf EXCEPT ![i][u] = seq.device]
  BY <1>1 DEF MapUnit, MoveTo
<1>5. /\ step' \in [Import -> ImportSteps] /\ step'[i] \notin {"writeRow", "checkRow"}
      /\ \A j \in Import \ {i} : step'[j] = step[j]
  BY <1>4 DEF ImportTypeOK, ImportSteps
<1>6. deviceOf' \in [Import -> [Unit -> Nat]]
  BY <1>3, <1>4 DEF ImportTypeOK
<1>7. [id |-> seq.device, factory |-> Plant(i), name |-> u] \in Device
  BY <1>3, SheetTypes DEF Device
<1>8. ImportTypeOK'
  BY <1>1, <1>2, <1>3, <1>5, <1>6, <1>7 DEF ImportTypeOK, StoreTypeOK
<1>9. WritesUsableRow'
  BY <1>2, <1>5 DEF WritesUsableRow, Unusable, Row
<1> QED
  BY <1>3, <1>5, <1>8, <1>9

LEMMA FindRowTypes ==
  ASSUME NEW i \in Import, ImportTypeOK, WritesUsableRow, FindRow(i), UNCHANGED orphaned
  PROVE  ImportTypeOK' /\ WritesUsableRow'
<1>1. /\ step' = [step EXCEPT ![i] = "writeRow"]
      /\ UNCHANGED <<storeVars, deviceOf, done>>
      /\ Len(done[i]) < Len(Rows(i)) /\ ~Unusable(i)
  BY DEF FindRow, MoveTo
<1>2. PICK id \in Nat : found' = [found EXCEPT ![i] = id]
  BY DEF FindRow, SameSerial, ImportTypeOK, StoreTypeOK, Valve, NoValve
<1>3. ImportTypeOK'
  BY <1>1, <1>2 DEF ImportTypeOK, StoreTypeOK, ImportSteps, storeVars
<1>4. \A j \in Import \ {i} : step'[j] = step[j]
  BY <1>1 DEF ImportTypeOK
<1>5. WritesUsableRow'
  BY <1>1, <1>4 DEF WritesUsableRow, Unusable, Row
<1> QED
  BY <1>3, <1>5

\* A written valve is of its type; the sequence goes on if it is new.
LEMMA WriteRowTypes ==
  ASSUME NEW i \in Import, ImportTypeOK, WritesUsableRow, WriteRow(i), UNCHANGED orphaned
  PROVE  /\ ImportTypeOK' /\ WritesUsableRow'
         /\ NewRow(i) \in Valve
         /\ seq'.valve \in Nat /\ seq'.device = seq.device
         /\ seq'.valve = IF found[i] = NoValve THEN seq.valve + 1 ELSE seq.valve
<1> DEFINE row == NewRow(i)
<1>1. /\ step[i] = "writeRow" /\ valves' = Overlay(valves, {row})
      /\ seq' = [seq EXCEPT !.valve = IF found[i] = NoValve THEN @ + 1 ELSE @]
      /\ UNCHANGED <<factories, devices, workOrders, links, tx, deviceOf, found>>
  BY DEF WriteRow
<1>2. PICK outcome \in RowOutcome : Finish(i, outcome)
  BY DEF WriteRow, RowOutcome
<1>3. Len(done[i]) < Len(Rows(i))
  BY <1>1 DEF WritesUsableRow
<1>4. row \in Valve
  BY <1>1, RowType
<1>5. valves' \subseteq Valve
  BY <1>1, <1>4 DEF Overlay, ImportTypeOK, StoreTypeOK
<1>6. /\ seq' \in [device : Nat \ {0}, valve : Nat \ {0}] /\ seq'.device = seq.device
      /\ seq'.valve = IF found[i] = NoValve THEN seq.valve + 1 ELSE seq.valve
  <2>1. seq \in [device : Nat \ {0}, valve : Nat \ {0}]
    BY DEF ImportTypeOK, StoreTypeOK
  <2>2. CASE found[i] = NoValve
    BY <2>1, <2>2, <1>1
  <2>3. CASE found[i] # NoValve
    BY <2>1, <2>3, <1>1
  <2> QED
    BY <2>2, <2>3
<1>7. ImportTypeOK'
  BY <1>1, <1>2, <1>3, <1>5, <1>6, FinishTypes DEF ImportTypeOK, StoreTypeOK
<1>8. WritesUsableRow'
  BY <1>2, <1>3, FinishTypes
<1> QED
  BY <1>4, <1>6, <1>7, <1>8

\* A row that waits for its factory: as if it had been found.
LEMMA BeginRowTypes ==
  ASSUME NEW i \in Import, ImportTypeOK, WritesUsableRow, BeginRow(i), UNCHANGED orphaned
  PROVE  /\ ImportTypeOK' /\ WritesUsableRow'
         /\ seq'.device = seq.device /\ tx' = tx
<1>1. /\ step[i] = "writeRow" /\ step' = [step EXCEPT ![i] = "checkRow"]
      /\ seq' = [seq EXCEPT !.valve = IF found[i] = NoValve THEN @ + 1 ELSE @]
      /\ found' = [found EXCEPT ![i] = NewRow(i).id]
      /\ UNCHANGED <<tables, tx, deviceOf, done>>
  BY DEF BeginRow, MoveTo
<1>2. NewRow(i).id \in Nat
  BY <1>1, RowType DEF Valve
<1>3. seq' \in [device : Nat \ {0}, valve : Nat \ {0}] /\ seq'.device = seq.device
  <2>1. seq \in [device : Nat \ {0}, valve : Nat \ {0}]
    BY DEF ImportTypeOK, StoreTypeOK
  <2> QED
    BY <1>1, <2>1
<1>4. /\ step' \in [Import -> ImportSteps] /\ found' \in [Import -> Nat]
      /\ \A j \in Import : step'[j] \in {"writeRow", "checkRow"} =>
           step[j] \in {"writeRow", "checkRow"}
  BY <1>1, <1>2 DEF ImportTypeOK, ImportSteps
<1>5. ImportTypeOK'
  BY <1>1, <1>3, <1>4 DEF ImportTypeOK, StoreTypeOK, tables
<1>6. WritesUsableRow'
  BY <1>1, <1>4 DEF WritesUsableRow, Unusable, Row
<1> QED
  BY <1>1, <1>3, <1>5, <1>6

LEMMA EndRowTypes ==
  ASSUME NEW i \in Import, ImportTypeOK, WritesUsableRow, EndRow(i), UNCHANGED orphaned
  PROVE  /\ ImportTypeOK' /\ WritesUsableRow'
         /\ UNCHANGED <<seq, tx>>
<1>1. /\ step[i] = "checkRow" /\ valves' = Overlay(valves, {NewRow(i)})
      /\ UNCHANGED <<factories, devices, workOrders, links, seq, tx, deviceOf, found>>
  BY DEF EndRow
<1>2. PICK outcome \in RowOutcome : Finish(i, outcome)
  BY DEF EndRow, RowOutcome
<1>3. Len(done[i]) < Len(Rows(i))
  BY <1>1 DEF WritesUsableRow
<1>4. valves' \subseteq Valve
  BY <1>1, RowType DEF Overlay, ImportTypeOK, StoreTypeOK
<1>5. ImportTypeOK'
  BY <1>1, <1>2, <1>3, <1>4, FinishTypes DEF ImportTypeOK, StoreTypeOK
<1>6. WritesUsableRow'
  BY <1>2, <1>3, FinishTypes
<1> QED
  BY <1>1, <1>5, <1>6

\* Every step of an import is one of these.
LEMMA ImportCases ==
  ASSUME NEW i \in Import, WritesUsableRow,
         \/ StartImport(i) \/ AdvanceImport(i)
         \/ UNCHANGED orphaned /\ (BreakUnit(i) \/ BreakRow(i) \/ LoseImport(i))
  PROVE  \/ Reads(i)
         \/ /\ UNCHANGED orphaned
            /\ \/ Skips(i) \/ CreateUnit(i) \/ FindRow(i) \/ WriteRow(i)
               \/ BeginRow(i) \/ EndRow(i)
<1>1. CASE StartImport(i)
  BY <1>1 DEF StartImport, MoveTo, Reads, ImportSteps
<1>2. CASE FindUnit(i) /\ UNCHANGED orphaned
  <2>1. PICK u \in NextUnit(i) :
          \/ \E d \in PlantDevices(i, u) : MapUnit(i, u, d.id)
          \/ MoveTo(i, "createUnit") /\ UNCHANGED deviceOf
    BY <1>2 DEF FindUnit
  <2>2. UNCHANGED <<storeVars, found, done>>
    BY <1>2 DEF FindUnit
  <2>3. /\ \E s \in ImportSteps \ {"writeRow", "checkRow"} : step' = [step EXCEPT ![i] = s]
        /\ UNCHANGED deviceOf \/ \E d \in PlantDevices(i, u) : deviceOf' = [deviceOf EXCEPT ![i][u] = d.id]
    BY <2>1 DEF MapUnit, MoveTo, ImportSteps
  <2> QED
    BY <2>2, <2>3, <1>2 DEF Reads
<1>3. CASE (RefuseUnit(i) \/ BreakUnit(i)) /\ UNCHANGED orphaned
  BY <1>3 DEF RefuseUnit, BreakUnit, FailImport, MoveTo, ImportSteps, Reads
<1>4. CASE (FinishImport(i) \/ LoseImport(i)) /\ UNCHANGED orphaned
  BY <1>4 DEF FinishImport, LoseImport, MoveTo, ImportSteps, Reads
<1>5. CASE (SkipRow(i) \/ RefuseRow(i) \/ RefuseEntry(i) \/ BreakRow(i)) /\ UNCHANGED orphaned
  BY <1>5 DEF SkipRow, RefuseRow, RefuseEntry, BreakRow, Skips, WritesUsableRow
<1> QED
  BY <1>1, <1>2, <1>3, <1>4, <1>5 DEF AdvanceImport

\* So every step keeps the types.
LEMMA ImportTypesKept ==
  ASSUME ImportTypeOK, WritesUsableRow, ImportNext
  PROVE  ImportTypeOK' /\ WritesUsableRow'
<1> PICK i \in Import :
      \/ StartImport(i) \/ AdvanceImport(i)
      \/ UNCHANGED orphaned /\ (BreakUnit(i) \/ BreakRow(i) \/ LoseImport(i))
  BY DEF ImportNext
<1> QED
  BY ImportCases, ReadsTypes, SkipsTypes, CreateUnitTypes, FindRowTypes, WriteRowTypes,
     BeginRowTypes, EndRowTypes

---------------------------------------------------------------------------
(* The steps *)

LEMMA ReadsKeep ==
  ASSUME NEW i \in Import, RowsInv, Reads(i)
  PROVE  RowsInv'
<1> USE DEF RowsInv
<1>1. /\ UNCHANGED <<storeVars, found, done>> /\ step'[i] # "writeRow"
      /\ \A j \in Import \ {i} : step'[j] = step[j]
  BY DEF Reads, ImportTypeOK
<1>2. ValveKeys' /\ SerialUnique' /\ RowsLanded'
  BY <1>1 DEF ValveKeys, SerialUnique, Collides, RowsLanded, storeVars
<1>3. FoundStays'
  BY <1>1 DEF FoundStays, Row, storeVars
<1> QED
  BY <1>2, <1>3, ReadsTypes

LEMMA SkipsKeep ==
  ASSUME NEW i \in Import, RowsInv, Skips(i), UNCHANGED orphaned
  PROVE  RowsInv'
<1> USE DEF RowsInv, Skips, storeVars
<1>1. /\ done'[i] = Append(done[i], "skipped") /\ step'[i] = "findRow"
      /\ \A j \in Import \ {i} : done'[j] = done[j] /\ step'[j] = step[j]
  BY FinishTypes DEF RowOutcome
<1>2. ValveKeys' /\ SerialUnique'
  BY DEF ValveKeys, SerialUnique, Collides
<1>3. FoundStays'
  BY <1>1 DEF FoundStays, Row
<1>4. RowsLanded'
  <2> SUFFICES ASSUME NEW j \in Import, NEW k \in DOMAIN done'[j], done'[j][k] # "skipped"
               PROVE  \E v \in valves : /\ v.factory = Plant(j)
                                        /\ v.serialNumber = Rows(j)[k].serialNumber
    BY DEF RowsLanded
  <2>1. done[j] \in Seq(RowOutcome)
    BY DEF ImportTypeOK
  <2>2. k \in DOMAIN done[j] /\ done[j][k] = done'[j][k]
    BY <2>1, <1>1
  <2> QED
    BY <2>2 DEF RowsLanded
<1> QED
  BY <1>2, <1>3, <1>4, SkipsTypes

\* A new device disturbs no valve.
LEMMA CreateUnitKeeps ==
  ASSUME NEW i \in Import, RowsInv, CreateUnit(i), UNCHANGED orphaned
  PROVE  RowsInv'
<1> USE DEF RowsInv
<1>1. UNCHANGED <<factories, valves, workOrders, links, tx, found, done>>
  BY DEF CreateUnit
<1>2. ValveKeys' /\ SerialUnique' /\ RowsLanded'
  BY <1>1, CreateUnitTypes DEF ValveKeys, SerialUnique, Collides, RowsLanded
<1>3. FoundStays'
  BY <1>1, CreateUnitTypes DEF FoundStays, Row
<1> QED
  BY <1>2, <1>3, CreateUnitTypes

\* What a row finds has its serial number.
LEMMA FindRowKeeps ==
  ASSUME NEW i \in Import, RowsInv, FindRow(i), UNCHANGED orphaned
  PROVE  RowsInv'
<1> USE DEF RowsInv
<1>1. step' = [step EXCEPT ![i] = "writeRow"] /\ UNCHANGED <<storeVars, deviceOf, done>>
  BY DEF FindRow, MoveTo
<1>2. PICK id : /\ found' = [found EXCEPT ![i] = id]
                /\ \/ id = NoValve
                   \/ \E v \in valves : /\ v.id = id /\ v.factory = Plant(i)
                                        /\ v.serialNumber = Row(i).serialNumber
  BY DEF FindRow, SameSerial
<1>3. /\ step'[i] = "writeRow" /\ found'[i] = id
      /\ \A j \in Import \ {i} : step'[j] = step[j] /\ found'[j] = found[j]
  BY <1>1, <1>2 DEF ImportTypeOK
<1>4. ValveKeys' /\ SerialUnique' /\ RowsLanded'
  BY <1>1 DEF ValveKeys, SerialUnique, Collides, RowsLanded, storeVars
<1>5. FoundStays'
  <2> SUFFICES ASSUME NEW j \in Import, step'[j] = "writeRow", found'[j] # NoValve
               PROVE  \E v \in valves : /\ v.id = found'[j] /\ v.factory = Plant(j)
                                        /\ v.serialNumber = Row(j).serialNumber
    BY <1>1 DEF FoundStays, Row, storeVars
  <2>1. CASE j = i
    BY <2>1, <1>2, <1>3
  <2>2. CASE j # i
    BY <2>2, <1>3 DEF FoundStays
  <2> QED
    BY <2>1, <2>2
<1> QED
  BY <1>4, <1>5, FindRowTypes

\* A written row is in the table, and what it overwrites had the same plant and
\* serial number.
LEMMA WriteRowKeeps ==
  ASSUME NEW i \in Import, RowsInv, WriteRow(i), UNCHANGED orphaned
  PROVE  RowsInv'
<1> USE DEF RowsInv
<1> DEFINE row == NewRow(i)
<1>1. /\ step[i] = "writeRow" /\ Accepted(i, row)
      /\ valves' = Overlay(valves, {row})
      /\ seq' = [seq EXCEPT !.valve = IF found[i] = NoValve THEN @ + 1 ELSE @]
      /\ UNCHANGED <<factories, devices, workOrders, links, tx, deviceOf, found>>
  BY DEF WriteRow
<1>2. PICK outcome \in {"created", "updated"} :
        /\ done' = [done EXCEPT ![i] = Append(@, outcome)]
        /\ step' = [step EXCEPT ![i] = "findRow"]
  BY DEF WriteRow, Finish, MoveTo
<1>3. /\ Row(i) \in SheetRow /\ Row(i).unit \in Unit /\ Row(i).serialNumber \in SerialNumber
      /\ deviceOf[i][Row(i).unit] \in Nat
  BY <1>1, RowType
<1>4. /\ row.factory = Plant(i) /\ row.serialNumber = Row(i).serialNumber
      /\ row.id = IF found[i] = NoValve THEN seq.valve ELSE found[i]
  BY DEF NewRow
<1>5. seq.valve \in Nat \ {0} /\ found[i] \in Nat /\ \A v \in valves : v.id \in Nat
  BY DEF ImportTypeOK, StoreTypeOK, Valve
<1>7. row \in Valve /\ ImportTypeOK' /\ WritesUsableRow'
  BY WriteRowTypes
<1>6. row.id < seq'.valve /\ seq.valve <= seq'.valve /\ seq'.valve \in Nat
  <2>1. CASE found[i] = NoValve
    BY <2>1, <1>4, <1>5, WriteRowTypes
  <2>2. CASE found[i] # NoValve
    <3>1. PICK v \in valves : v.id = found[i]
      BY <2>2, <1>1 DEF FoundStays
    <3>2. v.id < seq.valve
      BY DEF ValveKeys
    <3>3. row.id = v.id /\ seq'.valve = seq.valve
      BY <2>2, <3>1, <1>4, WriteRowTypes
    <3> QED
      BY <1>5, <3>2, <3>3
  <2> QED
    BY <2>1, <2>2
\* The overwritten row is the one that was found.
<1>8. \A v \in valves : v.id = row.id =>
        v.factory = row.factory /\ v.serialNumber = row.serialNumber
  <2> SUFFICES ASSUME NEW v \in valves, v.id = row.id
               PROVE  v.factory = row.factory /\ v.serialNumber = row.serialNumber
    OBVIOUS
  <2>1. found[i] # NoValve
    BY <1>4, <1>5 DEF ValveKeys
  <2>2. PICK w \in valves : /\ w.id = found[i] /\ w.factory = Plant(i)
                            /\ w.serialNumber = Row(i).serialNumber
    BY <2>1, <1>1 DEF FoundStays
  <2>3. v = w
    BY <2>1, <2>2, <1>4 DEF ValveKeys
  <2> QED
    BY <2>2, <2>3, <1>4
<1>9. /\ row \in valves'
      /\ \A v \in valves' : v = row \/ (v \in valves /\ v.id # row.id)
      /\ \A v \in valves : v.id # row.id => v \in valves'
  BY <1>1 DEF Overlay
\* So what was in the table for a plant and serial number is in it still.
<1>10. ASSUME NEW v \in valves
       PROVE  \E w \in valves' : /\ w.id = v.id /\ w.factory = v.factory
                                 /\ w.serialNumber = v.serialNumber
  <2>1. CASE v.id = row.id
    BY <2>1, <1>8, <1>9
  <2>2. CASE v.id # row.id
    BY <2>2, <1>9
  <2> QED
    BY <2>1, <2>2
<1>11. /\ done[i] \in Seq(RowOutcome) /\ done \in [Import -> Seq(RowOutcome)]
       /\ outcome \in RowOutcome /\ Len(done[i]) \in Nat /\ Len(Rows(i)) \in Nat
       /\ Len(done[i]) < Len(Rows(i))
  BY <1>1, SheetTypes DEF ImportTypeOK, WritesUsableRow, RowOutcome
<1>12. /\ done'[i] = Append(done[i], outcome)
       /\ \A j \in Import \ {i} : done'[j] = done[j]
       /\ step'[i] = "findRow" /\ \A j \in Import \ {i} : step'[j] = step[j]
  BY <1>2, <1>11 DEF ImportTypeOK
<1>16. ValveKeys'
  BY <1>5, <1>6, <1>9 DEF ValveKeys
<1>17. FoundStays'
  <2> SUFFICES ASSUME NEW j \in Import, step'[j] = "writeRow", found'[j] # NoValve
               PROVE  \E v \in valves' : /\ v.id = found'[j] /\ v.factory = Plant(j)
                                         /\ v.serialNumber = Row(j)'.serialNumber
    BY DEF FoundStays
  <2>1. j # i /\ step[j] = "writeRow" /\ found[j] # NoValve /\ done'[j] = done[j]
    BY <1>1, <1>12
  <2>2. PICK v \in valves : /\ v.id = found[j] /\ v.factory = Plant(j)
                            /\ v.serialNumber = Row(j).serialNumber
    BY <2>1 DEF FoundStays
  <2> QED
    BY <2>1, <2>2, <1>1, <1>10 DEF Row
<1>18. SerialUnique'
  <2> SUFFICES ASSUME NEW v \in valves', NEW w \in valves',
                      v.serialNumber \notin Placeholder \cup {Absent}, w.id # v.id,
                      w.factory = v.factory, w.serialNumber = v.serialNumber
               PROVE  FALSE
    BY DEF SerialUnique, Collides
  <2>1. ~Collides(valves, row)
    BY <1>1 DEF Accepted
  <2> QED
    BY <2>1, <1>9 DEF SerialUnique, Collides
<1>19. RowsLanded'
  <2> SUFFICES ASSUME NEW j \in Import, NEW k \in DOMAIN done'[j], done'[j][k] # "skipped"
               PROVE  \E v \in valves' : /\ v.factory = Plant(j)
                                         /\ v.serialNumber = Rows(j)[k].serialNumber
    BY DEF RowsLanded
  <2>1. CASE k \in DOMAIN done[j] /\ done[j][k] = done'[j][k]
    <3>1. PICK v \in valves : v.factory = Plant(j) /\ v.serialNumber = Rows(j)[k].serialNumber
      BY <2>1 DEF RowsLanded
    <3> QED
      BY <3>1, <1>10
  <2>2. CASE ~(k \in DOMAIN done[j] /\ done[j][k] = done'[j][k])
    <3>1. j = i
      BY <2>2, <1>12
    <3>2. k \in 1..(Len(done[i]) + 1)
      BY <3>1, <1>11, <1>12
    <3>3. k = Len(done[i]) + 1
      BY <2>2, <3>1, <3>2, <1>11, <1>12
    <3> QED
      BY <3>1, <3>3, <1>4, <1>9 DEF Row
  <2> QED
    BY <2>1, <2>2
<1> QED
  BY <1>7, <1>16, <1>17, <1>18, <1>19

---------------------------------------------------------------------------
(* The invariant *)

\* No insert waits for its factory.
LEMMA NoneWaits ==
  ASSUME NEW i \in Import, Unlocked
  PROVE  ~BeginRow(i) /\ ~EndRow(i)
<1>1. ~FactoryLocked(Plant(i))
  BY SheetTypes, InitialStoresAssumption DEF Unlocked, FactoryLocked, NoTx
<1>2. NewRow(i).factory = Plant(i)
  BY DEF NewRow
<1>3. ~BeginRow(i)
  BY <1>1, <1>2 DEF BeginRow, KeyCheckWaits
<1> QED
  BY <1>3 DEF EndRow, Unlocked

LEMMA StaysUnlocked ==
  ASSUME ImportTypeOK, WritesUsableRow, Unlocked, ImportNext
  PROVE  Unlocked'
<1> PICK i \in Import :
      \/ StartImport(i) \/ AdvanceImport(i)
      \/ UNCHANGED orphaned /\ (BreakUnit(i) \/ BreakRow(i) \/ LoseImport(i))
  BY DEF ImportNext
<1>1. tx' = tx /\ \E s \in ImportSteps \ {"checkRow"} : step' = [step EXCEPT ![i] = s]
  <2>1. CASE Reads(i)
    BY <2>1 DEF Reads, storeVars
  <2>2. CASE CreateUnit(i)
    BY <2>2 DEF CreateUnit, MapUnit, MoveTo, ImportSteps
  <2>3. CASE Skips(i) \/ FindRow(i) \/ WriteRow(i)
    BY <2>3 DEF Skips, FindRow, WriteRow, Finish, MoveTo, storeVars, ImportSteps
  <2> QED
    BY <2>1, <2>2, <2>3, ImportCases, NoneWaits
<1> QED
  BY <1>1 DEF Unlocked, ImportTypeOK

\* One step of an import.
LEMMA StepKeeps ==
  ASSUME ImportInv, ImportNext
  PROVE  ImportInv'
<1> PICK i \in Import :
      \/ StartImport(i) \/ AdvanceImport(i)
      \/ UNCHANGED orphaned /\ (BreakUnit(i) \/ BreakRow(i) \/ LoseImport(i))
  BY DEF ImportNext
<1>1. RowsInv /\ ImportTypeOK /\ WritesUsableRow /\ Unlocked
  BY DEF ImportInv, RowsInv
<1>2. RowsInv'
  BY <1>1, NoneWaits, ImportCases, ReadsKeep, SkipsKeep, CreateUnitKeeps, FindRowKeeps, WriteRowKeeps
<1>3. Unlocked'
  BY <1>1, StaysUnlocked
<1> QED
  BY <1>2, <1>3 DEF ImportInv

\* Before the first import.
LEMMA ImportInitially == ImportInit => ImportInv
<1> SUFFICES ASSUME ImportInit PROVE ImportInv
  OBVIOUS
<1>1. PICK s \in InitialStores :
        /\ factories = s.factories /\ devices = s.devices /\ valves = s.valves
        /\ workOrders = s.workOrders /\ links = s.links /\ seq = s.seq
  BY DEF ImportInit, StoreInit
<1>2. s \in Store /\ tx = [p \in Push |-> NoTx] /\ NoTx \in Tx
  BY InitialStoresAssumption DEF ImportInit, StoreInit, NoTx, Tx
<1>3. StoreTypeOK
  BY <1>1, <1>2 DEF StoreTypeOK, Store
<1>4. /\ step = [i \in Import |-> "idle"] /\ deviceOf = [i \in Import |-> [u \in Unit |-> NoDevice]]
      /\ found = [i \in Import |-> NoValve] /\ done = [i \in Import |-> <<>>]
      /\ orphaned \subseteq Import
  BY DEF ImportInit, ImportStart
<1>5. \A i \in Import : done[i] \in Seq(RowOutcome) /\ Len(done[i]) = 0 /\ DOMAIN done[i] = {}
  BY <1>4
<1>6. \A i \in Import : Len(done[i]) <= Len(Rows(i))
  BY <1>5, SheetTypes
<1>7. ImportTypeOK
  <2>1. done \in [Import -> Seq(RowOutcome)]
    BY <1>4
  <2> QED
    BY <2>1, <1>3, <1>4, <1>6 DEF ImportTypeOK, ImportSteps, NoDevice, NoValve
<1>8. ValveKeys /\ SerialUnique
  BY <1>1, InitialStoresAssumption DEF ValveKeys, SerialUnique
<1>9. WritesUsableRow /\ FoundStays /\ RowsLanded /\ Unlocked
  BY <1>2, <1>4, <1>5 DEF WritesUsableRow, FoundStays, RowsLanded, Unlocked
<1> QED
  BY <1>7, <1>8, <1>9 DEF ImportInv, RowsInv

\* While only imports write, their invariant holds: FactoryService.import finds
\* and writes in separate statements without a transaction.
THEOREM ImportInvariant == ImportSpec => []ImportInv
<1>1. ImportInv /\ [ImportNext]_<<storeVars, importVars>> => ImportInv'
  <2> SUFFICES ASSUME ImportInv, [ImportNext]_<<storeVars, importVars>> PROVE ImportInv'
    OBVIOUS
  <2>1. CASE ImportNext
    BY <2>1, StepKeeps
  <2>2. CASE UNCHANGED <<storeVars, importVars>>
    BY <2>2 DEF ImportInv, RowsInv, Unlocked, ImportTypeOK, StoreTypeOK, WritesUsableRow, Unusable, Row, ValveKeys,
                FoundStays, SerialUnique, Collides, RowsLanded, storeVars, importVars
  <2> QED
    BY <2>1, <2>2
<1> QED
  BY <1>1, ImportInitially, PTL DEF ImportSpec

\* A row that an import reports as created or updated is in the table and
\* stays there, whichever imports overwrite it later (factory.service.ts:412).
THEOREM ReportedRowsLand == ImportSpec => []RowsLanded
<1>1. ImportInv => RowsLanded
  BY DEF ImportInv, RowsInv
<1> QED
  BY ImportInvariant, <1>1, PTL

\* However imports race between finding a serial number and creating its valve,
\* no plant gets two valves with one real serial number.
THEOREM SerialsUnique == ImportSpec => []SerialUnique
<1>1. ImportInv => SerialUnique
  BY DEF ImportInv, RowsInv
<1> QED
  BY ImportInvariant, <1>1, PTL

=============================================================================
