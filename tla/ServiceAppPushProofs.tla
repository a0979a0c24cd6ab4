------------------------ MODULE ServiceAppPushProofs ------------------------
(***************************************************************************)
(* Proofs about ServiceAppPush, for any number of pushes, servers, plants   *)
(* and payloads and any initial store.  PushInv is an invariant, and with   *)
(* it the uniqueness of devices and the agreement of answer, log and        *)
(* database.  OrderInv is one, and with it what a push may do to the work   *)
(* orders, their links and the tags of a plant, while others push and       *)
(* administrators delete.                                                   *)
(***************************************************************************)
EXTENDS ServiceAppPush, FiniteSetTheorems, TLAPS

---------------------------------------------------------------------------
(* What the payload offers at each step *)

\* The fields of a request have the types the statements expect.
LEMMA RequestTypes ==
  ASSUME NEW p \in Push
  PROVE  /\ FactoryOf(p) \in Factory
         /\ Payload[p].serial \in WorkOrderNo
         /\ Payload[p].data \in Data
         /\ Payload[p].valves \in Seq(PushedValve)
         /\ Len(Payload[p].valves) \in Nat
  BY PayloadAssumption DEF FactoryOf

\* Inside the loop the current entry is an element of the request.
LEMMA EntryType ==
  ASSUME NEW p \in Push, CursorInLoop, pc[p] \in LoopSteps
  PROVE  /\ Entry(p).tag \in Tag
         /\ Entry(p).unit \in Unit \cup {Absent}
         /\ Entry(p).serialNumber \in SerialNumber \cup {Absent}
<1>1. cursor[p].index \in 1..Len(Payload[p].valves)
  BY DEF CursorInLoop
<1>2. Payload[p].valves[cursor[p].index] \in PushedValve
  BY <1>1, RequestTypes
<1> QED
  BY <1>2 DEF Entry, PushedValve

\* "Nothing yet" is a transaction.
LEMMA NoTxType == NoTx \in Tx
  BY DEF NoTx, Tx

\* A transaction's view of the devices and valves holds rows of their types.
LEMMA ViewTypes ==
  ASSUME NEW p \in Push, StoreTypeOK
  PROVE  ViewDevices(p) \subseteq Device /\ ViewValves(p) \subseteq Valve
<1>1. tx[p].devices \subseteq Device /\ tx[p].valves \subseteq Valve
  BY DEF StoreTypeOK, Tx
<1> QED
  BY <1>1 DEF StoreTypeOK, ViewDevices, ViewValves, Overlay

---------------------------------------------------------------------------
(* Type correctness *)

\* The variables of the pushes themselves.
OwnTypes ==
  /\ pc \in [Push -> Steps]
  /\ cursor \in [Push -> [index : Nat, device : Nat, valve : Nat]]
  /\ log \in [Push -> {None, "pending", "success", "failed"}]
  /\ answer \in [Push -> {None, 200, 500}]
  /\ committed \subseteq Push

\* Moving the loop on keeps its index inside the request.
LEMMA LoopTypes ==
  ASSUME NEW p \in Push, NEW i \in Nat \ {0}, OwnTypes, CursorInLoop, Loop(p, i),
         UNCHANGED <<log, answer, committed>>
  PROVE  OwnTypes' /\ CursorInLoop'
<1>1. [NoCursor EXCEPT !.index = i] = [index |-> i, device |-> 0, valve |-> 0]
  BY DEF NoCursor, NoDevice, NoValve
<1>2. cursor' = [cursor EXCEPT ![p] = [index |-> i, device |-> 0, valve |-> 0]]
  BY <1>1 DEF Loop
<1>3. pc' = [pc EXCEPT ![p] = IF i <= Len(Payload[p].valves) THEN "findDevice" ELSE "commit"]
  BY DEF Loop, Goto
<1>4. OwnTypes'
  BY <1>2, <1>3 DEF OwnTypes, Steps, TxSteps
<1>5. CursorInLoop'
  <2> SUFFICES ASSUME NEW q \in Push, pc'[q] \in LoopSteps
               PROVE  cursor'[q].index \in 1..Len(Payload[q].valves)
    BY DEF CursorInLoop
  <2>1. CASE q = p
    BY <2>1, <1>2, <1>3, RequestTypes DEF OwnTypes, LoopSteps
  <2>2. CASE q # p
    BY <2>2, <1>2, <1>3 DEF OwnTypes, CursorInLoop
  <2> QED
    BY <2>1, <2>2
<1> QED
  BY <1>4, <1>5

\* A step that moves p to a statement outside the loop, or further on in the
\* same pass of it, keeps the index where it is.
LEMMA StepTypes ==
  ASSUME NEW p \in Push, NEW s \in Steps, OwnTypes, CursorInLoop, Goto(p, s),
         s \in LoopSteps => pc[p] \in LoopSteps,
         \A q \in Push : cursor'[q].index = cursor[q].index,
         cursor' \in [Push -> [index : Nat, device : Nat, valve : Nat]],
         log' \in [Push -> {None, "pending", "success", "failed"}],
         answer' \in [Push -> {None, 200, 500}],
         committed' \subseteq Push
  PROVE  OwnTypes' /\ CursorInLoop'
<1>1. pc' = [pc EXCEPT ![p] = s]
  BY DEF Goto
<1>2. OwnTypes'
  BY <1>1 DEF OwnTypes
<1>3. CursorInLoop'
  BY <1>1 DEF CursorInLoop, OwnTypes
<1> QED
  BY <1>2, <1>3

\* A step that writes only transactions keeps the store typed.
LEMMA StoreTypes ==
  ASSUME StoreTypeOK, UNCHANGED tables, tx' \in [Push -> Tx],
         seq' \in [device : Nat \ {0}, valve : Nat \ {0}]
  PROVE  StoreTypeOK'
  BY DEF StoreTypeOK, tables

\* A rollback keeps everything typed.
LEMMA RollBackTypes ==
  ASSUME NEW p \in Push, StoreTypeOK, OwnTypes, CursorInLoop, RollBack(p)
  PROVE  StoreTypeOK' /\ OwnTypes' /\ CursorInLoop'
<1>1. tx' \in [Push -> Tx] /\ UNCHANGED <<tables, seq>>
  BY NoTxType DEF StoreTypeOK, RollBack
<1>2. StoreTypeOK'
  BY <1>1, StoreTypes DEF StoreTypeOK
<1>3. "recordFailure" \in Steps \ LoopSteps
  BY DEF Steps, LoopSteps
<1>4. Goto(p, "recordFailure") /\ UNCHANGED <<cursor, log, answer, committed>>
  BY DEF RollBack
<1>5. OwnTypes' /\ CursorInLoop'
  BY <1>3, <1>4, StepTypes DEF OwnTypes
<1> QED
  BY <1>2, <1>5

\* Making a transaction visible keeps the store typed, when the transaction
\* has its version of the work order.
LEMMA PublishTypes ==
  ASSUME NEW p \in Push, StoreTypeOK, OwnTypes, tx[p].workOrder \in WorkOrder, Publish(p)
  PROVE  StoreTypeOK' /\ committed' \subseteq Push
<1>1. factories' \in [Factory -> Data \cup {None}]
  BY RequestTypes DEF StoreTypeOK, Publish
<1>2. workOrders' \in [WorkOrderNo -> WorkOrder \cup {None}]
  BY RequestTypes DEF StoreTypeOK, Publish
<1>3. devices' \subseteq Device /\ valves' \subseteq Valve
  BY ViewTypes DEF Publish
<1>4. tx[p].links \subseteq Link
  BY DEF StoreTypeOK, Tx
<1>5. links' \subseteq Link
  BY <1>4 DEF StoreTypeOK, Publish
<1>6. tx' \in [Push -> Tx]
  BY NoTxType DEF StoreTypeOK, Publish
<1>7. seq' = seq /\ committed' \subseteq Push
  BY DEF Publish, OwnTypes
<1> QED
  BY <1>1, <1>2, <1>3, <1>5, <1>6, <1>7 DEF StoreTypeOK

\* Deletes only remove rows.
LEMMA RemoveTypes ==
  ASSUME StoreTypeOK, AdminRemove
  PROVE  StoreTypeOK'
<1>1. CASE \E gone \in OneOrAll(valves) : RemoveValves(gone)
  BY <1>1 DEF StoreTypeOK, RemoveValves, DeleteValves
<1>2. CASE \E gone \in OneOrAll(devices) : RemoveDevices(gone)
  BY <1>2 DEF StoreTypeOK, RemoveDevices, DeleteValves
<1>3. ASSUME NEW gone \in SUBSET Factory, RemoveFactories(gone)
      PROVE  StoreTypeOK'
  <2>1. factories' \in [Factory -> Data \cup {None}]
    BY <1>3 DEF StoreTypeOK, RemoveFactories
  <2>2. workOrders' \in [WorkOrderNo -> WorkOrder \cup {None}]
    BY <1>3 DEF StoreTypeOK, RemoveFactories
  <2>3. devices' \subseteq Device /\ valves' \subseteq Valve /\ links' \subseteq Link
    BY <1>3 DEF StoreTypeOK, RemoveFactories
  <2>4. UNCHANGED <<seq, tx>>
    BY <1>3 DEF RemoveFactories
  <2> QED
    BY <2>1, <2>2, <2>3, <2>4 DEF StoreTypeOK
<1> QED
  BY <1>1, <1>2, <1>3 DEF AdminRemove

\* The steps of one push that write its transaction or its own variables.
LEMMA AdvanceTypes ==
  ASSUME NEW p \in Push, StoreTypeOK, OwnTypes, CursorInLoop, LocksHeld,
         Receive(p) \/ Advance(p)
  PROVE  StoreTypeOK' /\ OwnTypes' /\ CursorInLoop'
<1> DEFINE Same == StoreTypeOK' /\ OwnTypes' /\ CursorInLoop'
<1>0. tx[p] \in Tx /\ cursor[p] \in [index : Nat, device : Nat, valve : Nat]
  BY DEF StoreTypeOK, OwnTypes
<1>1. CASE Receive(p)
  <2>1. StoreTypeOK'
    BY <1>1 DEF Receive, StoreTypeOK, storeVars, tables
  <2>2. log' \in [Push -> {None, "pending", "success", "failed"}]
    BY <1>1 DEF Receive, OwnTypes
  <2>3. "upsertFactory" \in Steps \ LoopSteps
    BY DEF Steps, TxSteps, LoopSteps
  <2>4. Goto(p, "upsertFactory") /\ UNCHANGED <<cursor, answer, committed>>
    BY <1>1 DEF Receive
  <2>5. OwnTypes' /\ CursorInLoop'
    BY <2>2, <2>3, <2>4, StepTypes DEF OwnTypes
  <2> QED
    BY <2>1, <2>5
<1>2. CASE UpsertFactory(p)
  <2>1. tx' = [tx EXCEPT ![p] = [tx[p] EXCEPT !.factory = FactoryOf(p)]]
    BY <1>2 DEF UpsertFactory
  <2>2. [tx[p] EXCEPT !.factory = FactoryOf(p)] \in Tx
    BY <1>0, RequestTypes DEF Tx
  <2>3. UNCHANGED <<tables, seq>>
    BY <1>2 DEF UpsertFactory
  <2>4. StoreTypeOK'
    BY <2>1, <2>2, <2>3, StoreTypes DEF StoreTypeOK
  <2>5. "upsertWorkOrder" \in Steps \ LoopSteps
    BY DEF Steps, TxSteps, LoopSteps
  <2>6. Goto(p, "upsertWorkOrder") /\ UNCHANGED <<cursor, log, answer, committed>>
    BY <1>2 DEF UpsertFactory
  <2>7. OwnTypes' /\ CursorInLoop'
    BY <2>5, <2>6, StepTypes DEF OwnTypes
  <2> QED
    BY <2>4, <2>7
<1>3. CASE UpsertWorkOrder(p)
  <2>1. OrderRow(p) \in WorkOrder
    BY RequestTypes DEF OrderRow, WorkOrder, StoreTypeOK
  <2>2. tx' = [tx EXCEPT ![p] = [tx[p] EXCEPT !.serial = Payload[p].serial,
                                              !.workOrder = OrderRow(p)]]
    BY <1>3 DEF UpsertWorkOrder
  <2>3. [tx[p] EXCEPT !.serial = Payload[p].serial, !.workOrder = OrderRow(p)] \in Tx
    BY <1>0, <2>1, RequestTypes DEF Tx
  <2>4. UNCHANGED <<tables, seq>>
    BY <1>3 DEF UpsertWorkOrder
  <2>5. StoreTypeOK'
    BY <2>2, <2>3, <2>4, StoreTypes DEF StoreTypeOK
  <2>6. Loop(p, 1) /\ UNCHANGED <<log, answer, committed>>
    BY <1>3 DEF UpsertWorkOrder
  <2>7. OwnTypes' /\ CursorInLoop'
    BY <2>6, LoopTypes
  <2> QED
    BY <2>5, <2>7
<1>4. CASE FindDevice(p)
  <2>1. StoreTypeOK'
    BY <1>4 DEF FindDevice, StoreTypeOK, storeVars, tables
  <2>2. UNCHANGED <<log, answer, committed>> /\ pc[p] \in LoopSteps
    BY <1>4 DEF FindDevice, LoopSteps
  <2>3. ASSUME NEW d \in NamedDevices(p),
               cursor' = [cursor EXCEPT ![p].device = d.id], Goto(p, "findValve")
        PROVE  OwnTypes' /\ CursorInLoop'
    <3>1. d.id \in Nat
      BY ViewTypes DEF NamedDevices, Device
    <3>2. [cursor[p] EXCEPT !.device = d.id] \in [index : Nat, device : Nat, valve : Nat]
      BY <3>1, <1>0
    <3>3. cursor' \in [Push -> [index : Nat, device : Nat, valve : Nat]]
      BY <2>3, <3>2 DEF OwnTypes
    <3>4. \A q \in Push : cursor'[q].index = cursor[q].index
      BY <2>3, <1>0 DEF OwnTypes
    <3>5. "findValve" \in Steps
      BY DEF Steps, TxSteps
    <3> QED
      BY <2>2, <2>3, <3>3, <3>4, <3>5, StepTypes DEF OwnTypes
  <2>4. ASSUME cursor' = cursor, Goto(p, "createDevice")
        PROVE  OwnTypes' /\ CursorInLoop'
    <3>1. "createDevice" \in Steps
      BY DEF Steps, TxSteps
    <3> QED
      BY <2>2, <2>4, <3>1, StepTypes DEF OwnTypes
  <2> QED
    BY <1>4, <2>1, <2>3, <2>4 DEF FindDevice
<1>5. CASE CreateDevice(p)
  <2> DEFINE row == [id |-> seq.device, factory |-> FactoryOf(p), name |-> Entry(p).unit]
  <2>1. seq.device \in Nat \ {0} /\ seq.valve \in Nat \ {0}
    BY DEF StoreTypeOK
  <2>2. pc[p] \in LoopSteps /\ Entry(p).unit \in Unit
    BY <1>5, EntryType DEF CreateDevice, LoopSteps
  <2>3. row \in Device
    BY <2>1, <2>2, RequestTypes DEF Device
  <2>4. [tx[p] EXCEPT !.devices = tx[p].devices \cup {row}] \in Tx
    BY <1>0, <2>3 DEF Tx
  <2>5. tx' = [tx EXCEPT ![p] = [tx[p] EXCEPT !.devices = tx[p].devices \cup {row}]]
    BY <1>5 DEF CreateDevice
  <2>6. seq' = [seq EXCEPT !.device = seq.device + 1] /\ UNCHANGED tables
    BY <1>5 DEF CreateDevice
  <2>7. seq' \in [device : Nat \ {0}, valve : Nat \ {0}]
    BY <2>1, <2>6 DEF StoreTypeOK
  <2>8. StoreTypeOK'
    BY <2>4, <2>5, <2>6, <2>7, StoreTypes DEF StoreTypeOK
  <2>9. cursor' = [cursor EXCEPT ![p] = [cursor[p] EXCEPT !.device = seq.device]]
    BY <1>5 DEF CreateDevice
  <2>10. /\ cursor' \in [Push -> [index : Nat, device : Nat, valve : Nat]]
         /\ \A q \in Push : cursor'[q].index = cursor[q].index
    BY <1>0, <2>1, <2>9 DEF OwnTypes
  <2>11. Goto(p, "findValve") /\ "findValve" \in Steps /\ UNCHANGED <<log, answer, committed>>
    BY <1>5 DEF CreateDevice, Steps, TxSteps
  <2>12. OwnTypes' /\ CursorInLoop'
    BY <2>2, <2>10, <2>11, StepTypes DEF OwnTypes
  <2> QED
    BY <2>8, <2>12
<1>6. CASE RefuseDevice(p) \/ RefuseValve(p)
  BY <1>6, RollBackTypes DEF RefuseDevice, RefuseValve
<1>7. CASE FindValve(p)
  <2>1. StoreTypeOK'
    BY <1>7 DEF FindValve, StoreTypeOK, storeVars, tables
  <2>2. UNCHANGED <<log, answer, committed>> /\ pc[p] \in LoopSteps
    BY <1>7 DEF FindValve, LoopSteps
  <2>3. PICK id \in Nat : cursor' = [cursor EXCEPT ![p] = [cursor[p] EXCEPT !.valve = id]]
    BY <1>7, ViewTypes DEF FindValve, TaggedValves, Valve, NoValve
  <2>4. /\ cursor' \in [Push -> [index : Nat, device : Nat, valve : Nat]]
        /\ \A q \in Push : cursor'[q].index = cursor[q].index
    BY <1>0, <2>3 DEF OwnTypes
  <2>5. Goto(p, "writeValve") /\ "writeValve" \in Steps
    BY <1>7 DEF FindValve, Steps, TxSteps
  <2>6. OwnTypes' /\ CursorInLoop'
    BY <2>2, <2>4, <2>5, StepTypes DEF OwnTypes
  <2> QED
    BY <2>1, <2>6
<1>8. CASE WriteValve(p)
  <2>1. PICK row \in NewRows(p) :
          /\ tx' = [tx EXCEPT ![p].valves = Overlay(tx[p].valves, {row}),
                              ![p].links = tx[p].links \cup {<<row.id, Payload[p].serial>>},
                              ![p].keyShare = tx[p].keyShare \cup {row.device}]
          /\ seq' = [seq EXCEPT !.valve = IF Updates(p) THEN seq.valve ELSE seq.valve + 1]
    BY <1>8 DEF WriteValve
  <2>2. pc[p] \in LoopSteps
    BY <1>8 DEF WriteValve, LoopSteps
  <2>3. seq.device \in Nat \ {0} /\ seq.valve \in Nat \ {0}
    BY DEF StoreTypeOK
  <2>4. ASSUME NEW old \in OldRows(p)
        PROVE  old.id \in Nat \ {0} /\ NewSerial(p, old) \in SerialNumber \cup {Absent}
    BY <2>2, EntryType, ViewTypes DEF OldRows, NewSerial, Valve
  <2>5. row \in Valve
    BY <1>0, <2>1, <2>2, <2>3, <2>4, EntryType, RequestTypes DEF NewRows, Valve
  <2>6. row.id \in Nat \ {0} /\ row.device \in Nat
    BY <2>5 DEF Valve
  <2>7. /\ Overlay(tx[p].valves, {row}) \in SUBSET Valve
        /\ tx[p].links \cup {<<row.id, Payload[p].serial>>} \in SUBSET Link
        /\ tx[p].keyShare \cup {row.device} \in SUBSET Nat
    BY <1>0, <2>5, <2>6, RequestTypes DEF Overlay, Tx, Link
  <2>8. [tx[p] EXCEPT !.valves = Overlay(tx[p].valves, {row}),
                      !.links = tx[p].links \cup {<<row.id, Payload[p].serial>>},
                      !.keyShare = tx[p].keyShare \cup {row.device}] \in Tx
    BY <1>0, <2>7 DEF Tx
  <2>9. tx' \in [Push -> Tx]
    BY <2>1, <2>8 DEF StoreTypeOK
  <2>10. seq' \in [device : Nat \ {0}, valve : Nat \ {0}]
    BY <2>1, <2>3 DEF StoreTypeOK
  <2>11. UNCHANGED <<tables, log, answer, committed>> /\ Loop(p, cursor[p].index + 1)
    BY <1>8 DEF WriteValve
  <2>12. StoreTypeOK'
    BY <2>9, <2>10, <2>11, StoreTypes
  <2>13. cursor[p].index + 1 \in Nat \ {0}
    BY <1>0
  <2>14. OwnTypes' /\ CursorInLoop'
    BY <2>11, <2>13, LoopTypes
  <2> QED
    BY <2>12, <2>14
<1>9. CASE Commit(p)
  <2>1. tx[p].workOrder \in WorkOrder
    BY <1>9 DEF Commit, LocksHeld, LockedSteps, TxSteps
  <2>2. Publish(p) /\ Goto(p, "recordSuccess") /\ "recordSuccess" \in Steps \ LoopSteps
    BY <1>9 DEF Commit, Steps, LoopSteps
  <2>3. StoreTypeOK' /\ committed' \subseteq Push
    BY <2>1, <2>2, PublishTypes
  <2>4. UNCHANGED <<cursor, log, answer>>
    BY <2>2 DEF Publish
  <2>5. OwnTypes' /\ CursorInLoop'
    BY <2>2, <2>3, <2>4, StepTypes DEF OwnTypes
  <2> QED
    BY <2>3, <2>5
<1>10. ASSUME NEW status \in {"success", "failed"}, NEW code \in {200, 500},
              Record(p, status, code)
       PROVE  Same
  <2>1. StoreTypeOK'
    BY <1>10 DEF Record, StoreTypeOK, storeVars, tables
  <2>2. /\ log' \in [Push -> {None, "pending", "success", "failed"}]
        /\ answer' \in [Push -> {None, 200, 500}]
    BY <1>10 DEF Record, OwnTypes
  <2>3. "answered" \in Steps \ LoopSteps
    BY DEF Steps, LoopSteps
  <2>4. Goto(p, "answered") /\ UNCHANGED <<cursor, committed>>
    BY <1>10 DEF Record
  <2>5. OwnTypes' /\ CursorInLoop'
    BY <2>2, <2>3, <2>4, StepTypes DEF OwnTypes
  <2> QED
    BY <2>1, <2>5
<1>11. CASE RecordSuccess(p) \/ RecordFailure(p)
  BY <1>10, <1>11 DEF RecordSuccess, RecordFailure
<1> QED
  BY <1>1, <1>2, <1>3, <1>4, <1>5, <1>6, <1>7, <1>8, <1>9, <1>11 DEF Advance

\* Every step keeps the types and the loop's index.
LEMMA TypesPreserved ==
  ASSUME PushTypeOK, CursorInLoop, LocksHeld, [PushNext]_vars
  PROVE  PushTypeOK' /\ CursorInLoop'
<1>0. StoreTypeOK /\ OwnTypes
  BY DEF PushTypeOK, OwnTypes
<1>1. ASSUME NEW p \in Push, Receive(p) \/ Advance(p)
      PROVE  StoreTypeOK' /\ OwnTypes' /\ CursorInLoop'
  BY <1>0, <1>1, AdvanceTypes
<1>2. ASSUME NEW p \in Push, Abort(p)
      PROVE  StoreTypeOK' /\ OwnTypes' /\ CursorInLoop'
  BY <1>0, <1>2, RollBackTypes DEF Abort
<1>3. ASSUME NEW p \in Push, LoseCommitAck(p)
      PROVE  StoreTypeOK' /\ OwnTypes' /\ CursorInLoop'
  <2>1. tx[p].workOrder \in WorkOrder
    BY <1>3 DEF LoseCommitAck, LocksHeld, LockedSteps, TxSteps
  <2>2. Publish(p) /\ Goto(p, "recordFailure") /\ "recordFailure" \in Steps \ LoopSteps
    BY <1>3 DEF LoseCommitAck, Steps, LoopSteps
  <2>3. StoreTypeOK' /\ committed' \subseteq Push
    BY <1>0, <2>1, <2>2, PublishTypes
  <2>4. UNCHANGED <<cursor, log, answer>>
    BY <2>2 DEF Publish
  <2>5. OwnTypes' /\ CursorInLoop'
    BY <1>0, <2>2, <2>3, <2>4, StepTypes DEF OwnTypes
  <2> QED
    BY <2>3, <2>5
<1>4. ASSUME NEW h \in Host, Crash(h)
      PROVE  StoreTypeOK' /\ OwnTypes' /\ CursorInLoop'
  <2>1. tx' \in [Push -> Tx] /\ UNCHANGED <<tables, seq>>
    BY <1>0, <1>4, NoTxType DEF Crash, StoreTypeOK
  <2>2. StoreTypeOK'
    BY <1>0, <2>1, StoreTypes DEF StoreTypeOK
  <2>3. OwnTypes'
    BY <1>0, <1>4 DEF Crash, Steps, OwnTypes
  <2>4. CursorInLoop'
    BY <1>0, <1>4 DEF Crash, CursorInLoop, LoopSteps, OwnTypes
  <2> QED
    BY <2>2, <2>3, <2>4
<1>5. ASSUME AdminRemove, UNCHANGED pushVars
      PROVE  StoreTypeOK' /\ OwnTypes' /\ CursorInLoop'
  <2>1. StoreTypeOK'
    BY <1>0, <1>5, RemoveTypes
  <2>2. OwnTypes' /\ CursorInLoop'
    BY <1>0, <1>5 DEF pushVars, CursorInLoop, OwnTypes
  <2> QED
    BY <2>1, <2>2
<1>6. ASSUME UNCHANGED vars
      PROVE  StoreTypeOK' /\ OwnTypes' /\ CursorInLoop'
  <2>1. StoreTypeOK'
    BY <1>0, <1>6 DEF vars, storeVars, StoreTypeOK
  <2>2. OwnTypes' /\ CursorInLoop'
    BY <1>0, <1>6 DEF vars, pushVars, CursorInLoop, OwnTypes
  <2> QED
    BY <2>1, <2>2
<1>7. StoreTypeOK' /\ OwnTypes' /\ CursorInLoop'
  BY <1>1, <1>2, <1>3, <1>4, <1>5, <1>6 DEF PushNext, Fault
<1> QED
  BY <1>7 DEF PushTypeOK, OwnTypes

---------------------------------------------------------------------------
(* Row locks *)

\* What a step of p has to establish about the rows that p holds.
Locks(p) ==
  /\ \A q \in Push \ {p} : tx'[q] = tx[q] /\ pc'[q] = pc[q]
  /\ pc'[p] \in LockedSteps => tx'[p].factory = FactoryOf(p)
  /\ pc'[p] \in LockedSteps \ {"upsertWorkOrder"} => tx'[p].workOrder \in WorkOrder
  /\ pc'[p] \notin LockedSteps => tx'[p] = NoTx
  /\ \/ tx'[p].factory \in {tx[p].factory, None}
     \/ \A q \in Push : tx[q].factory # tx'[p].factory

\* A step of p that establishes them keeps the locks of all pushes in order.
LEMMA LocksFrame ==
  ASSUME NEW p \in Push, LocksHeld, OneWriterPerFactory, Locks(p)
  PROVE  LocksHeld' /\ OneWriterPerFactory'
<1>1. LocksHeld'
  BY DEF LocksHeld, Locks, FactoryOf
<1>2. OneWriterPerFactory'
  BY DEF OneWriterPerFactory, Locks
<1> QED
  BY <1>1, <1>2

\* A rollback releases everything.
LEMMA RollBackLocks ==
  ASSUME NEW p \in Push, PushTypeOK, RollBack(p)
  PROVE  Locks(p)
<1>1. tx' = [tx EXCEPT ![p] = NoTx] /\ pc' = [pc EXCEPT ![p] = "recordFailure"]
  BY DEF RollBack, Goto
<1>2. tx'[p] = NoTx /\ pc'[p] = "recordFailure" /\ NoTx.factory = None
  BY <1>1 DEF PushTypeOK, StoreTypeOK, NoTx
<1>3. \A q \in Push \ {p} : tx'[q] = tx[q] /\ pc'[q] = pc[q]
  BY <1>1 DEF PushTypeOK, StoreTypeOK
<1> QED
  BY <1>2, <1>3 DEF Locks, LockedSteps, TxSteps

\* So does the end of the transaction.
LEMMA PublishLocks ==
  ASSUME NEW p \in Push, NEW s \in {"recordSuccess", "recordFailure"},
         PushTypeOK, Publish(p), Goto(p, s)
  PROVE  Locks(p)
<1>1. tx' = [tx EXCEPT ![p] = NoTx] /\ pc' = [pc EXCEPT ![p] = s]
  BY DEF Publish, Goto
<1>2. tx'[p] = NoTx /\ pc'[p] = s /\ NoTx.factory = None
  BY <1>1 DEF PushTypeOK, StoreTypeOK, NoTx
<1>3. \A q \in Push \ {p} : tx'[q] = tx[q] /\ pc'[q] = pc[q]
  BY <1>1 DEF PushTypeOK, StoreTypeOK
<1> QED
  BY <1>2, <1>3 DEF Locks, LockedSteps, TxSteps

\* A step inside the loop keeps the factory row and the work order.
LEMMA LoopLocks ==
  ASSUME NEW p \in Push, NEW s \in LockedSteps, PushTypeOK, LocksHeld,
         pc[p] \in LoopSteps, pc' = [pc EXCEPT ![p] = s],
         \A q \in Push \ {p} : tx'[q] = tx[q],
         tx'[p].factory = tx[p].factory, tx'[p].workOrder = tx[p].workOrder
  PROVE  Locks(p)
<1>1. pc[p] \in LockedSteps \ {"upsertWorkOrder"}
  BY DEF LoopSteps, LockedSteps, TxSteps
<1>2. pc'[p] = s /\ \A q \in Push \ {p} : pc'[q] = pc[q]
  BY DEF PushTypeOK
<1> QED
  BY <1>1, <1>2 DEF Locks, LocksHeld

\* Every step of a push, seen from its locks.
LEMMA AdvanceLocks ==
  ASSUME NEW p \in Push, PushTypeOK, LocksHeld, Receive(p) \/ Advance(p)
  PROVE  Locks(p)
<1>0. tx[p] \in Tx /\ pc \in [Push -> Steps] /\ tx \in [Push -> Tx]
  BY DEF PushTypeOK, StoreTypeOK
<1>1. CASE Receive(p)
  <2>1. tx' = tx /\ pc[p] \notin LockedSteps
    BY <1>1 DEF Receive, storeVars, LockedSteps, TxSteps
  <2>2. pc'[p] = "upsertFactory" /\ \A q \in Push \ {p} : pc'[q] = pc[q]
    BY <1>0, <1>1 DEF Receive, Goto
  <2> QED
    BY <2>1, <2>2 DEF Locks, LocksHeld, LockedSteps
<1>2. CASE UpsertFactory(p)
  <2>1. tx' = [tx EXCEPT ![p] = [tx[p] EXCEPT !.factory = FactoryOf(p)]]
    BY <1>2 DEF UpsertFactory
  <2>2. tx'[p].factory = FactoryOf(p) /\ \A q \in Push \ {p} : tx'[q] = tx[q]
    BY <1>0, <2>1 DEF Tx
  <2>3. pc'[p] = "upsertWorkOrder" /\ \A q \in Push \ {p} : pc'[q] = pc[q]
    BY <1>0, <1>2 DEF UpsertFactory, Goto
  <2>4. \A q \in Push : tx[q].factory # FactoryOf(p)
    BY <1>2 DEF UpsertFactory, FactoryLocked
  <2> QED
    BY <2>2, <2>3, <2>4 DEF Locks, LockedSteps, TxSteps
<1>3. CASE UpsertWorkOrder(p)
  <2>1. OrderRow(p) \in WorkOrder
    BY RequestTypes DEF OrderRow, WorkOrder, PushTypeOK, StoreTypeOK
  <2>2. tx' = [tx EXCEPT ![p] = [tx[p] EXCEPT !.serial = Payload[p].serial,
                                              !.workOrder = OrderRow(p)]]
    BY <1>3 DEF UpsertWorkOrder
  <2>3. /\ tx'[p].factory = tx[p].factory /\ tx'[p].workOrder = OrderRow(p)
        /\ \A q \in Push \ {p} : tx'[q] = tx[q]
    BY <1>0, <2>2 DEF Tx
  <2>4. pc'[p] \in {"findDevice", "commit"} /\ \A q \in Push \ {p} : pc'[q] = pc[q]
    BY <1>0, <1>3 DEF UpsertWorkOrder, Loop, Goto
  <2>5. tx[p].factory = FactoryOf(p)
    BY <1>3 DEF UpsertWorkOrder, LocksHeld, LockedSteps, TxSteps
  <2> QED
    BY <2>1, <2>3, <2>4, <2>5 DEF Locks, LockedSteps, TxSteps
<1>4. CASE FindDevice(p)
  <2>1. PICK s \in {"findValve", "createDevice"} : pc' = [pc EXCEPT ![p] = s]
    BY <1>4 DEF FindDevice, Goto
  <2>2. tx' = tx /\ pc[p] \in LoopSteps /\ s \in LockedSteps
    BY <1>4, <2>1 DEF FindDevice, storeVars, LoopSteps, LockedSteps, TxSteps
  <2> QED
    BY <2>1, <2>2, LoopLocks
<1>5. CASE CreateDevice(p)
  <2>1. PICK ds : tx' = [tx EXCEPT ![p] = [tx[p] EXCEPT !.devices = ds]]
    BY <1>5 DEF CreateDevice
  <2>2. /\ tx'[p].factory = tx[p].factory /\ tx'[p].workOrder = tx[p].workOrder
        /\ \A q \in Push \ {p} : tx'[q] = tx[q]
    BY <1>0, <2>1 DEF Tx
  <2>3. /\ pc' = [pc EXCEPT ![p] = "findValve"]
        /\ pc[p] \in LoopSteps /\ "findValve" \in LockedSteps
    BY <1>5 DEF CreateDevice, Goto, LoopSteps, LockedSteps, TxSteps
  <2> QED
    BY <2>2, <2>3, LoopLocks
<1>6. CASE RefuseDevice(p) \/ RefuseValve(p)
  BY <1>6, RollBackLocks DEF RefuseDevice, RefuseValve
<1>7. CASE FindValve(p)
  <2>1. /\ pc' = [pc EXCEPT ![p] = "writeValve"] /\ tx' = tx
        /\ pc[p] \in LoopSteps /\ "writeValve" \in LockedSteps
    BY <1>7 DEF FindValve, Goto, storeVars, LoopSteps, LockedSteps, TxSteps
  <2> QED
    BY <2>1, LoopLocks
<1>8. CASE WriteValve(p)
  <2>1. PICK row \in NewRows(p) :
          tx' = [tx EXCEPT ![p].valves = Overlay(tx[p].valves, {row}),
                           ![p].links = tx[p].links \cup {<<row.id, Payload[p].serial>>},
                           ![p].keyShare = tx[p].keyShare \cup {row.device}]
    BY <1>8 DEF WriteValve
  <2>2. /\ tx'[p].factory = tx[p].factory /\ tx'[p].workOrder = tx[p].workOrder
        /\ \A q \in Push \ {p} : tx'[q] = tx[q]
    BY <1>0, <2>1 DEF Tx
  <2>3. PICK s \in {"findDevice", "commit"} : pc' = [pc EXCEPT ![p] = s]
    BY <1>8 DEF WriteValve, Loop, Goto
  <2>4. pc[p] \in LoopSteps /\ s \in LockedSteps
    BY <1>8, <2>3 DEF WriteValve, LoopSteps, LockedSteps, TxSteps
  <2> QED
    BY <2>2, <2>3, <2>4, LoopLocks
<1>9. CASE Commit(p)
  BY <1>9, PublishLocks DEF Commit
<1>10. CASE RecordSuccess(p) \/ RecordFailure(p)
  <2>1. tx' = tx /\ pc[p] \notin LockedSteps
    BY <1>10 DEF RecordSuccess, RecordFailure, Record, storeVars, LockedSteps, TxSteps
  <2>2. pc'[p] = "answered" /\ \A q \in Push \ {p} : pc'[q] = pc[q]
    BY <1>0, <1>10 DEF RecordSuccess, RecordFailure, Record, Goto
  <2> QED
    BY <2>1, <2>2 DEF Locks, LocksHeld, LockedSteps, TxSteps
<1> QED
  BY <1>1, <1>2, <1>3, <1>4, <1>5, <1>6, <1>7, <1>8, <1>9, <1>10 DEF Advance

\* No step lets two pushes hold one factory row, or work without it.
LEMMA LocksPreserved ==
  ASSUME PushTypeOK, LocksHeld, OneWriterPerFactory, [PushNext]_vars
  PROVE  LocksHeld' /\ OneWriterPerFactory'
<1>1. ASSUME NEW p \in Push, Receive(p) \/ Advance(p)
      PROVE  LocksHeld' /\ OneWriterPerFactory'
  BY <1>1, AdvanceLocks, LocksFrame
<1>2. ASSUME NEW p \in Push, Abort(p)
      PROVE  LocksHeld' /\ OneWriterPerFactory'
  BY <1>2, RollBackLocks, LocksFrame DEF Abort
<1>3. ASSUME NEW p \in Push, LoseCommitAck(p)
      PROVE  LocksHeld' /\ OneWriterPerFactory'
  BY <1>3, PublishLocks, LocksFrame DEF LoseCommitAck
<1>4. ASSUME NEW h \in Host, Crash(h)
      PROVE  LocksHeld' /\ OneWriterPerFactory'
  <2>1. \A q \in Push : \/ tx'[q] = NoTx /\ pc'[q] = "lost"
                        \/ tx'[q] = tx[q] /\ pc'[q] = pc[q]
    BY <1>4 DEF Crash
  <2>2. NoTx.factory = None /\ "lost" \notin LockedSteps
    BY DEF NoTx, LockedSteps, TxSteps
  <2>3. LocksHeld'
    BY <2>1, <2>2 DEF LocksHeld, FactoryOf
  <2>4. OneWriterPerFactory'
    BY <2>1, <2>2 DEF OneWriterPerFactory
  <2> QED
    BY <2>3, <2>4
<1>5. ASSUME tx' = tx, pc' = pc
      PROVE  LocksHeld' /\ OneWriterPerFactory'
  BY <1>5 DEF LocksHeld, OneWriterPerFactory, FactoryOf
<1>6. CASE AdminRemove /\ UNCHANGED pushVars
  <2>1. tx' = tx /\ pc' = pc
    BY <1>6 DEF AdminRemove, RemoveValves, RemoveDevices, RemoveFactories, pushVars
  <2> QED
    BY <1>5, <2>1
<1>7. CASE UNCHANGED vars
  BY <1>5, <1>7 DEF vars, storeVars, pushVars
<1> QED
  BY <1>1, <1>2, <1>3, <1>4, <1>6, <1>7 DEF PushNext, Fault

---------------------------------------------------------------------------
(* Devices *)

DeviceInv == OwnDevices /\ DeviceUnique /\ ViewNamedOnce /\ StillMissing

\* A step that adds no device row, and after which a push is about to create
\* a device only if it has just missed it or was about to do so before.
AddsNoDevice ==
  /\ devices' \subseteq devices
  /\ \A q \in Push : tx'[q].devices \subseteq tx[q].devices
  /\ \A q \in Push : pc'[q] = "createDevice" =>
       cursor'[q] = cursor[q] /\ (pc[q] = "createDevice" \/ NamedDevices(q) = {})

\* Such a step keeps what is known about devices.
LEMMA FewerDevices ==
  ASSUME DeviceInv, AddsNoDevice
  PROVE  DeviceInv'
<1>1. \A q \in Push : ViewDevices(q)' \subseteq ViewDevices(q)
  BY DEF AddsNoDevice, ViewDevices
<1>2. OwnDevices'
  BY DEF DeviceInv, OwnDevices, AddsNoDevice, FactoryOf
<1>3. DeviceUnique'
  BY DEF DeviceInv, DeviceUnique, DevicesNamedOnce, AddsNoDevice
<1>4. ViewNamedOnce'
  BY <1>1 DEF DeviceInv, ViewNamedOnce, DevicesNamedOnce
<1>5. StillMissing'
  <2> SUFFICES ASSUME NEW q \in Push, pc'[q] = "createDevice"
               PROVE  NamedDevices(q)' = {}
    BY DEF StillMissing
  <2>1. cursor'[q] = cursor[q] /\ NamedDevices(q) = {}
    BY DEF AddsNoDevice, DeviceInv, StillMissing
  <2> QED
    BY <1>1, <2>1 DEF NamedDevices, Entry, FactoryOf
<1> QED
  BY <1>2, <1>3, <1>4, <1>5 DEF DeviceInv

\* Creating the missing device leaves one of that name in the push's view.
LEMMA OneMoreDevice ==
  ASSUME NEW p \in Push, PushTypeOK, DeviceInv, CreateDevice(p)
  PROVE  DeviceInv'
<1> DEFINE row == [id |-> seq.device, factory |-> FactoryOf(p), name |-> Entry(p).unit]
<1>1. tx' = [tx EXCEPT ![p] = [tx[p] EXCEPT !.devices = tx[p].devices \cup {row}]]
  BY DEF CreateDevice
<1>2. /\ tx'[p].devices = tx[p].devices \cup {row}
      /\ \A q \in Push \ {p} : tx'[q] = tx[q]
  BY <1>1 DEF PushTypeOK, StoreTypeOK, Tx
<1>3. devices' = devices
  BY DEF CreateDevice, tables
<1>4. /\ ViewDevices(p)' = ViewDevices(p) \cup {row}
      /\ \A q \in Push \ {p} : ViewDevices(q)' = ViewDevices(q)
  BY <1>2, <1>3 DEF ViewDevices
<1>5. row.factory = FactoryOf(p) /\ row.name = Entry(p).unit
  OBVIOUS
<1> HIDE DEF row
<1>6. \A d \in ViewDevices(p) : ~(d.factory = row.factory /\ d.name = row.name)
  BY <1>5 DEF CreateDevice, DeviceInv, StillMissing, NamedDevices
<1>7. OwnDevices'
  BY <1>2, <1>5 DEF DeviceInv, OwnDevices, FactoryOf
<1>8. DeviceUnique'
  BY <1>3 DEF DeviceInv, DeviceUnique, DevicesNamedOnce
<1>9. ViewNamedOnce'
  <2> SUFFICES ASSUME NEW q \in Push
               PROVE  DevicesNamedOnce(ViewDevices(q))'
    BY DEF ViewNamedOnce
  <2>1. CASE q = p
    BY <2>1, <1>4, <1>6 DEF DeviceInv, ViewNamedOnce, DevicesNamedOnce
  <2>2. CASE q # p
    BY <2>2, <1>4 DEF DeviceInv, ViewNamedOnce, DevicesNamedOnce
  <2> QED
    BY <2>1, <2>2
<1>10. StillMissing'
  <2> SUFFICES ASSUME NEW q \in Push, pc'[q] = "createDevice"
               PROVE  NamedDevices(q)' = {}
    BY DEF StillMissing
  <2>1. q # p /\ pc[q] = "createDevice"
    BY DEF CreateDevice, Goto, PushTypeOK
  <2>2. cursor'[q] = cursor[q]
    BY <2>1 DEF CreateDevice, PushTypeOK
  <2>3. NamedDevices(q) = {}
    BY <2>1 DEF DeviceInv, StillMissing
  <2> QED
    BY <1>4, <2>1, <2>2, <2>3 DEF NamedDevices, Entry, FactoryOf
<1> QED
  BY <1>7, <1>8, <1>9, <1>10 DEF DeviceInv

\* A commit adds devices to a factory nobody else is writing.
LEMMA CommittedDevices ==
  ASSUME NEW p \in Push, NEW s \in {"recordSuccess", "recordFailure"},
         PushTypeOK, LocksHeld, OneWriterPerFactory, DeviceInv,
         pc[p] = "commit", Publish(p), Goto(p, s)
  PROVE  DeviceInv'
<1>1. devices' = devices \cup tx[p].devices
  BY DEF Publish, ViewDevices
<1>2. /\ tx'[p] = NoTx /\ NoTx.devices = {}
      /\ \A q \in Push \ {p} : tx'[q] = tx[q]
  BY DEF Publish, PushTypeOK, StoreTypeOK, NoTx
<1>3. /\ cursor' = cursor /\ pc'[p] # "createDevice"
      /\ \A q \in Push \ {p} : pc'[q] = pc[q]
  BY DEF Publish, Goto, PushTypeOK
<1>4. \A d \in tx[p].devices : d.factory = FactoryOf(p)
  BY DEF DeviceInv, OwnDevices
<1>5. ASSUME NEW q \in Push \ {p}, pc[q] \in LockedSteps
      PROVE  FactoryOf(q) # FactoryOf(p)
  <2>1. tx[p].factory = FactoryOf(p) /\ tx[q].factory = FactoryOf(q)
    BY <1>5 DEF LocksHeld, LockedSteps, TxSteps
  <2>2. FactoryOf(p) # None
    BY RequestTypes, InitialStoresAssumption
  <2> QED
    BY <2>1, <2>2 DEF OneWriterPerFactory
<1>6. ASSUME NEW q \in Push \ {p}, NEW e \in tx[q].devices
      PROVE  e.factory # FactoryOf(p)
  <2>1. pc[q] \in LockedSteps
    BY DEF LocksHeld, NoTx
  <2> QED
    BY <2>1, <1>5 DEF DeviceInv, OwnDevices
<1>7. OwnDevices'
  BY <1>2 DEF DeviceInv, OwnDevices, FactoryOf
<1>8. DeviceUnique'
  BY <1>1 DEF DeviceInv, DeviceUnique, ViewNamedOnce, ViewDevices
<1>9. ViewNamedOnce'
  <2> SUFFICES ASSUME NEW q \in Push
               PROVE  DevicesNamedOnce(ViewDevices(q))'
    BY DEF ViewNamedOnce
  <2>1. CASE q = p
    <3>1. ViewDevices(q)' = ViewDevices(p)
      BY <2>1, <1>1, <1>2 DEF ViewDevices
    <3> QED
      BY <3>1 DEF DeviceInv, ViewNamedOnce, DevicesNamedOnce
  <2>2. CASE q # p
    <3>1. ViewDevices(q)' = devices \cup tx[p].devices \cup tx[q].devices
      BY <2>2, <1>1, <1>2 DEF ViewDevices
    <3>2. DevicesNamedOnce(devices \cup tx[p].devices)
      BY DEF DeviceInv, ViewNamedOnce, ViewDevices
    <3>3. DevicesNamedOnce(devices \cup tx[q].devices)
      BY DEF DeviceInv, ViewNamedOnce, ViewDevices
    <3>4. \A d \in tx[p].devices, e \in tx[q].devices : d.factory # e.factory
      BY <2>2, <1>4, <1>6
    <3>5. DevicesNamedOnce(devices \cup tx[p].devices \cup tx[q].devices)
      BY <3>2, <3>3, <3>4 DEF DevicesNamedOnce
    <3> QED
      BY <3>1, <3>5 DEF DevicesNamedOnce
  <2> QED
    BY <2>1, <2>2
<1>10. StillMissing'
  <2> SUFFICES ASSUME NEW q \in Push, pc'[q] = "createDevice"
               PROVE  NamedDevices(q)' = {}
    BY DEF StillMissing
  <2>1. q # p /\ pc[q] = "createDevice"
    BY <1>3
  <2>2. NamedDevices(q) = {}
    BY <2>1 DEF DeviceInv, StillMissing
  <2>3. ViewDevices(q)' = ViewDevices(q) \cup tx[p].devices
    BY <2>1, <1>1, <1>2 DEF ViewDevices
  <2>4. FactoryOf(q) # FactoryOf(p)
    BY <2>1, <1>5 DEF LockedSteps, TxSteps
  <2> QED
    BY <1>3, <1>4, <2>2, <2>3, <2>4 DEF NamedDevices, Entry, FactoryOf
<1> QED
  BY <1>7, <1>8, <1>9, <1>10 DEF DeviceInv

\* A rollback adds no device.
LEMMA RollBackDevices ==
  ASSUME NEW p \in Push, PushTypeOK, RollBack(p)
  PROVE  AddsNoDevice
<1>1. tx'[p].devices = {} /\ \A q \in Push \ {p} : tx'[q] = tx[q]
  BY DEF RollBack, PushTypeOK, StoreTypeOK, NoTx
<1>2. devices' = devices /\ cursor' = cursor
  BY DEF RollBack, tables
<1>3. pc'[p] = "recordFailure" /\ \A q \in Push \ {p} : pc'[q] = pc[q]
  BY DEF RollBack, Goto, PushTypeOK
<1> QED
  BY <1>1, <1>2, <1>3 DEF AddsNoDevice

\* Nor does any step of a push other than CreateDevice and Commit.
LEMMA OtherStepsAddNoDevice ==
  ASSUME NEW p \in Push, PushTypeOK,
         Receive(p) \/ Advance(p), ~CreateDevice(p), ~Commit(p)
  PROVE  AddsNoDevice
<1>0. tx[p] \in Tx /\ pc \in [Push -> Steps] /\ tx \in [Push -> Tx]
  BY DEF PushTypeOK, StoreTypeOK
<1>1. ASSUME devices' = devices, NEW s \in Steps \ {"createDevice"},
             pc' = [pc EXCEPT ![p] = s],
             \A q \in Push \ {p} : cursor'[q] = cursor[q],
             \A q \in Push : tx'[q].devices = tx[q].devices
      PROVE  AddsNoDevice
  BY <1>0, <1>1 DEF AddsNoDevice
<1>2. CASE Receive(p) \/ RecordSuccess(p) \/ RecordFailure(p)
  <2>1. PICK s \in {"upsertFactory", "answered"} : pc' = [pc EXCEPT ![p] = s]
    BY <1>2 DEF Receive, RecordSuccess, RecordFailure, Record, Goto
  <2>2. tx' = tx /\ devices' = devices /\ cursor' = cursor
    BY <1>2 DEF Receive, RecordSuccess, RecordFailure, Record, storeVars
  <2> QED
    BY <1>1, <2>1, <2>2 DEF Steps, TxSteps
<1>3. CASE UpsertFactory(p)
  <2>1. tx' = [tx EXCEPT ![p] = [tx[p] EXCEPT !.factory = FactoryOf(p)]]
    BY <1>3 DEF UpsertFactory
  <2>2. \A q \in Push : tx'[q].devices = tx[q].devices
    BY <1>0, <2>1 DEF Tx
  <2>3. pc' = [pc EXCEPT ![p] = "upsertWorkOrder"] /\ devices' = devices /\ cursor' = cursor
    BY <1>3 DEF UpsertFactory, Goto, tables
  <2> QED
    BY <1>1, <2>2, <2>3 DEF Steps, TxSteps
<1>4. ASSUME NEW i, Loop(p, i)
      PROVE  /\ \E s \in {"findDevice", "commit"} : pc' = [pc EXCEPT ![p] = s]
             /\ \A q \in Push \ {p} : cursor'[q] = cursor[q]
  <2>1. pc' = [pc EXCEPT ![p] = IF i <= Len(Payload[p].valves) THEN "findDevice" ELSE "commit"]
    BY <1>4 DEF Loop, Goto
  <2>2. \E s \in {"findDevice", "commit"} : pc' = [pc EXCEPT ![p] = s]
    BY <2>1
  <2>3. PICK c : cursor' = [cursor EXCEPT ![p] = c]
    BY <1>4 DEF Loop
  <2>4. \A q \in Push \ {p} : cursor'[q] = cursor[q]
    BY <2>3 DEF PushTypeOK
  <2> QED
    BY <2>2, <2>4
<1>5. CASE UpsertWorkOrder(p)
  <2>1. tx' = [tx EXCEPT ![p] = [tx[p] EXCEPT !.serial = Payload[p].serial,
                                              !.workOrder = OrderRow(p)]]
    BY <1>5 DEF UpsertWorkOrder
  <2>2. \A q \in Push : tx'[q].devices = tx[q].devices
    BY <1>0, <2>1 DEF Tx
  <2>3. Loop(p, 1) /\ devices' = devices
    BY <1>5 DEF UpsertWorkOrder, tables
  <2> QED
    BY <1>1, <1>4, <2>2, <2>3 DEF Steps, TxSteps
<1>6. CASE FindDevice(p)
  <2>1. tx' = tx /\ devices' = devices
    BY <1>6 DEF FindDevice, storeVars
  <2>2. ASSUME NEW d \in NamedDevices(p),
               cursor' = [cursor EXCEPT ![p].device = d.id], Goto(p, "findValve")
        PROVE  AddsNoDevice
    <3>1. \A q \in Push \ {p} : cursor'[q] = cursor[q]
      BY <2>2 DEF PushTypeOK
    <3> QED
      BY <1>1, <2>1, <2>2, <3>1 DEF Goto, Steps, TxSteps
  <2>3. ASSUME NamedDevices(p) = {}, cursor' = cursor, Goto(p, "createDevice")
        PROVE  AddsNoDevice
    BY <1>0, <2>1, <2>3 DEF Goto, AddsNoDevice
  <2> QED
    BY <1>6, <2>2, <2>3 DEF FindDevice
<1>7. CASE FindValve(p)
  <2>1. tx' = tx /\ devices' = devices /\ pc' = [pc EXCEPT ![p] = "writeValve"]
    BY <1>7 DEF FindValve, Goto, storeVars
  <2>2. \A q \in Push \ {p} : cursor'[q] = cursor[q]
    BY <1>7 DEF FindValve, PushTypeOK
  <2> QED
    BY <1>1, <2>1, <2>2 DEF Steps, TxSteps
<1>8. CASE WriteValve(p)
  <2>1. PICK row \in NewRows(p) :
          tx' = [tx EXCEPT ![p].valves = Overlay(tx[p].valves, {row}),
                           ![p].links = tx[p].links \cup {<<row.id, Payload[p].serial>>},
                           ![p].keyShare = tx[p].keyShare \cup {row.device}]
    BY <1>8 DEF WriteValve
  <2>2. \A q \in Push : tx'[q].devices = tx[q].devices
    BY <1>0, <2>1 DEF Tx
  <2>3. Loop(p, cursor[p].index + 1) /\ devices' = devices
    BY <1>8 DEF WriteValve, tables
  <2> QED
    BY <1>1, <1>4, <2>2, <2>3 DEF Steps, TxSteps
<1>9. CASE RefuseDevice(p) \/ RefuseValve(p)
  BY <1>9, RollBackDevices DEF RefuseDevice, RefuseValve
<1> QED
  BY <1>2, <1>3, <1>5, <1>6, <1>7, <1>8, <1>9 DEF Advance

\* No step creates a second device of a name.
LEMMA DevicesPreserved ==
  ASSUME PushTypeOK, LocksHeld, OneWriterPerFactory, DeviceInv, [PushNext]_vars
  PROVE  DeviceInv'
<1>1. ASSUME NEW p \in Push, Receive(p) \/ Advance(p)
      PROVE  DeviceInv'
  <2>1. CASE CreateDevice(p)
    BY <2>1, OneMoreDevice
  <2>2. CASE Commit(p)
    BY <2>2, CommittedDevices DEF Commit
  <2>3. CASE ~CreateDevice(p) /\ ~Commit(p)
    BY <1>1, <2>3, OtherStepsAddNoDevice, FewerDevices
  <2> QED
    BY <2>1, <2>2, <2>3
<1>2. ASSUME NEW p \in Push, Abort(p)
      PROVE  DeviceInv'
  BY <1>2, RollBackDevices, FewerDevices DEF Abort
<1>3. ASSUME NEW p \in Push, LoseCommitAck(p)
      PROVE  DeviceInv'
  BY <1>3, CommittedDevices DEF LoseCommitAck
<1>4. ASSUME NEW h \in Host, Crash(h)
      PROVE  DeviceInv'
  <2>1. devices' = devices /\ cursor' = cursor
    BY <1>4 DEF Crash, tables
  <2>2. \A q \in Push : \/ tx'[q] = NoTx /\ pc'[q] = "lost"
                        \/ tx'[q] = tx[q] /\ pc'[q] = pc[q]
    BY <1>4 DEF Crash
  <2>3. NoTx.devices = {}
    BY DEF NoTx
  <2>4. AddsNoDevice
    BY <2>1, <2>2, <2>3 DEF AddsNoDevice
  <2> QED
    BY <2>4, FewerDevices
<1>5. CASE AdminRemove /\ UNCHANGED pushVars
  <2>1. tx' = tx /\ pc' = pc /\ cursor' = cursor
    BY <1>5 DEF AdminRemove, RemoveValves, RemoveDevices, RemoveFactories, pushVars
  <2>2. devices' \subseteq devices
    BY <1>5 DEF AdminRemove, RemoveValves, RemoveDevices, RemoveFactories
  <2>3. AddsNoDevice
    BY <2>1, <2>2 DEF AddsNoDevice
  <2> QED
    BY <2>3, FewerDevices
<1>6. CASE UNCHANGED vars
  <2>1. AddsNoDevice
    BY <1>6 DEF vars, storeVars, pushVars, AddsNoDevice
  <2> QED
    BY <2>1, FewerDevices
<1> QED
  BY <1>1, <1>2, <1>3, <1>4, <1>5, <1>6 DEF PushNext, Fault

---------------------------------------------------------------------------
(* Outcome *)

\* What a step of p has to establish about the outcome of p.
Outcomes(p) ==
  /\ \A q \in Push \ {p} : /\ pc'[q] = pc[q] /\ answer'[q] = answer[q] /\ log'[q] = log[q]
                           /\ q \in committed' <=> q \in committed
  /\ pc'[p] \in TxSteps \cup {"idle"} =>
       p \notin committed' /\ answer'[p] = None /\ log'[p] \in {None, "pending"}
  /\ pc'[p] = "recordSuccess" \/ answer'[p] = 200 \/ log'[p] = "success" => p \in committed'
  /\ ~AckMayBeLost /\ (pc'[p] = "recordFailure" \/ answer'[p] = 500 \/ log'[p] = "failed")
       => p \notin committed'

\* A step of p that establishes it keeps the outcomes of all pushes in order.
LEMMA OutcomeFrame ==
  ASSUME NEW p \in Push, OutcomeInOrder, Outcomes(p)
  PROVE  OutcomeInOrder'
  BY DEF OutcomeInOrder, Outcomes

\* None is neither an answer nor a status: the log and answer of a push that
\* has no outcome say so.
LEMMA NoOutcomeYet ==
  ASSUME NEW p \in Push, OutcomeInOrder, pc[p] \in TxSteps \cup {"idle"}
  PROVE  p \notin committed /\ answer[p] = None /\ log[p] \in {None, "pending"}
  BY DEF OutcomeInOrder

\* A step of the transaction itself leaves log, answer and history alone.
LEMMA TxStepOutcome ==
  ASSUME NEW p \in Push, NEW s \in TxSteps \cup {"recordFailure"}, PushTypeOK, OutcomeInOrder,
         pc[p] \in TxSteps, pc' = [pc EXCEPT ![p] = s], UNCHANGED <<log, answer, committed>>
  PROVE  OutcomeInOrder'
<1>1. p \notin committed /\ answer[p] = None /\ log[p] \in {None, "pending"}
  BY NoOutcomeYet
<1>2. s # "recordSuccess" /\ pc'[p] = s /\ \A q \in Push \ {p} : pc'[q] = pc[q]
  BY DEF PushTypeOK, TxSteps
<1>3. Outcomes(p)
  BY <1>1, <1>2, NoneAssumption DEF Outcomes
<1> QED
  BY <1>3, OutcomeFrame

\* The end of the transaction puts the push into the history; without its
\* reply the catch block runs, which AckMayBeLost must allow.
LEMMA PublishOutcome ==
  ASSUME NEW p \in Push, NEW s \in {"recordSuccess", "recordFailure"},
         PushTypeOK, OutcomeInOrder, pc[p] = "commit", Publish(p), Goto(p, s),
         s = "recordFailure" => AckMayBeLost
  PROVE  OutcomeInOrder'
<1>1. p \notin committed /\ answer[p] = None /\ log[p] \in {None, "pending"}
  BY NoOutcomeYet DEF TxSteps
<1>2. pc'[p] = s /\ \A q \in Push \ {p} : pc'[q] = pc[q]
  BY DEF Goto, PushTypeOK
<1>3. log' = log /\ answer' = answer /\ committed' = committed \cup {p}
  BY DEF Publish
<1>4. s \notin TxSteps \cup {"idle"}
  BY DEF TxSteps
<1>5. Outcomes(p)
  BY <1>1, <1>2, <1>3, <1>4, NoneAssumption DEF Outcomes
<1> QED
  BY <1>5, OutcomeFrame

\* Recording an outcome that agrees with the history.
LEMMA RecordOutcome ==
  ASSUME NEW p \in Push, NEW status, NEW code, PushTypeOK, OutcomeInOrder, Record(p, status, code),
         \/ status = "success" /\ code = 200 /\ pc[p] = "recordSuccess"
         \/ status = "failed" /\ code = 500 /\ pc[p] = "recordFailure"
  PROVE  OutcomeInOrder'
<1>1. pc'[p] = "answered" /\ \A q \in Push \ {p} : pc'[q] = pc[q]
  BY DEF Record, Goto, PushTypeOK
<1>2. answer'[p] = code /\ \A q \in Push \ {p} : answer'[q] = answer[q]
  BY DEF Record, PushTypeOK
<1>3. log'[p] \in {log[p], status} /\ \A q \in Push \ {p} : log'[q] = log[q]
  BY DEF Record, PushTypeOK
<1>4. committed' = committed
  BY DEF Record
<1>5. "answered" \notin TxSteps \cup {"idle"}
  BY DEF TxSteps
<1>6. Outcomes(p)
  BY <1>1, <1>2, <1>3, <1>4, <1>5 DEF Outcomes, OutcomeInOrder
<1> QED
  BY <1>6, OutcomeFrame

\* Answer and log never contradict what the database did.
LEMMA OutcomePreserved ==
  ASSUME PushTypeOK, OutcomeInOrder, [PushNext]_vars
  PROVE  OutcomeInOrder'
<1>1. ASSUME NEW p \in Push, Receive(p)
      PROVE  OutcomeInOrder'
  <2>1. pc'[p] = "upsertFactory" /\ \A q \in Push \ {p} : pc'[q] = pc[q]
    BY <1>1 DEF Receive, Goto, PushTypeOK
  <2>2. log'[p] \in {None, "pending"} /\ \A q \in Push \ {p} : log'[q] = log[q]
    BY <1>1 DEF Receive, PushTypeOK
  <2>3. answer' = answer /\ committed' = committed
    BY <1>1 DEF Receive
  <2>4. p \notin committed /\ answer[p] = None
    BY <1>1, NoOutcomeYet DEF Receive
  <2>5. Outcomes(p)
    BY <2>1, <2>2, <2>3, <2>4, NoneAssumption DEF Outcomes
  <2> QED
    BY <2>5, OutcomeFrame
<1>2. ASSUME NEW p \in Push, RollBack(p), pc[p] \in TxSteps
      PROVE  OutcomeInOrder'
  BY <1>2, TxStepOutcome DEF RollBack, Goto
<1>3. ASSUME NEW p \in Push, Advance(p)
      PROVE  OutcomeInOrder'
  <2>1. CASE UpsertFactory(p) \/ FindDevice(p) \/ CreateDevice(p) \/ FindValve(p)
    <3>1. /\ pc[p] \in TxSteps /\ UNCHANGED <<log, answer, committed>>
          /\ \E s \in TxSteps : pc' = [pc EXCEPT ![p] = s]
      BY <2>1 DEF UpsertFactory, FindDevice, CreateDevice, FindValve, Goto, TxSteps
    <3> QED
      BY <3>1, TxStepOutcome
  <2>2. CASE UpsertWorkOrder(p) \/ WriteValve(p)
    <3>1. PICK i : Loop(p, i) /\ pc[p] \in TxSteps /\ UNCHANGED <<log, answer, committed>>
      BY <2>2 DEF UpsertWorkOrder, WriteValve, TxSteps
    <3>2. pc' = [pc EXCEPT ![p] = IF i <= Len(Payload[p].valves) THEN "findDevice" ELSE "commit"]
      BY <3>1 DEF Loop, Goto
    <3>3. \E s \in TxSteps : pc' = [pc EXCEPT ![p] = s]
      BY <3>2 DEF TxSteps
    <3> QED
      BY <3>1, <3>3, TxStepOutcome
  <2>3. CASE RefuseDevice(p) \/ RefuseValve(p)
    BY <2>3, <1>2 DEF RefuseDevice, RefuseValve, TxSteps
  <2>4. CASE Commit(p)
    BY <2>4, PublishOutcome DEF Commit
  <2>5. CASE RecordSuccess(p)
    BY <2>5, RecordOutcome DEF RecordSuccess
  <2>6. CASE RecordFailure(p)
    BY <2>6, RecordOutcome DEF RecordFailure
  <2> QED
    BY <1>3, <2>1, <2>2, <2>3, <2>4, <2>5, <2>6 DEF Advance
<1>4. ASSUME NEW p \in Push, Abort(p)
      PROVE  OutcomeInOrder'
  BY <1>2, <1>4 DEF Abort
<1>5. ASSUME NEW p \in Push, LoseCommitAck(p)
      PROVE  OutcomeInOrder'
  BY <1>5, PublishOutcome DEF LoseCommitAck
<1>6. ASSUME \A q \in Push : pc'[q] \in {pc[q], "lost"}, UNCHANGED <<log, answer, committed>>
      PROVE  OutcomeInOrder'
  <2>1. "lost" \notin TxSteps \cup {"idle", "recordSuccess", "recordFailure"}
    BY DEF TxSteps
  <2> QED
    BY <1>6, <2>1 DEF OutcomeInOrder
<1>7. CASE \E h \in Host : Crash(h)
  BY <1>6, <1>7 DEF Crash
<1>8. CASE (AdminRemove /\ UNCHANGED pushVars) \/ UNCHANGED vars
  BY <1>6, <1>8 DEF pushVars, vars
<1> QED
  BY <1>1, <1>3, <1>4, <1>5, <1>7, <1>8 DEF PushNext, Fault

---------------------------------------------------------------------------
(* The theorems *)

\* The invariant holds when no push has arrived yet.
LEMMA PushInitially == PushInit => PushInv
<1> SUFFICES ASSUME PushInit PROVE PushInv
  OBVIOUS
<1>1. tx = [p \in Push |-> NoTx] /\ StoreInit
  BY DEF PushInit, StoreInit
<1>2. PICK s \in InitialStores : /\ factories = s.factories /\ devices = s.devices
                                 /\ valves = s.valves /\ workOrders = s.workOrders
                                 /\ links = s.links /\ seq = s.seq
  BY <1>1 DEF StoreInit
<1>3. s \in Store /\ DevicesNamedOnce(s.devices)
  BY InitialStoresAssumption
<1>4. StoreTypeOK
  BY <1>1, <1>2, <1>3, NoTxType DEF StoreTypeOK, Store
<1>5. pc = [p \in Push |-> "idle"] /\ "idle" \in Steps
  BY DEF PushInit, Steps
<1>6. PushTypeOK
  BY <1>4, <1>5 DEF PushTypeOK, PushInit, NoCursor, NoDevice, NoValve
<1>7. "idle" \notin TxSteps \cup {"recordSuccess", "recordFailure"}
  BY DEF TxSteps
<1>8. CursorInLoop /\ LocksHeld /\ OneWriterPerFactory
  BY <1>1, <1>5, <1>7
  DEF CursorInLoop, LocksHeld, OneWriterPerFactory, LoopSteps, LockedSteps, NoTx
<1>9. OwnDevices /\ DeviceUnique /\ ViewNamedOnce /\ StillMissing
  <2>1. \A p \in Push : ViewDevices(p) = s.devices /\ tx[p].devices = {}
    BY <1>1, <1>2 DEF ViewDevices, NoTx
  <2> QED
    BY <1>2, <1>3, <1>5, <2>1 DEF OwnDevices, DeviceUnique, ViewNamedOnce, StillMissing
<1>10. OutcomeInOrder
  BY <1>5, <1>7, NoneAssumption DEF OutcomeInOrder, PushInit
<1> QED
  BY <1>6, <1>8, <1>9, <1>10 DEF PushInv

\* Every reachable state satisfies the inductive invariant: types, locks,
\* device names and outcomes stay in order through interleavings, aborts, lost
\* replies, crashes and deletes.
THEOREM PushInvariant == PushSpec => []PushInv
<1>1. PushInv /\ [PushNext]_vars => PushInv'
  <2> SUFFICES ASSUME PushInv, [PushNext]_vars PROVE PushInv'
    OBVIOUS
  <2>1. /\ PushTypeOK /\ CursorInLoop /\ LocksHeld /\ OneWriterPerFactory
        /\ DeviceInv /\ OutcomeInOrder
    BY DEF PushInv, DeviceInv
  <2>2. PushTypeOK' /\ CursorInLoop'
    BY <2>1, TypesPreserved
  <2>3. LocksHeld' /\ OneWriterPerFactory'
    BY <2>1, LocksPreserved
  <2>4. DeviceInv'
    BY <2>1, DevicesPreserved
  <2>5. OutcomeInOrder'
    BY <2>1, OutcomePreserved
  <2> QED
    BY <2>2, <2>3, <2>4, <2>5 DEF PushInv, DeviceInv
<1> QED
  BY PushInitially, <1>1, PTL DEF PushSpec

\* The tables and the pushes' own variables always have their types.
THEOREM PushTypes == PushSpec => []PushTypeOK
<1>1. PushInv => PushTypeOK
  BY DEF PushInv
<1> QED
  BY PushInvariant, <1>1, PTL

\* Concurrent pushes never leave two devices of one name in a factory,
\* although no unique key forbids it: the row lock of the factory upsert does.
THEOREM NoDuplicateDevice == PushSpec => []DeviceUnique
<1>1. PushInv => DeviceUnique
  BY DEF PushInv
<1> QED
  BY PushInvariant, <1>1, PTL

\* Only a push whose data is in the database is answered 200 or logged as a
\* success, also when commit replies are lost.
THEOREM NoFalseSuccess == PushSpec => []SuccessMeansCommitted
<1>1. PushInv => SuccessMeansCommitted
  BY DEF PushInv, OutcomeInOrder, SuccessMeansCommitted
<1> QED
  BY PushInvariant, <1>1, PTL

\* Unless a commit reply can be lost, only a push that left nothing in the
\* database is answered 500 or logged as failed.
THEOREM NoFalseFailure == PushSpec => [](~AckMayBeLost => FailureMeansRolledBack)
<1>1. PushInv => (~AckMayBeLost => FailureMeansRolledBack)
  BY DEF PushInv, OutcomeInOrder, FailureMeansRolledBack
<1> QED
  BY PushInvariant, <1>1, PTL

---------------------------------------------------------------------------
(* Work orders, links and tags: their inductive invariant. *)

\* No two pushes hold one work order row.
OneWriterPerOrder ==
  \A p, q \in Push : tx[p].serial = tx[q].serial /\ tx[p].serial # None => p = q

\* From its second upsert on a push holds the row of its work order, which can
\* therefore neither go nor get another factory than the version of the push has.
OrderHeld ==
  \A p \in Push :
     /\ tx[p].serial = IF pc[p] \in LockedSteps \ {"upsertWorkOrder"} THEN Payload[p].serial ELSE None
     /\ tx[p].serial # None =>
          /\ workOrders[Payload[p].serial] # None =>
               tx[p].workOrder.factory = workOrders[Payload[p].serial].factory
          /\ workOrders[Payload[p].serial] = None => tx[p].workOrder.factory = FactoryOf(p)

\* The rows of valves that exist or may come to exist.
Versions == valves \cup UNION {tx[p].valves : p \in Push}

\* An id stands for one valve of one factory and tag, for good.
IdentityKept ==
  /\ \A v \in Versions : v.id < seq.valve
  /\ \A v, w \in Versions : v.id = w.id => v.factory = w.factory /\ v.tag = w.tag

\* The id is a key of the table and of what a transaction has written.
KeysUnique ==
  /\ \A v, w \in valves : v.id = w.id => v = w
  /\ \A p \in Push : \A v, w \in tx[p].valves : v.id = w.id => v = w

\* A push writes valves of its own factory and links them to its own work order.
OwnWrites ==
  \A p \in Push :
     /\ \A v \in tx[p].valves : v.factory = FactoryOf(p)
     /\ \A l \in tx[p].links : /\ l[2] = Payload[p].serial
                               /\ \E v \in tx[p].valves : v.id = l[1]

\* The foreign keys of the join table.
LinksThere ==
  \A l \in links : workOrders[l[2]] # None /\ \E v \in valves : v.id = l[1]

\* The valve a push has found is one of its factory and of the entry's tag; one
\* that it has missed is still missing.
FoundFits ==
  \A p \in Push : pc[p] = "writeValve" =>
     IF Updates(p)
     THEN /\ cursor[p].valve < seq.valve
          /\ \A v \in Versions : v.id = cursor[p].valve =>
               v.factory = FactoryOf(p) /\ v.tag = Entry(p).tag
     ELSE TaggedValves(p) = {}

\* What a push has written replaces a row that exists, or is the only valve under
\* its tag that the push sees.
Known(v)    == \E w \in valves : w.id = v.id
Alone(p, v) == \A w \in ViewValves(p) : w.factory = v.factory /\ w.tag = v.tag => w = v

NewUnderTag == \A p \in Push : \A v \in tx[p].valves : Known(v) \/ Alone(p, v)

\* Where the store starts without them, a link crosses factories only for a push
\* that asked for it.
Asked(s, f) == \E p \in Push : pc[p] # "idle" /\ Payload[p].serial = s /\ FactoryOf(p) = f

LinksAtHome ==
  \A s \in InitialStores : \A l \in s.links : \A v \in s.valves :
     l[1] = v.id => s.workOrders[l[2]].factory = v.factory

LinksAskedFor ==
  LinksAtHome => \A l \in links : \A v \in Versions :
     l[1] = v.id => Asked(l[2], v.factory) \/ workOrders[l[2]].factory = v.factory

OrderInv ==
  /\ OneWriterPerOrder /\ OrderHeld
  /\ IdentityKept /\ KeysUnique /\ OwnWrites /\ FoundFits /\ NewUnderTag
  /\ LinksThere /\ LinksAskedFor
  /\ IsFiniteSet(valves) /\ \A p \in Push : IsFiniteSet(tx[p].valves)

---------------------------------------------------------------------------
(* Steps that write no valve and no work order. *)

HoldsOrder(p) == pc[p] \in LockedSteps \ {"upsertWorkOrder"}

\* p has just looked for a valve.
Looks(p) ==
  /\ pc[p] = "findValve" /\ cursor'[p].index = cursor[p].index
  /\ \/ \E v \in TaggedValves(p) : cursor'[p].valve = v.id
     \/ TaggedValves(p) = {} /\ cursor'[p].valve = NoValve

\* Some rows go with their links, none that a transaction has locked; some
\* transactions end without a trace.
Fewer ==
  /\ valves' \subseteq valves /\ links' \subseteq links /\ seq'.valve = seq.valve
  /\ \A l \in links' : /\ workOrders'[l[2]] = workOrders[l[2]]
                       /\ \A v \in valves : v.id = l[1] => v \in valves'
  /\ \A p \in Push :
       \/ /\ tx'[p].valves = tx[p].valves /\ tx'[p].links = tx[p].links
          /\ \A v \in tx[p].valves, w \in valves : w.id = v.id => w \in valves'
       \/ tx'[p].valves = {} /\ tx'[p].links = {} /\ pc'[p] # "writeValve"
  /\ \A p \in Push : /\ pc'[p] = "idle" => pc[p] = "idle"
                     /\ pc'[p] = "writeValve" => \/ pc[p] = "writeValve" /\ cursor'[p] = cursor[p]
                                                 \/ Looks(p)

\* The same for the work orders.
SameOrders ==
  /\ \A p \in Push :
       \/ /\ tx'[p].serial = tx[p].serial /\ tx'[p].workOrder = tx[p].workOrder
          /\ HoldsOrder(p)' <=> HoldsOrder(p)
       \/ tx'[p].serial = None /\ ~HoldsOrder(p)'
  /\ \A p \in Push : tx'[p].serial # None =>
       workOrders'[Payload[p].serial] = workOrders[Payload[p].serial]

\* Such a step keeps the locks of the work orders.
LEMMA SameOrdersKeep ==
  ASSUME OneWriterPerOrder, OrderHeld, SameOrders
  PROVE  OneWriterPerOrder' /\ OrderHeld'
<1>1. OneWriterPerOrder'
  BY DEF OneWriterPerOrder, SameOrders
<1>2. OrderHeld'
  BY DEF OrderHeld, SameOrders, HoldsOrder, FactoryOf
<1> QED
  BY <1>1, <1>2

\* The part of the invariant about rows and links.
RowInv ==
  /\ IdentityKept /\ KeysUnique /\ OwnWrites /\ FoundFits /\ NewUnderTag
  /\ LinksThere /\ LinksAskedFor
  /\ IsFiniteSet(valves) /\ \A p \in Push : IsFiniteSet(tx[p].valves)

\* A version of a valve is committed or written by an open transaction.
LEMMA AllVersions ==
  \A v : v \in Versions <=> v \in valves \/ \E p \in Push : v \in tx[p].valves
  BY DEF Versions

\* The same after a step.
LEMMA AllVersionsNext ==
  \A v : v \in Versions' <=> v \in valves' \/ \E p \in Push : v \in tx'[p].valves
  BY DEF Versions

\* A step that writes no valve keeps the rows and links in order.
LEMMA FewerKeep ==
  ASSUME PushTypeOK, RowInv, Fewer
  PROVE  RowInv'
<1>0. seq.valve \in Nat /\ \A p \in Push : cursor[p].valve \in Nat
  BY DEF PushTypeOK, StoreTypeOK
<1>1. \A v \in Versions' : v \in Versions
  BY AllVersions, AllVersionsNext DEF Fewer
<1>2. IdentityKept' /\ KeysUnique'
  BY <1>1 DEF RowInv, IdentityKept, KeysUnique, Fewer
<1>3. OwnWrites'
  BY DEF RowInv, OwnWrites, Fewer, FactoryOf
<1>4. \A p \in Push : pc'[p] = "writeValve" \/ tx'[p].valves # {} => ViewValves(p)' \subseteq ViewValves(p)
  BY DEF Fewer, ViewValves, Overlay
<1>5. FoundFits'
  <2> SUFFICES ASSUME NEW p \in Push, pc'[p] = "writeValve"
               PROVE  IF Updates(p)'
                      THEN /\ cursor'[p].valve < seq'.valve
                           /\ \A v \in Versions' : v.id = cursor'[p].valve =>
                                v.factory = FactoryOf(p)' /\ v.tag = Entry(p)'.tag
                      ELSE TaggedValves(p)' = {}
    BY DEF FoundFits
  <2>1. ViewValves(p)' \subseteq ViewValves(p)
    BY <1>4
  <2>2. CASE pc[p] = "writeValve" /\ cursor'[p] = cursor[p]
    BY <2>1, <2>2, <1>1 DEF RowInv, FoundFits, Updates, TaggedValves, Entry, FactoryOf, Fewer
  <2>3. CASE Looks(p)
    <3>1. Entry(p)' = Entry(p) /\ FactoryOf(p)' = FactoryOf(p)
      BY <2>3 DEF Looks, Entry, FactoryOf
    <3>2. TaggedValves(p)' \subseteq TaggedValves(p)
      BY <2>1, <3>1 DEF TaggedValves
    <3>3. CASE TaggedValves(p) = {} /\ cursor'[p].valve = NoValve
      BY <3>2, <3>3 DEF Updates
    <3>4. ASSUME NEW v \in TaggedValves(p), cursor'[p].valve = v.id
          PROVE  /\ cursor'[p].valve < seq'.valve
                 /\ \A w \in Versions' : w.id = cursor'[p].valve =>
                      w.factory = FactoryOf(p) /\ w.tag = Entry(p).tag
      <4>1. v \in Versions /\ v.factory = FactoryOf(p) /\ v.tag = Entry(p).tag
        BY AllVersions DEF TaggedValves, ViewValves, Overlay
      <4> QED
        BY <4>1, <3>4, <1>1 DEF RowInv, IdentityKept, Fewer
    <3>5. CASE \E v \in TaggedValves(p) : cursor'[p].valve = v.id
      <4>1. Updates(p)'
        <5>1. PICK v \in TaggedValves(p) : cursor'[p].valve = v.id
          BY <3>5
        <5>2. v \in Valve
          BY ViewTypes DEF TaggedValves, PushTypeOK
        <5> QED
          BY <5>1, <5>2 DEF Updates, NoValve, Valve
      <4> QED
        BY <4>1, <3>4, <3>5, <3>1
    <3> QED
      BY <2>3, <3>3, <3>5 DEF Looks
  <2> QED
    BY <2>2, <2>3 DEF Fewer
<1>6. NewUnderTag'
  <2> SUFFICES ASSUME NEW p \in Push, NEW v \in tx'[p].valves
               PROVE  Known(v)' \/ Alone(p, v)'
    BY DEF NewUnderTag
  <2>1. tx'[p].valves = tx[p].valves /\ \A w \in valves : w.id = v.id => w \in valves'
    BY DEF Fewer
  <2> QED
    BY <2>1, <1>4 DEF RowInv, NewUnderTag, Known, Alone
<1>7. LinksThere'
  <2> SUFFICES ASSUME NEW l \in links'
               PROVE  workOrders'[l[2]] # None /\ \E v \in valves' : v.id = l[1]
    BY DEF LinksThere
  <2>1. l \in links /\ workOrders'[l[2]] = workOrders[l[2]]
    BY DEF Fewer
  <2>2. PICK v \in valves : v.id = l[1]
    BY <2>1 DEF RowInv, LinksThere
  <2> QED
    BY <2>1, <2>2 DEF RowInv, LinksThere, Fewer
<1>8. LinksAskedFor'
  <2>1. \A s, f : Asked(s, f) => Asked(s, f)'
    BY DEF Asked, Fewer, FactoryOf
  <2> QED
    BY <2>1, <1>1 DEF RowInv, LinksAskedFor, Fewer
<1>9. IsFiniteSet(valves') /\ \A p \in Push : IsFiniteSet(tx'[p].valves)
  BY FS_Subset, FS_EmptySet DEF RowInv, Fewer
<1> QED
  BY <1>2, <1>3, <1>5, <1>6, <1>7, <1>8, <1>9 DEF RowInv

---------------------------------------------------------------------------
(* The write of a valve. *)

\* What the statement does to the rows, with the identity of the row it writes.
StoresRow(p, row) ==
  /\ row \in Valve /\ row.factory = FactoryOf(p) /\ row.tag = Entry(p).tag
  /\ \/ /\ seq'.valve = seq.valve
        /\ \E old \in ViewValves(p) : /\ old.id = row.id /\ old.factory = row.factory
                                      /\ old.tag = row.tag
     \/ row.id = seq.valve /\ seq'.valve = seq.valve + 1 /\ TaggedValves(p) = {}
  /\ tx'[p].valves = Overlay(tx[p].valves, {row})
  /\ tx'[p].links = tx[p].links \cup {<<row.id, Payload[p].serial>>}
  /\ \A q \in Push \ {p} : tx'[q] = tx[q] /\ pc'[q] = pc[q] /\ cursor'[q] = cursor[q]
  /\ pc[p] # "idle" /\ pc'[p] \notin {"idle", "writeValve"}
  /\ UNCHANGED <<valves, workOrders, links>>

\* WriteValve is such a statement: the row updated is of the factory and tag it was
\* looked up by, a row created has a tag nobody has.
LEMMA WriteStores ==
  ASSUME NEW p \in Push, PushTypeOK, CursorInLoop, RowInv, WriteValve(p)
  PROVE  \E row : StoresRow(p, row)
<1>0. pc[p] = "writeValve" /\ tx[p] \in Tx /\ seq.valve \in Nat \ {0} /\ cursor[p].valve \in Nat
      /\ cursor[p].device \in Nat
  BY DEF WriteValve, PushTypeOK, StoreTypeOK
<1>1. Entry(p).tag \in Tag /\ Entry(p).serialNumber \in SerialNumber \cup {Absent}
  BY <1>0, EntryType DEF LoopSteps
<1>2. PICK row \in NewRows(p) :
        /\ tx' = [tx EXCEPT ![p] = [tx[p] EXCEPT
                    !.valves = Overlay(tx[p].valves, {row}),
                    !.links = tx[p].links \cup {<<row.id, Payload[p].serial>>},
                    !.keyShare = tx[p].keyShare \cup {row.device}]]
        /\ seq' = [seq EXCEPT !.valve = IF Updates(p) THEN @ ELSE @ + 1]
  BY DEF WriteValve
<1>3. row.factory = FactoryOf(p) /\ row.tag = Entry(p).tag
  BY <1>2 DEF NewRows
<1>4. /\ tx'[p].valves = Overlay(tx[p].valves, {row})
      /\ tx'[p].links = tx[p].links \cup {<<row.id, Payload[p].serial>>}
      /\ \A q \in Push \ {p} : tx'[q] = tx[q]
  BY <1>0, <1>2 DEF PushTypeOK, StoreTypeOK, Tx
<1>5. Loop(p, cursor[p].index + 1) /\ UNCHANGED <<valves, workOrders, links>>
  BY DEF WriteValve, tables
<1>6. /\ \A q \in Push \ {p} : pc'[q] = pc[q] /\ cursor'[q] = cursor[q]
      /\ pc'[p] \in {"findDevice", "commit"}
  BY <1>5 DEF Loop, Goto, PushTypeOK
<1>7. CASE Updates(p)
  <2>1. PICK old \in ViewValves(p) :
          /\ old.id = cursor[p].valve /\ row.id = old.id
          /\ row = [id |-> old.id, factory |-> FactoryOf(p), device |-> cursor[p].device,
                    tag |-> Entry(p).tag, serialNumber |-> NewSerial(p, old)]
    BY <1>2, <1>7 DEF NewRows, OldRows
  <2>2. old \in Versions /\ old \in Valve
    BY AllVersions, ViewTypes DEF ViewValves, Overlay, PushTypeOK
  <2>3. old.factory = FactoryOf(p) /\ old.tag = Entry(p).tag
    BY <2>1, <2>2, <1>0, <1>7 DEF RowInv, FoundFits
  <2>4. row \in Valve
    BY <2>1, <2>2, <1>0, <1>1, RequestTypes DEF Valve, NewSerial
  <2>5. seq'.valve = seq.valve
    BY <1>2, <1>7, <1>0 DEF PushTypeOK, StoreTypeOK
  <2> QED
    BY <1>0, <1>3, <1>4, <1>5, <1>6, <2>1, <2>3, <2>4, <2>5 DEF StoresRow
<1>8. CASE ~Updates(p)
  <2>1. row = [id |-> seq.valve, factory |-> FactoryOf(p), device |-> cursor[p].device,
               tag |-> Entry(p).tag, serialNumber |-> Entry(p).serialNumber]
    BY <1>2, <1>8 DEF NewRows
  <2>2. row \in Valve /\ row.id = seq.valve
    BY <2>1, <1>0, <1>1, RequestTypes DEF Valve
  <2>3. TaggedValves(p) = {}
    BY <1>0, <1>8 DEF RowInv, FoundFits
  <2>4. seq'.valve = seq.valve + 1
    BY <1>2, <1>8, <1>0 DEF PushTypeOK, StoreTypeOK
  <2> QED
    BY <1>0, <1>3, <1>4, <1>5, <1>6, <2>2, <2>3, <2>4 DEF StoresRow
<1> QED
  BY <1>7, <1>8

\* It keeps the rows and links in order.
LEMMA StoresKeep ==
  ASSUME NEW p \in Push, NEW row, PushTypeOK, RowInv, StoresRow(p, row)
  PROVE  RowInv'
<1>0. /\ seq.valve \in Nat /\ row.id \in Nat /\ Versions \subseteq Valve
      /\ \A q \in Push : cursor[q].valve \in Nat
  BY DEF PushTypeOK, StoreTypeOK, StoresRow, Valve, Versions, Tx
<1>1. \A v \in Versions' : v = row \/ (v \in Versions /\ (v \in tx'[p].valves => v.id # row.id))
  BY AllVersions, AllVersionsNext DEF StoresRow, Overlay
<1>2. \/ /\ seq'.valve = seq.valve
         /\ \E old \in Versions : old.id = row.id /\ old.factory = row.factory /\ old.tag = row.tag
      \/ row.id = seq.valve /\ seq'.valve = seq.valve + 1
  BY AllVersions DEF StoresRow, ViewValves, Overlay
<1>3. IdentityKept'
  <2>1. \A v \in Versions' : v.id < seq'.valve
    BY <1>0, <1>1, <1>2 DEF RowInv, IdentityKept, Valve
  <2>2. \A v \in Versions : v.id = row.id => v.factory = row.factory /\ v.tag = row.tag
    BY <1>0, <1>2 DEF RowInv, IdentityKept
  <2>3. \A v, w \in Versions' : v.id = w.id => v.factory = w.factory /\ v.tag = w.tag
    BY <1>1, <2>2 DEF RowInv, IdentityKept
  <2> QED
    BY <2>1, <2>3 DEF IdentityKept
<1>4. KeysUnique'
  BY DEF RowInv, KeysUnique, StoresRow, Overlay
<1>5. OwnWrites'
  <2>1. \A q \in Push \ {p} : tx'[q] = tx[q]
    BY DEF StoresRow
  <2>2. \A v \in tx'[p].valves : v.factory = FactoryOf(p)
    BY DEF RowInv, OwnWrites, StoresRow, Overlay
  <2>3. \A l \in tx'[p].links : l[2] = Payload[p].serial /\ \E v \in tx'[p].valves : v.id = l[1]
    BY DEF RowInv, OwnWrites, StoresRow, Overlay
  <2> QED
    BY <2>1, <2>2, <2>3 DEF RowInv, OwnWrites, FactoryOf
<1>6. FoundFits'
  <2> SUFFICES ASSUME NEW q \in Push, pc'[q] = "writeValve"
               PROVE  IF Updates(q)'
                      THEN /\ cursor'[q].valve < seq'.valve
                           /\ \A v \in Versions' : v.id = cursor'[q].valve =>
                                v.factory = FactoryOf(q)' /\ v.tag = Entry(q)'.tag
                      ELSE TaggedValves(q)' = {}
    BY DEF FoundFits
  <2>1. q # p /\ tx'[q] = tx[q] /\ pc[q] = "writeValve" /\ cursor'[q] = cursor[q] /\ valves' = valves
    BY DEF StoresRow
  <2>2. /\ Updates(q)' = Updates(q) /\ TaggedValves(q)' = TaggedValves(q)
        /\ Entry(q)' = Entry(q) /\ FactoryOf(q)' = FactoryOf(q)
    BY <2>1 DEF Updates, TaggedValves, ViewValves, Overlay, Entry, FactoryOf
  <2>3. CASE Updates(q)
    <3>1. /\ cursor[q].valve < seq.valve
          /\ \A v \in Versions : v.id = cursor[q].valve =>
               v.factory = FactoryOf(q) /\ v.tag = Entry(q).tag
      BY <2>1, <2>3 DEF RowInv, FoundFits
    <3>2. cursor'[q].valve < seq'.valve
      BY <3>1, <2>1, <1>0, <1>2
    <3>3. row.id = cursor[q].valve => row.factory = FactoryOf(q) /\ row.tag = Entry(q).tag
      BY <3>1, <1>0, <1>2
    <3> QED
      BY <1>1, <2>1, <2>2, <2>3, <3>1, <3>2, <3>3
  <2>4. CASE ~Updates(q)
    BY <2>1, <2>2, <2>4 DEF RowInv, FoundFits
  <2> QED
    BY <2>3, <2>4
<1>7. NewUnderTag'
  <2>1. ViewValves(p)' \subseteq ViewValves(p) \cup {row}
        /\ \A w \in ViewValves(p)' : w = row \/ w.id # row.id
    BY DEF StoresRow, ViewValves, Overlay
  <2>2. \A q \in Push \ {p} : tx'[q] = tx[q] /\ ViewValves(q)' = ViewValves(q)
    BY DEF StoresRow, ViewValves, Overlay
  <2>3. Known(row)' \/ Alone(p, row)'
    <3>1. CASE \E old \in ViewValves(p) : /\ old.id = row.id /\ old.factory = row.factory
                                          /\ old.tag = row.tag
      <4>1. PICK old \in ViewValves(p) : /\ old.id = row.id /\ old.factory = row.factory
                                         /\ old.tag = row.tag
        BY <3>1
      <4>2. CASE old \in valves
        BY <4>1, <4>2 DEF StoresRow, Known
      <4>3. CASE old \in tx[p].valves
        BY <4>1, <4>3, <2>1 DEF RowInv, NewUnderTag, StoresRow, Known, Alone
      <4> QED
        BY <4>2, <4>3 DEF ViewValves, Overlay
    <3>2. CASE TaggedValves(p) = {}
      BY <3>2, <2>1 DEF TaggedValves, StoresRow, Alone
    <3> QED
      BY <3>1, <3>2 DEF StoresRow
  <2>4. ASSUME NEW v \in tx[p].valves, v.id # row.id
        PROVE  Known(v)' \/ Alone(p, v)'
    <3>1. v \in ViewValves(p)
      BY DEF ViewValves, Overlay
    <3>2. CASE Known(v)
      BY <3>2 DEF StoresRow, Known
    <3>3. CASE Alone(p, v)
      <4>1. ~(row.factory = v.factory /\ row.tag = v.tag)
        BY <3>1, <3>3, <2>4 DEF StoresRow, TaggedValves, Alone
      <4> QED
        BY <4>1, <3>3, <2>1 DEF Alone
    <3> QED
      BY <3>2, <3>3 DEF RowInv, NewUnderTag
  <2>5. \A v \in tx'[p].valves : v = row \/ (v \in tx[p].valves /\ v.id # row.id)
    BY DEF StoresRow, Overlay
  <2>6. \A v \in tx'[p].valves : Known(v)' \/ Alone(p, v)'
    BY <2>3, <2>4, <2>5
  <2>7. \A q \in Push \ {p} : \A v \in tx'[q].valves : Known(v)' \/ Alone(q, v)'
    BY <2>2 DEF RowInv, NewUnderTag, StoresRow, Known, Alone
  <2> QED
    BY <2>6, <2>7 DEF NewUnderTag
<1>8. LinksThere'
  BY DEF RowInv, LinksThere, StoresRow
<1>9. LinksAskedFor'
  <2> SUFFICES ASSUME LinksAtHome PROVE LinksAskedFor'
    BY DEF LinksAskedFor
  <2>1. \A s, f : Asked(s, f) => Asked(s, f)'
    BY DEF Asked, StoresRow, FactoryOf
  <2>2. ASSUME NEW l \in links, l[1] = row.id
        PROVE  Asked(l[2], row.factory) \/ workOrders[l[2]].factory = row.factory
    <3>1. PICK v \in valves : v.id = row.id
      BY <2>2 DEF RowInv, LinksThere
    <3>2. v \in Versions /\ v.id < seq.valve
      BY <3>1, AllVersions DEF RowInv, IdentityKept
    <3>3. v.factory = row.factory
      BY <3>1, <3>2, <1>0, <1>2 DEF RowInv, IdentityKept
    <3> QED
      BY <2>2, <3>1, <3>2, <3>3 DEF RowInv, LinksAskedFor
  <2>3. links' = links /\ workOrders' = workOrders
    BY DEF StoresRow
  <2> QED
    BY <2>1, <2>2, <2>3, <1>1 DEF RowInv, LinksAskedFor
<1>10. IsFiniteSet(valves') /\ \A q \in Push : IsFiniteSet(tx'[q].valves)
  <2>1. IsFiniteSet(tx[p].valves \cup {row}) /\ Overlay(tx[p].valves, {row}) \subseteq tx[p].valves \cup {row}
    BY FS_AddElement DEF RowInv, Overlay
  <2>2. IsFiniteSet(Overlay(tx[p].valves, {row}))
    BY <2>1, FS_Subset
  <2> QED
    BY <2>2 DEF RowInv, StoresRow
<1> QED
  BY <1>3, <1>4, <1>5, <1>6, <1>7, <1>8, <1>9, <1>10 DEF RowInv

---------------------------------------------------------------------------
(* The end of a transaction. *)

\* p commits, whether or not the reply arrives.
Commits(p) ==
  /\ pc[p] = "commit" /\ Publish(p)
  /\ Goto(p, "recordSuccess") \/ Goto(p, "recordFailure")

\* What a commit does to the pushes: p ends without a trace, the others are in
\* other factories and keep everything.
LEMMA CommitsAlone ==
  ASSUME NEW p \in Push, PushTypeOK, LocksHeld, OneWriterPerFactory, Commits(p)
  PROVE  /\ tx'[p] = NoTx /\ pc'[p] \notin LockedSteps \cup {"idle"}
         /\ cursor' = cursor /\ seq' = seq
         /\ \A q \in Push \ {p} :
              /\ tx'[q] = tx[q] /\ pc'[q] = pc[q]
              /\ pc[q] \in LockedSteps => FactoryOf(q) # FactoryOf(p)
              /\ tx[q].valves # {} => pc[q] \in LockedSteps
<1>1. /\ tx' = [tx EXCEPT ![p] = NoTx] /\ cursor' = cursor /\ seq' = seq
      /\ \E s \in {"recordSuccess", "recordFailure"} : pc' = [pc EXCEPT ![p] = s]
  BY DEF Commits, Publish, Goto
<1>2. /\ tx'[p] = NoTx /\ pc'[p] \notin LockedSteps \cup {"idle"}
      /\ \A q \in Push \ {p} : tx'[q] = tx[q] /\ pc'[q] = pc[q]
  BY <1>1 DEF PushTypeOK, StoreTypeOK, LockedSteps, TxSteps
<1>3. tx[p].factory = FactoryOf(p)
  BY DEF Commits, LocksHeld, LockedSteps, TxSteps
<1>4. FactoryOf(p) # None
  BY RequestTypes, InitialStoresAssumption
<1>5. \A q \in Push \ {p} : pc[q] \in LockedSteps => FactoryOf(q) # FactoryOf(p)
  BY <1>3, <1>4 DEF LocksHeld, OneWriterPerFactory
<1>6. \A q \in Push : tx[q].valves # {} => pc[q] \in LockedSteps
  BY DEF LocksHeld, NoTx
<1> QED
  BY <1>1, <1>2, <1>5, <1>6

\* A commit leaves the work orders of the other pushes alone.
LEMMA CommitsOrders ==
  ASSUME NEW p \in Push, PushTypeOK, LocksHeld, OneWriterPerFactory,
         OneWriterPerOrder, OrderHeld, Commits(p)
  PROVE  SameOrders
<1>1. /\ tx'[p].serial = None /\ ~HoldsOrder(p)'
      /\ \A q \in Push \ {p} : tx'[q] = tx[q] /\ (HoldsOrder(q)' <=> HoldsOrder(q))
  BY CommitsAlone DEF NoTx, HoldsOrder
<1>2. tx[p].serial = Payload[p].serial /\ Payload[p].serial # None
  BY RequestTypes, InitialStoresAssumption DEF OrderHeld, Commits, LockedSteps, TxSteps
<1>3. \A q \in Push \ {p} : tx[q].serial # None => Payload[q].serial # Payload[p].serial
  BY <1>2 DEF OrderHeld, OneWriterPerOrder
<1>4. workOrders' = [workOrders EXCEPT ![Payload[p].serial] = tx[p].workOrder]
  BY DEF Commits, Publish
<1>5. \A q \in Push \ {p} : tx[q].serial # None =>
        workOrders'[Payload[q].serial] = workOrders[Payload[q].serial]
  BY <1>3, <1>4, RequestTypes DEF PushTypeOK, StoreTypeOK
<1> QED
  BY <1>1, <1>5 DEF SameOrders

\* It keeps the rows and links in order: no other push works in this factory.
LEMMA CommitsKeep ==
  ASSUME NEW p \in Push, PushTypeOK, LocksHeld, OneWriterPerFactory,
         OneWriterPerOrder, OrderHeld, RowInv, Commits(p)
  PROVE  RowInv'
<1>0. /\ valves' = Overlay(valves, tx[p].valves) /\ links' = links \cup tx[p].links
      /\ workOrders' = [workOrders EXCEPT ![Payload[p].serial] = tx[p].workOrder]
  BY DEF Commits, Publish, ViewValves
<1>1. \A v \in Versions' : v \in Versions
  BY <1>0, CommitsAlone, AllVersions, AllVersionsNext DEF Overlay, NoTx
<1>2. IdentityKept'
  BY <1>1, CommitsAlone DEF RowInv, IdentityKept
<1>3. KeysUnique'
  BY <1>0, CommitsAlone DEF RowInv, KeysUnique, Overlay, NoTx
<1>4. OwnWrites'
  BY CommitsAlone DEF RowInv, OwnWrites, NoTx, FactoryOf
<1>5. \A q \in Push \ {p} : \A w \in ViewValves(q)' :
        pc[q] \in LockedSteps /\ w.factory = FactoryOf(q) => w \in ViewValves(q)
  <2> SUFFICES ASSUME NEW q \in Push \ {p}, NEW w \in ViewValves(q)',
                      pc[q] \in LockedSteps, w.factory = FactoryOf(q)
               PROVE  w \in ViewValves(q)
    OBVIOUS
  <2>1. tx'[q] = tx[q] /\ FactoryOf(q) # FactoryOf(p)
    BY CommitsAlone
  <2>2. w \notin tx[p].valves
    BY <2>1 DEF RowInv, OwnWrites
  <2> QED
    BY <1>0, <2>1, <2>2 DEF ViewValves, Overlay
<1>6. FoundFits'
  <2> SUFFICES ASSUME NEW q \in Push, pc'[q] = "writeValve"
               PROVE  IF Updates(q)'
                      THEN /\ cursor'[q].valve < seq'.valve
                           /\ \A v \in Versions' : v.id = cursor'[q].valve =>
                                v.factory = FactoryOf(q)' /\ v.tag = Entry(q)'.tag
                      ELSE TaggedValves(q)' = {}
    BY DEF FoundFits
  <2>1. q # p /\ pc[q] = "writeValve" /\ pc[q] \in LockedSteps
    BY CommitsAlone DEF LockedSteps, TxSteps
  <2>2. /\ Updates(q)' = Updates(q) /\ Entry(q)' = Entry(q) /\ FactoryOf(q)' = FactoryOf(q)
        /\ cursor' = cursor /\ seq' = seq
    BY CommitsAlone DEF Updates, Entry, FactoryOf
  <2>3. TaggedValves(q)' \subseteq TaggedValves(q)
    BY <1>5, <2>1, <2>2 DEF TaggedValves
  <2> QED
    BY <1>1, <2>1, <2>2, <2>3 DEF RowInv, FoundFits
<1>7. NewUnderTag'
  <2> SUFFICES ASSUME NEW q \in Push, NEW v \in tx'[q].valves
               PROVE  Known(v)' \/ Alone(q, v)'
    BY DEF NewUnderTag
  <2>1. q # p /\ v \in tx[q].valves /\ pc[q] \in LockedSteps
    BY CommitsAlone DEF NoTx
  <2>2. v.factory = FactoryOf(q)
    BY <2>1 DEF RowInv, OwnWrites
  <2>3. Known(v) => Known(v)'
    BY <1>0 DEF Known, Overlay
  <2>4. Alone(q, v) => Alone(q, v)'
    BY <1>5, <2>1, <2>2 DEF Alone
  <2> QED
    BY <2>1, <2>3, <2>4 DEF RowInv, NewUnderTag
<1>8. /\ tx[p].workOrder \in WorkOrder /\ tx[p].workOrder # None
      /\ Payload[p].serial \in WorkOrderNo
      /\ tx[p].serial = Payload[p].serial /\ tx[p].serial # None
      /\ workOrders \in [WorkOrderNo -> WorkOrder \cup {None}]
  <2>1. pc[p] \in LockedSteps \ {"upsertWorkOrder"}
    BY DEF Commits, LockedSteps, TxSteps
  <2>2. tx[p].workOrder \in WorkOrder /\ tx[p].serial = Payload[p].serial
    BY <2>1 DEF LocksHeld, OrderHeld
  <2> QED
    BY <2>2, RequestTypes, InitialStoresAssumption DEF PushTypeOK, StoreTypeOK
<1>9. \A l \in links : workOrders[l[2]] # None /\ l[2] \in WorkOrderNo
  BY DEF RowInv, LinksThere, PushTypeOK, StoreTypeOK, Link
<1>10. \A l \in links : workOrders'[l[2]] # None /\ workOrders'[l[2]].factory = workOrders[l[2]].factory
  BY <1>0, <1>8, <1>9 DEF OrderHeld
<1>11. ASSUME NEW l \in tx[p].links
       PROVE  /\ l[2] = Payload[p].serial /\ workOrders'[l[2]] # None
              /\ \E v \in tx[p].valves : v.id = l[1] /\ v.factory = FactoryOf(p) /\ v \in Versions
  BY <1>0, <1>8, AllVersions DEF RowInv, OwnWrites
<1>12. LinksThere'
  <2>1. \A l \in links : \E v \in valves' : v.id = l[1]
    BY <1>0 DEF RowInv, LinksThere, Overlay
  <2>2. \A l \in tx[p].links : \E v \in valves' : v.id = l[1]
    BY <1>0, <1>11 DEF Overlay
  <2> QED
    BY <1>0, <1>10, <1>11, <2>1, <2>2 DEF LinksThere
<1>13. LinksAskedFor'
  <2> SUFFICES ASSUME LinksAtHome PROVE LinksAskedFor'
    BY DEF LinksAskedFor
  <2>1. \A s, f : Asked(s, f) => Asked(s, f)'
    BY CommitsAlone DEF Asked, FactoryOf
  <2>2. Asked(Payload[p].serial, FactoryOf(p))'
    BY CommitsAlone DEF Asked, FactoryOf
  <2>3. ASSUME NEW l \in links, NEW v \in Versions', l[1] = v.id
        PROVE  Asked(l[2], v.factory)' \/ workOrders'[l[2]].factory = v.factory
    BY <1>1, <1>10, <2>1, <2>3 DEF RowInv, LinksAskedFor
  <2>4. ASSUME NEW l \in tx[p].links, NEW v \in Versions', l[1] = v.id
        PROVE  Asked(l[2], v.factory)'
    <3>1. PICK w \in tx[p].valves : w.id = l[1] /\ w.factory = FactoryOf(p) /\ w \in Versions
      BY <1>11
    <3>2. v.factory = FactoryOf(p)
      BY <3>1, <2>4, <1>1 DEF RowInv, IdentityKept
    <3> QED
      BY <1>11, <2>2, <3>2
  <2> QED
    BY <1>0, <2>3, <2>4 DEF LinksAskedFor
<1>14. IsFiniteSet(valves') /\ \A q \in Push : IsFiniteSet(tx'[q].valves)
  <2>1. IsFiniteSet(valves \cup tx[p].valves) /\ valves' \subseteq valves \cup tx[p].valves
    BY <1>0, FS_Union DEF RowInv, Overlay
  <2>2. IsFiniteSet(NoTx.valves)
    BY FS_EmptySet DEF NoTx
  <2> QED
    BY <2>1, <2>2, FS_Subset, CommitsAlone DEF RowInv
<1> QED
  BY <1>2, <1>3, <1>4, <1>6, <1>7, <1>12, <1>13, <1>14 DEF RowInv

---------------------------------------------------------------------------
(* The other steps. *)

\* A step of p that reads, fails or answers.
Quiet(p) ==
  /\ UNCHANGED <<valves, links, workOrders>> /\ seq'.valve = seq.valve
  /\ \A q \in Push \ {p} : tx'[q] = tx[q] /\ pc'[q] = pc[q] /\ cursor'[q] = cursor[q]
  /\ pc'[p] # "idle" /\ (pc'[p] = "writeValve" => Looks(p))
  /\ \/ /\ tx'[p].valves = tx[p].valves /\ tx'[p].links = tx[p].links
        /\ tx'[p].serial = tx[p].serial /\ tx'[p].workOrder = tx[p].workOrder
        /\ HoldsOrder(p)' <=> HoldsOrder(p)
     \/ tx'[p] = NoTx /\ ~HoldsOrder(p)' /\ pc'[p] # "writeValve"

\* Such a step writes no valve and no work order.
LEMMA QuietKeeps ==
  ASSUME NEW p \in Push, Quiet(p)
  PROVE  Fewer /\ SameOrders
<1>1. NoTx.valves = {} /\ NoTx.links = {} /\ NoTx.serial = None
  BY DEF NoTx
<1>2. Fewer
  BY <1>1 DEF Fewer, Quiet
<1>3. SameOrders
  BY <1>1 DEF SameOrders, Quiet, HoldsOrder
<1> QED
  BY <1>2, <1>3

\* A rollback is one.
LEMMA RollBackQuiet ==
  ASSUME NEW p \in Push, PushTypeOK, RollBack(p)
  PROVE  Quiet(p)
<1>1. tx' = [tx EXCEPT ![p] = NoTx] /\ pc' = [pc EXCEPT ![p] = "recordFailure"]
      /\ UNCHANGED <<tables, seq, cursor>>
  BY DEF RollBack, Goto
<1> QED
  BY <1>1 DEF Quiet, PushTypeOK, StoreTypeOK, HoldsOrder, LockedSteps, TxSteps, tables

\* So is every step but the upsert of the work order, the write of a valve and the
\* commit.
LEMMA AdvanceQuiet ==
  ASSUME NEW p \in Push, PushTypeOK, Receive(p) \/ Advance(p),
         ~UpsertWorkOrder(p), ~WriteValve(p), ~Commit(p)
  PROVE  Quiet(p)
<1>0. tx \in [Push -> Tx] /\ pc \in [Push -> Steps]
      /\ cursor \in [Push -> [index : Nat, device : Nat, valve : Nat]]
      /\ seq \in [device : Nat \ {0}, valve : Nat \ {0}]
  BY DEF PushTypeOK, StoreTypeOK
<1>1. CASE Receive(p)
  <2>1. pc[p] = "idle" /\ pc' = [pc EXCEPT ![p] = "upsertFactory"] /\ UNCHANGED <<storeVars, cursor>>
    BY <1>1 DEF Receive, Goto
  <2> QED
    BY <1>0, <2>1 DEF Quiet, HoldsOrder, LockedSteps, TxSteps, storeVars, tables
<1>2. CASE UpsertFactory(p)
  <2>1. tx' = [tx EXCEPT ![p] = [tx[p] EXCEPT !.factory = FactoryOf(p)]]
    BY <1>2 DEF UpsertFactory
  <2>2. pc[p] = "upsertFactory" /\ pc' = [pc EXCEPT ![p] = "upsertWorkOrder"]
        /\ UNCHANGED <<tables, seq, cursor>>
    BY <1>2 DEF UpsertFactory, Goto
  <2>3. /\ tx'[p].valves = tx[p].valves /\ tx'[p].links = tx[p].links
        /\ tx'[p].serial = tx[p].serial /\ tx'[p].workOrder = tx[p].workOrder
    BY <1>0, <2>1 DEF Tx
  <2> QED
    BY <1>0, <2>1, <2>2, <2>3 DEF Quiet, HoldsOrder, LockedSteps, TxSteps, tables
<1>3. CASE FindDevice(p)
  <2>1. UNCHANGED storeVars /\ pc[p] = "findDevice"
        /\ \E s \in {"findValve", "createDevice"} : pc' = [pc EXCEPT ![p] = s]
    BY <1>3 DEF FindDevice, Goto
  <2>2. \A q \in Push \ {p} : cursor'[q] = cursor[q]
    BY <1>0, <1>3 DEF FindDevice
  <2> QED
    BY <1>0, <2>1, <2>2 DEF Quiet, HoldsOrder, LockedSteps, TxSteps, storeVars, tables
<1>4. CASE CreateDevice(p)
  <2>1. PICK ds : tx' = [tx EXCEPT ![p] = [tx[p] EXCEPT !.devices = ds]]
    BY <1>4 DEF CreateDevice
  <2>2. pc[p] = "createDevice" /\ pc' = [pc EXCEPT ![p] = "findValve"]
        /\ UNCHANGED tables /\ seq'.valve = seq.valve
    BY <1>0, <1>4 DEF CreateDevice, Goto
  <2>3. \A q \in Push \ {p} : cursor'[q] = cursor[q]
    BY <1>0, <1>4 DEF CreateDevice
  <2>4. /\ tx'[p].valves = tx[p].valves /\ tx'[p].links = tx[p].links
        /\ tx'[p].serial = tx[p].serial /\ tx'[p].workOrder = tx[p].workOrder
    BY <1>0, <2>1 DEF Tx
  <2> QED
    BY <1>0, <2>1, <2>2, <2>3, <2>4 DEF Quiet, HoldsOrder, LockedSteps, TxSteps, tables
<1>5. CASE FindValve(p)
  <2>1. pc[p] = "findValve" /\ pc' = [pc EXCEPT ![p] = "writeValve"] /\ UNCHANGED storeVars
    BY <1>5 DEF FindValve, Goto
  <2>2. Looks(p) /\ \A q \in Push \ {p} : cursor'[q] = cursor[q]
    <3>1. CASE \E v \in TaggedValves(p) : cursor' = [cursor EXCEPT ![p].valve = v.id]
      BY <1>0, <2>1, <3>1 DEF Looks
    <3>2. CASE TaggedValves(p) = {} /\ cursor' = [cursor EXCEPT ![p].valve = NoValve]
      BY <1>0, <2>1, <3>2 DEF Looks
    <3> QED
      BY <1>5, <3>1, <3>2 DEF FindValve
  <2> QED
    BY <1>0, <2>1, <2>2 DEF Quiet, HoldsOrder, LockedSteps, TxSteps, storeVars, tables
<1>6. CASE RefuseDevice(p) \/ RefuseValve(p)
  BY <1>6, RollBackQuiet DEF RefuseDevice, RefuseValve
<1>7. CASE RecordSuccess(p) \/ RecordFailure(p)
  <2>1. UNCHANGED storeVars /\ cursor' = cursor /\ pc[p] \in {"recordSuccess", "recordFailure"}
        /\ pc' = [pc EXCEPT ![p] = "answered"]
    BY <1>7 DEF RecordSuccess, RecordFailure, Record, Goto
  <2> QED
    BY <1>0, <2>1 DEF Quiet, HoldsOrder, LockedSteps, TxSteps, storeVars, tables
<1> QED
  BY <1>1, <1>2, <1>3, <1>4, <1>5, <1>6, <1>7 DEF Advance

\* Deletes wait for the rows that pushes hold.
LEMMA RemoveKeeps ==
  ASSUME PushTypeOK, OrderHeld, AdminRemove, UNCHANGED pushVars
  PROVE  Fewer /\ SameOrders
<1>0. UNCHANGED <<tx, pc, cursor, seq>>
  BY DEF AdminRemove, RemoveValves, RemoveDevices, RemoveFactories, pushVars
<1>1. ASSUME NEW gone, \A v \in gone : ~ValveLocked(v), DeleteValves(gone), workOrders' = workOrders
      PROVE  Fewer /\ SameOrders
  <2>1. \A p \in Push : \A v \in tx[p].valves, w \in valves : w.id = v.id => w \in valves'
    BY <1>1 DEF ValveLocked, DeleteValves
  <2>2. \A l \in links' : \A v \in valves : v.id = l[1] => v \in valves'
    BY <1>1 DEF DeleteValves
  <2>3. valves' \subseteq valves /\ links' \subseteq links
    BY <1>1 DEF DeleteValves
  <2>4. Fewer
    BY <1>0, <1>1, <2>1, <2>2, <2>3 DEF Fewer
  <2>5. SameOrders
    BY <1>0, <1>1 DEF SameOrders, HoldsOrder
  <2> QED
    BY <2>4, <2>5
<1>2. ASSUME NEW gone, RemoveValves(gone)
      PROVE  Fewer /\ SameOrders
  BY <1>1, <1>2 DEF RemoveValves
<1>3. ASSUME NEW gone, RemoveDevices(gone)
      PROVE  Fewer /\ SameOrders
  BY <1>1, <1>3 DEF RemoveDevices
<1>4. ASSUME NEW gone, RemoveFactories(gone)
      PROVE  Fewer /\ SameOrders
  <2> DEFINE built  == {d \in devices : d.factory \in gone}
             owned  == {v \in valves : v.factory \in gone \/ \E d \in built : v.device = d.id}
             orders == {s \in WorkOrderNo : workOrders[s] # None /\ workOrders[s].factory \in gone}
  <2>1. /\ \A s \in orders : ~WorkOrderLocked(s)
        /\ \A v \in owned : ~ValveLocked(v)
        /\ valves' = valves \ owned
        /\ workOrders' = [s \in WorkOrderNo |-> IF s \in orders THEN None ELSE workOrders[s]]
        /\ links' = {l \in links : l[2] \notin orders /\ \A v \in owned : l[1] # v.id}
    BY <1>4 DEF RemoveFactories
  <2> HIDE DEF owned, orders
  <2>2. \A l \in links : l[2] \in WorkOrderNo
    BY DEF PushTypeOK, StoreTypeOK, Link
  <2>3. \A p \in Push : \A v \in tx[p].valves, w \in valves : w.id = v.id => w \in valves'
    BY <2>1 DEF ValveLocked
  <2>4. \A l \in links' : /\ workOrders'[l[2]] = workOrders[l[2]]
                          /\ \A v \in valves : v.id = l[1] => v \in valves'
    BY <2>1, <2>2
  <2>5. Fewer
    BY <1>0, <2>1, <2>3, <2>4 DEF Fewer
  <2>6. \A p \in Push : tx[p].serial # None => workOrders'[Payload[p].serial] = workOrders[Payload[p].serial]
    BY <2>1, RequestTypes DEF OrderHeld, WorkOrderLocked
  <2>7. SameOrders
    BY <1>0, <2>6 DEF SameOrders, HoldsOrder
  <2> QED
    BY <2>5, <2>7
<1> QED
  BY <1>2, <1>3, <1>4 DEF AdminRemove

\* A stopped server leaves no trace of its open transactions.
LEMMA CrashKeeps ==
  ASSUME NEW h \in Host, Crash(h)
  PROVE  Fewer /\ SameOrders
<1>1. UNCHANGED <<valves, links, workOrders, seq, cursor>>
  BY DEF Crash, tables
<1>2. \A p \in Push : \/ tx'[p] = NoTx /\ pc'[p] = "lost"
                      \/ tx'[p] = tx[p] /\ pc'[p] = pc[p]
  BY DEF Crash
<1>3. NoTx.valves = {} /\ NoTx.links = {} /\ NoTx.serial = None
  BY DEF NoTx
<1>4. Fewer
  BY <1>1, <1>2, <1>3 DEF Fewer
<1>5. SameOrders
  BY <1>1, <1>2, <1>3 DEF SameOrders, HoldsOrder, LockedSteps, TxSteps
<1> QED
  BY <1>4, <1>5

\* What a step can do to the rows this invariant is about.
LEMMA StepKinds ==
  ASSUME PushTypeOK, OrderHeld, [PushNext]_vars
  PROVE  \/ Fewer /\ SameOrders
         \/ \E p \in Push : UpsertWorkOrder(p) \/ WriteValve(p) \/ Commits(p)
<1>1. ASSUME NEW p \in Push, Receive(p) \/ Advance(p),
             ~UpsertWorkOrder(p), ~WriteValve(p), ~Commit(p)
      PROVE  Fewer /\ SameOrders
  BY <1>1, AdvanceQuiet, QuietKeeps
<1>2. ASSUME NEW p \in Push, Abort(p)
      PROVE  Fewer /\ SameOrders
  BY <1>2, RollBackQuiet, QuietKeeps DEF Abort
<1>3. \A p \in Push : Commit(p) \/ LoseCommitAck(p) => Commits(p)
  BY DEF Commit, LoseCommitAck, Commits
<1>4. CASE UNCHANGED vars
  <2>1. UNCHANGED <<valves, links, workOrders, seq, tx, pc, cursor>>
    BY <1>4 DEF vars, storeVars, tables, pushVars
  <2> QED
    BY <2>1 DEF Fewer, SameOrders, HoldsOrder
<1> QED
  BY <1>1, <1>2, <1>3, <1>4, RemoveKeeps, CrashKeeps DEF PushNext, Fault

\* The upsert of the work order takes its row and nothing else.
LEMMA UpsertKeeps ==
  ASSUME NEW p \in Push, PushTypeOK, OneWriterPerOrder, OrderHeld, UpsertWorkOrder(p)
  PROVE  Fewer /\ OneWriterPerOrder' /\ OrderHeld'
<1>1. /\ tx' = [tx EXCEPT ![p] = [tx[p] EXCEPT !.serial = Payload[p].serial,
                                               !.workOrder = OrderRow(p)]]
      /\ UNCHANGED <<tables, seq>> /\ ~WorkOrderLocked(Payload[p].serial)
  BY DEF UpsertWorkOrder
<1>2. pc'[p] \in {"findDevice", "commit"} /\ \A q \in Push \ {p} : pc'[q] = pc[q] /\ cursor'[q] = cursor[q]
  BY DEF UpsertWorkOrder, Loop, Goto, PushTypeOK
<1>3. /\ tx'[p].valves = tx[p].valves /\ tx'[p].links = tx[p].links
      /\ tx'[p].serial = Payload[p].serial /\ tx'[p].workOrder = OrderRow(p)
      /\ \A q \in Push \ {p} : tx'[q] = tx[q]
  BY <1>1 DEF PushTypeOK, StoreTypeOK, Tx
<1>4. Fewer
  BY <1>1, <1>2, <1>3 DEF Fewer, tables
<1>5. OneWriterPerOrder'
  BY <1>1, <1>3 DEF OneWriterPerOrder, WorkOrderLocked
<1>6. OrderHeld'
  <2>1. \A q \in Push \ {p} : tx'[q] = tx[q] /\ pc'[q] = pc[q] /\ workOrders' = workOrders
    BY <1>1, <1>2, <1>3 DEF tables
  <2>2. /\ tx'[p].serial = Payload[p].serial
        /\ pc'[p] \in LockedSteps \ {"upsertWorkOrder"} /\ workOrders' = workOrders
        /\ tx'[p].workOrder.factory = IF workOrders[Payload[p].serial] = None
                                      THEN FactoryOf(p) ELSE workOrders[Payload[p].serial].factory
    BY <1>1, <1>2, <1>3 DEF OrderRow, LockedSteps, TxSteps, tables
  <2> QED
    BY <2>1, <2>2 DEF OrderHeld, FactoryOf
<1> QED
  BY <1>4, <1>5, <1>6

\* The write of a valve does not touch the work order.
LEMMA WriteOrders ==
  ASSUME NEW p \in Push, PushTypeOK, WriteValve(p)
  PROVE  SameOrders
<1>1. PICK row \in NewRows(p) :
        tx' = [tx EXCEPT ![p] = [tx[p] EXCEPT
                    !.valves = Overlay(tx[p].valves, {row}),
                    !.links = tx[p].links \cup {<<row.id, Payload[p].serial>>},
                    !.keyShare = tx[p].keyShare \cup {row.device}]]
  BY DEF WriteValve
<1>2. /\ tx'[p].serial = tx[p].serial /\ tx'[p].workOrder = tx[p].workOrder
      /\ \A q \in Push \ {p} : tx'[q] = tx[q]
  BY <1>1 DEF PushTypeOK, StoreTypeOK, Tx
<1>3. /\ pc[p] = "writeValve" /\ pc'[p] \in {"findDevice", "commit"}
      /\ \A q \in Push \ {p} : pc'[q] = pc[q]
      /\ workOrders' = workOrders
  BY DEF WriteValve, Loop, Goto, PushTypeOK, tables
<1> QED
  BY <1>2, <1>3 DEF SameOrders, HoldsOrder, LockedSteps, TxSteps

---------------------------------------------------------------------------
(* The theorems *)

\* The invariant holds when no push has arrived yet.
LEMMA OrderInitially == PushInit => OrderInv
<1> SUFFICES ASSUME PushInit PROVE OrderInv
  OBVIOUS
<1>1. PICK s \in InitialStores : /\ valves = s.valves /\ workOrders = s.workOrders
                                 /\ links = s.links /\ seq = s.seq
  BY DEF PushInit, StoreInit
<1>2. /\ \A v \in valves : v.id < seq.valve
      /\ \A v, w \in valves : v.id = w.id => v = w
      /\ \A l \in links : workOrders[l[2]] # None /\ \E v \in valves : v.id = l[1]
      /\ IsFiniteSet(valves)
  BY <1>1, InitialStoresAssumption
<1>3. \A p \in Push : tx[p] = NoTx /\ pc[p] = "idle"
  BY DEF PushInit, StoreInit
<1>4. NoTx.valves = {} /\ NoTx.links = {} /\ NoTx.serial = None
  BY DEF NoTx
<1>5. \A v \in Versions : v \in valves
  BY <1>3, <1>4 DEF Versions
<1>6. OneWriterPerOrder /\ OrderHeld
  BY <1>3, <1>4 DEF OneWriterPerOrder, OrderHeld, LockedSteps, TxSteps
<1>7. IdentityKept /\ KeysUnique
  BY <1>2, <1>3, <1>4, <1>5 DEF IdentityKept, KeysUnique
<1>8. OwnWrites /\ FoundFits /\ NewUnderTag
  BY <1>3, <1>4 DEF OwnWrites, FoundFits, NewUnderTag
<1>9. LinksThere /\ IsFiniteSet(valves) /\ \A p \in Push : IsFiniteSet(tx[p].valves)
  BY <1>2, <1>3, <1>4, FS_EmptySet DEF LinksThere
<1>10. LinksAskedFor
  BY <1>1, <1>5 DEF LinksAskedFor, LinksAtHome
<1> QED
  BY <1>6, <1>7, <1>8, <1>9, <1>10 DEF OrderInv

\* Every reachable state satisfies the inductive invariant: one push at a time
\* holds a work order, and rows keep their identity, through interleavings,
\* aborts, lost replies, crashes and deletes.
THEOREM OrderInvariant == PushSpec => []OrderInv
<1>1. PushInv /\ OrderInv /\ [PushNext]_vars => OrderInv'
  <2> SUFFICES ASSUME PushInv, OrderInv, [PushNext]_vars PROVE OrderInv'
    OBVIOUS
  <2>1. PushTypeOK /\ CursorInLoop /\ LocksHeld /\ OneWriterPerFactory
    BY DEF PushInv
  <2>2. OneWriterPerOrder /\ OrderHeld /\ RowInv
    BY DEF OrderInv, RowInv
  <2>3. ASSUME NEW p \in Push, WriteValve(p)
        PROVE  RowInv' /\ SameOrders
    BY <2>1, <2>2, <2>3, WriteStores, StoresKeep, WriteOrders
  <2>4. ASSUME NEW p \in Push, UpsertWorkOrder(p)
        PROVE  RowInv' /\ OneWriterPerOrder' /\ OrderHeld'
    BY <2>1, <2>2, <2>4, UpsertKeeps, FewerKeep
  <2>5. ASSUME NEW p \in Push, Commits(p)
        PROVE  RowInv' /\ SameOrders
    BY <2>1, <2>2, <2>5, CommitsKeep, CommitsOrders
  <2>6. RowInv' /\ OneWriterPerOrder' /\ OrderHeld'
    BY <2>1, <2>2, <2>3, <2>4, <2>5, StepKinds, FewerKeep, SameOrdersKeep
  <2> QED
    BY <2>6 DEF OrderInv, RowInv
<1> QED
  BY OrderInitially, PushInvariant, <1>1, PTL DEF PushSpec

\* If the links of the initial store join rows of one factory, a later link
\* crosses factories only where a push gave the work order another end user:
\* the link that a push writes is to valves of its own end user.
THEOREM LinksStayAtHome == LinksAtHome => (PushSpec => []WorkOrderAtHome)
<1> SUFFICES ASSUME LinksAtHome PROVE PushSpec => []WorkOrderAtHome
  OBVIOUS
<1>1. OrderInv => WorkOrderAtHome
  BY AllVersions DEF OrderInv, LinksAskedFor, WorkOrderAtHome, Asked, FactoryOf
<1> QED
  BY <1>1, OrderInvariant, PTL

\* A work order never moves to another factory: the push that writes it holds its
\* row since it read its factory.
THEOREM WorkOrdersStay == PushSpec => WorkOrderKeepsPlant
<1> DEFINE Keeps == \A s \in WorkOrderNo :
                      workOrders[s] # None /\ workOrders'[s] # None
                      => workOrders'[s].factory = workOrders[s].factory
<1>1. PushInv /\ OrderInv /\ [PushNext]_vars => [Keeps]_vars
  <2> SUFFICES ASSUME PushInv, OrderInv, [PushNext]_vars, NEW s \in WorkOrderNo,
                      workOrders[s] # None, workOrders'[s] # None
               PROVE  workOrders'[s].factory = workOrders[s].factory
    OBVIOUS
  <2>1. PushTypeOK /\ OrderHeld
    BY DEF PushInv, OrderInv
  <2>2. ASSUME NEW p \in Push, Publish(p), pc[p] = "commit"
        PROVE  workOrders'[s].factory = workOrders[s].factory
    <3>1. workOrders' = [workOrders EXCEPT ![Payload[p].serial] = tx[p].workOrder]
      BY <2>2 DEF Publish
    <3>2. tx[p].serial = Payload[p].serial /\ Payload[p].serial # None
      BY <2>1, <2>2, RequestTypes, InitialStoresAssumption DEF OrderHeld, LockedSteps, TxSteps
    <3> QED
      BY <2>1, <3>1, <3>2 DEF OrderHeld, PushTypeOK, StoreTypeOK
  <2>3. ASSUME \A p \in Push : ~(pc[p] = "commit" /\ Publish(p))
        PROVE  workOrders'[s] \in {workOrders[s], None}
    <3>1. CASE AdminRemove
      BY <3>1 DEF AdminRemove, RemoveValves, RemoveDevices, RemoveFactories
    <3>2. CASE ~AdminRemove
      BY <2>3, <3>2 DEF PushNext, Fault, Receive, Advance, UpsertFactory, UpsertWorkOrder,
           FindDevice, CreateDevice, RefuseDevice, FindValve, WriteValve, RefuseValve, Commit,
           RecordSuccess, RecordFailure, Record, Abort, LoseCommitAck, Crash, RollBack,
           vars, storeVars, tables
    <3> QED
      BY <3>1, <3>2
  <2> QED
    BY <2>2, <2>3
<1> QED
  BY <1>1, PushInvariant, OrderInvariant, PTL DEF PushSpec, WorkOrderKeepsPlant

\* After a commit either a single valve has the tag, or every valve under it is the
\* new version of one that was there.
LEMMA CommitTags ==
  ASSUME NEW p \in Push, NEW f \in Factory, NEW t \in Tag, PushInv, OrderInv, Commits(p),
         Cardinality(Tagged(f, t)') > 1
  PROVE  Cardinality(Tagged(f, t)') <= Cardinality(Tagged(f, t))
<1>0. PushTypeOK /\ LocksHeld /\ OneWriterPerFactory /\ OneWriterPerOrder /\ OrderHeld /\ RowInv
  BY DEF PushInv, OrderInv, RowInv
<1>1. valves' = ViewValves(p) /\ KeysUnique'
  BY <1>0, CommitsKeep DEF Commits, Publish, RowInv
<1>2. IsFiniteSet(Tagged(f, t)) /\ IsFiniteSet(Tagged(f, t)')
  <2>1. IsFiniteSet(valves) /\ IsFiniteSet(valves')
    BY <1>0, CommitsKeep DEF RowInv
  <2>2. Tagged(f, t) \subseteq valves /\ Tagged(f, t)' \subseteq valves'
    BY DEF Tagged
  <2> QED
    BY <2>1, <2>2, FS_Subset
<1>3. ASSUME NEW v \in Tagged(f, t)'
      PROVE  \E w \in Tagged(f, t) : w.id = v.id
  <2>1. v \in ViewValves(p) /\ v.factory = f /\ v.tag = t
    BY <1>1 DEF Tagged
  <2>2. CASE v \in valves
    BY <2>1, <2>2 DEF Tagged
  <2>3. CASE v \in tx[p].valves /\ Known(v)
    <3>1. PICK w \in valves : w.id = v.id
      BY <2>3 DEF Known
    <3>2. w \in Versions /\ v \in Versions
      BY <3>1, <2>3, AllVersions
    <3>3. w.factory = v.factory /\ w.tag = v.tag
      BY <1>0, <3>1, <3>2 DEF RowInv, IdentityKept
    <3> QED
      BY <2>1, <3>1, <3>3 DEF Tagged
  <2>4. CASE v \in tx[p].valves /\ Alone(p, v)
    <3>1. Tagged(f, t)' = {v}
      BY <1>1, <2>1, <2>4 DEF Tagged, Alone
    <3>2. Cardinality({v}) = 1
      BY FS_Singleton
    <3> QED
      BY <3>1, <3>2
  <2>5. v \in valves \/ (v \in tx[p].valves /\ (Known(v) \/ Alone(p, v)))
    BY <1>0, <2>1 DEF ViewValves, Overlay, RowInv, NewUnderTag
  <2> QED
    BY <2>2, <2>3, <2>4, <2>5
<1> DEFINE before == [v \in Tagged(f, t)' |-> CHOOSE w \in Tagged(f, t) : w.id = v.id]
<1>4. \A v \in Tagged(f, t)' : before[v] \in Tagged(f, t) /\ before[v].id = v.id
  BY <1>3
<1>5. before \in [Tagged(f, t)' -> Tagged(f, t)]
  BY <1>4
<1>6. \A v, w \in Tagged(f, t)' : v # w => before[v] # before[w]
  <2>1. \A v, w \in Tagged(f, t)' : v.id = w.id => v = w
    BY <1>1 DEF KeysUnique, Tagged
  <2> HIDE DEF before
  <2> QED
    BY <1>4, <2>1
<1>7. ~(Cardinality(Tagged(f, t)) < Cardinality(Tagged(f, t)'))
  <2> HIDE DEF before
  <2> QED
    BY <1>2, <1>5, <1>6, FS_PigeonHole
<1> QED
  BY <1>2, <1>7, FS_CardinalityType

\* No push puts a valve under a tag that the factory has already, although the
\* schema has no such key: the row lock of the factory upsert lasts from the look
\* for the valve to the commit.
THEOREM TagsStay == PushSpec => NoNewDuplicateTag
<1>1. PushInv /\ OrderInv /\ [PushNext]_vars =>
        [\A f \in Factory, t \in Tag :
           Cardinality(Tagged(f, t)') > 1 => Cardinality(Tagged(f, t)') <= Cardinality(Tagged(f, t))]_vars
  <2> SUFFICES ASSUME PushInv, OrderInv, [PushNext]_vars, NEW f \in Factory, NEW t \in Tag,
                      Cardinality(Tagged(f, t)') > 1
               PROVE  Cardinality(Tagged(f, t)') <= Cardinality(Tagged(f, t))
    OBVIOUS
  <2>1. PushTypeOK /\ CursorInLoop /\ OrderHeld /\ OneWriterPerOrder /\ RowInv
    BY DEF PushInv, OrderInv, RowInv
  <2>2. CASE \E p \in Push : Commits(p)
    BY <2>2, CommitTags
  <2>3. CASE ~\E p \in Push : Commits(p)
    <3>1. \A p \in Push : UpsertWorkOrder(p) => valves' = valves
      BY DEF UpsertWorkOrder, tables
    <3>2. \A p \in Push : WriteValve(p) => valves' = valves
      BY DEF WriteValve, tables
    <3>3. valves' \subseteq valves
      BY <2>1, <2>3, <3>1, <3>2, StepKinds DEF Fewer
    <3>4. Tagged(f, t)' \subseteq Tagged(f, t) /\ Tagged(f, t) \subseteq valves
      BY <3>3 DEF Tagged
    <3>5. IsFiniteSet(Tagged(f, t))
      BY <2>1, <3>4, FS_Subset DEF RowInv
    <3> QED
      BY <3>4, <3>5, FS_Subset
  <2> QED
    BY <2>2, <2>3
<1> QED
  BY <1>1, PushInvariant, OrderInvariant, PTL DEF PushSpec, NoNewDuplicateTag

---------------------------------------------------------------------------
(* Whose rows a commit writes *)

\* Only its own commit makes a push a committed one.
LEMMA NewlyCommitted ==
  ASSUME [PushNext]_vars, NEW p, p \notin committed, p \in committed'
  PROVE  p \in Push /\ Commits(p)
<1>1. ASSUME NEW q \in Push, Publish(q), pc[q] = "commit",
             Goto(q, "recordSuccess") \/ Goto(q, "recordFailure")
      PROVE  p \in Push /\ Commits(p)
  BY <1>1 DEF Publish, Commits
<1>2. ASSUME NEW q \in Push, Commit(q) \/ LoseCommitAck(q)
      PROVE  p \in Push /\ Commits(p)
  BY <1>1, <1>2 DEF Commit, LoseCommitAck
<1>3. ASSUME NEW q \in Push, Receive(q) \/ Advance(q) \/ Abort(q), ~Commit(q)
      PROVE  UNCHANGED committed
  <2>1. Receive(q) \/ UpsertFactory(q) \/ UpsertWorkOrder(q) => UNCHANGED committed
    BY DEF Receive, UpsertFactory, UpsertWorkOrder
  <2>2. FindDevice(q) \/ CreateDevice(q) \/ FindValve(q) \/ WriteValve(q) => UNCHANGED committed
    BY Zenon DEF FindDevice, CreateDevice, FindValve, WriteValve
  <2>3. RefuseDevice(q) \/ RefuseValve(q) \/ Abort(q) => UNCHANGED committed
    BY DEF RefuseDevice, RefuseValve, Abort, RollBack
  <2>4. RecordSuccess(q) \/ RecordFailure(q) => UNCHANGED committed
    BY DEF RecordSuccess, RecordFailure, Record
  <2> QED
    BY <1>3, <2>1, <2>2, <2>3, <2>4 DEF Advance
<1>4. ASSUME (\E h \in Host : Crash(h)) \/ UNCHANGED pushVars
      PROVE  UNCHANGED committed
  BY <1>4 DEF Crash, pushVars
<1>5. \E q \in Push : Commit(q) \/ LoseCommitAck(q)
  BY <1>3, <1>4 DEF PushNext, Fault, vars
<1> QED
  BY <1>2, <1>5

\* A commit changes no row of another factory: what the push has written is of its
\* own, and a valve keeps its id and its factory.
LEMMA CommitsAtHome ==
  ASSUME NEW p \in Push, NEW f \in Factory \ {FactoryOf(p)},
         PushTypeOK, OwnDevices, IdentityKept, OwnWrites, Commits(p)
  PROVE  RowsOf(f)' = RowsOf(f)
<1>1. /\ factories' = [factories EXCEPT ![FactoryOf(p)] = Payload[p].data]
      /\ devices' = devices \cup tx[p].devices /\ valves' = Overlay(valves, tx[p].valves)
  BY DEF Commits, Publish, ViewDevices, ViewValves
<1>2. factories'[f] = factories[f]
  BY <1>1 DEF PushTypeOK, StoreTypeOK
<1>3. {d \in devices' : d.factory = f} = {d \in devices : d.factory = f}
  BY <1>1 DEF OwnDevices
<1>4. {v \in valves' : v.factory = f} = {v \in valves : v.factory = f}
  <2>1. \A w \in tx[p].valves : w.factory = FactoryOf(p)
    BY DEF OwnWrites
  <2>2. ASSUME NEW v \in valves, v.factory = f
        PROVE  v \in valves'
    <3>1. \A w \in tx[p].valves : w.id = v.id => w.factory = v.factory
      BY AllVersions DEF IdentityKept
    <3> QED
      BY <1>1, <2>1, <2>2, <3>1 DEF Overlay
  <2> QED
    BY <1>1, <2>1, <2>2 DEF Overlay
<1> QED
  BY <1>2, <1>3, <1>4 DEF RowsOf

\* A push leaves the factories, devices and valves of the other plants as they
\* are, whatever serial numbers, tags and units it shares with them.
THEOREM PushesStayHome == PushSpec => OwnPlantOnly
<1> DEFINE Home == \A p \in committed' \ committed : \A f \in Factory \ {FactoryOf(p)} :
                     RowsOf(f)' = RowsOf(f)
<1>1. PushInv /\ OrderInv /\ [PushNext]_vars => [Home]_vars
  <2> SUFFICES ASSUME PushInv, OrderInv, [PushNext]_vars, NEW p \in committed' \ committed,
                      NEW f \in Factory \ {FactoryOf(p)}
               PROVE  RowsOf(f)' = RowsOf(f)
    OBVIOUS
  <2>1. PushTypeOK /\ OwnDevices /\ IdentityKept /\ OwnWrites
    BY DEF PushInv, OrderInv
  <2>2. p \in Push /\ Commits(p)
    BY <2>1, NewlyCommitted
  <2> QED
    BY <2>1, <2>2, CommitsAtHome
<1> QED
  BY <1>1, PushInvariant, OrderInvariant, PTL DEF PushSpec, OwnPlantOnly
=============================================================================
