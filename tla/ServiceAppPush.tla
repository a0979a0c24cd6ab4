--------------------------- MODULE ServiceAppPush ---------------------------
(***************************************************************************)
(* ServiceAppService.create: the ServiceApp system pushes a work order with *)
(* its end user (factory) and valves.  The server files the payload in the *)
(* push log, writes factory, work order, devices and valves in one         *)
(* READ COMMITTED transaction, records the outcome in the log and answers. *)
(*                                                                         *)
(* Pushes run concurrently, on two servers that share the database; a      *)
(* retry is another push with the same payload.  Every database statement  *)
(* is a step of its own.  Administrators' deletes run in between.          *)
(***************************************************************************)
EXTENDS AssetStore, Sequences

CONSTANTS
  Payload,        \* [Push -> what the push asks for]
  Host, HostOf,   \* the servers, and the one that serves each push
  AckMayBeLost    \* whether a COMMIT may succeed with its reply lost

\* One element of "valves" in the request; unit and serialNumber are optional.
PushedValve == [tag : Tag, unit : Unit \cup {Absent},
                serialNumber : SerialNumber \cup {Absent}]

ASSUME PayloadAssumption ==
  /\ Payload \in [Push -> [endUser : Factory, serial : WorkOrderNo,
                           data : Data, valves : Seq(PushedValve)]]
  /\ HostOf \in [Push -> Host]
  /\ AckMayBeLost \in BOOLEAN

ASSUME NoneAssumption ==
  None \notin {200, 500} /\ None \notin {"pending", "success", "failed"}

VARIABLES
  pc,         \* [Push -> the statement the push is about to execute]
  cursor,     \* [Push -> the loop's variables: index, device id, valve id]
  log,        \* [Push -> status of its ServiceAppPushLog row, None without one]
  answer,     \* [Push -> code of the response, None before it]
  committed   \* history: the pushes whose transaction has committed

pushVars == <<pc, cursor, log, answer, committed>>
vars     == <<storeVars, pushVars>>

TxSteps == {"upsertFactory", "upsertWorkOrder", "findDevice", "createDevice",
            "findValve", "writeValve", "commit"}
Steps   == TxSteps \cup {"idle", "recordSuccess", "recordFailure", "answered", "lost"}

NoCursor == [index |-> 0, device |-> NoDevice, valve |-> NoValve]

Entry(p)    == Payload[p].valves[cursor[p].index]
FactoryOf(p) == Payload[p].endUser

PushInit ==
  /\ StoreInit
  /\ pc = [p \in Push |-> "idle"]
  /\ cursor = [p \in Push |-> NoCursor]
  /\ log = [p \in Push |-> None]
  /\ answer = [p \in Push |-> None]
  /\ committed = {}

---------------------------------------------------------------------------
Goto(p, step) == pc' = [pc EXCEPT ![p] = step]

\* Go on with the i-th pushed valve, or commit when there is none.
Loop(p, i) ==
  /\ Goto(p, IF i <= Len(Payload[p].valves) THEN "findDevice" ELSE "commit")
  /\ cursor' = [cursor EXCEPT ![p] = [NoCursor EXCEPT !.index = i]]

\* Mutant: the locks outlive the transaction.
RollBackHoldingLocks(p) ==
  /\ Goto(p, "recordFailure")
  /\ UNCHANGED <<storeVars, cursor, log, answer, committed>>

RollBack(p) ==
  /\ tx' = [tx EXCEPT ![p] = NoTx]
  /\ Goto(p, "recordFailure")
  /\ UNCHANGED <<tables, seq, cursor, log, answer, committed>>

\* safeCreatePushLog: a failure to write the log does not stop the push.
Receive(p) ==
  /\ pc[p] = "idle"
  /\ \E status \in {"pending", None} : log' = [log EXCEPT ![p] = status]
  /\ Goto(p, "upsertFactory")
  /\ UNCHANGED <<storeVars, cursor, answer, committed>>

\* Mutant: find, then create or update, without the lock of the upsert.
UpsertFactoryUnlocked(p) ==
  /\ pc[p] = "upsertFactory"
  /\ tx' = [tx EXCEPT ![p].factory = FactoryOf(p)]
  /\ Goto(p, "upsertWorkOrder")
  /\ UNCHANGED <<tables, seq, cursor, log, answer, committed>>

\* INSERT ... ON CONFLICT (name) DO UPDATE: waits for a transaction that has
\* upserted the same name.
UpsertFactory(p) ==
  /\ pc[p] = "upsertFactory"
  /\ ~FactoryLocked(FactoryOf(p))
  /\ tx' = [tx EXCEPT ![p].factory = FactoryOf(p)]
  /\ Goto(p, "upsertWorkOrder")
  /\ UNCHANGED <<tables, seq, cursor, log, answer, committed>>

\* Mutant: the update branch writes factoryId too.
OrderRowMoved(p) == [factory |-> FactoryOf(p), data |-> Payload[p].data]

\* The update branch leaves factoryId alone.
OrderRow(p) ==
  LET old == workOrders[Payload[p].serial] IN
  [factory |-> IF old = None THEN FactoryOf(p) ELSE old.factory,
   data    |-> Payload[p].data]

\* The same on the work order's serial.
UpsertWorkOrder(p) ==
  LET s == Payload[p].serial IN
  /\ pc[p] = "upsertWorkOrder"
  /\ ~WorkOrderLocked(s)
  /\ tx' = [tx EXCEPT ![p].serial = s, ![p].workOrder = OrderRow(p)]
  /\ Loop(p, 1)
  /\ UNCHANGED <<tables, seq, log, answer, committed>>

\* Mutant: the push looks among the devices it has created itself.
NamedDevicesOwn(p) ==
  {d \in tx[p].devices : Entry(p).unit \in {Absent, d.name}}

\* device.findFirst: a filter whose value is undefined is no filter, so
\* without a unit any device of the factory is found.
NamedDevices(p) ==
  {d \in ViewDevices(p) : /\ d.factory = FactoryOf(p)
                          /\ Entry(p).unit \in {Absent, d.name}}

FindDevice(p) ==
  /\ pc[p] = "findDevice"
  /\ \/ \E d \in NamedDevices(p) :
          /\ cursor' = [cursor EXCEPT ![p].device = d.id]
          /\ Goto(p, "findValve")
     \/ /\ NamedDevices(p) = {}
        /\ cursor' = cursor
        /\ Goto(p, "createDevice")
  /\ UNCHANGED <<storeVars, log, answer, committed>>

\* Mutant: a device without a name is accepted.
CreateDeviceUnnamed(p) ==
  /\ pc[p] = "createDevice"
  /\ tx' = [tx EXCEPT ![p].devices = @ \cup
               {[id |-> seq.device, factory |-> FactoryOf(p), name |-> Entry(p).unit]}]
  /\ cursor' = [cursor EXCEPT ![p].device = seq.device]
  /\ seq' = [seq EXCEPT !.device = @ + 1]
  /\ Goto(p, "findValve")
  /\ UNCHANGED <<tables, log, answer, committed>>

CreateDevice(p) ==
  /\ pc[p] = "createDevice"
  /\ Entry(p).unit # Absent
  /\ tx' = [tx EXCEPT ![p].devices = @ \cup
               {[id |-> seq.device, factory |-> FactoryOf(p), name |-> Entry(p).unit]}]
  /\ cursor' = [cursor EXCEPT ![p].device = seq.device]
  /\ seq' = [seq EXCEPT !.device = @ + 1]
  /\ Goto(p, "findValve")
  /\ UNCHANGED <<tables, log, answer, committed>>

\* device.create without a name is refused, which rejects the push.
RefuseDevice(p) ==
  /\ pc[p] = "createDevice"
  /\ Entry(p).unit = Absent
  /\ RollBack(p)

\* Mutants: the valve is looked up in every factory, or on its device only.
TaggedValvesAnywhere(p) == {v \in ViewValves(p) : v.tag = Entry(p).tag}
TaggedValvesOnDevice(p) ==
  {v \in ViewValves(p) : v.device = cursor[p].device /\ v.tag = Entry(p).tag}

TaggedValves(p) ==
  {v \in ViewValves(p) : v.factory = FactoryOf(p) /\ v.tag = Entry(p).tag}

FindValve(p) ==
  /\ pc[p] = "findValve"
  /\ \/ \E v \in TaggedValves(p) : cursor' = [cursor EXCEPT ![p].valve = v.id]
     \/ TaggedValves(p) = {} /\ cursor' = [cursor EXCEPT ![p].valve = NoValve]
  /\ Goto(p, "writeValve")
  /\ UNCHANGED <<storeVars, log, answer, committed>>

(***************************************************************************)
(* valve.update or valve.create, with the link to the work order.  The     *)
(* statement waits while another push holds the valve, and fails when the  *)
(* valve or the device found before has been deleted, or when the serial   *)
(* number is taken.  Imports, whose statements it waits for as well, join   *)
(* in AssetSync (AwaitEntries).                                             *)
(***************************************************************************)
Updates(p)  == cursor[p].valve # NoValve
OldRows(p)  == {v \in ViewValves(p) : v.id = cursor[p].valve}
NewSerial(p, old) ==
  IF Entry(p).serialNumber = Absent THEN old.serialNumber ELSE Entry(p).serialNumber

NewRows(p) ==
  IF Updates(p)
  THEN {[id |-> old.id, factory |-> FactoryOf(p), device |-> cursor[p].device,
         tag |-> Entry(p).tag, serialNumber |-> NewSerial(p, old)] : old \in OldRows(p)}
  ELSE {[id |-> seq.valve, factory |-> FactoryOf(p), device |-> cursor[p].device,
         tag |-> Entry(p).tag, serialNumber |-> Entry(p).serialNumber]}

\* Mutants: no foreign key on deviceId; no partial unique index.
WritableAnywhere(p, row) == ~Collides(ViewValves(p), row)
WritableUnindexed(p, row) == \E d \in ViewDevices(p) : d.id = row.device

Writable(p, row) ==
  /\ ~Collides(ViewValves(p), row)
  /\ \E d \in ViewDevices(p) : d.id = row.device

WriteValve(p) ==
  /\ pc[p] = "writeValve"
  /\ \E row \in NewRows(p) :
       /\ \A q \in Push \ {p} : \A w \in tx[q].valves : w.id # row.id
       /\ Writable(p, row)
       /\ tx' = [tx EXCEPT ![p].valves = Overlay(@, {row}),
                           ![p].links = @ \cup {<<row.id, Payload[p].serial>>},
                           ![p].keyShare = @ \cup {row.device}]
       /\ seq' = [seq EXCEPT !.valve = IF Updates(p) THEN @ ELSE @ + 1]
  /\ Loop(p, cursor[p].index + 1)
  /\ UNCHANGED <<tables, log, answer, committed>>

RefuseValve(p) ==
  /\ pc[p] = "writeValve"
  /\ \A row \in NewRows(p) : ~Writable(p, row)
  /\ RollBack(p)

\* Mutant: the work order's links are written outside the transaction, and lost.
PublishUnlinked(p) ==
  /\ factories'  = [factories EXCEPT ![FactoryOf(p)] = Payload[p].data]
  /\ workOrders' = [workOrders EXCEPT ![Payload[p].serial] = tx[p].workOrder]
  /\ devices'    = ViewDevices(p)
  /\ valves'     = ViewValves(p)
  /\ tx'         = [tx EXCEPT ![p] = NoTx]
  /\ committed'  = committed \cup {p}
  /\ UNCHANGED <<links, seq, cursor, log, answer>>

\* What COMMIT makes visible.
Publish(p) ==
  /\ factories'  = [factories EXCEPT ![FactoryOf(p)] = Payload[p].data]
  /\ workOrders' = [workOrders EXCEPT ![Payload[p].serial] = tx[p].workOrder]
  /\ devices'    = ViewDevices(p)
  /\ valves'     = ViewValves(p)
  /\ links'      = links \cup tx[p].links
  /\ tx'         = [tx EXCEPT ![p] = NoTx]
  /\ committed'  = committed \cup {p}
  /\ UNCHANGED <<seq, cursor, log, answer>>

Commit(p) ==
  /\ pc[p] = "commit"
  /\ Publish(p)
  /\ Goto(p, "recordSuccess")

\* safeUpdatePushLog, then the response; the log may fail to be written.
Record(p, status, code) ==
  /\ \/ log' = log
     \/ log[p] # None /\ log' = [log EXCEPT ![p] = status]
  /\ answer' = [answer EXCEPT ![p] = code]
  /\ Goto(p, "answered")
  /\ UNCHANGED <<storeVars, cursor, committed>>

\* Mutants: an error of the log update reaches the catch block; the catch
\* block answers like the try block.
RecordSuccessThrows(p) ==
  pc[p] = "recordSuccess" /\ (Record(p, "success", 200) \/ Record(p, "failed", 500))
RecordFailureAs200(p) == pc[p] = "recordFailure" /\ Record(p, "failed", 200)

RecordSuccess(p) == pc[p] = "recordSuccess" /\ Record(p, "success", 200)
RecordFailure(p) == pc[p] = "recordFailure" /\ Record(p, "failed", 500)

Advance(p) ==
  \/ UpsertFactory(p) \/ UpsertWorkOrder(p)
  \/ FindDevice(p) \/ CreateDevice(p) \/ RefuseDevice(p)
  \/ FindValve(p) \/ WriteValve(p) \/ RefuseValve(p)
  \/ Commit(p) \/ RecordSuccess(p) \/ RecordFailure(p)

---------------------------------------------------------------------------
(* What the environment may do to a push *)

\* The statement or the connection fails, the transaction is the victim of a
\* deadlock, or maxWait / timeout expires: the catch block runs.
Abort(p) == pc[p] \in TxSteps /\ RollBack(p)

\* The database has committed, but the reply never arrives: the catch block
\* runs although the data is there.
LoseCommitAck(p) ==
  /\ AckMayBeLost
  /\ pc[p] = "commit"
  /\ Publish(p)
  /\ Goto(p, "recordFailure")

\* A server stops (pm2 restart, power): its open transactions are rolled
\* back by the database and their callers get no answer.
Running(p) == pc[p] \notin {"idle", "answered", "lost"}

Crash(h) ==
  LET hit == {p \in Push : HostOf[p] = h /\ Running(p)} IN
  /\ hit # {}
  /\ tx' = [p \in Push |-> IF p \in hit THEN NoTx ELSE tx[p]]
  /\ pc' = [p \in Push |-> IF p \in hit THEN "lost" ELSE pc[p]]
  /\ UNCHANGED <<tables, seq, cursor, log, answer, committed>>

Fault == \/ \E p \in Push : Abort(p) \/ LoseCommitAck(p)
         \/ \E h \in Host : Crash(h)

PushNext ==
  \/ \E p \in Push : Receive(p) \/ Advance(p)
  \/ Fault
  \/ AdminRemove /\ UNCHANGED pushVars

PushSpec == PushInit /\ [][PushNext]_vars

---------------------------------------------------------------------------
(* Properties *)

\* The types of the shared tables and of each push's own state.
PushTypeOK ==
  /\ StoreTypeOK
  /\ pc \in [Push -> Steps]
  /\ cursor \in [Push -> [index : Nat, device : Nat, valve : Nat]]
  /\ log \in [Push -> {None, "pending", "success", "failed"}]
  /\ answer \in [Push -> {None, 200, 500}]
  /\ committed \subseteq Push

\* Concurrent pushes never leave a factory with two devices of one name,
\* although the schema has no such unique key: the find-then-create of the
\* loop is protected only by the factory row the upsert has locked.
DeviceUnique == DevicesNamedOnce(devices)

\* No push adds a valve under a tag the factory already has: the number of
\* valves under a tag exceeds one only where it did before.
Tagged(f, t) == {v \in valves : v.factory = f /\ v.tag = t}
NoNewDuplicateTag ==
  [][\A f \in Factory, t \in Tag :
       Cardinality(Tagged(f, t)') > 1 => Cardinality(Tagged(f, t)') <= Cardinality(Tagged(f, t))]_vars

\* A push writes no factory, device or valve of another plant, whatever tag,
\* unit or serial number the plants share.
RowsOf(f) == <<factories[f], {d \in devices : d.factory = f}, {v \in valves : v.factory = f}>>
OwnPlantOnly ==
  [][\A p \in committed' \ committed : \A f \in Factory \ {FactoryOf(p)} :
       RowsOf(f)' = RowsOf(f)]_vars

\* The entries of a push name their units, and no tag twice.
Plain(p) ==
  LET vs == Payload[p].valves IN
  \A i, j \in DOMAIN vs : vs[i].unit # Absent /\ (vs[i].tag = vs[j].tag => i = j)

\* v is a valve of the push's plant as the entry wants it.
Serves(p, entry, v) ==
  /\ v.factory = FactoryOf(p) /\ v.tag = entry.tag
  /\ entry.serialNumber \in {Absent, v.serialNumber}
  /\ <<v.id, Payload[p].serial>> \in links
  /\ \E d \in devices : d.id = v.device /\ d.factory = FactoryOf(p) /\ d.name = entry.unit

\* The tables say what the push says.
Applied(p) ==
  LET order == workOrders[Payload[p].serial] IN
  /\ factories[FactoryOf(p)] = Payload[p].data
  /\ order # None /\ order.data = Payload[p].data
  /\ \A i \in DOMAIN Payload[p].valves :
       \E v \in valves : Serves(p, Payload[p].valves[i], v)

\* Each of its tags stands for at most one valve of the plant.
TagsClear(p) ==
  \A i \in DOMAIN Payload[p].valves :
    \A v, w \in Tagged(FactoryOf(p), Payload[p].valves[i].tag) : v = w

\* ServiceApp may push again what it has no answer for, also while the first push
\* is still running: a commit leaves the tables as the push says, and where they
\* already say so it changes no row.  Not so with an entry without unit, whose
\* valve goes to whichever device is found (service.service.ts:104-106), with a
\* tag that comes twice, or where a tag stands for several valves.
RetryIsIdempotent ==
  [][\A p \in committed' \ committed : Plain(p) =>
       /\ Applied(p)'
       /\ Applied(p) /\ TagsClear(p) => UNCHANGED tables]_vars

\* A work order and the valves linked to it belong to one factory, except
\* when a push has given the work order the end user that the valve belongs to.
WorkOrderAtHome ==
  \A l \in links : \A v \in valves :
     (l[1] = v.id /\ workOrders[l[2]] # None /\ workOrders[l[2]].factory # v.factory)
     => \E p \in Push : /\ pc[p] # "idle"
                        /\ Payload[p].serial = l[2] /\ Payload[p].endUser = v.factory

\* A work order stays with the factory of the push that created it, whoever
\* pushes it again: the update branch of the upsert does not move it.
WorkOrderKeepsPlant ==
  [][\A s \in WorkOrderNo :
       workOrders[s] # None /\ workOrders'[s] # None
       => workOrders'[s].factory = workOrders[s].factory]_vars

\* Answer 200 and log status "success" are given only to a push whose
\* transaction has committed.
SuccessMeansCommitted ==
  \A p \in Push : answer[p] = 200 \/ log[p] = "success" => p \in committed

\* Answer 500 and log status "failed" are given only to a push that changed
\* nothing, as long as no commit reply is lost.
FailureMeansRolledBack ==
  \A p \in Push : answer[p] = 500 \/ log[p] = "failed" => p \notin committed

\* A real serial number goes on naming the valve it was given to: "the unique
\* identity is the serialNumber" (factory.service.ts:193).
SerialIdentifiesValve ==
  [][\A v \in valves, w \in valves' :
       v.id = w.id /\ v.serialNumber \notin Placeholder \cup {Absent}
       => w.serialNumber = v.serialNumber]_vars

---------------------------------------------------------------------------
(* Why the properties hold: the inductive invariant. *)

LoopSteps   == {"findDevice", "createDevice", "findValve", "writeValve"}
LockedSteps == TxSteps \ {"upsertFactory"}

\* The loop's index names an element of the request.
CursorInLoop ==
  \A p \in Push : pc[p] \in LoopSteps =>
     cursor[p].index \in 1..Len(Payload[p].valves)

\* From its first upsert to its end, and only then, a push holds its factory
\* row; from the second on it has its version of the work order.
LocksHeld ==
  \A p \in Push :
     /\ pc[p] \in LockedSteps => tx[p].factory = FactoryOf(p)
     /\ pc[p] \in LockedSteps \ {"upsertWorkOrder"} => tx[p].workOrder \in WorkOrder
     /\ pc[p] \notin LockedSteps => tx[p] = NoTx

\* No two pushes hold one factory row.
OneWriterPerFactory ==
  \A p, q \in Push :
     tx[p].factory = tx[q].factory /\ tx[p].factory # None => p = q

\* A push creates devices only in the factory it holds.
OwnDevices ==
  \A p \in Push : \A d \in tx[p].devices : d.factory = FactoryOf(p)

\* Also with its own new devices, a push sees no two devices of one name in a
\* factory.
ViewNamedOnce ==
  \A p \in Push : DevicesNamedOnce(ViewDevices(p))

\* The device that was missing when the push looked for it is still missing
\* when the push creates it: nobody else may create one meanwhile.
StillMissing ==
  \A p \in Push : pc[p] = "createDevice" => NamedDevices(p) = {}

\* Until its transaction has ended a push has no outcome; then its answer and
\* its log agree with what the database did.
OutcomeInOrder ==
  \A p \in Push :
     /\ pc[p] \in TxSteps \cup {"idle"} =>
          p \notin committed /\ answer[p] = None /\ log[p] \in {None, "pending"}
     /\ pc[p] = "recordSuccess" \/ answer[p] = 200 \/ log[p] = "success" => p \in committed
     /\ ~AckMayBeLost /\ (pc[p] = "recordFailure" \/ answer[p] = 500 \/ log[p] = "failed")
          => p \notin committed

PushInv ==
  /\ PushTypeOK
  /\ CursorInLoop
  /\ LocksHeld
  /\ OneWriterPerFactory
  /\ OwnDevices
  /\ DeviceUnique
  /\ ViewNamedOnce
  /\ StillMissing
  /\ OutcomeInOrder
=============================================================================
