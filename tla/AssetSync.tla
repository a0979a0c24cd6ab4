------------------------------ MODULE AssetSync ------------------------------
(***************************************************************************)
(* Everything that writes the asset tables at once: ServiceApp pushes,      *)
(* administrators' sheet imports, creates, updates and deletes, sharing the *)
(* tables and the row locks of AssetStore.                                  *)
(***************************************************************************)
EXTENDS ServiceAppPush, ValveImport, AssetAdmin

syncVars == <<storeVars, pushVars, importVars, assetEditVars>>

SyncInit == PushInit /\ ImportStart /\ AssetEditInit

\* The factory an import was started for may be deleted below it.
WatchPlants ==
  /\ IF factories' = factories THEN UNCHANGED orphaned
     ELSE orphaned' = orphaned \cup
            {i \in Import : factories[Plant(i)] # None /\ factories'[Plant(i)] = None}
  /\ UNCHANGED <<step, deviceOf, found, done>>

\* Pushes and administrators wait for an import's statement that has not ended:
\* for its row and index entries (service.service.ts:127-132), for the version it
\* replaces and, to delete it, for the device that its foreign key holds.
AwaitEntries ==
  \A w \in Entries :
     /\ \A row \in valves' \ valves : ~Holds(w, row)
     /\ \A p \in Push : \A row \in tx'[p].valves \ tx[p].valves : ~Holds(w, row)
     /\ {v \in valves : v.id = w.id} \subseteq valves'
     /\ \E d \in devices' : d.id = w.device

SyncNext == \/ PushNext /\ AwaitEntries /\ WatchPlants /\ UNCHANGED assetEditVars
            \/ ImportNext /\ UNCHANGED <<pushVars, assetEditVars>>
            \/ AssetEdit /\ AwaitEntries /\ UNCHANGED <<pushVars, importVars>>

SyncSpec == SyncInit /\ [][SyncNext]_syncVars

(***************************************************************************)
(* Who waits for whom, and what the database does about a cycle: it lets    *)
(* one of its statements fail (deadlock_timeout).                           *)
(***************************************************************************)
PushAwaitsPush(p, q) ==
  \/ pc[p] = "upsertFactory" /\ tx[q].factory = FactoryOf(p)
  \/ pc[p] = "upsertWorkOrder" /\ tx[q].serial = Payload[p].serial
  \/ /\ pc[p] = "writeValve" /\ p # q
     /\ \E row \in NewRows(p) : \E w \in tx[q].valves : w.id = row.id

PushAwaitsImport(p, i) ==
  /\ pc[p] = "writeValve" /\ step[i] = "checkRow"
  /\ \E row \in NewRows(p) : Holds(NewRow(i), row)

ImportAwaitsPush(i, p) ==
  \/ step[i] \in {"createUnit", "checkRow"} /\ i \notin orphaned /\ tx[p].factory = Plant(i)
  \/ step[i] = "writeRow" /\ \E w \in tx[p].valves : Holds(w, NewRow(i))

ImportAwaitsImport(i, j) ==
  step[i] = "writeRow" /\ step[j] = "checkRow" /\ Holds(NewRow(j), NewRow(i))

\* Each of these waits for one of them.
Stuck(ps, is) ==
  /\ ps # {} \/ is # {}
  /\ \A p \in ps : \/ \E q \in ps : PushAwaitsPush(p, q)
                   \/ \E i \in is : PushAwaitsImport(p, i)
  /\ \A i \in is : \/ \E p \in ps : ImportAwaitsPush(i, p)
                   \/ \E j \in is : ImportAwaitsImport(i, j)

Cycle(ps, is) ==
  /\ Stuck(ps, is)
  /\ \A qs \in SUBSET ps, js \in SUBSET is : Stuck(qs, js) => qs = ps /\ js = is

WaitingPushes == {p \in Push : \/ \E q \in Push : PushAwaitsPush(p, q)
                               \/ \E i \in Import : PushAwaitsImport(p, i)}
WaitingImports == {i \in Import : \/ \E p \in Push : ImportAwaitsPush(i, p)
                                 \/ \E j \in Import : ImportAwaitsImport(i, j)}

EndDeadlock ==
  \E ps \in SUBSET WaitingPushes, is \in SUBSET WaitingImports :
    /\ Cycle(ps, is)
    /\ \/ \E p \in ps : Abort(p) /\ UNCHANGED <<importVars, assetEditVars>>
       \/ \E i \in is : BreakRow(i) /\ UNCHANGED <<orphaned, pushVars, assetEditVars>>

\* A server that keeps running executes the next statement of every request
\* it has received, once what the statement waits for is free.
SyncFairness ==
  /\ \A p \in Push :
       WF_syncVars(Advance(p) /\ AwaitEntries /\ UNCHANGED <<importVars, assetEditVars>>)
  /\ \A i \in Import : WF_syncVars(AdvanceImport(i) /\ UNCHANGED <<pushVars, assetEditVars>>)
  /\ WF_syncVars(EndDeadlock)

FairSyncSpec == SyncSpec /\ SyncFairness

---------------------------------------------------------------------------
(* Properties *)

\* The find-then-create of pushes and imports may duplicate a device, but each
\* import adds at most one, and all pushes together one where none was to begin
\* with: they exclude one another on the factory row.  Devices that an administrator
\* has named are not counted.
KnownDevice(f, u) == \E s \in InitialStores : \E d \in s.devices : d.factory = f /\ d.name = u
DuplicatesOnlyByImports ==
  \A f \in Factory, u \in Unit :
     Cardinality({d \in devices : d.factory = f /\ d.name = u /\ d.id \notin placed}) <=
       Cardinality({i \in Import : step[i] # "idle" /\ Plant(i) = f /\ \E r \in ToSet(Rows(i)) : r.unit = u})
         + (IF (\A p \in Push : pc[p] = "idle") /\ ~KnownDevice(f, u) THEN 0 ELSE 1)

\* A valve is mounted on a device of its own factory, whatever happened between the
\* reads and the writes of pushes and imports, unless an administrator has moved
\* the device, or has mounted this valve in another factory.
MountedUnlessMoved ==
  \A v \in valves : v.device # NoDevice =>
     \E d \in devices : /\ d.id = v.device
                        /\ d.factory = v.factory \/ d.id \in moved \/ v.id \in misplaced

\* An import never writes a serial number that an open push has taken
\* or still holds in a valve it has changed: at every moment the committed rows
\* with any open transaction's own rows laid over them satisfy the index.
IndexSafeAcrossWriters ==
  \A p \in Push : \A v \in ViewValves(p) :
     v.factory = tx[p].factory => ~Collides(ViewValves(p), v)

\* As long as only imports write and no valve is deleted, their summaries are true
\* of the table: a row reported as created or updated has its serial number there,
\* and the new valves of concurrent imports are counted exactly once.
OnlyImports ==
  /\ \A p \in Push : pc[p] = "idle"
  /\ assetEdits = 0
  /\ Cardinality(valves) = seq.valve - 1
SummaryTrue == OnlyImports => RowsLanded /\ CreatedIsNew

\* Every push and every import that a server has received comes to an end.  The
\* waits for factory and work order rows alone never close a cycle, but an import's
\* insert holds its index entry while it waits for the factory row of a push, which
\* may come to write the same serial number: only the database ends that one.
EveryWriterEnds ==
  /\ \A p \in Push : pc[p] # "idle" ~> pc[p] \in {"answered", "lost"}
  /\ \A i \in Import : step[i] # "idle" ~> step[i] \in {"finished", "failed", "lost"}
===============================================================================
