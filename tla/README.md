# Formal models of vls-server

vls-server is the NestJS backend of a control-valve lifecycle service: it keeps plants
(factories), the devices and valves in them, work orders, analysis tasks and reports, and the
users, roles and menus of the people who work with them. Two servers (vls-a, vls-b) run the same
code against one Postgres database; Redis holds sessions, MinIO files. The asset data come in by
three ways at once: the ServiceApp system pushes work orders, administrators upload valve sheets,
and administrators edit rows. A second group of tables, behind the administration pages, decides
who sees which of them.

This directory holds TLA+ modules of the parts where these writers and readers meet and of the
algorithms between them, TLC configurations that check them on small instances, and TLAPS proofs
of the most important properties. Paths below are relative to the repository root; `PROJECT.json`
names the lines each definition stands for.

Running: `tlc -config Pushes.cfg MCPush.tla` checks a configuration, `tlapm
ServiceAppPushProofs.tla` checks the proofs of a module.

## 1. Inventory of the system

| component | state | operations | hard behaviour | what makes it correct | status |
|---|---|---|---|---|---|
| Asset tables (`prisma/schema/*.prisma`, migrations) | factory tree, devices, valves, work orders, join table; autoincrement ids; unique `Factory.name`, `WorkOrder.serial`; partial unique index on (factory, real serial number); cascading foreign keys | statements of all writers | READ COMMITTED visibility, row locks, cascades | no dangling device, index holds for every reader | partly (no contracts, scores, histories) |
| ServiceApp push (`src/modules/dts/service`) | push log row; one interactive transaction | `create` (receive, upsert factory, upsert work order, find-or-create device and valve per element, commit, record, answer) | pushes race on two servers, retries, timeouts, lost commit replies, stop of a server, deletes and edits in between | all or nothing; answers and log tell the truth; no duplicate device or tag; no deadlock among pushes | modelled |
| Sheet import (`factory.service.ts` `import`) | device map, found row, summary counters | find-or-create units, then find-or-create valves by serial number, row errors collected | no transaction at all; imports race with each other, with pushes, edits and deletes | the summary counts what was written; serials stay unique; bounded duplication | modelled |
| Asset administration (factory, device, valve, work order, contract CRUD) | the asset tables | create, update, remove, removeAll, cascades | deletes and edits between the statements of the writers above | nobody writes to a row that is gone; mounts stay in their plant | partly (not renames of factories, not contracts) |
| Deployment (`scripts/deploy.sh`) | per host: working tree, dependencies, Prisma client, dist, process; shared schema | fetch, reset, install, generate, migrate, build, restart, health check, roll back, client part | one database for two versions of the code; any command may fail; the operator runs it again | what the script starts never ahead of the schema; stop at the first failure; "deployed" means it | modelled |
| Reports (`findReport`, `report.helper.ts`) | the picture counter of the process | alarm tables, problem details, travel and cycle tables, errors | grouping by joined keys, merged cells, plots that lack parts, computed headings | no problem lost or under another valve; cells under their headings | partly (no layout) |
| Statistics (`getChartData`, `getChartData2`, charts of users) | none (reads) | counts per month | - | - | not modelled |
| Visibility and trees (`user-factory-scope.ts`, `transformationTree.ts`, lists of factories and valves) | roles with factory ids or `grantAllFactories`; parent links | scope of a user, lists, tree building | a role or a factory changes between two reads; rows moved under themselves | a user sees what the roles grant; a tree shows what hangs together | modelled |
| Authentication (`src/modules/iam/authentication`) | users; one refresh-token id per user in Redis | signUp, signIn, refreshTokens, insert, validate, invalidate | refresh is verify, read, invalidate, write in separate steps; racing refreshes and sign-ins | a spent token stays spent; no session is lost but by an interrupted refresh | partly (not signatures and lifetimes of tokens) |
| Authorization guards | none | PermissionsGuard; RolesGuard | the rights are read at each request, while resets replace every button | a handler runs only for a user with the right; every right can be granted | partly (RolesGuard guards no route) |
| Users | user rows, avatar files | create, update, changePassword, remove, uploadAvatar | read-check-write | protected accounts stay, names stay unique | partly (not the avatar) |
| Menus | menu tree, role-menu links | create with four buttons, update, remove, findAllWithPermission, reset | reset deletes all and recreates in four statements; resets race | the built-in menus come back; old grants do not | modelled |
| Analysis tasks | task rows, PDF rows and files | create, execute, clear, update, remove, removeAll, uploadPdf | clear does not wait for its updates; uploads in the same millisecond | each PDF found is cleared; no upload hides another | partly (not execute) |
| Monitoring | login log, operation log | event handlers, list, clear | handlers are not awaited, a rejection may end the process | a request and its log row do not disturb each other | partly (the handlers) |
| Routes and controllers | none | the route table, `@Permissions` | order of routes, permissions that no button has | a request reaches its handler; its permission exists | modelled |
| Dictionaries, departments, posts, rules, units | rows, trees; the dictionary data of `TreeStructure.ts` and `prisma/seed.ts` | seed, export, CRUD | the seed commits statement by statement; the export reads a type and inserts below it later | the exported tree equals the seeded one; the seed finishes | partly (trees, types, seed, export) |
| Value conversion (`normalize-xlsx-value.ts`, `parse-excel-date.ts`) | none | cell to column value | Excel dates, numeric strings | each cell becomes a value the column takes | not modelled |
| Infrastructure (Redis, MinIO, pagination, filters, interceptor, configuration) | connections | put, get, paginate | input and output | - | partly (Redis keys, the PDF bucket) |

How they interact: the push, the import and the administrators' handlers never call each other;
they meet only in the asset tables, through what a statement sees and which row locks it waits
for. A push is the only writer that uses a multi-statement transaction. `deploy.sh` stops and
starts the servers that run pushes and imports, and changes the schema below them. The
administration pages meet in users, roles and menus: a reset deletes the buttons that the guard of
every other request reads, and an edit of a role changes the scope a list has already read.
Removing a factory cascades to its tasks and PDFs, whose un-awaited updates may still be running.
Authentication, tasks and factories are connected with monitoring by events.

## 2. Modules

```
AssetStore --+-- ServiceAppPush --+-- PushRefinement ---INSTANCE---> SyncContract
             |          |         |        +-- PushRefinementProofs (TLAPS)
             |          |         +-- ServiceAppPushProofs (TLAPS)
             +-- ValveImport --+-- ImportProofs (TLAPS)
             +-- AssetAdmin ---+-- AssetSync = pushes + imports + edits + deletes
                                       +-- SyncProofs (TLAPS)
Deploy ---- DeployProofs (TLAPS)
Session ---- SessionProofs (TLAPS)
MenuSeed -- AdminStore --+-- MenuAccess -- FactoryScope --+-- Admin = guarded requests + lists
   |                     +-- TaskWork --------------------+     + resets + un-awaited work + edits
   |                                                            +-- AdminProofs (TLAPS)
   +------- Routes --+
Trees, Report -------+--- MCPages = four independent parts in one instance
DictTree - Dictionary+
Trees, Report ---- PagesProofs (TLAPS)
MCPush, MCPushRefinement, MCImport, MCAssetSync, MCDeploy, MCSession, MCAdmin, MCPages: instances for TLC
```

**AssetStore** is the part of the Postgres schema that the writers share. Its variables are the
committed tables, the id sequences and, per push, `tx`: the rows the open transaction has written
and the locks it holds. `Holds` is what an uncommitted row keeps others waiting for, its row and its
index entries, and `KeyCheckWaits` the check of a foreign key against the factory row of a push: the
upsert sets `name`, a key column, and so holds that row FOR UPDATE. A statement reads the committed rows overlaid with its own transaction's
(`ViewDevices`, `ViewValves`), which is READ COMMITTED. `Collides` is the partial unique index of
the migration `20260520140714_add_valve_factory_serial_partial_unique`, `AdminRemove` the
administrators' `remove` and `removeAll` with their cascades; these wait for row locks as the
database makes them. Columns that no control flow reads are one value (`Data`). A serial number is
a model value; those in `Placeholder` are the ones the index leaves out.

**ServiceAppPush** is `ServiceAppService.create`, one action per database statement: `Receive`
(file the payload; failing to do so changes nothing), `UpsertFactory`, `UpsertWorkOrder`, then per
pushed valve `FindDevice`, `CreateDevice` or `RefuseDevice`, `FindValve`, `WriteValve` or
`RefuseValve`, and `Commit`, `RecordSuccess`, `RecordFailure`. `pc` is the statement about to run,
`cursor` the loop's variables; `committed` is a history variable, there is nothing like it in the
code. Faults are actions of their own: `Abort` (an error, a deadlock victim, `maxWait` or
`timeout`), `LoseCommitAck` (COMMIT succeeded, its reply is lost, so the catch block runs) and
`Crash(h)` (a server stops). A retry is another member of `Push` with the same payload. An element
without `unit` reaches `findFirst` with an undefined filter, which Prisma treats as no filter:
`NamedDevices` then is every device of the plant, as in the code.

**SyncContract** is what the push promises: each push is applied atomically and alone
(`Effects`), or not at all. `Stages` is the recursive function behind it: the stores that the
factory, the work order and the first k entries of a request lead to. Rows have no ids here. It is
stated independently of statements, locks and transactions. **PushRefinement** maps the detailed
state to it (`Visible` forgets the ids, `Outcome` reads off `committed` and `pc`) and has the
contract as a property. Without ids a device is a factory and a name and a valve a factory and a
tag; `StoresNamed` says that the stores a behaviour starts from have one valve per tag and every
valve on a device of its factory. The schema demands neither.

**ValveImport** is `FactoryService.import`. The device loop is `FindUnit`, `CreateUnit`,
`RefuseUnit`; the row loop `SkipRow`, `FindRow`, `WriteRow`, `RefuseRow`. Where the insert of a valve
must wait for the factory row of a push it is two steps, `BeginRow` and then `EndRow` or
`RefuseEntry`: between them the import holds an index entry that nobody sees but others wait for
(`Entries`). `BreakUnit` and
`BreakRow` are statement errors the model does not look into, `LoseImport` the stop of the
server. `done` is the summary as a sequence of row outcomes; the counters of the code are its
counts.

**AssetAdmin** is the administrators' create and update of factories, devices and valves, one
statement each. A form holds the columns the request sends, and an update leaves the others alone.
Nothing in the code compares the factory a valve is given with that of its device; the histories
`placed`, `moved` and `misplaced` say which rows an administrator has named, moved or mounted
elsewhere, so that the properties can blame the other writers only for what they did.
**AssetSync** puts pushes, imports, edits and deletes on the same tables. `AwaitEntries` is the wait
of pushes and administrators for an import's unfinished insert. `PushAwaitsPush` and its three
likes say who waits for whom; `EndDeadlock` is the database's answer to a cycle of waits, in which
it lets one of the statements fail.

Two kinds of waits are simplified. An administrator's statement that waits is taken as not yet begun:
what it may hold meanwhile keeps others waiting longer, and a cycle it closes is ended like any
other. And the update of a row by an import holds, while it waits for an index entry, the version it
is about to replace; the model has it hold nothing. A wait of that kind needs an administrator who
changes the row between the import's look-up and its write.

**Deploy** is `scripts/deploy.sh`, one action per command. Commits are numbers along the branch;
a working tree is the commit checked out and the commits its dependencies, Prisma client and dist
were made from. `Fail` lets any command fail or the connection drop, `MigratePartly` leaves some
of the migrations applied, `Respawn` is pm2 restarting a process that has died, `PushCommit` a
push to the branch while the script runs.

**Session** is accounts and refresh tokens. `users` is the user table, `stored` the key `user-<id>`
of Redis; a token is named by the request that minted it. The statements are `FindAccount`,
`CreateUser` (signUp, and UserService.create, which has the same two), `FindUser`, `Insert`
(signIn), `FindSub`, `Validate`, `Invalidate`, `Insert` (refreshTokens), `FindOperator`,
`FindTarget`, `UpdatePassword` (changePassword), `UpdateUser`, `FindVictim`, `DeleteUser`. `Insert`
and `Invalidate` may run again, because the Redis client resends what was not answered when the
connection broke. `Interrupt` is any rejected statement or the stop of the server. `latest`,
`spent` and `cut` are history variables: the token written last, the tokens deleted or replaced,
and the users an interrupted refresh has left without one. A sign-up that fails on the unique key
is "failed", the one that finds the account "refused". `changePassword` compares the old password
in one statement and updates in another, so an own change can overwrite a reset that came in
between; the model shows it, and no property claims otherwise.

**AdminStore** holds users, roles with their menus and factories, menus, factories, tasks and
PDFs, with the join tables as sets of ids, so that a deleted row leaves the roles and takes its
descendants along as the foreign keys say. `Edit` is one statement of an administrator: users'
roles, roles by their forms, menus with their four buttons, factories, tasks and PDFs. **MenuSeed**
is the list of the permissions on the buttons of `MenuService.reset` and of a new installation.

**MenuAccess** is the guard (`Guard` reads the user's enabled buttons and compares them with
`RoutePermission`), the menus a user is shown (`ReadMenus`), and `reset` as a `deleteMany` and four
creates (`Wipe`, `Seed`) any of which may fail. Histories: `wiped`, `granted` (the roles that got
menus since the last wipe), `broken` (a reset cut short or a menu edited). **FactoryScope** is the
factory tree, the factory list and the valve list of a user, read in two or three statements;
`always`, `ever`, `allScope`, `widened` and `crossed` record what was visible while they ran.

**TaskWork** is work that outlives its request: `clear` starts an UPDATE per PDF and awaits none,
the handlers of the events `create`, `delete` and `login` insert a log row. `pending` holds the
statements that were started; `Strip` and `Log` execute one of them. The emitter (2.0.4 in
`pnpm-lock.yaml`) does not look at what a handler returns, so nobody handles a rejection, neither of
an UPDATE nor of an insert into a log: it ends the process (`Reject` in Admin) with every request on
it, and pm2 starts it again. `ChooseName` and `Put` are `uploadPdf`, `Tick` the clock its file names
use. **Admin** composes MenuAccess, FactoryScope and TaskWork over AdminStore.

**Trees** is the tables with parent links under create, move and delete, `cascade` (factories,
dictionary tree) or `set null` (menus, departments), the recursive `transformationTree` over
whatever rows a query has found, and the reads with includes nested three or four deep.

**Report** is what goes where in `findReport`: the alarm tables with merged cells
(`GroupAlarmRows`, `TableAlarm`), the problems under their valves with their pictures
(`DetailValvesAlarm`, `AlarmChart`, `HasPlotData`), the cells and headings of the travel and cycle
tables, the picture numbers `docPrSeq` that all reports of a process share. A text that the code
joins to a key is a sequence of marks, so that joining is modelled as joining.

**Routes** is the route table of every controller in the order the router tries it, with the
permission each asks for; `Dispatch` takes the first route that matches.

**DictTree** is data: for each row of `TreeStructure.ts` its parent and the number of its keywords,
and the tree of ff in `prisma/seed.ts`, a tree being the sequence of its root's datum and its
subtrees. **Dictionary** is the seed, statement by statement, `GET dict-type/export`
(`FindType`, `CreateTree` of `Exported`) and administrators who make, rename and delete types and
trees meanwhile.


## 3. What the runs check

| run | question | properties |
|---|---|---|
| `pushes` | two pushes for one plant, of two work orders, or for two plants that share a work order or names, from an empty, an imported and a serviced plant | `DeviceUnique`, `NoNewDuplicateTag`, `FailureMeansRolledBack`, `WorkOrderAtHome`, `OwnPlantOnly`, `WorkOrderKeepsPlant`, `PushInv` |
| `push_refines` | do the concurrent pushes, whose commit replies may be lost, implement the contract? what does a request do that is sent twice, the second time after the first or beside it? | `ImplementsContract`, `RetryIsIdempotent`, `SuccessMeansCommitted` |
| `push_identity` | does a serial number go on naming its valve? (violated) | `SerialIdentifiesValve` |
| `sync_pair` | two pushes, an import, an administrator's edit and deletes together; two imports of one plant that share a unit, a serial number and a placeholder | `DuplicatesOnlyByImports`, `MountedUnlessMoved`, `IndexSafeAcrossWriters`, `SerialUnique`, `SummaryTrue` |
| `sync_live` | three pushes whose waits for factory and work order rows chain, and a push and an import that wait for each other in a cycle, all end | `EveryWriterEnds` |
| `import_placeholders` | do several placeholder rows stay several valves? (violated) | `PlaceholdersKept` |
| `deploy` | two servers, three commits, two runs of the script, any failure | `SchemaCoversStarted`, `StopsAtFirstFailure`, `DeployedIsWhole`, `DeployInv` |
| `deploy_stale` | does "all hosts deployed" mean the hosts run the new code? (violated) | `AllHostsDeployed` |
| `session` | two sign-ins, two refreshes and a removal on one session; two sign-ups, a rename, two password changes and two removals on the rows | `SessionKept`, `SpentStaysSpent`, `AccountUnique`, `AdminsStay`, `SessionInv` |
| `admin` | two resets of the menus, guarded requests, lists between edits of roles, a clear beside deletes of tasks and factories, two uploads of one name; statements fail and servers die | `BuiltInMenusBack`, `OnlyRegrantedPass`, `ListWithinScope`, `GrantAllSeesAll`, `PdfKeepsAddress`, `ClearedInTheEnd`, `UploadStands`, `AdminTypeOK` |
| `pages` | every tree of up to five rows, every small answer of the analysis service, every route, seeds beside exports and administrators | `TreeShowsRooted`, `OnlyCyclesHide`, `AlarmTableFaithful`, `ProblemsDrawn`, `CellsUnderHeadings`, `RoutesUsable`, `ExportedAsSeeded` |
| `install` | does a first run of the seed that no failure meets come to its end? (violated) | `SeedFinishes` |

Some of these say what does not hold as well. `RetryIsIdempotent` says two things of each commit of
a push: the tables then are as the push says (`Applied`), and where they were so before no row has
changed. Its premises are the cases in which the code does change something. An entry without `unit`
takes whichever device of the plant `findFirst` meets (`service.service.ts:104`), so that a repeat may
mount the valve elsewhere; a tag that comes twice in one request is written twice; and where a tag
stands for several valves, the repeat may find another one of them. `OwnPlantOnly` is stated of
pushes and deletes alone: a valve that an administrator moves to another plant after a push has
found it would be taken back by the push. `SchemaCoversStarted` is about the code and the Prisma
client of a process at the moment it starts. The script starts nothing that is ahead of the schema.
pm2 by itself starts no such code either, but it may load such a client: `prisma generate`
(`scripts/deploy.sh:84`) comes before the migrations (`:87`), so that a server which dies in between,
or after the migrations have failed, comes back with a client that knows columns the database does
not have, until a later run migrates. The property therefore says less of pm2, except on hosts
that the run has deployed.
`DuplicatesOnlyByImports` bounds the duplicates that
racing imports make beside the devices a store had to begin with. `TreeShowsRooted` and `OnlyCyclesHide` say which rows are not shown: a plant
whose parent the user may not see, and rows under a cycle. `CellsUnderHeadings` is an equivalence:
the cells of the cycle table stand under their headings if and only if the first valve was told
for three times and the others for the same. `ListWithinScope` needs `crossed <= 1`: the two or
three reads of a list are no snapshot, and two edits between them show a plant that was never
visible; and `widened`: a PATCH that sets `grantAllFactories` and empties the role's factories
leaves a list that had read the old role without both. `OnlyRegrantedPass` says that a reset
takes every grant away.

**Bounds.** *Pushes.* Two pushes are enough for a race on every pair of statements; `PairsPayload`
has four, of which `OnePair` admits p1 and one other: they meet on the device, the tag, the serial
number, on the work order, or on names only. Payloads have up to two valves: the second iteration
is where the loop reads what the first has written, and where a serial number can move to another
tag. The stores a behaviour starts from contain the cases a fresh table cannot have: a tag that
stands for two valves, a device under another name, a work order with links. Every push and import
runs at most once, so the ids are bounded by the payloads. In `push_refines` the
second pair, p3 and p4, is one request sent twice; `OneCouple` keeps the pairs apart, and gives the
second one no neighbouring plant and a log that can be written, to keep the run short: the log
plays no part in `RetryIsIdempotent`, and `RetriesChangeNothing` covers the neighbour. *sync_pair.* `EditedPair` leaves an edit
(`MaxAssetEdits = 1`) to behaviours of p1 and i1, and `TwinsApart` keeps the twin imports beside
deletes only, because their sheets of three rows are long; `LogsWritten` lets every push file its payload
and its outcome, since these properties do not read the log (the other runs let that fail). `sync_live` has three pushes, which a
chain of waits needs, or p4 and the import (`OneCast`). *Deploy.* `MaxVersion` and `MaxRuns`: two
runs are a failed run and its repetition, three commits (0 to 2) allow a commit to arrive during a
run and two migrations to be applied in part. *Session* has two halves that `OneFight` keeps apart,
because requests of one hardly meet those of the other; `MaxUser` leaves one id for every sign-up.
*Admin.* `OneCast` names the groups of requests that meet in a table, and which tables are edited
meanwhile; `MaxEdits = 2` is what a list of three reads can have between them; `MaxMenu = 19` is
the three first buttons and the rows two resets write for the three permissions told apart,
`MaxTask = 4` two tasks more, `MaxClock = 1` two milliseconds. *Pages.* One of the four parts moves
in a behaviour, since nothing connects them; `MaxNode = 5` gives a chain one deeper than the
dictionary list shows, and a cycle with a tail; the answers of the analysis service vary one part
of the report at a time, with tags that end like a key of another one, limits given or not and in
either order; `MaxPictures` lets several reports of a process follow each other. For the seed,
`MaxType = 4` bounds what administrators create (the seed may go beyond it), `MaxTree = 3` the
trees, two runs are an interrupted one and its repetition.
`CHECK_DEADLOCK FALSE` stands everywhere because all these systems may stop: there need not be
another push, sheet, request or deployment.

**Fairness.** `sync_live` has weak fairness of `Advance(p)` and `AdvanceImport(i)`, the next
statement of a request that a server has received, and of `EndDeadlock`. Node runs the handler on once its awaited
statement has returned, and Postgres grants a lock whose holder has gone; weak fairness is enough
because a lock that is free stays wanted by a waiter and a push takes its locks once. Nothing is
assumed of the arrival of pushes and imports, of edits, deletes or other faults; the 30 s
transaction timeout, an `Abort`, is not needed for progress. The waits of pushes for factory and work
order rows never close a cycle, since every push takes its factory row first. A push and an import
can close one: the import's insert (`factory.service.ts:424`) has made its index entry and waits for
the factory row, and the push that holds this row comes to write the same serial number
(`service.service.ts:127`) and waits for the entry. The run reaches it with p4 and i1. Postgres
finds such a cycle after `deadlock_timeout` and lets one of its statements fail, which is `EndDeadlock`:
the push then rolls back and answers 500, or the import reports the row as skipped. Without
the fairness of `EndDeadlock` the property is violated. `admin` has weak fairness of `Settle`: the
database executes, or refuses, a statement that was sent to it. `OneCast` refuses arrivals and
edits only, which are not fair.

**What the violated runs show.**

- `push_identity`: a push finds its valve by tag and writes the pushed serial number over the
  stored one (`service.service.ts:117`), while the import's comment (`factory.service.ts:193`)
  says that a tag may stand for several valves and that the serial number is the only identity.
  Where the tag stands for two valves the push renames whichever `findFirst` returns.
- `import_placeholders`: the migration says several placeholder serials may coexist in a factory
  and keeps them out of the index, but the import looks them up like real ones
  (`factory.service.ts:215`), so the second `N/A` row of a sheet overwrites the first.
- `deploy_stale`: after a run that failed between `git reset` and `pm2 restart`, the next run
  compares HEAD with the branch, finds them equal, skips build and restart
  (`scripts/deploy.sh:74`) and ends with "all hosts deployed" over the old process.
- `install`: the seed gives the data of ff's tree `dictTypeId: 4` (`prisma/seed.ts:2471`), but on a
  new database it has made the types 1 to 3. The foreign key of `0_init/migration.sql:570` refuses
  the statement, so that the factories and rules behind it and the message `注入数据成功` are never
  reached; a second run stops at the unique names of the roles.

**Seen while modelling**, and stated by no property because nothing in the repository promises
otherwise: the export keeps the first keyword of a row only, so that 148 of 194 rows with keywords
lose the others of 873; each GET of the export adds another tree; the seeded trees are five levels
deep where the list shows four; a PATCH of a role without `factoryIds` empties them
(`role.service.ts:64`); `uploadAvatar` stores files under their plain names (`user.service.ts:394`);
`MenuService.create` makes buttons with `:read` (`menu.service.ts:38`) while the routes ask for
`:query`; two resets that interleave leave the built-in rows twice.

## 4. What is proved

TLAPS proves, for any pushes, payloads, servers and starting stores that satisfy the assumptions:

- `PushInvariant`: `PushSpec => []PushInv`. `DeviceUnique` is not inductive: the schema has no
  such key, and whether a push may create a device depends on what it saw statements ago.
  The invariant adds why it may: every push between its first upsert and its end holds its
  factory row (`LocksHeld`), no two hold the same one (`OneWriterPerFactory`), a push creates
  devices only in that factory (`OwnDevices`), what it sees, its own rows included, names each
  device once (`ViewNamedOnce`), and what was missing when it looked is still missing when it
  creates (`StillMissing`). `OutcomeInOrder` ties log and answer to what the database did, and
  `CursorInLoop` keeps the loop's index inside the request.
- From it `PushTypes`, `NoDuplicateDevice`, `NoFalseSuccess` (also when commit replies are lost)
  and `NoFalseFailure` (under `~AckMayBeLost`, because a lost reply does make the code report a
  failure for data that is there).

- `OrderInvariant`: `PushSpec => []OrderInv`, what a push does beside creating devices. The three
  properties it is for are none of them inductive, because whether a write is right was decided
  by a lookup statements ago. The invariant has the second lock (`OneWriterPerOrder`, `OrderHeld`:
  from its second upsert on a push holds the work order, so that its factory cannot change below
  it), ids that stand for one factory and tag for good, uncommitted rows included
  (`IdentityKept`, `KeysUnique`), what a push writes and links (`OwnWrites`), what its lookup has
  found or missed (`FoundFits`: the valve found may be deleted meanwhile, the one missed cannot
  appear, because only the holder of the factory row adds valves), and where a new valve stands
  (`NewUnderTag`: it replaces a row or is the only one under its tag).
- From it `PushesStayHome` (`OwnPlantOnly`): a valve keeps its factory as long as it has its id, so the
  one a push has found and writes statements later is still its plant's. Further
  `WorkOrdersStay` (`WorkOrderKeepsPlant`), `TagsStay` (`NoNewDuplicateTag`, counting with
  the injection of the valves after a commit into those before it) and `LinksStayAtHome`
  (`WorkOrderAtHome`). The last one assumes `LinksAtHome`, that no link crosses factories in the
  stores a behaviour starts from: the schema lets one do so, and nothing would repair it.

The refinement, for any pushes, payloads and servers, and any stores as in `StoresNamed`:

- `PushesImplementContract`: `StoresNamed => (PushSpec => ImplementsContract)`. A step of the
  detailed specification is, under the mapping, the push applied as a whole (`Commit`), pushes
  rejected (rollbacks, and all those of a server that stops), rows dropped (the administrators'
  deletes), or a stutter (every other statement, and a retry's log and answer).
  The hard step is `Commit`: what the statements have written, entry by entry, between the locks
  must be one of `Effects` on the store as it is *then*, not on the one in which the push began.
- Its invariant is `StageInvariant`: `StoresNamed => (PushSpec => []StageInv)`. An open push has a
  trace (`Traced`): one set of written rows per entry it is through with, each the last one with a
  device and a valve that fit the entry (`Puts`). The trace speaks of written rows only, so that
  it survives what others commit or delete meanwhile; that it is a path through `Stages` of the
  current store is then true at every moment and not only at the first. Nobody else takes rows away
  that a trace needs or adds any in its factory (`RowsStay`, a property of each step of the others).
  The rest of the invariant says that the store keeps its names (`RowsNamed`, `DeviceKeys`), that the
  device in hand fits the entry (`DeviceFound`, `NewDeviceNext`) and that the devices a push has
  locked are there (`KeysHeld`).
- Induction over the entries is lemma `Succession`, which gets it from the well-foundedness of the
  finite subsets of the numbers; the library's own induction theorems cannot be instantiated here.
- `RetriesChangeNothing`: `StoresNamed => (PushSpec => RetryIsIdempotent)`. At its commit a push has a
  trace; by induction along it, an entry that has been written is served in what the push sees
  (`EntryServes`) and no later entry, which has another tag, takes that away (`EntrySpares`,
  `TraceServes`); and an entry that was served before is written as it was (`EntryRepeats`,
  `TraceRepeats`), because the valve under its tag is the only one and its device the only one of
  that name. `CommitRetried` joins them with the factory and the work order, whose factory the
  update branch keeps.

For any list of distinct hosts, any number of commits and runs:

- `DeployInvariant`: `Spec => []DeployInv`. The invariant says what each line of the script relies
  on: what is fetched only grows (`FetchedInOrder`), what the working tree holds at each line, the
  client it has kept on a roll back included (`TreeAtLine`), that migrations precede builds, restarts
  and roll backs (`MigratedFirst`), and that hosts
  are taken in order (`HostsInOrder`, `DeployedOnDisk`).
- From it `SchemaAhead` (`SchemaCoversStarted`), `FirstFailureStops`, `DeployedRunsTarget`.

For any requests, accounts, passwords and rows to begin with:

- `SessionInvariant`: `Spec => []SessionInv`. `SessionKept` needs to know which operation a
  statement belongs to (`StepOfKind`), that a stored token is not spent and belongs to the user of
  its key (`TokensLive`), so that writing one key spends no other's token, and that a token a
  client can present has a user (`TokensOwned`).
- From it `NoSessionLost`, `SpentTokensRefused`, `AccountsUnique`, and `AdminsNeverRemoved` under
  `SameIds`: the body of `PATCH /user/:id` carries an id which the update writes, and the theorem
  assumes that clients repeat the one of the path.

For any imports, sheets and plants, and any stores that satisfy the assumptions:

- `ImportInvariant`: `ImportSpec => []ImportInv`, imports running beside each other. No push is open
  then and no insert waits (`Unlocked`); the rest is `RowsInv`.
  `SerialUnique` is kept by the index (`Accepted`), but `RowsLanded` needs more: a row that one
  import has reported may be overwritten by another one, which found the valve statements ago.
  The invariant adds that ids are keys below their sequence (`ValveKeys`), that an import writes
  only a row it has and can use (`WritesUsableRow`), and that the valve a row has found still
  carries that row's serial number and plant when it is written (`FoundStays`): it is this that
  pushes, which rename valves, and deletes would break.
- From it `ReportedRowsLand` and `SerialsUnique`.

For pushes, imports, the administrators' creates, updates and deletes all beside each other, for
any payloads, sheets and forms, and from stores in which every valve is mounted on a device of its
own factory (`StoresMounted`):

- `SyncInvariant`: `StoresMounted /\ SyncSpec => []SyncInv`, in two halves and what waiting inserts need. `HomeInv` is why
  valves stay at home: a device id belongs to one factory unless the device was moved
  (`DeviceIds`), so the device that a push has found or an import has mapped is still one of its
  plant when a valve is put on it, although it may have been deleted in between (`FoundAtHome`,
  `MappedAtHome`); it then exists because of the foreign key, and until the push commits because
  of its key-share lock (`DevicesThere`). `IndexInv` is why the partial unique index holds: a push
  writes only valves of the factory whose row it holds (`OwnValves`), so two open pushes never
  write for one plant, and what each sees satisfies the index (`ViewsIndexed`) because every other
  writer waits for the entries it has written. While an import's insert waits for the factory row, its
  row goes on to fit the tables and clashes with no other that waits (`EntriesInv`, `Stands`), as the
  others wait for it in turn (`AwaitedStand`). Each step of the three kinds of writer is one of
  seven effects on devices and valves (`Drops`, `Publishes`, `Creates`, `CreatesHidden`, `Changes`,
  `Writes`, `Stores`), and each effect keeps both halves.
- From it `MountsStayHome`, `IndexHoldsInTransactions` and `SerialsUniqueAmongWriters`.

For the same writers, without `StoresMounted`:

- `SummariesTrue`: `OneBirth /\ SyncSpec => []SummaryTrue`. Its invariant (`SummaryInv`) speaks of
  the time when only imports and deletes have run (`NoOthers`): an id is given out only together with a row that is
  counted as created, so that the sequence counts those rows (`Counted`); while every id is in use no
  delete has removed anything, and what imports need of each other (`FoundStays`, `RowsLanded`) is
  still true.
- `DuplicatesBounded`: `SyncSpec => []DuplicatesOnlyByImports`. A push about to create a device has
  missed every device of that name except those an import mapped or an administrator placed
  (`MissedByPush`), because other pushes wait for the factory row; after its create it is the one
  device that nobody else accounts for (`SoleOfName`). An import maps a name once and for all, so
  the devices that imports account for are at most as many as the imports that have started.

For any users, roles, menus, plants, tasks, requests, servers, forms and tables to begin with,
the administration pages as a whole (`AdminSpec`):

- `AdminTypes`: `AdminSpec => []AdminTypeOK`, types and joins of all tables under every statement
  and cascade. Inductive with `StepsFit`, which says that a request is at a step of its own kind.
- `UploadsStand`: a file is written under the name its upload chose, and the name tells the
  millisecond of the choice (`UploadInv`), so that only an upload of the same name and millisecond
  can replace it.
- `OnlyRegranted`: after a wipe a role has menus only if it was given them since (`GrantInv`); a
  guard passes by a button of some role, and that role must then be one of them.
- `PdfsKeepAddress`: the updates that `clear` starts and does not await carry the address it has
  read, and would put it on another PDF if an id were used twice or a row changed its address
  (`PdfInv`: ids are used once, and a row keeps its address while such an update is on its way).
- `ListsWithinScope` and `GrantAllSees`, from `ScopeInv`. The invariant says of a list between its
  reads what it would show if the last read came now (`Would`, `Right`). While no statement has
  fallen between the reads, what has been read is what is there (`Fresh`); the first statement that
  falls there changes either roles, or users, or factories, but never two of them in a way that
  matters (`OneSided`), and each of the three leaves the list right (`Crossing`); the second one may
  not, which is why the property ends at `crossed <= 1`. That a role grants all is remembered by
  the first read, so that this half holds across any number of statements.
- `BuiltInMenusStand`, from `SeedInv`: after a wipe each of the four directories is still to come
  from some reset that runs (`Coming`) or stands in its place of consecutive ids, apart from the
  others (`Standing`). It is this that survives a second wipe, which empties all places and at once
  has all four creates to come. The theorem then counts: a row that k directories have stands in k
  places (pigeonhole).

For any number of rows of the tables with parent links, however they were created, moved and
deleted (`TreeSpec`, the Trees part of MCPages by itself), and whatever rows a query has found:

- Everything is said of walks: `Walk(n)` is the row, its parent, the parent of that, and so on for
  ever, out of the tables once it has passed a root. It exists by lemma `Recursion`, which solves
  recursive definitions over intervals once and for all; the same lemma unfolds `Ancestors`,
  `Listed` and `Under`, so that induction over depth and over rows is `Succession` again.
- `TreesShowRooted` (`TreeShowsRooted`). By induction over the depth, the tree under a place has the
  rows whose walk comes to it through found rows within that many steps, each behind its parent
  (`TreesRight`); within a level, by induction over the rows, each sibling adds itself and its own
  part (`ListedSoFar`). No row comes twice because the parts of siblings are apart, and that is so
  only below a root: a walk meets a root once (`RootOnce`), while on a cycle it would come back.
  The rows that `Ancestors` calls hanging from a root through found rows are the same
  (`HangsByWalk`).
- `OnlyCyclesAreHidden` (`OnlyCyclesHide`). Its invariant is the foreign key (`NoOrphans`): a cascade
  takes whatever is under the deleted row, so that no row keeps a parent that is gone. A walk that
  never comes to a root then stays among the rows, meets one of them twice (`MeetsAgain`,
  pigeonhole), and that one is on a cycle; a walk that does come to a root meets no row twice
  (`NeverTwice`). The latter also gives the depth of a row as a number of steps (`DepthOfRow`), and
  with it what the nested includes of departments and dictionary data cut off (`NestedShows`).

For any answers of the analysis service and any number of reports of a process (`ReportSpec`, the
Report part of MCPages by itself), under `ReportAssumption` alone:

- `AlarmsShownAsTold` (`AlarmTableFaithful`). By induction over the problems, each that was told is
  filed at a place in a group of its own key (`Filed`, `RowsGrouped`): a push files one more and
  moves no other (`Grown`), and no two groups have one key. Two problems with one key have one tag and
  one time because a date has no bar in it (`BarredTells`); a tag may have one. In the table the
  groups lie one under the other (`TableLaid`), so that the row a merged cell starts in is the first
  of its group (`CellOnce`), and rows and problems correspond one to one (`ProblemsShown`), each
  problem as often as it was told (`ToldAsOften`).
- `EveryProblemDrawn` (`ProblemsDrawn`), with the invariant that the counter of pictures starts at
  1000 and never falls. Each problem has its place behind those of the valves before it
  (`ItemPlace`, `ItemAt`), and its text and picture stand at the same place of the document
  (`ItemsShown`). A picture's number is that of the pictures before it in the whole list
  (`CountBefore`), and two problems with pictures have different ones (`EarlierTells`); all are at
  least 1000, above the ids of the template. The axis is a rounded greatest and least value, which
  finitely many numbers have (`MaxBounds`, `MinBounds`, `ChartHolds`).

**Assumptions.** `InitialStoresAssumption`: the stores a behaviour starts from are well typed,
tables are finite, ids are unique and lie below their sequences, links join rows that exist, no two
valves collide in the partial unique index,
and no factory has two devices of one name; the last is an
assumption about the past because imports and administrators can break it
(`DuplicatesOnlyByImports`), and the theorems of ServiceAppPushProofs are therefore about a database
that pushes and deletes write. `StoresNamed`, for the refinement alone: a sheet import or an
administrator may have left a tag on two valves, or a valve on a device of another plant, and the
contract, which has no ids, says nothing of such stores. `OneBirth`: the stores a behaviour may start from have given out the
same number of valve ids; `SummariesTrue` counts new valves from that number on. `PayloadAssumption`, `SheetAssumption`, `FormsAssumption`,
`DeployAssumption`, `SessionAssumption`: types of the inputs; the update forms of devices and
valves also have an `id`, which is taken to repeat the one of the path; the last one also says that the
accounts to begin with have different names; a refresh token id (a random UUID) never repeats. `NoneAssumption`: null values
are different from the others. `AdminAssumption`: the administration tables to begin with are typed
and joined, their ids are those the sequences have given out, the forms and the requests name
rows of the types they should; `WorkAssumption`: an upload has a file. `TreesAssumption`: the two
values for a null parent and for no row differ, and neither is an id. `ReportAssumption`: an answer
has lists of problems whose dates have no bar in them, and lines and limits of a whole plot that are
numbers or missing (a NaN is left out by the code); no answer is written as the value for a failure.
Every statement either has its effect or none; a lost reply is
modelled for COMMIT only. The branch only grows, and one operator at a time runs `deploy.sh`.

**Only model-checked.** Liveness (`ClearedInTheEnd`, `EveryWriterEnds`): fairness and ENABLED are
beyond the prover. `CellsUnderHeadings` is about answers whose times differ and are not blank,
which nothing in the code ensures, so that it holds of the instance's answers and not of all.
`RoutesUsable` is about a finite table, which TLC decides; Dictionary (`ExportedAsSeeded`,
`SeedFinishes`) has RECURSIVE operators.

## 5. Not modelled, and why

Row contents that no decision reads (descriptions, addresses, calibration columns), log wording,
response formatting, and the layout of reports (colours, fonts, the overview charts) are
abstracted away. Labels, paths and order of the built-in menus are reduced to their permissions,
names in the dictionary data to the shape of the tree, the seed's hart tree to its root.

Value conversion works character by character with regular expressions; the import decides nothing
by its results. Statistics and the other read handlers change and decide nothing. `execute` hands a
task to the analysis service and returns; `execute2` and `savePdfData` behind it are called by
nothing. RolesGuard guards no route. Posts, rules, units and plain dictionary data are single
statements on one table that no other step reads. Contracts and renames of factories: no decision
of a modelled component reads a contract, and in the model rows refer to a factory by its name,
which a rename would change in one statement in the code.

A `removeAll` deletes all its rows at once here, while Postgres locks them one after the other, so
that a delete and a push can deadlock in the database; the victim is an `Abort` of the push, but
the failure of the delete is not modelled. Prisma's `include` is several SELECTs of one call and is
modelled as one read. The seed may run again after an administrator has deleted roles; then it
fails or not depending on which, and the model keeps the roles. The node process, Redis, MinIO and
file uploads are input and output around the modelled handlers, except where their order matters
(Session, TaskWork).

## 6. Plan

1. Done: AssetStore, ServiceAppPush and its invariant; SyncContract and the refinement;
   ValveImport; AssetAdmin; AssetSync; Deploy and its invariant; Session and its invariant.
2. Done: AdminStore, MenuSeed, MenuAccess, FactoryScope, TaskWork and Admin; Trees, Report,
   Routes, DictTree and Dictionary.
3. Done: the invariants of work orders, links and tags (ServiceAppPushProofs), of the administration
   tables, uploads, grants, PDFs, lists and built-in menus (AdminProofs), of trees and reports
   (PagesProofs),
   of import summaries and of duplicate devices (SyncProofs), and the refinement of SyncContract with
   its promises (PushRefinementProofs).
4. Models left: deletes that lock row by row; value conversion with a reference definition.
