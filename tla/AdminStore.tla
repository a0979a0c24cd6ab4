------------------------------ MODULE AdminStore ------------------------------
(***************************************************************************)
(* The tables behind the administration pages: users, roles and what they   *)
(* are joined with (menus, factories), and the analysis tasks with their    *)
(* PDFs.  Administrators change them by single statements (Edit).  The      *)
(* requests of MenuAccess, FactoryScope and TaskWork take several steps;    *)
(* what they have in common is here too.                                    *)
(*                                                                          *)
(* The parent links of menus and factories are left out (Trees has them): a *)
(* menu row of type "C" stands for a directory and the menus under it.  Of  *)
(* the buttons only those with a permission in Permission are represented.  *)
(***************************************************************************)
EXTENDS Integers, SequencesExt, MenuSeed

CONSTANTS
  User, Role, Factory,
  Permission,                \* the <<area, verb>> pairs the model tells apart
  Url,                       \* the addresses of PDF files, without parameters
  Host,                      \* the servers
  Request, Ask, HostOf,      \* requests, what each asks for, the server it reaches
  MaxMenu, MaxTask,          \* bounds on the ids of menus, and of tasks and PDFs
  MaxEdits,                  \* bound on the administrators' statements
  RoleForms, MenuForms,      \* what the forms of roles and menus send
  FirstUsers, FirstRoles, FirstMenus, FirstFactories, FirstTasks, FirstPdfs,
  Absent, None

MenuId == 1..MaxMenu
TaskId == 1..MaxTask

UserRow    == [isAdmin : BOOLEAN, roles : SUBSET Role]
RoleRow    == [menus : SUBSET MenuId, factories : SUBSET Factory, grantAll : BOOLEAN]
MenuRow    == [type : {"C", "M", "B"}, permission : Permission \cup {Absent}, status : BOOLEAN]
FactoryRow == [createBy : User]
TaskRow    == [factory : Factory]
PdfRow     == [task : TaskId, url : Url, signed : BOOLEAN]

VARIABLES
  users,      \* [User -> UserRow or None]
  roles,      \* [Role -> RoleRow or None]
  menus,      \* [MenuId -> MenuRow or None]
  factories,  \* [Factory -> FactoryRow or None]
  tasks,      \* [TaskId -> TaskRow or None]
  pdfs,       \* [TaskId -> PdfRow or None]
  next,       \* the sequences of the menu, task and PDF ids
  edits,      \* how many statements administrators have executed
  step,       \* [Request -> the step it is about to take]
  answer      \* [Request -> "ok", "refused", "failed", "lost", or None]

adminTables == <<users, roles, menus, factories, tasks, pdfs, next>>
requestVars == <<step, answer>>

Live(table) == {i \in DOMAIN table : table[i] # None}

\* A table with the rows of the ids in gone deleted.
Without(table, gone) == [i \in DOMAIN table |-> IF i \in gone THEN None ELSE table[i]]

\* A table with rows inserted under consecutive ids from first on.
Inserted(table, first, rows) ==
  [i \in DOMAIN table |->
     IF i \in first..(first + Len(rows) - 1) THEN rows[i - first + 1] ELSE table[i]]

---------------------------------------------------------------------------
(* Roles.  A form lists menus and factories, and grantAll unless it is       *)
(* Absent.  create connects, and fails unless every id exists; update sets   *)
(* the two lists to the ids that exist.                                      *)

CreateRole(x, form) ==
  /\ roles[x] = None
  /\ form.menus \subseteq Live(menus) /\ form.factories \subseteq Live(factories)
  /\ roles' = [roles EXCEPT ![x] = [form EXCEPT !.grantAll = (@ = TRUE)]]
  /\ UNCHANGED <<users, menus, factories, tasks, pdfs, next>>

UpdateRole(x, form) ==
  /\ roles[x] # None
  /\ roles' = [roles EXCEPT ![x] =
       [menus     |-> form.menus \cap Live(menus),
        factories |-> form.factories \cap Live(factories),
        grantAll  |-> IF form.grantAll = Absent THEN @.grantAll ELSE form.grantAll]]
  /\ UNCHANGED <<users, menus, factories, tasks, pdfs, next>>

RemoveRole(x) ==
  /\ roles[x] # None
  /\ roles' = [roles EXCEPT ![x] = None]
  /\ users' = [u \in User |-> IF users[u] = None THEN None
                              ELSE [users[u] EXCEPT !.roles = @ \ {x}]]
  /\ UNCHANGED <<menus, factories, tasks, pdfs, next>>

(* Users, as far as roles go: Session has the rest. *)

CreateUser(u, rs) ==
  /\ users[u] = None
  /\ rs \subseteq Live(roles)
  /\ users' = [users EXCEPT ![u] = [isAdmin |-> FALSE, roles |-> rs]]
  /\ UNCHANGED <<roles, menus, factories, tasks, pdfs, next>>

UpdateUser(u, rs) ==
  /\ users[u] # None
  /\ users' = [users EXCEPT ![u].roles = rs \cap Live(roles)]
  /\ UNCHANGED <<roles, menus, factories, tasks, pdfs, next>>

RemoveUser(u) ==
  /\ users[u] # None /\ ~users[u].isAdmin
  /\ users' = [users EXCEPT ![u] = None]
  /\ UNCHANGED <<roles, menus, factories, tasks, pdfs, next>>

(* Menus.  A new menu of type "M" brings four buttons, named after its path. *)

Button(p) == [type |-> "B", permission |-> p, status |-> TRUE]
Branch(t) == [type |-> t, permission |-> Absent, status |-> TRUE]

\* A menu with buttons under it, in some order.
Rows(t, ps) == <<Branch(t)>> \o SetToSeq({Button(p) : p \in ps \cap Permission})

CreateMenu(t, area) ==
  LET rows == Rows(t, IF t = "M" THEN {area} \X NewMenuVerbs ELSE {}) IN
  /\ next.menu + Len(rows) - 1 \in MenuId
  /\ menus' = Inserted(menus, next.menu, rows)
  /\ next' = [next EXCEPT !.menu = @ + Len(rows)]
  /\ UNCHANGED <<users, roles, factories, tasks, pdfs>>

UpdateMenu(m, row) ==
  /\ menus[m] # None
  /\ menus' = [menus EXCEPT ![m] = row]
  /\ UNCHANGED <<users, roles, factories, tasks, pdfs, next>>

\* Mutant: the joins stay.
DeleteMenusAlone(gone) == menus' = Without(menus, gone) /\ UNCHANGED roles

\* DELETE of menus takes the joins with roles along.
DeleteMenus(gone) ==
  /\ menus' = Without(menus, gone)
  /\ roles' = [x \in Role |-> IF roles[x] = None THEN None
                              ELSE [roles[x] EXCEPT !.menus = @ \ gone]]

RemoveMenu(m) ==
  /\ menus[m] # None
  /\ DeleteMenus({m})
  /\ UNCHANGED <<users, factories, tasks, pdfs, next>>

(* Factories.  A factory goes with its descendants, their tasks and PDFs. *)

CreateFactory(f, u) ==
  /\ factories[f] = None
  /\ factories' = [factories EXCEPT ![f] = [createBy |-> u]]
  /\ UNCHANGED <<users, roles, menus, tasks, pdfs, next>>

DeleteTasks(gone) ==
  /\ tasks' = Without(tasks, gone)
  /\ pdfs' = Without(pdfs, {i \in Live(pdfs) : pdfs[i].task \in gone})

RemoveFamily(gone) ==
  /\ gone \subseteq Live(factories)
  /\ factories' = Without(factories, gone)
  /\ roles' = [x \in Role |-> IF roles[x] = None THEN None
                              ELSE [roles[x] EXCEPT !.factories = @ \ gone]]
  /\ DeleteTasks({t \in Live(tasks) : tasks[t].factory \in gone})
  /\ UNCHANGED <<users, menus, next>>

(* Tasks.  An update deletes the PDFs of the task and inserts new ones. *)

WithPdf(rows, t, url, signed) ==
  [rows EXCEPT ![next.pdf] = [task |-> t, url |-> url, signed |-> signed]]

CreateTask(f, url, signed) ==
  /\ factories[f] # None /\ next.task \in TaskId /\ next.pdf \in TaskId
  /\ tasks' = [tasks EXCEPT ![next.task] = [factory |-> f]]
  /\ pdfs' = WithPdf(pdfs, next.task, url, signed)
  /\ next' = [next EXCEPT !.task = @ + 1, !.pdf = @ + 1]
  /\ UNCHANGED <<users, roles, menus, factories>>

\* Mutant: the PDF rows of the task are rewritten in place.
UpdateTaskInPlace(t, url, signed) ==
  /\ tasks[t] # None
  /\ pdfs' = [i \in TaskId |-> IF pdfs[i] # None /\ pdfs[i].task = t
                               THEN [task |-> t, url |-> url, signed |-> signed] ELSE pdfs[i]]
  /\ UNCHANGED <<users, roles, menus, factories, tasks, next>>

UpdateTask(t, url, signed) ==
  /\ tasks[t] # None /\ next.pdf \in TaskId
  /\ pdfs' = WithPdf(Without(pdfs, {i \in Live(pdfs) : pdfs[i].task = t}), t, url, signed)
  /\ next' = [next EXCEPT !.pdf = @ + 1]
  /\ UNCHANGED <<users, roles, menus, factories, tasks>>

RemoveTasks(gone) ==
  /\ gone # {} /\ gone \subseteq Live(tasks)
  /\ DeleteTasks(gone)
  /\ UNCHANGED <<users, roles, menus, factories, next>>

---------------------------------------------------------------------------
EditRoles ==
  \/ \E x \in Role, form \in RoleForms : CreateRole(x, form) \/ UpdateRole(x, form)
  \/ \E x \in Role : RemoveRole(x)

EditUsers == \E u \in User : \/ \E rs \in SUBSET Role : CreateUser(u, rs) \/ UpdateUser(u, rs)
                             \/ RemoveUser(u)

EditMenus ==
  \/ \E t \in {"C", "M", "B"}, p \in Permission : CreateMenu(t, p[1])
  \/ \E m \in MenuId : \/ \E row \in MenuForms : UpdateMenu(m, row)
                       \/ RemoveMenu(m)

EditFactories == \/ \E f \in Factory, u \in User : CreateFactory(f, u)
                 \/ \E gone \in SUBSET Factory : gone # {} /\ RemoveFamily(gone)

EditTasks ==
  \/ \E url \in Url, signed \in BOOLEAN :
       \/ \E f \in Factory : CreateTask(f, url, signed)
       \/ \E t \in TaskId : UpdateTask(t, url, signed)
  \/ \E gone \in {{t} : t \in TaskId} \cup {Live(tasks)} : RemoveTasks(gone)

Edit ==
  /\ edits < MaxEdits
  /\ edits' = edits + 1
  /\ EditRoles \/ EditUsers \/ EditMenus \/ EditFactories \/ EditTasks
  /\ UNCHANGED requestVars

---------------------------------------------------------------------------
(* Requests *)

Kind(r) == Ask[r].kind

Goto(r, s) == step' = [step EXCEPT ![r] = s] /\ UNCHANGED answer

Answer(r, a) ==
  /\ step' = [step EXCEPT ![r] = "done"]
  /\ answer' = [answer EXCEPT ![r] = a]

InitStore(start) ==
  /\ users = FirstUsers /\ roles = FirstRoles /\ menus = FirstMenus
  /\ factories = FirstFactories /\ tasks = FirstTasks /\ pdfs = FirstPdfs
  /\ next = [menu |-> Cardinality(Live(FirstMenus)) + 1,
             task |-> Cardinality(Live(FirstTasks)) + 1,
             pdf  |-> Cardinality(Live(FirstPdfs)) + 1]
  /\ edits = 0
  /\ step = start
  /\ answer = [r \in Request |-> None]

\* Every join refers to rows that exist, whatever was deleted in between.
Joined(us, xs, ms, fs, ts, ps) ==
  /\ \A u \in Live(us) : us[u].roles \subseteq Live(xs)
  /\ \A x \in Live(xs) : xs[x].menus \subseteq Live(ms) /\ xs[x].factories \subseteq Live(fs)
  /\ \A t \in Live(ts) : ts[t].factory \in Live(fs)
  /\ \A i \in Live(ps) : ps[i].task \in Live(ts)

JoinsLive == Joined(users, roles, menus, factories, tasks, pdfs)

StoreTypeOK ==
  /\ users \in [User -> UserRow \cup {None}]
  /\ roles \in [Role -> RoleRow \cup {None}]
  /\ menus \in [MenuId -> MenuRow \cup {None}]
  /\ factories \in [Factory -> FactoryRow \cup {None}]
  /\ tasks \in [TaskId -> TaskRow \cup {None}]
  /\ pdfs \in [TaskId -> PdfRow \cup {None}]
  /\ next \in [menu : Nat \ {0}, task : Nat \ {0}, pdf : Nat \ {0}]
  /\ edits \in 0..MaxEdits
  /\ JoinsLive

---------------------------------------------------------------------------
(* What a database may look like when the modelled requests start, and what *)
(* they and the forms send.                                                 *)

RoleForm == [menus : SUBSET MenuId, factories : SUBSET Factory, grantAll : BOOLEAN \cup {Absent}]

Numbered(table) == \A i \in Live(table) : i <= Cardinality(Live(table))

ASSUME AdminAssumption ==
  /\ None \notin UserRow \cup RoleRow \cup MenuRow \cup FactoryRow \cup TaskRow \cup PdfRow
  /\ None \notin {"ok", "refused", "failed", "lost"} /\ Absent \notin BOOLEAN
  /\ \A fs \in SUBSET Factory : fs # None
  /\ IsFiniteSet(Permission)
  /\ MaxMenu \in Nat /\ MaxTask \in Nat /\ MaxEdits \in Nat
  /\ RoleForms \subseteq RoleForm /\ MenuForms \subseteq MenuRow
  /\ HostOf \in [Request -> Host]
  /\ \A r \in Request : /\ Ask[r].by \in User
                        /\ Ask[r].kind \in {"createTask", "removeFactory"} => Ask[r].factory \in Factory
  /\ FirstUsers \in [User -> UserRow \cup {None}]
  /\ FirstRoles \in [Role -> RoleRow \cup {None}]
  /\ FirstMenus \in [MenuId -> MenuRow \cup {None}]
  /\ FirstFactories \in [Factory -> FactoryRow \cup {None}]
  /\ FirstTasks \in [TaskId -> TaskRow \cup {None}]
  /\ FirstPdfs \in [TaskId -> PdfRow \cup {None}]
  /\ Joined(FirstUsers, FirstRoles, FirstMenus, FirstFactories, FirstTasks, FirstPdfs)
  /\ Numbered(FirstMenus) /\ Numbered(FirstTasks) /\ Numbered(FirstPdfs)
===============================================================================
