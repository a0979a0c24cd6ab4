----------------------------- MODULE AdminProofs -----------------------------
(***************************************************************************)
(* Proofs about Admin, for any users, roles, menus, plants, requests,       *)
(* servers and forms: the tables keep their types and joins, only a role     *)
(* with menus of its own lets a user pass after a reset, an upload and the   *)
(* address of a PDF stand, the lists of FactoryScope, whose reads are not    *)
(* one snapshot, show what a user may see, and a reset brings the built-in   *)
(* menus back, however resets interleave.                                    *)
(***************************************************************************)
EXTENDS Admin, FiniteSetTheorems, TLAPS

---------------------------------------------------------------------------
(* The rows of a menu and its buttons *)

\* Listing a finite set gives each of its elements a place.
LEMMA SetToSeqType ==
  ASSUME NEW S, IsFiniteSet(S)
  PROVE  SetToSeq(S) \in Seq(S)
<1>1. ExistsBijection(1..Cardinality(S), S) /\ Cardinality(S) \in Nat
  BY FS_CardinalityType
<1>2. PICK f : f \in Bijection(1..Cardinality(S), S)
  BY <1>1 DEF ExistsBijection
<1>3. f \in [1..Cardinality(S) -> S] /\ IsInjective(f)
  BY <1>2 DEF Bijection, Injection
<1>4. SetToSeq(S) \in [1..Cardinality(S) -> S]
  BY <1>3 DEF SetToSeq
<1> QED
  BY <1>1, <1>4

\* A menu has finitely many buttons.
LEMMA ButtonsFinite ==
  ASSUME NEW some \in SUBSET Permission
  PROVE  IsFiniteSet({Button(p) : p \in some})
<1> DEFINE f == [p \in some |-> Button(p)]
<1>1. IsFiniteSet(some)
  BY AdminAssumption, FS_Subset
<1>2. f \in Surjection(some, {Button(p) : p \in some})
  BY DEF Surjection
<1> HIDE DEF f
<1> QED
  BY <1>1, <1>2, FS_Surjection

\* A menu and its buttons are at least one row.
LEMMA RowsType ==
  ASSUME NEW t \in {"C", "M", "B"}, NEW ps
  PROVE  Rows(t, ps) \in Seq(MenuRow) /\ Len(Rows(t, ps)) \in Nat \ {0}
<1> DEFINE S == {Button(p) : p \in ps \cap Permission}
<1>1. IsFiniteSet(S)
  BY ButtonsFinite
<1>2. S \subseteq MenuRow /\ Branch(t) \in MenuRow
  <2>1. \A p \in Permission : Button(p) \in MenuRow
    BY DEF Button, MenuRow
  <2>2. Branch(t) \in MenuRow
    BY DEF Branch, MenuRow
  <2> QED
    BY <2>1, <2>2
<1> HIDE DEF S
<1>3. SetToSeq(S) \in Seq(MenuRow) /\ <<Branch(t)>> \in Seq(MenuRow)
  BY <1>1, <1>2, SetToSeqType
<1>4. <<Branch(t)>> \o SetToSeq(S) \in Seq(MenuRow) /\ Len(<<Branch(t)>> \o SetToSeq(S)) >= 1
  BY <1>3
<1> QED
  BY <1>4 DEF Rows, S

\* The statements of a reset are such rows.
LEMMA StatementTypes ==
  ASSUME NEW k \in DOMAIN SeedStep
  PROVE  Statements[k] \in Seq(MenuRow) /\ Len(Statements[k]) \in Nat \ {0}
<1>1. DOMAIN SeedStep = 1..4 /\ DOMAIN SeedButtons = 1..4
  BY DEF SeedStep, SeedButtons
<1> QED
  BY <1>1, RowsType DEF Statements

---------------------------------------------------------------------------
(* The tables *)

Typed ==
  /\ users \in [User -> UserRow \cup {None}]
  /\ roles \in [Role -> RoleRow \cup {None}]
  /\ menus \in [MenuId -> MenuRow \cup {None}]
  /\ factories \in [Factory -> FactoryRow \cup {None}]
  /\ tasks \in [TaskId -> TaskRow \cup {None}]
  /\ pdfs \in [TaskId -> PdfRow \cup {None}]
  /\ next \in [menu : Nat \ {0}, task : Nat \ {0}, pdf : Nat \ {0}]

\* What the rows of a typed table are, and None is not.
LEMMA RowTypes ==
  ASSUME Typed
  PROVE  /\ \A u \in User : users[u] # None => users[u] \in UserRow
         /\ \A x \in Role : roles[x] # None => roles[x] \in RoleRow
         /\ \A f \in Factory : factories[f] # None => factories[f] \in FactoryRow
         /\ \A t \in TaskId : tasks[t] # None => tasks[t] \in TaskRow
         /\ \A i \in TaskId : pdfs[i] # None => pdfs[i] \in PdfRow
  BY DEF Typed

\* None is no row.
LEMMA NoneIsNoRow ==
  /\ None \notin UserRow /\ None \notin RoleRow /\ None \notin MenuRow
  /\ None \notin FactoryRow /\ None \notin TaskRow /\ None \notin PdfRow
  BY AdminAssumption

\* The statements on roles.
LEMMA RoleEdits ==
  ASSUME NEW x \in Role, NEW form \in RoleForms, Typed, JoinsLive,
         CreateRole(x, form) \/ UpdateRole(x, form)
  PROVE  Typed' /\ JoinsLive'
<1>0. form \in RoleForm
  BY AdminAssumption
<1>1. CASE CreateRole(x, form)
  <2> DEFINE row == [form EXCEPT !.grantAll = (form.grantAll = TRUE)]
  <2>1. row \in RoleRow /\ row.menus = form.menus /\ row.factories = form.factories
    BY <1>0 DEF RoleForm, RoleRow
  <2>2. roles' = [roles EXCEPT ![x] = row] /\ form.menus \subseteq Live(menus)
        /\ form.factories \subseteq Live(factories)
        /\ UNCHANGED <<users, menus, factories, tasks, pdfs, next>>
    BY <1>1 DEF CreateRole
  <2> HIDE DEF row
  <2>3. Typed'
    BY <2>1, <2>2 DEF Typed
  <2>4. JoinsLive'
    BY <2>1, <2>2, NoneIsNoRow DEF Typed, JoinsLive, Joined, Live
  <2> QED
    BY <2>3, <2>4
<1>2. CASE UpdateRole(x, form)
  <2> DEFINE row == [menus |-> form.menus \cap Live(menus),
                     factories |-> form.factories \cap Live(factories),
                     grantAll |-> IF form.grantAll = Absent THEN roles[x].grantAll ELSE form.grantAll]
  <2>1. row \in RoleRow /\ row.menus \subseteq Live(menus) /\ row.factories \subseteq Live(factories)
    BY <1>0, <1>2, RowTypes DEF UpdateRole, RoleForm, RoleRow
  <2>2. roles[x] # None /\ roles' = [roles EXCEPT ![x] = row]
        /\ UNCHANGED <<users, menus, factories, tasks, pdfs, next>>
    BY <1>2 DEF UpdateRole
  <2> HIDE DEF row
  <2>3. Typed'
    BY <2>1, <2>2 DEF Typed
  <2>4. JoinsLive'
    BY <2>1, <2>2, NoneIsNoRow DEF Typed, JoinsLive, Joined, Live
  <2> QED
    BY <2>3, <2>4
<1> QED
  BY <1>1, <1>2

\* A role goes with its joins.
LEMMA RoleRemoved ==
  ASSUME NEW x \in Role, Typed, JoinsLive, RemoveRole(x)
  PROVE  Typed' /\ JoinsLive'
<1>1. /\ roles' = [roles EXCEPT ![x] = None]
      /\ users' = [u \in User |-> IF users[u] = None THEN None
                                  ELSE [users[u] EXCEPT !.roles = users[u].roles \ {x}]]
      /\ UNCHANGED <<menus, factories, tasks, pdfs, next>>
  BY DEF RemoveRole
<1>2. \A u \in User : users'[u] # None =>
        users[u] # None /\ users'[u] \in UserRow /\ users'[u].roles = users[u].roles \ {x}
  BY <1>1, RowTypes DEF UserRow
<1>3. Typed'
  BY <1>1, <1>2 DEF Typed
<1>4. JoinsLive'
  BY <1>1, <1>2 DEF Typed, JoinsLive, Joined, Live
<1> QED
  BY <1>3, <1>4

\* The statements on users.
LEMMA UserEdits ==
  ASSUME NEW u \in User, NEW rs \in SUBSET Role, Typed, JoinsLive,
         CreateUser(u, rs) \/ UpdateUser(u, rs) \/ RemoveUser(u)
  PROVE  Typed' /\ JoinsLive'
<1>1. CASE CreateUser(u, rs)
  <2>1. [isAdmin |-> FALSE, roles |-> rs] \in UserRow
    BY DEF UserRow
  <2>2. users' = [users EXCEPT ![u] = [isAdmin |-> FALSE, roles |-> rs]]
        /\ rs \subseteq Live(roles) /\ UNCHANGED <<roles, menus, factories, tasks, pdfs, next>>
    BY <1>1 DEF CreateUser
  <2> QED
    BY <2>1, <2>2 DEF Typed, JoinsLive, Joined, Live
<1>2. CASE UpdateUser(u, rs)
  <2>1. users[u] # None /\ UNCHANGED <<roles, menus, factories, tasks, pdfs, next>>
        /\ users' = [users EXCEPT ![u] = [users[u] EXCEPT !.roles = rs \cap Live(roles)]]
    BY <1>2 DEF UpdateUser
  <2>2. [users[u] EXCEPT !.roles = rs \cap Live(roles)] \in UserRow
        /\ [users[u] EXCEPT !.roles = rs \cap Live(roles)].roles = rs \cap Live(roles)
    BY <2>1, RowTypes DEF UserRow
  <2> QED
    BY <2>1, <2>2 DEF Typed, JoinsLive, Joined, Live
<1>3. CASE RemoveUser(u)
  BY <1>3 DEF RemoveUser, Typed, JoinsLive, Joined, Live
<1> QED
  BY <1>1, <1>2, <1>3


\* New menu rows leave no join behind.
LEMMA MoreMenus ==
  ASSUME NEW first \in Nat \ {0}, NEW rows \in Seq(MenuRow), Typed, JoinsLive,
         menus' = Inserted(menus, first, rows),
         next' = [next EXCEPT !.menu = first + Len(rows)],
         UNCHANGED <<users, roles, factories, tasks, pdfs>>
  PROVE  Typed' /\ JoinsLive'
<1>1. menus' = [i \in MenuId |-> IF i \in first..(first + Len(rows) - 1)
                                 THEN rows[i - first + 1] ELSE menus[i]]
  BY DEF Inserted, Typed
<1>2. \A i \in MenuId : i \in first..(first + Len(rows) - 1) => rows[i - first + 1] \in MenuRow
  BY AdminAssumption DEF MenuId
<1>3. menus' \in [MenuId -> MenuRow \cup {None}] /\ \A i \in MenuId : menus[i] # None => menus'[i] # None
  BY <1>1, <1>2, NoneIsNoRow DEF Typed
<1>4. Typed'
  BY <1>3 DEF Typed
<1>5. JoinsLive'
  BY <1>3 DEF Typed, JoinsLive, Joined, Live
<1> QED
  BY <1>4, <1>5

\* Deleted menus take their joins along.
LEMMA FewerMenus ==
  ASSUME NEW gone \in SUBSET MenuId, Typed, JoinsLive, DeleteMenus(gone),
         UNCHANGED <<users, factories, tasks, pdfs, next>>
  PROVE  /\ Typed' /\ JoinsLive'
         /\ \A m \in MenuId : menus'[m] = IF m \in gone THEN None ELSE menus[m]
         /\ \A x \in Role : /\ roles'[x] = None <=> roles[x] = None
                            /\ roles[x] # None =>
                                 roles'[x] = [roles[x] EXCEPT !.menus = roles[x].menus \ gone]
<1>1. /\ menus' = [i \in MenuId |-> IF i \in gone THEN None ELSE menus[i]]
      /\ roles' = [x \in Role |-> IF roles[x] = None THEN None
                                  ELSE [roles[x] EXCEPT !.menus = roles[x].menus \ gone]]
  BY DEF DeleteMenus, Without, Typed
<1>2. \A x \in Role : roles[x] # None =>
        LET row == [roles[x] EXCEPT !.menus = roles[x].menus \ gone] IN
        /\ row \in RoleRow /\ row # None
        /\ row.menus = roles[x].menus \ gone /\ row.factories = roles[x].factories
  BY RowTypes, NoneIsNoRow DEF RoleRow
<1>3. \A x \in Role : roles'[x] # None =>
        /\ roles[x] # None /\ roles'[x] \in RoleRow
        /\ roles'[x].menus = roles[x].menus \ gone /\ roles'[x].factories = roles[x].factories
  BY <1>1, <1>2
<1>4. \A x \in Role : roles[x] # None => roles'[x] # None
  BY <1>1, <1>2
<1>5. Typed'
  BY <1>1, <1>3 DEF Typed
<1>6. JoinsLive'
  BY <1>1, <1>3, <1>4, NoneIsNoRow DEF Typed, JoinsLive, Joined, Live
<1> QED
  BY <1>1, <1>4, <1>5, <1>6

\* The statements on menus.
LEMMA MenuEdits ==
  ASSUME Typed, JoinsLive, EditMenus
  PROVE  Typed' /\ JoinsLive'
<1>1. ASSUME NEW t \in {"C", "M", "B"}, NEW area, CreateMenu(t, area)
      PROVE  Typed' /\ JoinsLive'
  <2>1. PICK rows \in Seq(MenuRow) :
          /\ menus' = Inserted(menus, next.menu, rows)
          /\ next' = [next EXCEPT !.menu = next.menu + Len(rows)]
          /\ UNCHANGED <<users, roles, factories, tasks, pdfs>>
    BY <1>1, RowsType DEF CreateMenu
  <2>2. next.menu \in Nat \ {0}
    BY DEF Typed
  <2> QED
    BY <2>1, <2>2, MoreMenus
<1>2. ASSUME NEW m \in MenuId, NEW row \in MenuForms, UpdateMenu(m, row)
      PROVE  Typed' /\ JoinsLive'
  <2>1. row \in MenuRow /\ row # None
    BY AdminAssumption, NoneIsNoRow
  <2>2. menus' = [menus EXCEPT ![m] = row] /\ UNCHANGED <<users, roles, factories, tasks, pdfs, next>>
    BY <1>2 DEF UpdateMenu
  <2> QED
    BY <2>1, <2>2 DEF Typed, JoinsLive, Joined, Live
<1>3. ASSUME NEW m \in MenuId, RemoveMenu(m)
      PROVE  Typed' /\ JoinsLive'
  BY <1>3, FewerMenus DEF RemoveMenu
<1> QED
  BY <1>1, <1>2, <1>3 DEF EditMenus

\* Deleted tasks take their PDFs along.
LEMMA FewerTasks ==
  ASSUME NEW gone, Typed, DeleteTasks(gone)
  PROVE  /\ tasks' = [t \in TaskId |-> IF t \in gone THEN None ELSE tasks[t]]
         /\ \A i \in TaskId : pdfs'[i] = IF pdfs[i] # None /\ pdfs[i].task \in gone
                                         THEN None ELSE pdfs[i]
         /\ tasks' \in [TaskId -> TaskRow \cup {None}] /\ pdfs' \in [TaskId -> PdfRow \cup {None}]
<1>1. /\ tasks' = [t \in TaskId |-> IF t \in gone THEN None ELSE tasks[t]]
      /\ pdfs' = [i \in TaskId |-> IF i \in {j \in Live(pdfs) : pdfs[j].task \in gone}
                                   THEN None ELSE pdfs[i]]
  BY DEF DeleteTasks, Without, Typed
<1>2. \A i \in TaskId : i \in {j \in Live(pdfs) : pdfs[j].task \in gone}
                          <=> pdfs[i] # None /\ pdfs[i].task \in gone
  BY DEF Live, Typed
<1> QED
  BY <1>1, <1>2 DEF Typed

\* The statements on factories.
LEMMA CreateFactoryTypes ==
  ASSUME NEW f \in Factory, NEW u \in User, Typed, JoinsLive, CreateFactory(f, u)
  PROVE  Typed' /\ JoinsLive'
<1>1. [createBy |-> u] \in FactoryRow /\ [createBy |-> u] # None
  BY NoneIsNoRow DEF FactoryRow
<1>2. factories' = [factories EXCEPT ![f] = [createBy |-> u]]
      /\ UNCHANGED <<users, roles, menus, tasks, pdfs, next>>
  BY DEF CreateFactory
<1> QED
  BY <1>1, <1>2 DEF Typed, JoinsLive, Joined, Live

\* Deleting factories takes them out of the roles and deletes their tasks and the
\* PDFs of these.
LEMMA RemoveFamilyTypes ==
  ASSUME NEW gone \in SUBSET Factory, Typed, JoinsLive, RemoveFamily(gone)
  PROVE  Typed' /\ JoinsLive'
<1>1. /\ factories' = [f \in Factory |-> IF f \in gone THEN None ELSE factories[f]]
      /\ roles' = [x \in Role |-> IF roles[x] = None THEN None
                                  ELSE [roles[x] EXCEPT !.factories = roles[x].factories \ gone]]
      /\ DeleteTasks({t \in Live(tasks) : tasks[t].factory \in gone})
      /\ UNCHANGED <<users, menus, next>>
  BY DEF RemoveFamily, Without, Typed
<1>2. \A t \in TaskId : t \in {s \in Live(tasks) : tasks[s].factory \in gone}
                          <=> tasks[t] # None /\ tasks[t].factory \in gone
  BY DEF Live, Typed
<1>3. /\ \A t \in TaskId : tasks'[t] = IF tasks[t] # None /\ tasks[t].factory \in gone
                                       THEN None ELSE tasks[t]
      /\ \A i \in TaskId : pdfs'[i] # None =>
           pdfs'[i] = pdfs[i] /\ (pdfs[i].task \in TaskId => tasks'[pdfs[i].task] = tasks[pdfs[i].task])
      /\ tasks' \in [TaskId -> TaskRow \cup {None}] /\ pdfs' \in [TaskId -> PdfRow \cup {None}]
  BY <1>1, <1>2, FewerTasks
<1>4. \A x \in Role : roles'[x] # None =>
        /\ roles[x] # None /\ roles'[x] \in RoleRow
        /\ roles'[x].factories = roles[x].factories \ gone /\ roles'[x].menus = roles[x].menus
  BY <1>1, RowTypes DEF RoleRow
<1>5. \A x \in Role : roles[x] # None => roles'[x] # None
  BY <1>1, RowTypes, NoneIsNoRow DEF RoleRow
<1>6. Typed'
  BY <1>1, <1>3, <1>4 DEF Typed
<1>7. JoinsLive'
  BY <1>1, <1>3, <1>4, <1>5 DEF Typed, JoinsLive, Joined, Live
<1> QED
  BY <1>6, <1>7

\* A new task comes with its PDF.
LEMMA CreateTaskTypes ==
  ASSUME NEW f \in Factory, NEW url \in Url, NEW signed \in BOOLEAN, Typed, JoinsLive,
         CreateTask(f, url, signed)
  PROVE  Typed' /\ JoinsLive'
<1> DEFINE row == [task |-> next.task, url |-> url, signed |-> signed]
<1>1. row \in PdfRow /\ row # None /\ row.task = next.task
      /\ [factory |-> f] \in TaskRow /\ [factory |-> f] # None
  BY NoneIsNoRow DEF CreateTask, PdfRow, TaskRow
<1>2. /\ factories[f] # None /\ next.task \in TaskId /\ next.pdf \in TaskId
      /\ tasks' = [tasks EXCEPT ![next.task] = [factory |-> f]]
      /\ pdfs' = [pdfs EXCEPT ![next.pdf] = row]
      /\ next' = [next EXCEPT !.task = next.task + 1, !.pdf = next.pdf + 1]
      /\ UNCHANGED <<users, roles, menus, factories>>
  BY DEF CreateTask, WithPdf
<1> HIDE DEF row
<1>3. Typed'
  <2>1. next' \in [menu : Nat \ {0}, task : Nat \ {0}, pdf : Nat \ {0}]
    <3>1. next \in [menu : Nat \ {0}, task : Nat \ {0}, pdf : Nat \ {0}]
      BY DEF Typed
    <3>2. next.task + 1 \in Nat \ {0} /\ next.pdf + 1 \in Nat \ {0}
      BY <3>1
    <3>3. next' = [next EXCEPT !.task = next.task + 1, !.pdf = next.pdf + 1]
      BY <1>2
    <3> QED
      BY <3>1, <3>2, <3>3
  <2>2. tasks' \in [TaskId -> TaskRow \cup {None}] /\ pdfs' \in [TaskId -> PdfRow \cup {None}]
    BY <1>1, <1>2 DEF Typed
  <2> QED
    BY <1>2, <2>1, <2>2 DEF Typed
<1>4. JoinsLive'
  BY <1>1, <1>2 DEF Typed, JoinsLive, Joined, Live
<1> QED
  BY <1>3, <1>4

\* The statements on tasks.
LEMMA TaskEdits ==
  ASSUME Typed, JoinsLive, EditTasks
  PROVE  Typed' /\ JoinsLive'
<1>1. ASSUME NEW f \in Factory, NEW url \in Url, NEW signed \in BOOLEAN, CreateTask(f, url, signed)
      PROVE  Typed' /\ JoinsLive'
  BY <1>1, CreateTaskTypes
<1>2. ASSUME NEW t \in TaskId, NEW url \in Url, NEW signed \in BOOLEAN, UpdateTask(t, url, signed)
      PROVE  Typed' /\ JoinsLive'
  <2> DEFINE row == [task |-> t, url |-> url, signed |-> signed]
             old == {i \in Live(pdfs) : pdfs[i].task = t}
  <2>1. row \in PdfRow /\ row # None /\ row.task = t
    BY NoneIsNoRow DEF PdfRow
  <2>2. /\ tasks[t] # None /\ next.pdf \in TaskId
        /\ pdfs' = [[i \in TaskId |-> IF i \in old THEN None ELSE pdfs[i]] EXCEPT ![next.pdf] = row]
        /\ next' = [next EXCEPT !.pdf = next.pdf + 1]
        /\ UNCHANGED <<users, roles, menus, factories, tasks>>
    BY <1>2 DEF UpdateTask, WithPdf, Without, Typed
  <2> HIDE DEF row, old
  <2>3. Typed'
    BY <2>1, <2>2 DEF Typed
  <2>4. JoinsLive'
    BY <2>1, <2>2 DEF Typed, JoinsLive, Joined, Live
  <2> QED
    BY <2>3, <2>4
<1>3. ASSUME NEW gone, RemoveTasks(gone)
      PROVE  Typed' /\ JoinsLive'
  <2>1. DeleteTasks(gone) /\ UNCHANGED <<users, roles, menus, factories, next>>
    BY <1>3 DEF RemoveTasks
  <2>2. Typed'
    BY <2>1, FewerTasks DEF Typed
  <2>3. JoinsLive'
    BY <2>1, FewerTasks DEF Typed, JoinsLive, Joined, Live
  <2> QED
    BY <2>2, <2>3
<1> QED
  BY <1>1, <1>2, <1>3 DEF EditTasks

\* Whatever administrators do.
LEMMA EditTypes ==
  ASSUME Typed, JoinsLive, Edit
  PROVE  Typed' /\ JoinsLive'
<1>1. CASE EditRoles
  <2>1. ASSUME NEW x \in Role, NEW form \in RoleForms, CreateRole(x, form) \/ UpdateRole(x, form)
        PROVE  Typed' /\ JoinsLive'
    BY <2>1, RoleEdits
  <2>2. ASSUME NEW x \in Role, RemoveRole(x)
        PROVE  Typed' /\ JoinsLive'
    BY <2>2, RoleRemoved
  <2> QED
    BY <1>1, <2>1, <2>2 DEF EditRoles
<1>2. CASE EditUsers
  <2>1. \A u \in User : RemoveUser(u) => Typed' /\ JoinsLive'
    BY UserEdits
  <2> QED
    BY <1>2, <2>1, UserEdits DEF EditUsers
<1>3. CASE EditFactories
  BY <1>3, CreateFactoryTypes, RemoveFamilyTypes DEF EditFactories
<1> QED
  BY <1>1, <1>2, <1>3, MenuEdits, TaskEdits DEF Edit

---------------------------------------------------------------------------
(* The tables, through every step *)

\* The steps that leave them alone.
LEMMA TablesAlone ==
  ASSUME UNCHANGED adminTables, Typed, JoinsLive
  PROVE  Typed' /\ JoinsLive'
  BY DEF adminTables, Typed, JoinsLive, Joined, Live

\* A stripped PDF stays the PDF of its task.
LEMMA StripTypes ==
  ASSUME NEW w \in pending, Typed, JoinsLive, pending \subseteq Work, Strip(w)
  PROVE  Typed' /\ JoinsLive'
<1>1. w.pdf \in TaskId /\ w.url \in Url /\ pdfs[w.pdf] # None
  BY DEF Work, Strip
<1> DEFINE row == [pdfs[w.pdf] EXCEPT !.url = w.url, !.signed = FALSE]
<1>2. row \in PdfRow /\ row.task = pdfs[w.pdf].task
  BY <1>1, RowTypes DEF PdfRow
<1>3. pdfs' = [pdfs EXCEPT ![w.pdf] = row] /\ UNCHANGED <<users, roles, menus, factories, tasks, next>>
  BY DEF Strip
<1> HIDE DEF row
<1>4. Typed'
  BY <1>2, <1>3 DEF Typed
<1>5. JoinsLive'
  BY <1>1, <1>2, <1>3 DEF Typed, JoinsLive, Joined, Live
<1> QED
  BY <1>4, <1>5

\* Only some steps write the tables.
LEMMA Writers ==
  ASSUME [AdminNext]_adminVars
  PROVE  \/ Edit
         \/ \E r \in Request : Wipe(r) \/ Seed(r) \/ Create(r) \/ RemoveOne(r)
         \/ \E w \in pending : Strip(w)
         \/ UNCHANGED <<adminTables, edits>>
<1>1. ASSUME NEW r \in Request, AccessStep(r), ~Wipe(r), ~Seed(r)
      PROVE  UNCHANGED <<adminTables, edits>>
  BY <1>1 DEF AccessStep, Guard, ReadMenus, FailStatement
<1>2. ASSUME NEW r \in Request, ScopeStep(r)
      PROVE  UNCHANGED <<adminTables, edits>>
  BY <1>2 DEF ScopeStep, ReadScope, ReadUser, ReadFactories, ReadIds, ReadValves
<1>3. ASSUME NEW r \in Request, WorkStep(r), ~Create(r)
      PROVE  UNCHANGED <<adminTables, edits>>
  BY <1>3 DEF WorkStep, Clear, SignIn, SignedIn, ChooseName, Put
<1>4. ASSUME NEW h, Stop(h)
      PROVE  UNCHANGED <<adminTables, edits>>
  BY <1>4 DEF Stop, Die
<1>5. ASSUME NEW w \in pending, Log(w)
      PROVE  UNCHANGED <<adminTables, edits>>
  BY <1>5 DEF Log
<1>6. Tick => UNCHANGED <<adminTables, edits>>
  BY DEF Tick
<1>7. UNCHANGED adminVars => UNCHANGED <<adminTables, edits>>
  BY DEF adminVars
<1> QED
  BY <1>1, <1>2, <1>3, <1>4, <1>5, <1>6, <1>7
  DEF AdminNext, EditTables, AdminStep, RemoveFactory, Settle, Reject

\* The tables keep their types, and every join its rows.
LEMMA StoreKeeps ==
  ASSUME StoreTypeOK, pending \subseteq Work, [AdminNext]_adminVars
  PROVE  StoreTypeOK'
<1>1. Typed /\ JoinsLive /\ edits \in 0..MaxEdits
  BY DEF StoreTypeOK, Typed
<1>2. edits' \in 0..MaxEdits
  <2>1. Edit => edits' \in 0..MaxEdits
    BY <1>1, AdminAssumption DEF Edit
  <2>2. \A r : Wipe(r) \/ Seed(r) \/ Create(r) \/ RemoveOne(r) => edits' = edits
    BY DEF Wipe, Seed, Create, RemoveOne, Emit
  <2>3. \A w : Strip(w) => edits' = edits
    BY DEF Strip
  <2> QED
    BY <1>1, <2>1, <2>2, <2>3, Writers
<1>3. ASSUME NEW r \in Request, Wipe(r)
      PROVE  Typed' /\ JoinsLive'
  BY <1>1, <1>3, FewerMenus DEF Wipe
<1>4. ASSUME NEW r \in Request, Seed(r)
      PROVE  Typed' /\ JoinsLive'
  <2>1. PICK k \in DOMAIN SeedStep :
          /\ menus' = Inserted(menus, next.menu, Statements[k])
          /\ next' = [next EXCEPT !.menu = next.menu + Len(Statements[k])]
          /\ UNCHANGED <<users, roles, factories, tasks, pdfs>>
    BY <1>4 DEF Seed
  <2>2. next.menu \in Nat \ {0}
    BY <1>1 DEF Typed
  <2> QED
    BY <1>1, <2>1, <2>2, StatementTypes, MoreMenus
<1>5. ASSUME NEW r \in Request, Create(r)
      PROVE  Typed' /\ JoinsLive'
  BY <1>1, <1>5, AdminAssumption, CreateTaskTypes DEF Create, Kind
<1>6. ASSUME NEW r \in Request, RemoveOne(r)
      PROVE  Typed' /\ JoinsLive'
  BY <1>1, <1>6, AdminAssumption, RemoveFamilyTypes DEF RemoveOne, Kind
<1>7. Typed' /\ JoinsLive'
  BY <1>1, <1>3, <1>4, <1>5, <1>6, Writers, EditTypes, StripTypes, TablesAlone
<1> QED
  BY <1>2, <1>7 DEF StoreTypeOK, Typed

---------------------------------------------------------------------------
(* The steps of the requests *)

StepName == {"guard", "handle", "read", "readValves", "put", "tokens", "done",
             "home", "project", "system", "monitor"}
Outcome  == {"ok", "refused", "failed", "lost", None}

\* A request is at a step of its kind.
Fits(r, s) ==
  /\ s = "read" => Kind(r) \in Lists
  /\ s = "readValves" => Kind(r) = "valves"
  /\ s \in {"home", "project", "system", "monitor"} => Kind(r) = "reset"
  /\ s = "tokens" => Kind(r) = "signIn"
  /\ s = "put" => Kind(r) = "upload"

StepsFit ==
  /\ step \in [Request -> StepName]
  /\ answer \in [Request -> Outcome]
  /\ \A r \in Request : Fits(r, step[r])

\* One request goes to a step, or is answered.
Moves(r, s) == \/ Goto(r, s)
               \/ s = "done" /\ \E a \in Outcome : Answer(r, a)

\* A request that moves to a step of its kind leaves every request at one.
LEMMA MoveKeeps ==
  ASSUME NEW r \in Request, NEW s \in StepName, StepsFit, Moves(r, s), Fits(r, s)
  PROVE  StepsFit'
<1>1. step' = [step EXCEPT ![r] = s] /\ answer' \in [Request -> Outcome]
  BY DEF Moves, Goto, Answer, StepsFit
<1> QED
  BY <1>1 DEF StepsFit, Fits, Kind

\* The steps of a reset.
LEMMA SeedSteps ==
  /\ DOMAIN SeedStep = 1..4
  /\ \A k \in DOMAIN SeedStep : SeedStep[k] \in {"home", "project", "system", "monitor"}
  /\ SeedStep[1] = "home" /\ Len(SeedStep) = 4
  BY DEF SeedStep

\* After a create a reset goes on with the next one or is answered.
LEMMA AfterSeedMoves ==
  ASSUME NEW r \in Request, NEW k \in DOMAIN SeedStep, AfterSeed(r, k)
  PROVE  \E s \in {"home", "project", "system", "monitor", "done"} : Moves(r, s)
<1>1. CASE k = Len(SeedStep)
  BY <1>1 DEF AfterSeed, Moves, Outcome
<1>2. CASE k # Len(SeedStep)
  <2>1. k + 1 \in DOMAIN SeedStep
    BY <1>2, SeedSteps
  <2>2. SeedStep[k + 1] \in {"home", "project", "system", "monitor"}
    BY <2>1, SeedSteps
  <2>3. Goto(r, SeedStep[k + 1])
    BY <1>2 DEF AfterSeed
  <2>4. Moves(r, SeedStep[k + 1])
    BY <2>3 DEF Moves
  <2> QED
    BY <2>2, <2>4
<1> QED
  BY <1>1, <1>2

\* A create of a reset is followed by a create or the answer.
LEMMA SeedGoes ==
  ASSUME StepsFit, NEW r \in Request, Seed(r)
  PROVE  step'[r] \in {"home", "project", "system", "monitor", "done"}
<1>1. PICK k \in DOMAIN SeedStep : AfterSeed(r, k)
  BY DEF Seed
<1>2. PICK s \in {"home", "project", "system", "monitor", "done"} : Moves(r, s)
  BY <1>1, AfterSeedMoves
<1>3. step'[r] = s
  BY <1>2 DEF Moves, Goto, Answer, StepsFit
<1> QED
  BY <1>3

SomeMoves == \E r \in Request, s \in StepName : Moves(r, s) /\ Fits(r, s)

\* A request may be answered at any step.
LEMMA AnswerMoves ==
  ASSUME NEW r \in Request, NEW a \in {"ok", "refused", "failed"}, Answer(r, a)
  PROVE  SomeMoves
<1>1. Moves(r, "done") /\ "done" \in StepName
  BY DEF Moves, Outcome, StepName
<1>2. Fits(r, "done")
  BY DEF Fits
<1> QED
  BY <1>1, <1>2 DEF SomeMoves

\* A handler that goes on moves its request.
LEMMA GotoMoves ==
  ASSUME NEW r \in Request, NEW s \in StepName, Goto(r, s), Fits(r, s)
  PROVE  SomeMoves
<1>1. Moves(r, s)
  BY DEF Moves
<1> QED
  BY <1>1 DEF SomeMoves

\* What a step does to the requests: nothing, or it moves one, or a server dies.
LEMMA StepKinds ==
  ASSUME StepsFit, pending \subseteq Work, [AdminNext]_adminVars
  PROVE  \/ UNCHANGED requestVars
         \/ SomeMoves
         \/ \E h \in Host : Stop(h)
<1>1. ASSUME NEW r \in Request, AccessStep(r)
      PROVE  SomeMoves
  <2>1. CASE Guard(r)
    <3>1. Goto(r, "handle") \/ Answer(r, "refused")
      BY <2>1 DEF Guard
    <3>2. Fits(r, "handle") /\ "handle" \in StepName
      BY DEF Fits, StepName
    <3> QED
      BY <3>1, <3>2, GotoMoves, AnswerMoves
  <2>2. CASE ReadMenus(r)
    <3>1. Answer(r, "ok")
      BY <2>2 DEF ReadMenus
    <3> QED
      BY <3>1, AnswerMoves
  <2>3. CASE Wipe(r)
    <3>1. Goto(r, "home") /\ Kind(r) = "reset"
      BY <2>3, SeedSteps DEF Wipe
    <3>2. Fits(r, "home") /\ "home" \in StepName
      BY <3>1 DEF Fits, StepName
    <3> QED
      BY <3>1, <3>2, GotoMoves
  <2>4. CASE Seed(r)
    <3>1. PICK k \in DOMAIN SeedStep : step[r] = SeedStep[k] /\ AfterSeed(r, k)
      BY <2>4 DEF Seed
    <3>2. Kind(r) = "reset"
      BY <3>1, SeedSteps DEF StepsFit, Fits
    <3>3. PICK s \in {"home", "project", "system", "monitor", "done"} : Moves(r, s)
      BY <3>1, AfterSeedMoves
    <3>4. Fits(r, s) /\ s \in StepName
      BY <3>2 DEF Fits, StepName
    <3> QED
      BY <3>3, <3>4 DEF SomeMoves
  <2>5. CASE FailStatement(r)
    <3>1. Answer(r, "failed")
      BY <2>5 DEF FailStatement
    <3> QED
      BY <3>1, AnswerMoves
  <2> QED
    BY <1>1, <2>1, <2>2, <2>3, <2>4, <2>5 DEF AccessStep
<1>2. ASSUME NEW r \in Request, ScopeStep(r)
      PROVE  SomeMoves
  <2>1. CASE ReadScope(r)
    <3>1. (Goto(r, "read") \/ Answer(r, "failed")) /\ Kind(r) \in Lists
      BY <2>1 DEF ReadScope, ReadUser
    <3>2. Fits(r, "read") /\ "read" \in StepName
      BY <3>1 DEF Fits, StepName
    <3> QED
      BY <3>1, <3>2, GotoMoves, AnswerMoves
  <2>2. CASE ReadFactories(r) \/ ReadValves(r)
    <3>1. Answer(r, "ok")
      BY <2>2 DEF ReadFactories, ReadValves
    <3> QED
      BY <3>1, AnswerMoves
  <2>3. CASE ReadIds(r)
    <3>1. Goto(r, "readValves") /\ Kind(r) = "valves"
      BY <2>3 DEF ReadIds
    <3>2. Fits(r, "readValves") /\ "readValves" \in StepName
      BY <3>1 DEF Fits, StepName
    <3> QED
      BY <3>1, <3>2, GotoMoves
  <2> QED
    BY <1>2, <2>1, <2>2, <2>3 DEF ScopeStep
<1>3. ASSUME NEW r \in Request, WorkStep(r) \/ RemoveOne(r)
      PROVE  SomeMoves
  <2>1. CASE Clear(r) \/ Create(r) \/ RemoveOne(r) \/ SignedIn(r) \/ Put(r)
    <3>1. Answer(r, "ok")
      BY <2>1 DEF Clear, Create, RemoveOne, Emit, SignedIn, Put
    <3> QED
      BY <3>1, AnswerMoves
  <2>2. CASE SignIn(r)
    <3>1. Goto(r, "tokens") /\ Kind(r) = "signIn"
      BY <2>2 DEF SignIn
    <3>2. Fits(r, "tokens") /\ "tokens" \in StepName
      BY <3>1 DEF Fits, StepName
    <3> QED
      BY <3>1, <3>2, GotoMoves
  <2>3. CASE ChooseName(r)
    <3>1. Goto(r, "put") /\ Kind(r) = "upload"
      BY <2>3 DEF ChooseName
    <3>2. Fits(r, "put") /\ "put" \in StepName
      BY <3>1 DEF Fits, StepName
    <3> QED
      BY <3>1, <3>2, GotoMoves
  <2> QED
    BY <1>3, <2>1, <2>2, <2>3 DEF WorkStep
<1>4. ASSUME NEW w \in pending, Strip(w) \/ Log(w)
      PROVE  UNCHANGED requestVars
  BY <1>4 DEF Strip, Log
<1>5. Edit \/ Tick \/ UNCHANGED adminVars => UNCHANGED requestVars
  BY DEF Edit, Tick, adminVars
<1>6. ASSUME NEW w \in pending, Reject(w)
      PROVE  \E h \in Host : Stop(h)
  <2>1. w.by \in Request
    BY DEF Work
  <2>2. HostOf[w.by] \in Host
    BY <2>1, AdminAssumption
  <2> QED
    BY <1>6, <2>2 DEF Reject
<1> QED
  BY <1>1, <1>2, <1>3, <1>4, <1>5, <1>6 DEF AdminNext, EditTables, AdminStep, RemoveFactory, Settle

\* Requests stay at steps of their kind.
LEMMA StepsKeep ==
  ASSUME StepsFit, pending \subseteq Work, [AdminNext]_adminVars
  PROVE  StepsFit'
<1>1. ASSUME NEW h \in Host, Stop(h)
      PROVE  StepsFit'
  BY <1>1 DEF Stop, Die, StepsFit, Fits, StepName, Outcome, Kind
<1>2. UNCHANGED requestVars => StepsFit'
  BY DEF requestVars, StepsFit, Fits, Kind
<1> QED
  BY <1>1, <1>2, StepKinds, MoveKeeps DEF SomeMoves

\* How a request comes to another step than "done": the guard lets it pass, a
\* list reads the user, the valves of a list are next, a sign-in has emitted its
\* event, an upload has its name, or a reset goes on.
LEMMA Enters ==
  ASSUME StepsFit, pending \subseteq Work, [AdminNext]_adminVars,
         NEW q \in Request, step'[q] # step[q], step'[q] # "done"
  PROVE  \/ Guard(q) /\ step'[q] = "handle"
         \/ ReadScope(q) /\ step'[q] = "read"
         \/ ReadIds(q) /\ step'[q] = "readValves"
         \/ SignIn(q) /\ step'[q] = "tokens"
         \/ ChooseName(q) /\ step'[q] = "put"
         \/ Wipe(q) /\ step'[q] = "home"
         \/ Seed(q)
<1>1. \A r, s : Goto(r, s) => r = q /\ step'[q] = s
  BY DEF Goto, StepsFit
<1>2. \A r, a : ~Answer(r, a)
  BY DEF Answer, StepsFit
<1>3. \A h, lost : ~(step' = [r \in Request |-> IF r \in lost THEN "done" ELSE step[r]])
  OBVIOUS
<1>4. step' # step
  OBVIOUS
<1>5. ~Edit /\ ~Tick /\ ~UNCHANGED adminVars
  BY <1>4 DEF Edit, Tick, adminVars, requestVars
<1>6. \A w : ~Strip(w) /\ ~Log(w)
  BY <1>4 DEF Strip, Log, requestVars
<1>7. \A h : ~Stop(h)
  BY <1>3 DEF Stop, Die
<1>8. PICK r \in Request : AdminStep(r)
  BY <1>5, <1>6, <1>7 DEF AdminNext, EditTables, Settle, Reject
<1>9. CASE AccessStep(r)
  <2>1. Guard(r) \/ Wipe(r) \/ Seed(r)
    BY <1>2, <1>9 DEF AccessStep, ReadMenus, FailStatement
  <2>2. Guard(r) => r = q /\ step'[q] = "handle"
    BY <1>1, <1>2 DEF Guard
  <2>3. Wipe(r) => r = q /\ step'[q] = "home"
    BY <1>1, SeedSteps DEF Wipe
  <2>4. Seed(r) => r = q
    BY <1>1, <1>2 DEF Seed, AfterSeed
  <2> QED
    BY <2>1, <2>2, <2>3, <2>4
<1>10. CASE ScopeStep(r)
  <2>1. ReadScope(r) \/ ReadIds(r)
    BY <1>2, <1>10 DEF ScopeStep, ReadFactories, ReadValves
  <2>2. ReadScope(r) => r = q /\ step'[q] = "read"
    BY <1>1, <1>2 DEF ReadScope, ReadUser
  <2>3. ReadIds(r) => r = q /\ step'[q] = "readValves"
    BY <1>1 DEF ReadIds
  <2> QED
    BY <2>1, <2>2, <2>3
<1>11. CASE WorkStep(r)
  <2>1. SignIn(r) \/ ChooseName(r)
    BY <1>2, <1>11 DEF WorkStep, Clear, Create, Emit, SignedIn, Put
  <2>2. SignIn(r) => r = q /\ step'[q] = "tokens"
    BY <1>1 DEF SignIn
  <2>3. ChooseName(r) => r = q /\ step'[q] = "put"
    BY <1>1 DEF ChooseName
  <2> QED
    BY <2>1, <2>2, <2>3
<1>12. ~RemoveFactory(r)
  BY <1>2 DEF RemoveFactory, RemoveOne, Emit
<1> QED
  BY <1>8, <1>9, <1>10, <1>11, <1>12 DEF AdminStep

---------------------------------------------------------------------------
(* The types *)

\* Only the reads of a request write what it has seen and what it answers with.
LEMMA Readers ==
  ASSUME [AdminNext]_adminVars
  PROVE  \/ \E r \in Request : ReadScope(r) \/ ReadMenus(r) \/ ReadFactories(r) \/ ReadValves(r)
         \/ UNCHANGED accessVars
<1>1. ASSUME NEW r \in Request, AccessStep(r), ~ReadMenus(r)
      PROVE  UNCHANGED accessVars
  BY <1>1 DEF AccessStep, Guard, Wipe, Seed, FailStatement
<1>2. ASSUME NEW r \in Request, ReadIds(r)
      PROVE  UNCHANGED accessVars
  BY <1>2 DEF ReadIds
<1>3. WatchGrants \/ UNCHANGED adminVars => UNCHANGED accessVars
  BY DEF WatchGrants, adminVars
<1>4. \A h : Stop(h) => UNCHANGED accessVars
  BY DEF Stop
<1> QED
  BY <1>1, <1>2, <1>3, <1>4
  DEF AdminNext, EditTables, AdminStep, ScopeStep, RemoveFactory, Settle, Reject

\* The factories of roles are factories.
LEMMA ScopeTypes ==
  ASSUME StoreTypeOK
  PROVE  /\ Live(factories) \subseteq Factory
         /\ Live(menus) \subseteq MenuId
         /\ \A xs : OfRoles(xs) \subseteq Factory
         /\ \A u : Created(u) \subseteq Factory
<1>1. Live(factories) \subseteq Factory /\ Live(menus) \subseteq MenuId
  BY DEF StoreTypeOK, Live
<1>2. \A x \in Live(roles) : roles[x].factories \subseteq Factory
  BY <1>1 DEF StoreTypeOK, JoinsLive, Joined
<1>3. \A xs : OfRoles(xs) \subseteq Factory
  BY <1>2 DEF OfRoles
<1> QED
  BY <1>1, <1>3 DEF Created

\* What a request has read keeps its types, and a list that goes on has found
\* its user.
LEMMA AccessKeeps ==
  ASSUME StoreTypeOK, StepsFit, AccessTypeOK, pending \subseteq Work, [AdminNext]_adminVars
  PROVE  AccessTypeOK'
<1>1. ASSUME NEW r \in Request, ReadScope(r)
      PROVE  /\ seen' = [seen EXCEPT ![r] = users[Ask[r].by]]
             /\ users[Ask[r].by] \in UserRow \cup {None}
             /\ shown' = shown
  BY <1>1, AdminAssumption DEF ReadScope, ReadUser, StoreTypeOK
<1>2. ASSUME NEW r \in Request, ReadMenus(r) \/ ReadFactories(r) \/ ReadValves(r)
      PROVE  /\ seen' = seen
             /\ \E ids \in SUBSET (MenuId \cup Factory) : shown' = [shown EXCEPT ![r] = ids]
  <2>1. CASE ReadMenus(r)
    BY <2>1, ScopeTypes DEF ReadMenus
  <2>2. CASE ReadFactories(r)
    BY <2>2, ScopeTypes DEF ReadFactories, Found
  <2>3. CASE ReadValves(r)
    BY <2>3, ScopeTypes DEF ReadValves
  <2> QED
    BY <1>2, <2>1, <2>2, <2>3
<1>3. seen' \in [Request -> UserRow \cup {None}]
  BY <1>1, <1>2, Readers DEF AccessTypeOK, accessVars
<1>4. shown' \in [Request -> SUBSET (MenuId \cup Factory)]
  BY <1>1, <1>2, Readers DEF AccessTypeOK, accessVars
<1>5. step' \in [Request -> StepName] /\ answer' \in [Request -> Outcome]
  BY StepsKeep DEF StepsFit
<1>6. ASSUME NEW q \in Request, step'[q] = "read", Kind(q) \in Lists
      PROVE  seen'[q] # None
  <2>1. CASE step[q] = "read"
    <3>1. seen[q] # None
      BY <1>6, <2>1 DEF AccessTypeOK
    <3>2. \A r \in Request : ReadScope(r) => r # q
      BY <2>1 DEF ReadScope, ReadUser
    <3> QED
      BY <1>1, <1>2, <3>1, <3>2, Readers DEF AccessTypeOK, accessVars
  <2>2. CASE step[q] # "read"
    <3>1. ReadScope(q)
      BY <1>6, <2>2, Enters, SeedSteps DEF Seed, AfterSeed, Goto, Answer, StepsFit
    <3>2. users[Ask[q].by] # None
      BY <1>6, <3>1 DEF ReadScope, ReadUser, Answer, StepsFit
    <3> QED
      BY <1>1, <3>1, <3>2 DEF AccessTypeOK
  <2> QED
    BY <2>1, <2>2
<1> QED
  BY <1>3, <1>4, <1>5, <1>6 DEF AccessTypeOK, StepName, Outcome, Kind

\* What was started and not awaited, the logs and the objects keep their types.
LEMMA WorkKeeps ==
  ASSUME StoreTypeOK, WorkTypeOK, [AdminNext]_adminVars
  PROVE  WorkTypeOK'
<1>1. ASSUME NEW r \in Request, Clear(r)
      PROVE  WorkTypeOK'
  <2>1. Live(pdfs) \subseteq TaskId /\ \A i \in Live(pdfs) : pdfs[i].url \in Url
    BY DEF StoreTypeOK, Live, PdfRow
  <2>2. \A i \in Live(pdfs) : Stripping(r, i) \in Work
    BY <2>1 DEF Stripping, Work
  <2> QED
    BY <1>1, <2>1, <2>2 DEF Clear, WorkTypeOK
<1>2. ASSUME NEW r \in Request, Emit(r)
      PROVE  WorkTypeOK'
  <2>1. Logging(r, "operationLog") \in Work
    BY DEF Logging, Work
  <2> QED
    BY <1>2, <2>1 DEF Emit, WorkTypeOK
<1>3. ASSUME NEW r \in Request, SignIn(r)
      PROVE  WorkTypeOK'
  <2>1. Logging(r, "loginLog") \in Work
    BY DEF Logging, Work
  <2> QED
    BY <1>3, <2>1 DEF SignIn, WorkTypeOK
<1>4. ASSUME NEW r \in Request, ChooseName(r)
      PROVE  WorkTypeOK'
  <2>1. <<clock, Ask[r].file>> \in Name
    BY <1>4, WorkAssumption DEF ChooseName, WorkTypeOK, Name, Kind
  <2> QED
    BY <1>4, <2>1 DEF ChooseName, WorkTypeOK
<1>5. ASSUME NEW r \in Request, Put(r)
      PROVE  WorkTypeOK'
  BY <1>5 DEF Put, WorkTypeOK
<1>6. ASSUME NEW h \in Host, Stop(h)
      PROVE  WorkTypeOK'
  BY <1>6 DEF Stop, Die, WorkTypeOK
<1>7. ASSUME NEW w \in pending, Strip(w) \/ Log(w)
      PROVE  WorkTypeOK'
  <2>1. w.by \in Request
    BY DEF Work, WorkTypeOK
  <2> QED
    BY <1>7, <2>1 DEF Strip, Log, WorkTypeOK
<1>8. ASSUME Tick
      PROVE  WorkTypeOK'
  BY <1>8, WorkAssumption DEF Tick, WorkTypeOK
<1>9. UNCHANGED workVars => WorkTypeOK'
  BY DEF workVars, WorkTypeOK
<1>10. ASSUME NEW w \in pending, Reject(w)
       PROVE  \E h \in Host : Stop(h)
  <2>1. HostOf[w.by] \in Host
    BY AdminAssumption DEF Work, WorkTypeOK
  <2> QED
    BY <1>10, <2>1 DEF Reject
<1>11. ASSUME NEW r \in Request, WorkStep(r) \/ RemoveOne(r)
       PROVE  WorkTypeOK'
  BY <1>1, <1>2, <1>3, <1>4, <1>5, <1>9, <1>11 DEF WorkStep, Create, RemoveOne, SignedIn
<1>12. ASSUME NEW r \in Request, AdminStep(r)
       PROVE  WorkTypeOK'
  BY <1>9, <1>11, <1>12 DEF AdminStep, RemoveFactory
<1>13. UNCHANGED adminVars => UNCHANGED workVars
  BY DEF adminVars
<1> QED
  BY <1>6, <1>7, <1>8, <1>9, <1>10, <1>12, <1>13 DEF AdminNext, EditTables, Settle

\* The first rows are finitely many, numbered from 1.
LEMMA FirstIds ==
  ASSUME NEW n \in Nat, NEW table, DOMAIN table = 1..n
  PROVE  Cardinality(Live(table)) \in Nat
<1>1. Live(table) \subseteq 1..n /\ IsFiniteSet(1..n)
  BY FS_Interval DEF Live
<1> QED
  BY <1>1, FS_Subset, FS_CardinalityType

\* The tables to begin with have their types and joins.
LEMMA InitTyped ==
  ASSUME AdminInit
  PROVE  Typed /\ JoinsLive
<1>1. /\ Cardinality(Live(FirstMenus)) \in Nat
      /\ Cardinality(Live(FirstTasks)) \in Nat
      /\ Cardinality(Live(FirstPdfs)) \in Nat
  <2>1. DOMAIN FirstMenus = 1..MaxMenu /\ DOMAIN FirstTasks = 1..MaxTask /\ DOMAIN FirstPdfs = 1..MaxTask
    BY AdminAssumption DEF MenuId, TaskId
  <2> QED
    BY <2>1, FirstIds, AdminAssumption
<1>2. next \in [menu : Nat \ {0}, task : Nat \ {0}, pdf : Nat \ {0}]
  BY <1>1 DEF AdminInit, InitStore
<1> QED
  BY <1>2, AdminAssumption DEF AdminInit, InitStore, Typed, JoinsLive

\* The invariant behind the types: requests are at steps of their kind.
AdminInv == AdminTypeOK /\ StepsFit

\* Types, joins and steps are kept by every statement, failure and restart.
LEMMA AdminInvHolds == AdminSpec => []AdminInv
<1>1. AdminInit => AdminInv
  <2> SUFFICES ASSUME AdminInit
               PROVE  AdminInv
    OBVIOUS
  <2>1. Typed /\ JoinsLive
    BY InitTyped DEF AdminInit
  <2>2. \A r \in Request : FirstStep(r) \in {"handle", "guard"}
    BY DEF FirstStep
  <2>3. StepsFit
    BY <2>2 DEF AdminInit, InitStore, StepsFit, StepName, Outcome, Fits
  <2>4. StoreTypeOK
    BY <2>1, AdminAssumption DEF AdminInit, InitStore, StoreTypeOK, Typed
  <2>5. AccessTypeOK
    BY <2>2, <2>3 DEF AdminInit, InitStore, AccessInit, AccessTypeOK, StepsFit, StepName, Outcome
  <2>6. WorkTypeOK
    BY WorkAssumption DEF AdminInit, WorkInit, WorkTypeOK
  <2> QED
    BY <2>3, <2>4, <2>5, <2>6 DEF AdminInv, AdminTypeOK
<1>2. AdminInv /\ [AdminNext]_adminVars => AdminInv'
  <2>1. WorkTypeOK => pending \subseteq Work
    BY DEF WorkTypeOK
  <2> QED
    BY <2>1, StoreKeeps, StepsKeep, AccessKeeps, WorkKeeps DEF AdminInv, AdminTypeOK
<1> QED
  BY <1>1, <1>2, PTL DEF AdminSpec

\* The tables, the requests, and what was started and not awaited keep their
\* types, whatever administrators edit, whatever a reset deletes and wherever a
\* server dies: every join of a user, a role, a task or a PDF refers to a row
\* that exists, the ids given out grow, and a list that goes on has found its
\* user.
THEOREM AdminTypes == AdminSpec => []AdminTypeOK
<1>1. AdminInv => AdminTypeOK
  BY DEF AdminInv
<1> QED
  BY <1>1, AdminInvHolds, PTL

---------------------------------------------------------------------------
(* Uploads *)

\* An object holds what an upload that chose its name has written; an upload
\* that has its name is about to write or has ended.
UploadInv ==
  /\ \A r \in Request : object[r] # None =>
       /\ Kind(r) = "upload" /\ step[r] \in {"put", "done"}
       /\ object[r] = <<began[r], Ask[r].file>>
  /\ \A r \in Request : step[r] = "put" => object[r] # None
  /\ \A n \in Name : objects[n] # None => object[objects[n]] = n
  /\ \A r \in Request : Kind(r) = "upload" /\ answer[r] = "ok" =>
       object[r] # None /\ objects[object[r]] # None

\* Only uploads choose names and write objects.
LEMMA Uploaders ==
  ASSUME [AdminNext]_adminVars
  PROVE  \/ \E r \in Request : ChooseName(r) \/ Put(r)
         \/ UNCHANGED <<objects, object, began>>
<1>1. ASSUME NEW r \in Request, AdminStep(r), ~ChooseName(r), ~Put(r)
      PROVE  UNCHANGED <<objects, object, began>>
  BY <1>1 DEF AdminStep, WorkStep, Clear, Create, RemoveFactory, RemoveOne, Emit, SignIn, SignedIn, workVars
<1>2. UNCHANGED workVars => UNCHANGED <<objects, object, began>>
  BY DEF workVars
<1>3. \A h : Stop(h) => UNCHANGED <<objects, object, began>>
  BY DEF Stop, Die
<1>4. \A w : Strip(w) \/ Log(w) => UNCHANGED <<objects, object, began>>
  BY DEF Strip, Log
<1>5. Tick => UNCHANGED <<objects, object, began>>
  BY DEF Tick
<1> QED
  BY <1>1, <1>2, <1>3, <1>4, <1>5 DEF AdminNext, EditTables, Settle, Reject, adminVars

\* An answer "ok" ends a request: an upload when its object is written, a list
\* when its last read is done.
LEMMA Answered ==
  ASSUME StepsFit, pending \subseteq Work, [AdminNext]_adminVars,
         NEW q \in Request, answer'[q] = "ok", answer[q] # "ok"
  PROVE  /\ step'[q] = "done"
         /\ \/ ReadMenus(q) \/ ReadFactories(q) \/ ReadValves(q) \/ Put(q)
            \/ Kind(q) \in {"reset", "clear", "createTask", "removeFactory", "signIn"}
<1>1. \A r, a : Answer(r, a) => r = q /\ a = "ok" /\ step'[q] = "done"
  BY DEF Answer, StepsFit
<1>2. answer' # answer
  OBVIOUS
<1>3. \A r, s : ~Goto(r, s)
  BY <1>2 DEF Goto
<1>4. \A h : ~Stop(h)
  BY DEF Stop, Die
<1>5. ~Edit /\ ~Tick /\ ~UNCHANGED adminVars
  BY <1>2 DEF Edit, Tick, adminVars, requestVars
<1>6. \A w : ~Strip(w) /\ ~Log(w)
  BY <1>2 DEF Strip, Log, requestVars
<1>7. PICK r \in Request : AdminStep(r)
  BY <1>4, <1>5, <1>6 DEF AdminNext, EditTables, Settle, Reject
<1>8. ASSUME AccessStep(r)
      PROVE  r = q /\ step'[q] = "done" /\ (ReadMenus(r) \/ Kind(r) = "reset")
  <2>1. ~Guard(r) /\ ~FailStatement(r) /\ ~Wipe(r)
    BY <1>1, <1>3 DEF Guard, FailStatement, Wipe
  <2>2. ReadMenus(r) => r = q /\ step'[q] = "done"
    BY <1>1 DEF ReadMenus
  <2>3. ASSUME Seed(r)
        PROVE  r = q /\ step'[q] = "done" /\ Kind(r) = "reset"
    <3>1. PICK k \in DOMAIN SeedStep : step[r] = SeedStep[k] /\ AfterSeed(r, k)
      BY <2>3 DEF Seed
    <3>2. r = q /\ step'[q] = "done"
      BY <1>1, <1>3, <3>1 DEF AfterSeed
    <3> QED
      BY <3>1, <3>2, SeedSteps DEF StepsFit, Fits
  <2> QED
    BY <1>8, <2>1, <2>2, <2>3 DEF AccessStep
<1>9. ASSUME ScopeStep(r)
      PROVE  r = q /\ step'[q] = "done" /\ (ReadFactories(r) \/ ReadValves(r))
  <2>1. ~ReadScope(r) /\ ~ReadIds(r)
    BY <1>1, <1>3 DEF ReadScope, ReadUser, ReadIds
  <2>2. ReadFactories(r) \/ ReadValves(r) => r = q /\ step'[q] = "done"
    BY <1>1 DEF ReadFactories, ReadValves
  <2> QED
    BY <1>9, <2>1, <2>2 DEF ScopeStep
<1>10. ASSUME WorkStep(r) \/ RemoveOne(r)
       PROVE  /\ r = q /\ step'[q] = "done"
              /\ Put(r) \/ Kind(r) \in {"clear", "createTask", "removeFactory", "signIn"}
  <2>1. ~SignIn(r) /\ ~ChooseName(r)
    BY <1>3 DEF SignIn, ChooseName
  <2>2. Clear(r) \/ Create(r) \/ RemoveOne(r)
          => r = q /\ step'[q] = "done" /\ Kind(r) \in {"clear", "createTask", "removeFactory"}
    BY <1>1 DEF Clear, Create, RemoveOne, Emit
  <2>3. SignedIn(r) => r = q /\ step'[q] = "done" /\ Kind(r) = "signIn"
    BY <1>1 DEF SignedIn, StepsFit, Fits
  <2>4. Put(r) => r = q /\ step'[q] = "done"
    BY <1>1 DEF Put
  <2> QED
    BY <1>10, <2>1, <2>2, <2>3, <2>4 DEF WorkStep
<1> QED
  BY <1>7, <1>8, <1>9, <1>10 DEF AdminStep, RemoveFactory

\* What has ended stays so.
LEMMA DoneStays ==
  ASSUME StepsFit, pending \subseteq Work, [AdminNext]_adminVars,
         NEW q \in Request, step[q] = "done"
  PROVE  step'[q] = "done"
<1> SUFFICES ASSUME step'[q] # "done"
             PROVE  FALSE
  OBVIOUS
<1>1. ~Seed(q)
  BY SeedSteps DEF Seed
<1> QED
  BY <1>1, Enters DEF Guard, ReadScope, ReadUser, ReadIds, SignIn, ChooseName, Wipe

\* A name is chosen before anything is put under it, and it tells the
\* millisecond of the choice and the file.
LEMMA UploadKeeps ==
  ASSUME AdminInv, UploadInv, [AdminNext]_adminVars
  PROVE  UploadInv'
<1>1. /\ StepsFit /\ pending \subseteq Work
      /\ object \in [Request -> Name \cup {None}] /\ objects \in [Name -> Request \cup {None}]
      /\ began \in [Request -> 0..MaxClock] /\ None \notin Name \cup Request
  BY WorkAssumption DEF AdminInv, AdminTypeOK, WorkTypeOK
<1>2. ASSUME NEW q \in Request, step[q] \in {"put", "done"}
      PROVE  step'[q] \in {"put", "done"}
  <2> SUFFICES ASSUME step'[q] # step[q], step'[q] # "done"
               PROVE  FALSE
    BY <1>2
  <2>1. ~Seed(q)
    BY <1>2, SeedSteps DEF Seed
  <2> QED
    BY <1>1, <1>2, <2>1, Enters
    DEF Guard, ReadScope, ReadUser, ReadIds, SignIn, ChooseName, Wipe
<1>3. ASSUME NEW q \in Request, step'[q] = "put", step[q] # "put"
      PROVE  ChooseName(q)
  <2>1. ~Seed(q)
    BY <1>1, <1>3, SeedGoes
  <2> QED
    BY <1>1, <1>3, <2>1, Enters
<1>4. ASSUME UNCHANGED <<objects, object, began>>, \A q \in Request : ~ChooseName(q) /\ ~Put(q)
      PROVE  UploadInv'
  <2>1. ASSUME NEW q \in Request, Kind(q) = "upload", answer'[q] = "ok"
        PROVE  answer[q] = "ok"
    BY <1>1, <1>4, <2>1, Answered DEF ReadMenus, ReadFactories, ReadValves, StepsFit, Fits
  <2> QED
    BY <1>1, <1>2, <1>3, <1>4, <2>1 DEF UploadInv, Kind
<1>5. ASSUME NEW r \in Request, ChooseName(r)
      PROVE  UploadInv'
  <2>1. /\ step[r] = "handle" /\ Kind(r) = "upload" /\ object[r] = None
        /\ object' = [object EXCEPT ![r] = <<clock, Ask[r].file>>]
        /\ began' = [began EXCEPT ![r] = clock]
        /\ objects' = objects /\ answer' = answer
        /\ step' = [step EXCEPT ![r] = "put"]
    BY <1>5 DEF ChooseName, Goto, UploadInv
  <2>2. <<clock, Ask[r].file>> # None
    BY <2>1, WorkAssumption DEF Name, Kind, AdminInv, AdminTypeOK, WorkTypeOK
  <2>3. \A n \in Name : objects[n] # r
    BY <1>1, <2>1 DEF UploadInv
  <2>4. \A q \in Request : object'[q] # None =>
          /\ Kind(q) = "upload" /\ step'[q] \in {"put", "done"}
          /\ object'[q] = <<began'[q], Ask[q].file>>
    BY <1>1, <2>1 DEF UploadInv, StepsFit
  <2>5. \A q \in Request : step'[q] = "put" => object'[q] # None
    BY <1>1, <2>1, <2>2 DEF UploadInv, StepsFit
  <2>6. \A n \in Name : objects'[n] # None => object'[objects'[n]] = n
    BY <1>1, <2>1, <2>3 DEF UploadInv
  <2>7. \A q \in Request : Kind(q) = "upload" /\ answer'[q] = "ok" =>
          object'[q] # None /\ objects'[object'[q]] # None
    BY <1>1, <2>1 DEF UploadInv
  <2> QED
    BY <2>4, <2>5, <2>6, <2>7 DEF UploadInv, Kind
<1>6. ASSUME NEW r \in Request, Put(r)
      PROVE  UploadInv'
  <2>1. /\ object[r] \in Name /\ UNCHANGED <<object, began>>
        /\ objects' = [objects EXCEPT ![object[r]] = r]
        /\ step' = [step EXCEPT ![r] = "done"]
        /\ answer' = [answer EXCEPT ![r] = "ok"]
    BY <1>1, <1>6 DEF Put, Answer, UploadInv
  <2>2. \A q \in Request : object'[q] # None =>
          /\ Kind(q) = "upload" /\ step'[q] \in {"put", "done"}
          /\ object'[q] = <<began'[q], Ask[q].file>>
    BY <1>1, <2>1 DEF UploadInv, StepsFit
  <2>3. \A q \in Request : step'[q] = "put" => object'[q] # None
    BY <1>1, <2>1 DEF UploadInv, StepsFit
  <2>4. \A n \in Name : objects'[n] # None => object'[objects'[n]] = n
    BY <1>1, <2>1 DEF UploadInv
  <2>5. \A q \in Request : Kind(q) = "upload" /\ answer'[q] = "ok" =>
          object'[q] # None /\ objects'[object'[q]] # None
    BY <1>1, <2>1 DEF UploadInv, StepsFit
  <2> QED
    BY <2>2, <2>3, <2>4, <2>5 DEF UploadInv, Kind
<1> QED
  BY <1>4, <1>5, <1>6, Uploaders

\* uploadPdf: the object an answered upload names holds what was uploaded,
\* unless another upload of the same file name began in the same millisecond.
\* The object of a name was written by an upload that chose that name, and the
\* name tells when the upload began, and the file.
THEOREM UploadsStand == AdminSpec => []UploadStands
<1>1. AdminInit => UploadInv
  <2> SUFFICES ASSUME AdminInit
               PROVE  UploadInv
    OBVIOUS
  <2>1. \A r \in Request : step[r] # "put" /\ answer[r] = None /\ object[r] = None
    BY DEF AdminInit, InitStore, WorkInit, FirstStep
  <2>2. \A n \in Name : objects[n] = None
    BY DEF AdminInit, WorkInit
  <2> QED
    BY <2>1, <2>2, AdminAssumption DEF UploadInv
<1>2. AdminInv /\ UploadInv /\ [AdminNext]_adminVars => UploadInv'
  BY UploadKeeps
<1>3. AdminInv /\ UploadInv => UploadStands
  <2> SUFFICES ASSUME AdminInv, UploadInv,
                      NEW r \in Request, Kind(r) = "upload", answer[r] = "ok",
                      objects[object[r]] # r
               PROVE  \E s \in Request \ {r} : /\ Kind(s) = "upload" /\ Ask[s].file = Ask[r].file
                                               /\ object[s] # None /\ began[s] = began[r]
    BY DEF UploadStands
  <2> DEFINE s == objects[object[r]]
  <2>1. object[r] \in Name /\ s \in Request \ {r}
    BY DEF UploadInv, AdminInv, AdminTypeOK, WorkTypeOK
  <2>2. object[s] = object[r] /\ object[r] # None
    BY <2>1, WorkAssumption DEF UploadInv
  <2>3. object[s] = <<began[s], Ask[s].file>> /\ object[r] = <<began[r], Ask[r].file>> /\ Kind(s) = "upload"
    BY <2>1, <2>2 DEF UploadInv
  <2>4. object[s] # None
    BY <2>2
  <2> HIDE DEF s
  <2>5. <<began[s], Ask[s].file>> = <<began[r], Ask[r].file>>
    BY <2>2, <2>3
  <2>6. began[s] = began[r] /\ Ask[s].file = Ask[r].file
    BY <2>5
  <2> QED
    BY <2>1, <2>3, <2>4, <2>6
<1> QED
  BY <1>1, <1>2, <1>3, AdminInvHolds, PTL DEF AdminSpec

---------------------------------------------------------------------------
(* Grants after a reset *)

\* Once the menus have been deleted, a role has menus only if it was given some.
GrantInv == wiped => \A x \in Live(roles) : roles[x].menus # {} => x \in granted

\* Roles change by statements that the histories watch, and by a wipe.
LEMMA RoleWriters ==
  ASSUME [AdminNext]_adminVars
  PROVE  \/ \E r \in Request : Wipe(r)
         \/ WatchGrants
         \/ UNCHANGED <<roles, wiped, granted>>
<1>1. ASSUME NEW r \in Request, AccessStep(r), ~Wipe(r)
      PROVE  UNCHANGED <<roles, wiped, granted>>
  BY <1>1 DEF AccessStep, Guard, ReadMenus, Seed, FailStatement, accessHistory, adminTables
<1>2. ASSUME NEW r \in Request, ScopeStep(r)
      PROVE  UNCHANGED <<roles, wiped, granted>>
  BY <1>2 DEF ScopeStep, ReadScope, ReadUser, ReadFactories, ReadIds, ReadValves, accessHistory, adminTables
<1>3. ASSUME NEW r \in Request, WorkStep(r), UNCHANGED accessHistory
      PROVE  UNCHANGED <<roles, wiped, granted>>
  BY <1>3 DEF WorkStep, Clear, Create, CreateTask, SignIn, SignedIn, ChooseName, Put, accessHistory, adminTables
<1>4. \A h : Stop(h) => UNCHANGED <<roles, wiped, granted>>
  BY DEF Stop, Die, adminTables
<1>5. \A w : (Strip(w) \/ Log(w)) /\ UNCHANGED accessHistory
        => UNCHANGED <<roles, wiped, granted>>
  BY DEF Strip, Log, accessHistory, adminTables
<1>6. (Tick /\ UNCHANGED accessHistory) \/ UNCHANGED adminVars => UNCHANGED <<roles, wiped, granted>>
  BY DEF Tick, accessHistory, adminTables, adminVars
<1> QED
  BY <1>1, <1>2, <1>3, <1>4, <1>5, <1>6
  DEF AdminNext, EditTables, AdminStep, RemoveFactory, Settle, Reject

\* A wipe takes every menu from every role; afterwards the only statements that
\* link menus to a role record it.
LEMMA GrantKeeps ==
  ASSUME AdminInv, GrantInv, [AdminNext]_adminVars
  PROVE  GrantInv'
<1>1. ASSUME NEW r \in Request, Wipe(r)
      PROVE  GrantInv'
  <2>1. \A x \in Live(roles) : roles[x].menus \subseteq MenuId
    <3>1. Live(menus) \subseteq MenuId
      BY ScopeTypes DEF AdminInv, AdminTypeOK
    <3> QED
      BY <3>1 DEF AdminInv, AdminTypeOK, StoreTypeOK, JoinsLive, Joined
  <2>2. roles' = [x \in Role |-> IF roles[x] = None THEN None
                                 ELSE [roles[x] EXCEPT !.menus = @ \ MenuId]]
    BY <1>1 DEF Wipe, DeleteMenus
  <2>3. \A x \in Live(roles) : roles[x] \in RoleRow
    BY DEF AdminInv, AdminTypeOK, StoreTypeOK, Live
  <2>4. ASSUME NEW x \in Live(roles')
        PROVE  roles'[x].menus = {}
    <3>1. x \in Live(roles) /\ roles'[x] = [roles[x] EXCEPT !.menus = @ \ MenuId]
      BY <2>2 DEF Live, AdminInv, AdminTypeOK, StoreTypeOK
    <3>2. roles'[x].menus = roles[x].menus \ MenuId
      BY <2>3, <3>1 DEF RoleRow
    <3> QED
      BY <2>1, <3>1, <3>2
  <2> QED
    BY <2>4 DEF GrantInv, Live
<1>2. ASSUME WatchGrants
      PROVE  GrantInv'
  <2>1. roles \in [Role -> RoleRow \cup {None}] /\ roles' \in [Role -> RoleRow \cup {None}]
    BY StoreKeeps DEF AdminInv, AdminTypeOK, StoreTypeOK, WorkTypeOK
  <2> SUFFICES ASSUME wiped, NEW x \in Live(roles'), roles'[x].menus # {}
               PROVE  x \in granted'
    BY <1>2 DEF GrantInv, WatchGrants, Live
  <2>2. CASE roles[x] = None \/ ~(roles'[x].menus \subseteq roles[x].menus)
    BY <1>2, <2>2 DEF WatchGrants, Live
  <2>3. CASE roles[x] # None /\ roles'[x].menus \subseteq roles[x].menus
    <3>1. x \in Live(roles) /\ roles[x].menus # {}
      BY <2>1, <2>3 DEF Live
    <3> QED
      BY <1>2, <3>1 DEF WatchGrants, GrantInv
  <2> QED
    BY <2>2, <2>3
<1>3. UNCHANGED <<roles, wiped, granted>> => GrantInv'
  BY DEF GrantInv, Live
<1> QED
  BY <1>1, <1>2, <1>3, RoleWriters

\* A reset takes every grant away: whoever is no administrator passes the guard
\* only through a role that was given menus again since the menus were deleted
\* last, even while the reset is still creating them.
THEOREM OnlyRegranted == AdminSpec => OnlyRegrantedPass
<1>1. AdminInit => GrantInv
  BY DEF AdminInit, AccessInit, GrantInv
<1>2. AdminInv /\ GrantInv /\ [AdminNext]_adminVars => GrantInv'
  BY GrantKeeps
<1>3. ASSUME AdminInv, GrantInv, [AdminNext]_adminVars
      PROVE  [\A r \in Request :
                (/\ wiped /\ step[r] = "guard" /\ step'[r] = "handle"
                 /\ ~users[Ask[r].by].isAdmin)
                => users[Ask[r].by].roles \cap granted # {}]_<<step, granted>>
  <2> SUFFICES ASSUME NEW r \in Request, wiped, step[r] = "guard", step'[r] = "handle",
                      ~users[Ask[r].by].isAdmin
               PROVE  users[Ask[r].by].roles \cap granted # {}
    OBVIOUS
  <2> DEFINE u == Ask[r].by
  <2>1. Guard(r)
    <3>1. StepsFit /\ pending \subseteq Work
      BY <1>3 DEF AdminInv, AdminTypeOK, WorkTypeOK
    <3>2. ~Seed(r)
      BY <3>1, SeedGoes
    <3> QED
      BY <1>3, <3>1, <3>2, Enters
  <2>2. Permitted(r)
    BY <1>3, <2>1 DEF Guard, Answer, AdminInv, StepsFit
  <2>3. users[u] # None /\ u \in User
    BY <2>2, AdminAssumption DEF Permitted
  <2>4. PICK m \in Buttons(u) : TRUE
    BY <2>2 DEF Permitted
  <2>5. PICK x \in users[u].roles : m \in roles[x].menus
    BY <2>4 DEF Buttons
  <2>6. x \in Live(roles)
    BY <1>3, <2>3, <2>5 DEF AdminInv, AdminTypeOK, StoreTypeOK, JoinsLive, Joined, Live
  <2> QED
    BY <1>3, <2>5, <2>6 DEF GrantInv
<1> QED
  BY <1>1, <1>2, <1>3, AdminInvHolds, PTL DEF AdminSpec, OnlyRegrantedPass

---------------------------------------------------------------------------
(* The address of a PDF *)

\* The ids of PDFs are used once: an update of clear() that has not run is about
\* an id given out before, whose row still has the address clear() has read.
PdfInv ==
  /\ \A i \in Live(pdfs) : i < next.pdf
  /\ \A w \in pending : w.kind = "strip" =>
       w.pdf < next.pdf /\ (pdfs[w.pdf] # None => pdfs[w.pdf].url = w.url)

\* The PDFs there were before keep their addresses, new ones get new ids.
Ageing ==
  /\ next'.pdf >= next.pdf
  /\ \A i \in Live(pdfs') : /\ i < next'.pdf
                            /\ i < next.pdf => i \in Live(pdfs) /\ pdfs'[i].url = pdfs[i].url

\* Deleting PDFs is ageing.
LEMMA DeletedPdfs ==
  ASSUME StoreTypeOK, PdfInv, NEW gone, pdfs' = Without(pdfs, gone), next' = next
  PROVE  Ageing
BY DEF StoreTypeOK, PdfInv, Without, Live, Ageing

\* So is inserting one.
LEMMA InsertedPdf ==
  ASSUME StoreTypeOK, PdfInv, NEW gone, NEW t, NEW url, NEW signed, next.pdf \in TaskId,
         pdfs' = WithPdf(Without(pdfs, gone), t, url, signed), next'.pdf = next.pdf + 1
  PROVE  Ageing
<1>1. next.pdf \in Nat /\ pdfs \in [TaskId -> PdfRow \cup {None}]
  BY DEF StoreTypeOK
<1>2. \A i \in TaskId \ {next.pdf} : pdfs'[i] = IF i \in gone THEN None ELSE pdfs[i]
  BY <1>1 DEF WithPdf, Without
<1>3. Live(pdfs') \subseteq TaskId
  BY <1>1 DEF WithPdf, Without, Live
<1> QED
  BY <1>1, <1>2, <1>3 DEF PdfInv, Ageing, Live, TaskId

\* Every statement on PDFs either leaves a row, deletes it, changes its address by
\* a clear of its own, or gives a new one the next id.
LEMMA Ages ==
  ASSUME AdminInv, PdfInv, [AdminNext]_adminVars
  PROVE  Ageing
<1>1. StoreTypeOK /\ pdfs \in [TaskId -> PdfRow \cup {None}] /\ next.pdf \in Nat
  BY DEF AdminInv, AdminTypeOK, StoreTypeOK
<1>2. pdfs' = pdfs /\ next'.pdf = next.pdf => Ageing
  BY <1>1 DEF PdfInv, Ageing, Live
<1>3. ASSUME NEW gone, DeleteTasks(gone), next' = next
      PROVE  Ageing
  BY <1>1, <1>3, DeletedPdfs DEF DeleteTasks
<1>4. ASSUME NEW f, NEW url, NEW signed, CreateTask(f, url, signed)
      PROVE  Ageing
  <2>1. pdfs = Without(pdfs, {})
    BY <1>1 DEF Without
  <2>2. next'.pdf = next.pdf + 1
    BY <1>1, <1>4 DEF CreateTask, StoreTypeOK
  <2> QED
    BY <1>1, <1>4, <2>1, <2>2, InsertedPdf DEF CreateTask
<1>5. ASSUME NEW t, NEW url, NEW signed, UpdateTask(t, url, signed)
      PROVE  Ageing
  <2>1. next'.pdf = next.pdf + 1
    BY <1>1, <1>5 DEF UpdateTask, StoreTypeOK
  <2> QED
    BY <1>1, <1>5, <2>1, InsertedPdf DEF UpdateTask
<1>6. CASE Edit
  <2>1. EditRoles \/ EditUsers => pdfs' = pdfs /\ next' = next
    BY DEF EditRoles, EditUsers, CreateRole, UpdateRole, RemoveRole, CreateUser, UpdateUser, RemoveUser
  <2>2. EditMenus => pdfs' = pdfs /\ next'.pdf = next.pdf
    BY <1>1 DEF EditMenus, CreateMenu, UpdateMenu, RemoveMenu, StoreTypeOK
  <2>3. EditFactories => Ageing
    BY <1>2, <1>3 DEF EditFactories, CreateFactory, RemoveFamily
  <2>4. EditTasks => Ageing
    BY <1>3, <1>4, <1>5 DEF EditTasks, RemoveTasks
  <2> QED
    BY <1>2, <1>6, <2>1, <2>2, <2>3, <2>4 DEF Edit
<1>7. ASSUME NEW r \in Request, Wipe(r) \/ Seed(r)
      PROVE  Ageing
  BY <1>1, <1>2, <1>7 DEF Wipe, Seed, StoreTypeOK
<1>8. ASSUME NEW r \in Request, Create(r) \/ RemoveOne(r)
      PROVE  Ageing
  BY <1>3, <1>4, <1>8 DEF Create, RemoveOne, RemoveFamily
<1>9. ASSUME NEW w \in pending, Strip(w)
      PROVE  Ageing
  <2>1. w.pdf \in TaskId /\ pdfs[w.pdf] \in PdfRow /\ pdfs[w.pdf].url = w.url
    BY <1>1, <1>9 DEF Strip, PdfInv, AdminInv, AdminTypeOK, WorkTypeOK, Work
  <2> DEFINE row == [pdfs[w.pdf] EXCEPT !.url = w.url, !.signed = FALSE]
  <2>2. row.url = pdfs[w.pdf].url /\ row # None
    BY <2>1, AdminAssumption DEF PdfRow
  <2>3. pdfs' = [pdfs EXCEPT ![w.pdf] = row] /\ next' = next
    BY <1>9 DEF Strip
  <2> HIDE DEF row
  <2> QED
    BY <1>1, <1>9, <2>1, <2>2, <2>3 DEF PdfInv, Ageing, Live, Strip
<1>10. UNCHANGED adminTables => Ageing
  BY <1>2 DEF adminTables
<1> QED
  BY <1>6, <1>7, <1>8, <1>9, <1>10, Writers

\* Only clear() starts updates of PDFs.
LEMMA Strippers ==
  ASSUME [AdminNext]_adminVars, NEW w \in pending', w \notin pending, w.kind = "strip"
  PROVE  \E r \in Request : Clear(r) /\ w \in {Stripping(r, i) : i \in Live(pdfs)}
<1>1. \A r, k : w = Logging(r, k) => k = "strip"
  BY DEF Logging
<1>2. \A r : ~Emit(r) /\ ~SignIn(r)
  BY <1>1 DEF Emit, SignIn
<1>3. pending' # pending
  OBVIOUS
<1>4. ~UNCHANGED workVars /\ ~Tick
  BY <1>3 DEF workVars, Tick
<1>5. \A v : ~Strip(v) /\ ~Log(v)
  BY DEF Strip, Log
<1>6. \A h : ~Stop(h)
  BY DEF Stop, Die
<1>7. PICK r \in Request : AdminStep(r)
  BY <1>4, <1>5, <1>6 DEF AdminNext, EditTables, Settle, Reject, adminVars
<1>8. WorkStep(r)
  BY <1>2, <1>4, <1>7 DEF AdminStep, RemoveFactory, RemoveOne
<1>9. Clear(r)
  BY <1>2, <1>3, <1>4, <1>8 DEF WorkStep, Create, SignedIn, ChooseName, Put
<1> QED
  BY <1>9 DEF Clear

\* A clear in flight knows the addresses of the rows it strips, since no row gets
\* another one.
LEMMA PdfKeeps ==
  ASSUME AdminInv, PdfInv, [AdminNext]_adminVars
  PROVE  PdfInv'
<1>1. /\ Ageing /\ next.pdf \in Nat /\ next'.pdf \in Nat
      /\ pdfs \in [TaskId -> PdfRow \cup {None}] /\ pdfs' \in [TaskId -> PdfRow \cup {None}]
      /\ pending \subseteq Work
  BY Ages, StoreKeeps DEF AdminInv, AdminTypeOK, StoreTypeOK, WorkTypeOK
<1>2. ASSUME NEW w \in pending, w.kind = "strip"
      PROVE  w.pdf < next'.pdf /\ (pdfs'[w.pdf] # None => pdfs'[w.pdf].url = w.url)
  BY <1>1, <1>2 DEF PdfInv, Ageing, Work, Live, TaskId
<1>3. ASSUME NEW w \in pending', w \notin pending, w.kind = "strip"
      PROVE  w.pdf < next'.pdf /\ (pdfs'[w.pdf] # None => pdfs'[w.pdf].url = w.url)
  <2>1. PICK r \in Request : Clear(r) /\ w \in {Stripping(r, i) : i \in Live(pdfs)}
    BY <1>3, Strippers
  <2>2. PICK i \in Live(pdfs) : w = Stripping(r, i)
    BY <2>1
  <2>3. w.pdf = i /\ w.url = pdfs[i].url /\ UNCHANGED <<pdfs, next>>
    BY <2>1, <2>2 DEF Stripping, Clear, adminTables
  <2> QED
    BY <2>2, <2>3 DEF PdfInv
<1> QED
  BY <1>1, <1>2, <1>3 DEF PdfInv, Ageing, Live

\* clear() awaits none of its updates: one that comes late finds the row it was
\* meant for, or none; it never puts the address of a replaced PDF on its
\* successor, because an id is used once.
THEOREM PdfsKeepAddress == AdminSpec => PdfKeepsAddress
<1>1. AdminInit => PdfInv
  <2> SUFFICES ASSUME AdminInit
               PROVE  PdfInv
    OBVIOUS
  <2>1. DOMAIN FirstPdfs = 1..MaxTask /\ MaxTask \in Nat
    BY AdminAssumption DEF TaskId
  <2>2. Cardinality(Live(FirstPdfs)) \in Nat
    BY <2>1, FirstIds
  <2>3. \A i \in Live(FirstPdfs) : i \in Nat /\ i <= Cardinality(Live(FirstPdfs))
    BY <2>1, AdminAssumption DEF Numbered, Live
  <2>4. \A i \in Live(FirstPdfs) : i < Cardinality(Live(FirstPdfs)) + 1
    BY <2>2, <2>3
  <2> QED
    BY <2>4 DEF AdminInit, InitStore, WorkInit, PdfInv
<1>2. AdminInv /\ PdfInv /\ [AdminNext]_adminVars => PdfInv'
  BY PdfKeeps
<1>3. ASSUME AdminInv, PdfInv, [AdminNext]_adminVars
      PROVE  [\A w \in pending \ pending' : \A i \in TaskId :
                pdfs[i] # None /\ pdfs'[i] # None => pdfs'[i].url = pdfs[i].url]_<<pending, pdfs>>
  <2>1. Ageing
    BY <1>3, Ages
  <2>2. pdfs \in [TaskId -> PdfRow \cup {None}] /\ pdfs' \in [TaskId -> PdfRow \cup {None}]
    BY <1>3, StoreKeeps DEF AdminInv, AdminTypeOK, StoreTypeOK, WorkTypeOK
  <2>3. \A i \in TaskId : pdfs[i] # None /\ pdfs'[i] # None
          => i \in Live(pdfs') /\ i < next.pdf
    BY <1>3, <2>2 DEF PdfInv, Live
  <2>4. \A i \in TaskId : pdfs[i] # None /\ pdfs'[i] # None => pdfs'[i].url = pdfs[i].url
    BY <2>1, <2>3 DEF Ageing
  <2> QED
    BY <2>4
<1> QED
  BY <1>1, <1>2, <1>3, AdminInvHolds, PTL DEF AdminSpec, PdfKeepsAddress

---------------------------------------------------------------------------
(* Scopes *)

\* What the request of a list shows if its last read comes now.
Would(r) ==
  IF step[r] = "read" THEN Found(r)
  ELSE IF accessible[r] = None THEN Live(factories) ELSE accessible[r] \cap Live(factories)

\* No statement has fallen between the reads of r: what it has read is what is
\* there.
Fresh(r) ==
  /\ users[Ask[r].by] # None
  /\ always[r] = Visible(r) /\ ever[r] = Visible(r)
  /\ accessible[r] = None <=> HasAll(r)
  /\ step[r] = "read" => seen[r] = users[Ask[r].by]
  /\ step[r] = "readValves" /\ accessible[r] # None => accessible[r] = Visible(r)

\* What a list that reads now shows, or an answered one has shown, is right.
Right(r, ids) ==
  /\ allScope[r] => always[r] \subseteq ids
  /\ crossed[r] <= 1 => ids \subseteq ever[r] /\ (widened[r] \/ always[r] \subseteq ids)

ScopeTypeOK ==
  /\ accessible \in [Request -> (SUBSET Factory) \cup {None}]
  /\ always \in [Request -> SUBSET Factory]
  /\ ever \in [Request -> SUBSET Factory]
  /\ allScope \in [Request -> BOOLEAN]
  /\ widened \in [Request -> BOOLEAN]
  /\ crossed \in [Request -> Nat]

\* A request before its first read; between its reads; after its answer.
ScopeOf(r) ==
  /\ step[r] \in {"guard", "handle"} => accessible[r] # None /\ crossed[r] = 0
  /\ Reading(r) => /\ always[r] \subseteq Live(factories)
                   /\ allScope[r] => accessible[r] = None
                   /\ crossed[r] = 0 => Fresh(r)
                   /\ Right(r, Would(r))
  /\ answer[r] = "ok" => step[r] = "done"
  /\ Listed(r) => Right(r, shown[r])

ScopeInv == ScopeTypeOK /\ \A r \in Request : ScopeOf(r)

\* Membership in what OfRoles unites.
LEMMA OfRolesHas ==
  /\ \A xs, f : f \in OfRoles(xs) <=> \E x \in xs \cap Live(roles) : f \in roles[x].factories
  /\ \A xs, f : f \in OfRoles(xs)' <=> \E x \in xs \cap Live(roles') : f \in roles'[x].factories
BY DEF OfRoles, Live

\* A user sees factories that exist.
LEMMA VisibleLive ==
  ASSUME StoreTypeOK, NEW r \in Request
  PROVE  Visible(r) \subseteq Live(factories)
<1>1. \A xs : OfRoles(xs) \subseteq Live(factories)
  BY OfRolesHas DEF StoreTypeOK, JoinsLive, Joined
<1>2. \A u : Created(u) \subseteq Live(factories)
  BY DEF Created
<1> QED
  BY <1>1, <1>2 DEF Visible

\* Whether a user has everything is settled by the roles it has, all of which
\* exist.
LEMMA HasAllIs ==
  ASSUME StoreTypeOK, NEW r \in Request, users[Ask[r].by] # None
  PROVE  HasAll(r) <=> HasAllFactoryScope(users[Ask[r].by])
<1>1. Ask[r].by \in Live(users)
  BY AdminAssumption DEF StoreTypeOK, Live
<1>2. users[Ask[r].by].roles \subseteq Live(roles)
  BY <1>1 DEF StoreTypeOK, JoinsLive, Joined
<1>3. \A x \in Live(roles) : roles[x].grantAll \in BOOLEAN
  BY DEF StoreTypeOK, Live, RoleRow
<1> QED
  BY <1>2, <1>3 DEF HasAll, HasAllFactoryScope

\* A step that leaves users, factories, and the scopes of roles alone.
RolesSame ==
  /\ Live(roles') = Live(roles)
  /\ \A x \in Live(roles) : /\ roles'[x].factories = roles[x].factories
                            /\ roles'[x].grantAll = roles[x].grantAll

ScopeSame == UNCHANGED <<users, factories>> /\ RolesSame

\* Nothing that a scope is computed from changes by such a step.
LEMMA ScopeStays ==
  ASSUME StoreTypeOK, ScopeSame, NEW r \in Request
  PROVE  /\ Live(factories)' = Live(factories)
         /\ \A xs : OfRoles(xs)' = OfRoles(xs)
         /\ \A u : Created(u)' = Created(u)
         /\ HasAll(r)' <=> HasAll(r)
         /\ Visible(r)' = Visible(r)
<1>1. Live(factories)' = Live(factories) /\ \A u : Created(u)' = Created(u)
  BY DEF ScopeSame, Live, Created
<1>2. \A xs : OfRoles(xs)' = OfRoles(xs)
  <2> SUFFICES ASSUME NEW xs
               PROVE  OfRoles(xs)' = OfRoles(xs)
    OBVIOUS
  <2>1. \A f : f \in OfRoles(xs)' <=> f \in OfRoles(xs)
    BY OfRolesHas DEF ScopeSame, RolesSame
  <2> QED
    BY <2>1
<1>3. users[Ask[r].by] # None => users[Ask[r].by].roles \subseteq Live(roles)
  <2>1. users[Ask[r].by] # None => Ask[r].by \in Live(users)
    BY AdminAssumption DEF StoreTypeOK, Live
  <2> QED
    BY <2>1 DEF StoreTypeOK, JoinsLive, Joined
<1>4. HasAll(r)' <=> HasAll(r)
  BY <1>3 DEF ScopeSame, RolesSame, HasAll
<1>5. Visible(r)' = Visible(r)
  BY <1>1, <1>2, <1>4 DEF ScopeSame, Visible
<1> QED
  BY <1>1, <1>2, <1>4, <1>5

\* The same in the next state.
LEMMA VisibleLiveNext ==
  ASSUME StoreTypeOK', NEW r \in Request
  PROVE  Visible(r)' \subseteq Live(factories)'
<1>1. \A x \in Live(roles') : roles'[x].factories \subseteq Live(factories')
  BY DEF StoreTypeOK, JoinsLive, Joined
<1>2. \A xs : OfRoles(xs)' \subseteq Live(factories')
  BY <1>1, OfRolesHas
<1>3. Live(factories') = Live(factories)' /\ \A u : Created(u)' \subseteq Live(factories)'
  BY DEF Created, Live
<1> QED
  BY <1>2, <1>3 DEF Visible

---------------------------------------------------------------------------
(* A statement between the reads of a list *)

\* Users keep those of their roles that remain.
UsersAlign ==
  \A u \in User : /\ users'[u] = None <=> users[u] = None
                  /\ users[u] # None =>
                       users'[u].roles \cap Live(roles') = users[u].roles \cap Live(roles')

\* A statement changes the users alone, or the roles and with them, by deletion,
\* users and factories, or it adds a factory; or it is about menus or tasks.
OneSided ==
  \/ RolesSame /\ factories' = factories
  \/ UsersAlign /\ Live(factories') \subseteq Live(factories)
  \/ UNCHANGED <<users, roles>>

\* Deleting menus changes nothing else about roles.
LEMMA DeletedMenus ==
  ASSUME StoreTypeOK, NEW gone, DeleteMenus(gone)
  PROVE  RolesSame
<1>1. \A x \in Live(roles) : roles[x] \in RoleRow
  BY DEF StoreTypeOK, Live
<1>2. \A x \in Live(roles) : [roles[x] EXCEPT !.menus = @ \ gone] # None
  <2>1. \A row \in RoleRow : [row EXCEPT !.menus = @ \ gone] \in RoleRow
    BY DEF RoleRow
  <2> QED
    BY <1>1, <2>1, AdminAssumption
<1>3. \A x \in Role : roles'[x] = IF roles[x] = None THEN None ELSE [roles[x] EXCEPT !.menus = @ \ gone]
  BY DEF DeleteMenus
<1>4. DOMAIN roles' = Role /\ DOMAIN roles = Role
  BY DEF DeleteMenus, StoreTypeOK
<1>5. Live(roles') = Live(roles)
  BY <1>2, <1>3, <1>4 DEF Live
<1>6. \A x \in Live(roles) : /\ roles'[x].factories = roles[x].factories
                             /\ roles'[x].grantAll = roles[x].grantAll
  BY <1>1, <1>3, <1>4 DEF Live, RoleRow
<1> QED
  BY <1>5, <1>6 DEF RolesSame

\* Deleting a family of factories is one-sided.
LEMMA FamilySided ==
  ASSUME StoreTypeOK, NEW gone, RemoveFamily(gone)
  PROVE  OneSided
<1>1. Live(factories') \subseteq Live(factories)
  BY DEF RemoveFamily, Without, Live
<1> QED
  BY <1>1 DEF RemoveFamily, OneSided, UsersAlign

\* An edit is one statement, so it is one of these.
LEMMA EditSided ==
  ASSUME StoreTypeOK, Edit
  PROVE  OneSided
<1>1. roles' = roles /\ factories' = factories => OneSided
  BY DEF OneSided, RolesSame
<1>2. users' = users /\ factories' = factories => OneSided
  BY DEF OneSided, UsersAlign
<1>3. ASSUME NEW x \in Role, RemoveRole(x)
      PROVE  OneSided
  <2>1. \A u \in User : users[u] \in UserRow \cup {None}
    BY DEF StoreTypeOK
  <2>2. x \notin Live(roles')
    BY <1>3 DEF RemoveRole, Live, StoreTypeOK
  <2>3. \A u \in User : users[u] # None => /\ users'[u] # None
                                           /\ users'[u].roles = users[u].roles \ {x}
    <3> SUFFICES ASSUME NEW u \in User, users[u] # None
                 PROVE  users'[u] # None /\ users'[u].roles = users[u].roles \ {x}
      OBVIOUS
    <3>1. users'[u] = [users[u] EXCEPT !.roles = @ \ {x}]
      BY <1>3 DEF RemoveRole
    <3>2. users[u] \in UserRow
      BY <2>1
    <3>3. users'[u] \in UserRow /\ users'[u].roles = users[u].roles \ {x}
      BY <3>1, <3>2 DEF UserRow
    <3> QED
      BY <3>3, AdminAssumption
  <2>4. \A u \in User : users[u] = None => users'[u] = None
    BY <1>3 DEF RemoveRole
  <2> QED
    BY <1>3, <2>2, <2>3, <2>4 DEF OneSided, UsersAlign, RemoveRole
<1>4. EditRoles => OneSided
  BY <1>2, <1>3 DEF EditRoles, CreateRole, UpdateRole
<1>5. EditUsers => OneSided
  BY <1>1 DEF EditUsers, CreateUser, UpdateUser, RemoveUser
<1>6. EditMenus => OneSided
  <2>1. \A m : RemoveMenu(m) => OneSided
    BY DeletedMenus DEF RemoveMenu, OneSided
  <2> QED
    BY <1>1, <2>1 DEF EditMenus, CreateMenu, UpdateMenu
<1>7. EditFactories => OneSided
  BY FamilySided DEF EditFactories, CreateFactory, OneSided
<1>8. EditTasks => OneSided
  BY <1>1 DEF EditTasks, CreateTask, UpdateTask, RemoveTasks
<1> QED
  BY <1>4, <1>5, <1>6, <1>7, <1>8 DEF Edit

\* A statement of somebody else, seen by the history of a list that is reading.
LEMMA Crossing ==
  ASSUME StoreTypeOK, StoreTypeOK', ScopeTypeOK, NEW q \in Request, Reading(q), ScopeOf(q),
         OneSided, WatchScope, UNCHANGED accessVars, step'[q] = step[q], answer'[q] = answer[q]
  PROVE  ScopeOf(q)'
<1> DEFINE u == Ask[q].by
<1>1. /\ u \in User /\ Reading(q)' /\ accessible' = accessible /\ seen' = seen
      /\ always'[q] = always[q] \cap Visible(q)'
      /\ ever'[q] = ever[q] \cup Visible(q)'
      /\ allScope'[q] = (allScope[q] /\ HasAll(q)')
      /\ widened'[q] = (widened[q] \/ (accessible[q] # None /\ HasAll(q)'))
      /\ crossed'[q] = crossed[q] + 1 /\ crossed[q] \in Nat
  BY AdminAssumption DEF WatchScope, accessVars, Reading, ScopeTypeOK, Kind
<1>2. Visible(q)' \subseteq Live(factories)' /\ Visible(q) \subseteq Live(factories)
  BY VisibleLiveNext, VisibleLive
<1>3. accessible[q] = None => Would(q)' = Live(factories)'
  BY <1>1 DEF Would, Found
<1>4. allScope'[q] => always'[q] \subseteq Would(q)'
  BY <1>1, <1>2, <1>3 DEF ScopeOf, ScopeTypeOK
<1>5. ASSUME crossed'[q] <= 1
      PROVE  /\ Would(q)' \subseteq ever'[q]
             /\ widened'[q] \/ always'[q] \subseteq Would(q)'
  <2>1. Fresh(q)
    BY <1>1, <1>5 DEF ScopeOf
  <2>2. users[u] # None /\ ever[q] = Visible(q) /\ always[q] = Visible(q)
    BY <2>1 DEF Fresh
  <2>3. CASE accessible[q] = None
    <3>1. HasAll(q) /\ Visible(q) = Live(factories)
      BY <2>1, <2>2, <2>3 DEF Fresh, Visible
    <3>2. Live(factories)' \subseteq Live(factories) \/ Visible(q)' = Live(factories)'
      <4>1. CASE RolesSame /\ factories' = factories
        BY <4>1 DEF Live
      <4>2. CASE UsersAlign /\ Live(factories') \subseteq Live(factories)
        BY <4>2 DEF Live
      <4>3. CASE UNCHANGED <<users, roles>>
        BY <2>2, <3>1, <4>3 DEF HasAll, Visible
      <4> QED
        BY <4>1, <4>2, <4>3 DEF OneSided
    <3> QED
      BY <1>1, <1>2, <1>3, <2>2, <2>3, <3>1, <3>2
  <2>4. CASE accessible[q] # None /\ step[q] = "readValves"
    <3>1. accessible[q] = Visible(q) /\ Would(q)' = Visible(q) \cap Live(factories)'
      BY <1>1, <2>1, <2>4 DEF Fresh, Would
    <3> QED
      BY <1>1, <1>2, <2>2, <3>1
  <2>5. CASE accessible[q] # None /\ step[q] = "read"
    <3>1. /\ ~HasAll(q) /\ seen[q] = users[u]
          /\ Visible(q) = OfRoles(users[u].roles) \cup (IF Kind(q) = "list" THEN Created(u) ELSE {})
      BY <2>1, <2>2, <2>5 DEF Fresh, Visible
    <3>2. PICK own, its : own = users[u].roles /\ its = users'[u].roles
      OBVIOUS
    <3>3. \A f : f \in Would(q)' <=>
            f \in OfRoles(own)' \/ (Kind(q) = "list" /\ f \in Created(u)')
      BY <1>1, <2>5, <3>1, <3>2 DEF Would, Found, OfRoles, Kind
    <3>4. CASE RolesSame /\ factories' = factories
      <4>1. \A f : f \in OfRoles(own)' <=> f \in OfRoles(own)
        BY <3>4, OfRolesHas DEF RolesSame
      <4>2. Created(u)' = Created(u)
        BY <3>4 DEF Created, Live
      <4>3. \A f : f \in Would(q)' <=> f \in Visible(q)
        BY <3>1, <3>2, <3>3, <4>1, <4>2
      <4> QED
        BY <1>1, <2>2, <4>3
    <3>5. CASE UsersAlign \/ UNCHANGED <<users, roles>>
      <4>1. users'[u] # None
        BY <1>1, <2>2, <3>5 DEF UsersAlign
      <4>2. \A x \in Live(roles') : x \in own <=> x \in its
        BY <1>1, <2>2, <3>2, <3>5 DEF UsersAlign
      <4>3. \A f : f \in OfRoles(own)' <=> f \in OfRoles(its)'
        BY <4>2, OfRolesHas
      <4>4. CASE HasAll(q)'
        <5>1. Visible(q)' = Live(factories)' /\ widened'[q]
          BY <1>1, <2>5, <4>1, <4>4 DEF Visible
        <5>2. \A f : f \in OfRoles(own)' => f \in Live(factories)'
          BY OfRolesHas DEF StoreTypeOK, JoinsLive, Joined, Live
        <5>3. \A f : f \in Created(u)' => f \in Live(factories)'
          BY DEF Created
        <5> QED
          BY <1>1, <3>3, <5>1, <5>2, <5>3
      <4>5. CASE ~HasAll(q)'
        <5>1. \A f : f \in Visible(q)' <=>
                f \in OfRoles(its)' \/ (Kind(q) = "list" /\ f \in Created(u)')
          BY <3>2, <4>1, <4>5 DEF Visible, OfRoles, Kind
        <5>2. \A f : f \in Would(q)' <=> f \in Visible(q)'
          BY <3>3, <4>3, <5>1
        <5> QED
          BY <1>1, <5>2
      <4> QED
        BY <4>4, <4>5
    <3> QED
      BY <3>4, <3>5 DEF OneSided
  <2> QED
    BY <2>3, <2>4, <2>5 DEF Reading
<1>6. Right(q, Would(q))'
  BY <1>4, <1>5 DEF Right
<1>7. answer[q] # "ok"
  BY DEF ScopeOf, Reading
<1>8. step[q] \notin {"guard", "handle"} /\ crossed'[q] # 0
  BY <1>1 DEF Reading
<1> QED
  BY <1>1, <1>2, <1>6, <1>7, <1>8 DEF ScopeOf, Listed, Kind, Reading

---------------------------------------------------------------------------
(* All steps *)

\* What users can see changes by watched statements alone.
LEMMA ScopeWriters ==
  ASSUME StoreTypeOK, pending \subseteq Work, [AdminNext]_adminVars
  PROVE  \/ Edit /\ WatchScope /\ UNCHANGED accessVars
         \/ \E r \in Request : RemoveOne(r) /\ WatchScope /\ UNCHANGED accessVars
         \/ \E r \in Request : ScopeStep(r)
         \/ /\ ScopeSame /\ UNCHANGED <<scopeVars, seen>>
            /\ \A r \in Request : ~ScopeStep(r)
<1>1. RolesSame /\ UNCHANGED <<users, factories>> => ScopeSame
  BY DEF ScopeSame
<1>2. roles' = roles => RolesSame
  BY DEF RolesSame
<1> DEFINE Still == ScopeSame /\ UNCHANGED <<scopeVars, seen>>
<1>3. ASSUME NEW r \in Request, AccessStep(r), UNCHANGED scopeVars
      PROVE  Still
  <2>1. Wipe(r) => Still
    BY <1>1, <1>3, DeletedMenus DEF Wipe, accessVars
  <2>2. Seed(r) => Still
    BY <1>1, <1>2, <1>3 DEF Seed, accessVars
  <2>3. Guard(r) \/ ReadMenus(r) \/ FailStatement(r) => Still
    BY <1>1, <1>2, <1>3 DEF Guard, ReadMenus, FailStatement, adminTables, accessVars
  <2> QED
    BY <1>3, <2>1, <2>2, <2>3 DEF AccessStep
<1>4. ASSUME NEW r \in Request, WorkStep(r), UNCHANGED <<accessVars, scopeVars>>
      PROVE  Still
  BY <1>1, <1>2, <1>4
  DEF WorkStep, Clear, Create, CreateTask, SignIn, SignedIn, ChooseName, Put, adminTables, accessVars
<1>5. ASSUME NEW h, Stop(h)
      PROVE  Still
  BY <1>1, <1>2, <1>5 DEF Stop, Die, adminTables, accessVars
<1>6. ASSUME NEW w, Strip(w) \/ Log(w), UNCHANGED <<accessVars, scopeVars>>
      PROVE  Still
  BY <1>1, <1>2, <1>6 DEF Strip, Log, adminTables, accessVars
<1>7. ASSUME Tick, UNCHANGED <<accessVars, scopeVars>>
      PROVE  Still
  BY <1>1, <1>2, <1>7 DEF Tick, adminTables, accessVars
<1>8. UNCHANGED adminVars => Still
  BY <1>1, <1>2 DEF adminVars, adminTables, accessVars
<1>9. \/ Edit /\ WatchScope /\ UNCHANGED accessVars
      \/ \E r \in Request : RemoveOne(r) /\ WatchScope /\ UNCHANGED accessVars
      \/ \E r \in Request : ScopeStep(r)
      \/ Still
  BY <1>3, <1>4, <1>5, <1>6, <1>7, <1>8
  DEF AdminNext, EditTables, WatchGrants, AdminStep, RemoveFactory, Settle, Reject
<1> QED
  BY <1>9

\* The histories of scopes keep their types.
LEMMA ScopeTypesKeep ==
  ASSUME StoreTypeOK, StoreTypeOK', ScopeTypeOK, pending \subseteq Work, [AdminNext]_adminVars
  PROVE  ScopeTypeOK'
<1>1. \A r \in Request : Visible(r) \subseteq Factory /\ Visible(r)' \subseteq Factory
  <2>1. Live(factories) \subseteq Factory /\ Live(factories)' \subseteq Factory
    BY DEF StoreTypeOK, Live
  <2> QED
    BY <2>1, VisibleLive, VisibleLiveNext
<1>2. \A r \in Request : HasAll(r) \in BOOLEAN
  BY DEF HasAll
<1>3. ASSUME WatchScope
      PROVE  ScopeTypeOK'
  <2>1. accessible' \in [Request -> (SUBSET Factory) \cup {None}]
    BY <1>3 DEF WatchScope, ScopeTypeOK
  <2>2. always' \in [Request -> SUBSET Factory] /\ ever' \in [Request -> SUBSET Factory]
    BY <1>1, <1>3 DEF WatchScope, ScopeTypeOK
  <2>3. allScope' \in [Request -> BOOLEAN]
    BY <1>3 DEF WatchScope, ScopeTypeOK
  <2>4. widened' \in [Request -> BOOLEAN]
    BY <1>3 DEF WatchScope, ScopeTypeOK
  <2>5. crossed' \in [Request -> Nat]
    BY <1>3 DEF WatchScope, ScopeTypeOK
  <2> QED
    BY <2>1, <2>2, <2>3, <2>4, <2>5 DEF ScopeTypeOK
<1>4. ASSUME NEW r \in Request, ReadScope(r)
      PROVE  ScopeTypeOK'
  <2>1. accessible' \in [Request -> (SUBSET Factory) \cup {None}]
    <3>1. \/ accessible' = [accessible EXCEPT ![r] = None]
          \/ accessible' = [accessible EXCEPT ![r] = accessible[r]]
      <4>1. CASE users[Ask[r].by] # None /\ HasAllFactoryScope(users[Ask[r].by])
        BY <1>4, <4>1 DEF ReadScope
      <4>2. CASE ~(users[Ask[r].by] # None /\ HasAllFactoryScope(users[Ask[r].by]))
        BY <1>4, <4>2 DEF ReadScope
      <4> QED
        BY <4>1, <4>2
    <3> QED
      BY <3>1 DEF ScopeTypeOK
  <2>2. always' \in [Request -> SUBSET Factory] /\ ever' \in [Request -> SUBSET Factory]
    BY <1>1, <1>4 DEF ReadScope, ScopeTypeOK
  <2>3. allScope' \in [Request -> BOOLEAN]
    BY <1>2, <1>4 DEF ReadScope, ScopeTypeOK
  <2> QED
    BY <1>4, <2>1, <2>2, <2>3 DEF ReadScope, ScopeTypeOK
<1>5. ASSUME NEW r \in Request, ReadIds(r)
      PROVE  ScopeTypeOK'
  BY <1>5, ScopeTypes DEF ReadIds, ScopeTypeOK, scopeHistory
<1>6. ASSUME NEW r \in Request, ReadFactories(r) \/ ReadValves(r)
      PROVE  UNCHANGED scopeVars
  BY <1>6 DEF ReadFactories, ReadValves
<1>7. UNCHANGED scopeVars => ScopeTypeOK'
  BY DEF scopeVars, scopeHistory, ScopeTypeOK
<1> QED
  BY <1>3, <1>4, <1>5, <1>6, <1>7, ScopeWriters DEF ScopeStep

\* A watched statement keeps what holds of every request.
LEMMA WatchedKeeps ==
  ASSUME StoreTypeOK, StoreTypeOK', StepsFit, ScopeInv, OneSided, WatchScope, UNCHANGED accessVars,
         UNCHANGED requestVars \/ \E r \in Request : RemoveOne(r), NEW q \in Request
  PROVE  ScopeOf(q)'
<1>1. ScopeOf(q) /\ ScopeTypeOK
  BY DEF ScopeInv
<1>2. \/ step'[q] = step[q] /\ answer'[q] = answer[q]
      \/ step[q] = "handle" /\ step'[q] = "done" /\ Kind(q) = "removeFactory"
  BY DEF requestVars, RemoveOne, Emit, Answer, StepsFit
<1>3. CASE Reading(q)
  BY <1>1, <1>2, <1>3, Crossing DEF Reading
<1>4. CASE ~Reading(q)
  <2>1. /\ accessible'[q] = accessible[q] /\ crossed'[q] = crossed[q]
        /\ always'[q] = always[q] /\ ever'[q] = ever[q]
        /\ allScope'[q] = allScope[q] /\ widened'[q] = widened[q] /\ shown'[q] = shown[q]
    BY <1>1, <1>4 DEF WatchScope, accessVars, ScopeTypeOK
  <2>2. ~Reading(q)'
    BY <1>2, <1>4 DEF Reading, Kind
  <2>3. Listed(q)' => Listed(q)
    BY <1>2 DEF Listed, Kind, Lists
  <2> QED
    BY <1>1, <1>2, <2>1, <2>2, <2>3 DEF ScopeOf, Right
<1> QED
  BY <1>3, <1>4

\* Any other step that reads nothing keeps it too.
LEMMA StillKeeps ==
  ASSUME StoreTypeOK, StoreTypeOK', StepsFit, AccessTypeOK, pending \subseteq Work, ScopeInv,
         [AdminNext]_adminVars, ScopeSame, UNCHANGED <<scopeVars, seen>>, \A r \in Request : ~ScopeStep(r), NEW q \in Request
  PROVE  ScopeOf(q)'
<1>1. ScopeOf(q) /\ ScopeTypeOK
  BY DEF ScopeInv
<1>2. /\ accessible' = accessible /\ seen' = seen /\ always' = always /\ ever' = ever
      /\ allScope' = allScope /\ widened' = widened /\ crossed' = crossed
  BY DEF scopeVars, scopeHistory
<1>3. step'[q] \in {"guard", "handle"} => step[q] \in {"guard", "handle"}
  <2> SUFFICES ASSUME step'[q] \in {"guard", "handle"}, step'[q] # step[q]
               PROVE  step[q] = "guard"
    OBVIOUS
  <2>1. ~Seed(q)
    BY SeedGoes
  <2> QED
    BY <2>1, Enters DEF Guard
<1>4. ASSUME Reading(q)'
      PROVE  step'[q] = step[q] /\ Reading(q)
  <2> SUFFICES ASSUME step'[q] # step[q]
               PROVE  FALSE
    BY <1>4 DEF Reading, Kind
  <2>1. step'[q] \in {"read", "readValves"}
    BY <1>4 DEF Reading
  <2>2. ~Seed(q)
    BY <2>1, SeedGoes
  <2> QED
    BY <2>1, <2>2, Enters DEF ScopeStep
<1>5. Reading(q)' => Would(q)' = Would(q) /\ Visible(q)' = Visible(q) /\ (HasAll(q)' <=> HasAll(q))
  <2> SUFFICES ASSUME Reading(q)'
               PROVE  Would(q)' = Would(q)
    BY ScopeStays
  <2>1. step'[q] = step[q]
    BY <1>4
  <2>2. Live(factories)' = Live(factories) /\ Created(Ask[q].by)' = Created(Ask[q].by)
    BY ScopeStays
  <2>3. OfRoles(seen[q].roles)' = OfRoles(seen[q].roles)
    <3>1. PICK xs : xs = seen[q].roles
      OBVIOUS
    <3>2. OfRoles(xs)' = OfRoles(xs)
      BY ScopeStays
    <3> QED
      BY <1>2, <3>1, <3>2 DEF OfRoles
  <2>4. Found(q)' = Found(q)
    BY <1>2, <2>2, <2>3 DEF Found, Kind
  <2> QED
    BY <1>2, <2>1, <2>2, <2>4 DEF Would
<1>6. Reading(q)' /\ Fresh(q) => Fresh(q)'
  BY <1>2, <1>4, <1>5 DEF Fresh, ScopeSame
<1>7. answer'[q] = "ok" => step'[q] = "done"
  BY <1>1, Answered, DoneStays DEF ScopeOf
<1>8. ASSUME Listed(q)'
      PROVE  Listed(q) /\ shown'[q] = shown[q]
  <2>1. Kind(q) \in Lists \ {"menus"} /\ answer'[q] = "ok"
    BY <1>8 DEF Listed, Kind
  <2>2. answer[q] = "ok"
    BY <2>1, Answered DEF ScopeStep, ReadMenus, Put, Lists, StepsFit, Fits
  <2>3. \A r \in Request : ReadMenus(r) => r # q
    BY <2>1 DEF ReadMenus
  <2>4. \A r \in Request : ReadMenus(r) => shown'[q] = shown[q]
    BY <2>3 DEF ReadMenus, AccessTypeOK
  <2>5. shown'[q] = shown[q]
    BY <2>4, Readers DEF ScopeStep, accessVars
  <2> QED
    BY <2>1, <2>2, <2>5 DEF Listed
<1> QED
  BY <1>1, <1>2, <1>3, <1>4, <1>5, <1>6, <1>7, <1>8, ScopeStays DEF ScopeOf, Right

\* The reads of a list.
LEMMA ReadsKeep ==
  ASSUME StoreTypeOK, StoreTypeOK', StepsFit, AccessTypeOK, ScopeInv, NEW r \in Request, ScopeStep(r)
  PROVE  ScopeOf(r)'
<1>1. ScopeOf(r) /\ ScopeTypeOK
  BY DEF ScopeInv
<1>2. ScopeSame
  BY DEF ScopeSame, RolesSame, ScopeStep, ReadScope, ReadUser, ReadFactories, ReadIds, ReadValves, adminTables
<1>3. /\ Live(factories)' = Live(factories) /\ Visible(r)' = Visible(r) /\ (HasAll(r)' <=> HasAll(r))
      /\ \A xs : OfRoles(xs)' = OfRoles(xs)
      /\ \A v : Created(v)' = Created(v)
  BY <1>2, ScopeStays
<1>4. Visible(r) \subseteq Live(factories)
  BY VisibleLive
<1>5. \A xs : OfRoles(xs) \subseteq Live(factories)
  BY OfRolesHas DEF StoreTypeOK, JoinsLive, Joined
<1>6. \A xs : OfRoles(xs) # None
  BY ScopeTypes, AdminAssumption
<1>7. CASE ReadFactories(r)
  <2>1. /\ step[r] = "read" /\ Kind(r) \in {"tree", "list"} /\ step'[r] = "done" /\ answer'[r] = "ok"
        /\ shown'[r] = Found(r) /\ UNCHANGED scopeVars
    BY <1>7 DEF ReadFactories, Answer, StepsFit, AccessTypeOK
  <2>2. Right(r, Found(r))
    BY <1>1, <2>1 DEF ScopeOf, Reading, Lists, Would
  <2> QED
    BY <2>1, <2>2 DEF ScopeOf, Reading, Right, scopeVars, scopeHistory
<1>8. CASE ReadValves(r)
  <2>1. /\ step[r] = "readValves" /\ Kind(r) = "valves" /\ step'[r] = "done" /\ answer'[r] = "ok"
        /\ shown'[r] = Would(r) /\ UNCHANGED scopeVars
    BY <1>8 DEF ReadValves, Answer, StepsFit, Fits, AccessTypeOK, Would
  <2>2. Right(r, Would(r))
    BY <1>1, <2>1 DEF ScopeOf, Reading, Lists
  <2> QED
    BY <2>1, <2>2 DEF ScopeOf, Reading, Right, scopeVars, scopeHistory
<1>9. CASE ReadIds(r)
  <2>1. /\ step[r] = "read" /\ Kind(r) = "valves" /\ step'[r] = "readValves" /\ answer' = answer
        /\ accessible'[r] = IF accessible[r] = None THEN None ELSE OfRoles(seen[r].roles)
        /\ UNCHANGED <<accessVars, scopeHistory>>
    BY <1>1, <1>9 DEF ReadIds, Goto, StepsFit, ScopeTypeOK
  <2>2. Reading(r) /\ Right(r, Would(r))
    BY <1>1, <2>1 DEF ScopeOf, Reading, Lists
  <2>3. accessible'[r] = None <=> accessible[r] = None
    BY <1>6, <2>1
  <2>4. Would(r)' = Would(r)
    BY <1>3, <1>5, <2>1, <2>3 DEF Would, Found
  <2>5. Fresh(r) => Fresh(r)'
    BY <1>2, <1>3, <2>1, <2>3 DEF Fresh, ScopeSame, Visible, scopeHistory
  <2>6. answer[r] # "ok"
    BY <1>1, <2>1 DEF ScopeOf
  <2> QED
    BY <1>1, <1>3, <2>1, <2>2, <2>3, <2>4, <2>5, <2>6
    DEF ScopeOf, Reading, Right, Listed, scopeHistory
<1>10. CASE ReadScope(r)
  <2> DEFINE u == Ask[r].by
  <2>1. /\ step[r] = "handle" /\ Kind(r) \in Lists /\ crossed'[r] = 0 /\ answer[r] # "ok"
        /\ seen'[r] = users[u] /\ accessible[r] # None
    BY <1>1, <1>10 DEF ReadScope, ReadUser, ScopeOf, AccessTypeOK
  <2>2. CASE users[u] = None
    <3>1. step'[r] = "done" /\ answer'[r] = "failed"
      BY <1>10, <2>2 DEF ReadScope, ReadUser, Answer, StepsFit
    <3> QED
      BY <3>1 DEF ScopeOf, Reading, Listed
  <2>3. CASE users[u] # None
    <3>1. step'[r] = "read" /\ answer' = answer
      BY <1>10, <2>3 DEF ReadScope, ReadUser, Goto, StepsFit
    <3>2. always'[r] = Visible(r) /\ ever'[r] = Visible(r) /\ (allScope'[r] <=> HasAll(r))
      BY <1>1, <1>10 DEF ReadScope, ScopeTypeOK
    <3>3. accessible'[r] = None <=> HasAll(r)
      BY <1>1, <1>10, <2>1, <2>3, HasAllIs DEF ReadScope, ScopeTypeOK
    <3>4. Fresh(r)'
      BY <1>2, <1>3, <2>1, <2>3, <3>1, <3>2, <3>3 DEF Fresh, ScopeSame
    <3>5. Would(r)' = Visible(r)
      BY <1>2, <1>3, <2>1, <2>3, <3>1, <3>3 DEF ScopeSame, Would, Found, Visible
    <3> QED
      BY <1>3, <1>4, <2>1, <3>1, <3>2, <3>3, <3>4, <3>5 DEF ScopeOf, Reading, Right, Listed
  <2> QED
    BY <2>2, <2>3
<1> QED
  BY <1>7, <1>8, <1>9, <1>10 DEF ScopeStep

\* The reads of one list are nothing to the others.
LEMMA OthersKeep ==
  ASSUME StoreTypeOK, StoreTypeOK', StepsFit, AccessTypeOK, ScopeInv,
         NEW r \in Request, ScopeStep(r), NEW q \in Request \ {r}
  PROVE  ScopeOf(q)'
<1>1. ScopeOf(q) /\ ScopeTypeOK
  BY DEF ScopeInv
<1>2. /\ step'[q] = step[q] /\ answer'[q] = answer[q] /\ seen'[q] = seen[q] /\ shown'[q] = shown[q]
      /\ accessible'[q] = accessible[q] /\ always'[q] = always[q] /\ ever'[q] = ever[q]
      /\ allScope'[q] = allScope[q] /\ widened'[q] = widened[q] /\ crossed'[q] = crossed[q]
  <2>1. CASE ReadScope(r)
    BY <1>1, <2>1 DEF ReadScope, ReadUser, Goto, Answer, StepsFit, AccessTypeOK, ScopeTypeOK
  <2>2. CASE ReadFactories(r)
    BY <1>1, <2>2 DEF ReadFactories, Answer, StepsFit, AccessTypeOK, scopeVars, scopeHistory
  <2>3. CASE ReadIds(r)
    BY <1>1, <2>3 DEF ReadIds, Goto, StepsFit, ScopeTypeOK, accessVars, scopeHistory
  <2>4. CASE ReadValves(r)
    BY <1>1, <2>4 DEF ReadValves, Answer, StepsFit, AccessTypeOK, scopeVars, scopeHistory
  <2> QED
    BY <2>1, <2>2, <2>3, <2>4 DEF ScopeStep
<1>3. ScopeSame
  BY DEF ScopeSame, RolesSame, ScopeStep, ReadScope, ReadUser, ReadFactories, ReadIds, ReadValves, adminTables
<1>4. /\ Live(factories)' = Live(factories) /\ Visible(q)' = Visible(q) /\ (HasAll(q)' <=> HasAll(q))
      /\ Created(Ask[q].by)' = Created(Ask[q].by)
  BY <1>3, ScopeStays
<1>5. OfRoles(seen[q].roles)' = OfRoles(seen[q].roles)
  <2>1. PICK xs : xs = seen[q].roles
    OBVIOUS
  <2>2. OfRoles(xs)' = OfRoles(xs)
    BY <1>3, ScopeStays
  <2> QED
    BY <1>2, <2>1, <2>2 DEF OfRoles
<1>6. Would(q)' = Would(q)
  BY <1>2, <1>4, <1>5 DEF Would, Found, Kind
<1>7. Fresh(q)' <=> Fresh(q)
  BY <1>2, <1>3, <1>4 DEF Fresh, ScopeSame
<1> QED
  BY <1>1, <1>2, <1>4, <1>6, <1>7 DEF ScopeOf, Reading, Right, Listed, Kind

\* One step per kind of statement: a read of the request itself, or a statement
\* of somebody else between its reads.
LEMMA ScopeKeeps ==
  ASSUME AdminInv, ScopeInv, [AdminNext]_adminVars
  PROVE  ScopeInv'
<1>1. StoreTypeOK /\ StepsFit /\ AccessTypeOK /\ pending \subseteq Work
  BY DEF AdminInv, AdminTypeOK, WorkTypeOK
<1>2. StoreTypeOK'
  BY <1>1, StoreKeeps
<1>3. ScopeTypeOK'
  BY <1>1, <1>2, ScopeTypesKeep DEF ScopeInv
<1>4. ASSUME NEW q \in Request
      PROVE  ScopeOf(q)'
  <2>1. CASE Edit /\ WatchScope /\ UNCHANGED accessVars
    <3>1. OneSided /\ UNCHANGED requestVars
      BY <1>1, <2>1, EditSided DEF Edit
    <3> QED
      BY <1>1, <1>2, <2>1, <3>1, WatchedKeeps
  <2>2. CASE \E r \in Request : RemoveOne(r) /\ WatchScope /\ UNCHANGED accessVars
    <3>1. OneSided
      BY <1>1, <2>2, FamilySided DEF RemoveOne
    <3> QED
      BY <1>1, <1>2, <2>2, <3>1, WatchedKeeps
  <2>3. CASE \E r \in Request : ScopeStep(r)
    BY <1>1, <1>2, <2>3, ReadsKeep, OthersKeep
  <2>4. CASE /\ ScopeSame /\ UNCHANGED <<scopeVars, seen>>
             /\ \A r \in Request : ~ScopeStep(r)
    BY <1>1, <1>2, <2>4, StillKeeps
  <2> QED
    BY <1>1, <2>1, <2>2, <2>3, <2>4, ScopeWriters
<1> QED
  BY <1>3, <1>4 DEF ScopeInv

\* The reads of a list, one statement each, and what administrators do between
\* them: types, what has been read before and after a statement, and what the
\* list shows, for any roles and factories.
LEMMA ScopeInvHolds == AdminSpec => []ScopeInv
<1>1. AdminInit => ScopeInv
  <2> SUFFICES ASSUME AdminInit
               PROVE  ScopeInv
    OBVIOUS
  <2>1. ScopeTypeOK
    BY DEF AdminInit, ScopeInit, ScopeTypeOK
  <2>2. ASSUME NEW r \in Request
        PROVE  /\ step[r] \in {"guard", "handle"} /\ answer[r] = None
               /\ accessible[r] = {} /\ crossed[r] = 0
    BY DEF AdminInit, InitStore, FirstStep, ScopeInit
  <2>3. \A r \in Request : ScopeOf(r)
    BY <2>2, AdminAssumption DEF ScopeOf, Reading, Listed
  <2> QED
    BY <2>1, <2>3 DEF ScopeInv
<1>2. AdminInv /\ ScopeInv /\ [AdminNext]_adminVars => ScopeInv'
  BY ScopeKeeps
<1> QED
  BY <1>1, <1>2, AdminInvHolds, PTL DEF AdminSpec

\* findAll, findAllList and the valves' list read the user, its roles, the
\* factories and the valves by separate statements: with at most one
\* administrator's statement between them, a list shows no factory the user
\* could not see at some time during the request, and misses none it could see
\* throughout, unless that statement gave it the scope of all.
THEOREM ListsWithinScope == AdminSpec => []ListWithinScope
<1>1. ScopeInv => ListWithinScope
  BY DEF ScopeInv, ScopeOf, Right, ListWithinScope
<1> QED
  BY <1>1, ScopeInvHolds, PTL

\* grantAllFactories: a user that holds such a role throughout its request is
\* shown every factory that exists throughout, however many statements fall
\* between the reads.
THEOREM GrantAllSees == AdminSpec => []GrantAllSeesAll
<1>1. ScopeInv => GrantAllSeesAll
  BY DEF ScopeInv, ScopeOf, Right, GrantAllSeesAll
<1> QED
  BY <1>1, ScopeInvHolds, PTL

---------------------------------------------------------------------------
(* What a reset leaves *)

\* Some reset is before its create of the k-th directory.
Coming(k) == \E r \in Request, j \in DOMAIN SeedStep : j <= k /\ step[r] = SeedStep[j]

\* The rows of the k-th create stand, in their order, from id n on.
Holds(k, n) ==
  /\ n \in Nat \ {0}
  /\ n + Len(Statements[k]) <= next.menu /\ n + Len(Statements[k]) - 1 \in MenuId
  /\ \A i \in 1..Len(Statements[k]) : menus[n + i - 1] = Statements[k][i]

Apart(k, m, l, n) == m + Len(Statements[k]) <= n \/ n + Len(Statements[l]) <= m

\* Each directory is still to come, or stands in a place of its own.
Standing(at) ==
  \A k \in DOMAIN SeedStep : Coming(k) \/
    /\ Holds(k, at[k])
    /\ \A l \in DOMAIN SeedStep \ {k} : Coming(l) \/ Apart(k, at[k], l, at[l])

SeedInv ==
  /\ wiped \in BOOLEAN /\ broken \in BOOLEAN
  /\ wiped /\ ~broken => \E at \in [DOMAIN SeedStep -> Nat] : Standing(at)

\* A reset that is under way goes on by its own creates, unless it is cut short.
LEMMA SeedStays ==
  ASSUME StepsFit, [AdminNext]_adminVars, NEW q \in Request, NEW k \in DOMAIN SeedStep,
         step[q] = SeedStep[k], ~Seed(q), step'[q] # step[q]
  PROVE  broken'
<1>1. step[q] \in {"home", "project", "system", "monitor"} /\ Resetting(q)
  BY SeedSteps DEF Resetting
<1>2. \A r, s : Goto(r, s) => r = q
  BY DEF Goto, StepsFit
<1>3. \A r, a : Answer(r, a) => r = q
  BY DEF Answer, StepsFit
<1>4. ~Edit /\ ~Tick /\ ~UNCHANGED adminVars
  BY DEF Edit, Tick, adminVars, requestVars
<1>5. \A w : ~Strip(w) /\ ~Log(w)
  BY DEF Strip, Log, requestVars
<1>6. ASSUME NEW h, Stop(h)
      PROVE  broken'
  <2>1. q \in Serving(h)
    BY <1>6 DEF Stop, Die
  <2> QED
    BY <1>1, <1>6, <2>1 DEF Stop
<1>7. ASSUME NEW r \in Request, AccessStep(r)
      PROVE  broken'
  <2>1. ~Guard(r) /\ ~ReadMenus(r) /\ ~Wipe(r)
    BY <1>1, <1>2, <1>3 DEF Guard, ReadMenus, Wipe
  <2>2. Seed(r) => r = q
    BY <1>2, <1>3 DEF Seed, AfterSeed
  <2>3. FailStatement(r) => broken'
    BY <1>1, <1>3 DEF FailStatement
  <2> QED
    BY <1>7, <2>1, <2>2, <2>3 DEF AccessStep
<1>8. \A r \in Request : ~ScopeStep(r)
  BY <1>1, <1>2, <1>3 DEF ScopeStep, ReadScope, ReadUser, ReadFactories, ReadIds, ReadValves
<1>9. \A r \in Request : ~WorkStep(r) /\ ~RemoveOne(r)
  BY <1>1, <1>2, <1>3 DEF WorkStep, Clear, Create, RemoveOne, Emit, SignIn, SignedIn, ChooseName, Put
<1> QED
  BY <1>4, <1>5, <1>6, <1>7, <1>8, <1>9
  DEF AdminNext, EditTables, AdminStep, RemoveFactory, Settle, Reject

\* Nothing but a wipe takes rows away unseen, and nothing but a wipe or a create
\* adds any that matter.
LEMMA MenusStay ==
  ASSUME StoreTypeOK, SeedInv, [AdminNext]_adminVars, \A r \in Request : ~Wipe(r) /\ ~Seed(r), ~broken'
  PROVE  /\ ~broken /\ wiped' = wiped
         /\ \A m \in Live(menus) : menus'[m] = menus[m]
         /\ next'.menu \in Nat /\ next'.menu >= next.menu
<1>1. next \in [menu : Nat \ {0}, task : Nat \ {0}, pdf : Nat \ {0}]
  BY DEF StoreTypeOK
<1> DEFINE Same == ~broken /\ wiped' = wiped /\ menus' = menus /\ next'.menu = next.menu
<1>2. ASSUME WatchGrants
      PROVE  ~broken /\ wiped' = wiped /\ \A m \in Live(menus) : menus'[m] = menus[m]
  BY <1>2 DEF WatchGrants, SeedInv
<1>3. Edit => next'.menu \in Nat /\ next'.menu >= next.menu
  <2>1. EditMenus => next'.menu \in Nat /\ next'.menu >= next.menu
    <3>1. ASSUME NEW t \in {"C", "M", "B"}, NEW area, CreateMenu(t, area)
          PROVE  next'.menu \in Nat /\ next'.menu >= next.menu
      <4>1. PICK ps : next' = [next EXCEPT !.menu = @ + Len(Rows(t, ps))]
        BY <3>1 DEF CreateMenu
      <4>2. Len(Rows(t, ps)) \in Nat
        BY RowsType
      <4>3. next'.menu = next.menu + Len(Rows(t, ps))
        BY <1>1, <4>1
      <4> QED
        BY <1>1, <4>2, <4>3
    <3>2. \A m, row : UpdateMenu(m, row) \/ RemoveMenu(m) => next' = next
      BY DEF UpdateMenu, RemoveMenu
    <3> QED
      BY <1>1, <3>1, <3>2 DEF EditMenus
  <2>2. EditRoles \/ EditUsers \/ EditFactories => next' = next
    BY DEF EditRoles, CreateRole, UpdateRole, RemoveRole, EditUsers, CreateUser, UpdateUser, RemoveUser,
           EditFactories, CreateFactory, RemoveFamily
  <2>3. EditTasks => next'.menu = next.menu
    BY <1>1 DEF EditTasks, CreateTask, UpdateTask, RemoveTasks
  <2> QED
    BY <1>1, <2>1, <2>2, <2>3 DEF Edit
<1>4. ASSUME NEW r \in Request, AccessStep(r)
      PROVE  Same
  BY <1>4 DEF AccessStep, Guard, ReadMenus, FailStatement, adminTables, accessHistory, SeedInv
<1>5. ASSUME NEW r \in Request, ScopeStep(r)
      PROVE  Same
  BY <1>5 DEF ScopeStep, ReadScope, ReadUser, ReadFactories, ReadIds, ReadValves, adminTables, accessHistory
<1>6. ASSUME NEW r \in Request, WorkStep(r), UNCHANGED accessHistory
      PROVE  Same
  BY <1>1, <1>6 DEF WorkStep, Clear, Create, CreateTask, SignIn, SignedIn, ChooseName, Put, adminTables, accessHistory
<1>7. ASSUME NEW r \in Request, RemoveOne(r)
      PROVE  next' = next
  BY <1>7 DEF RemoveOne, RemoveFamily
<1>8. ASSUME NEW h, Stop(h)
      PROVE  Same
  BY <1>8 DEF Stop, Die, adminTables, SeedInv
<1>9. ASSUME NEW w, Strip(w) \/ Log(w), UNCHANGED accessHistory
      PROVE  Same
  BY <1>9 DEF Strip, Log, adminTables, accessHistory
<1>10. (Tick /\ UNCHANGED accessHistory) \/ UNCHANGED adminVars => Same
  BY DEF Tick, adminTables, accessHistory, adminVars
<1>11. Same \/ (WatchGrants /\ (Edit \/ \E r \in Request : RemoveOne(r)))
  BY <1>4, <1>5, <1>6, <1>8, <1>9, <1>10
  DEF AdminNext, EditTables, AdminStep, RemoveFactory, Settle, Reject
<1> QED
  BY <1>1, <1>2, <1>3, <1>7, <1>11

\* The two histories are truth values.
LEMMA FlagTypes ==
  ASSUME SeedInv, [AdminNext]_adminVars
  PROVE  wiped' \in BOOLEAN /\ broken' \in BOOLEAN
<1> DEFINE FlagsTyped == wiped' \in BOOLEAN /\ broken' \in BOOLEAN
<1>1. wiped \in BOOLEAN /\ broken \in BOOLEAN
  BY DEF SeedInv
<1>2. UNCHANGED accessHistory => FlagsTyped
  BY <1>1 DEF accessHistory
<1>3. WatchGrants => FlagsTyped
  BY <1>1 DEF WatchGrants
<1>4. ASSUME NEW r \in Request, AccessStep(r)
      PROVE  FlagsTyped
  <2>1. Guard(r) \/ ReadMenus(r) \/ Seed(r) => UNCHANGED accessHistory
    BY DEF Guard, ReadMenus, Seed
  <2>2. Wipe(r) => FlagsTyped
    BY <1>1 DEF Wipe
  <2>3. FailStatement(r) => FlagsTyped
    BY <1>1 DEF FailStatement
  <2> QED
    BY <1>2, <1>4, <2>1, <2>2, <2>3 DEF AccessStep
<1>5. ASSUME NEW r \in Request, ScopeStep(r)
      PROVE  UNCHANGED accessHistory
  BY <1>5 DEF ScopeStep, ReadScope, ReadUser, ReadFactories, ReadIds, ReadValves
<1>6. \A h : Stop(h) => FlagsTyped
  BY <1>1 DEF Stop
<1>7. UNCHANGED adminVars => UNCHANGED accessHistory
  BY DEF adminVars
<1> QED
  BY <1>2, <1>3, <1>4, <1>5, <1>6, <1>7
  DEF AdminNext, EditTables, AdminStep, RemoveFactory, Settle, Reject

\* Rows that stand go on standing while the menus there are stay and the next
\* id grows.
LEMMA HoldsStays ==
  ASSUME StoreTypeOK, NEW k \in DOMAIN SeedStep, NEW n, Holds(k, n),
         \A m \in Live(menus) : m < next.menu => menus'[m] = menus[m],
         next.menu \in Nat, next'.menu \in Nat, next'.menu >= next.menu
  PROVE  Holds(k, n)'
<1> DEFINE len == Len(Statements[k])
<1>1. len \in Nat \ {0} /\ \A i \in 1..len : Statements[k][i] # None
  <2>1. Statements[k] \in Seq(MenuRow) /\ len \in Nat \ {0}
    BY StatementTypes
  <2>2. \A i \in 1..len : Statements[k][i] \in MenuRow
    BY <2>1
  <2> QED
    BY <2>1, <2>2, AdminAssumption
<1>2. n \in Nat \ {0} /\ n + len <= next.menu /\ n + len - 1 \in MenuId
      /\ \A i \in 1..len : menus[n + i - 1] = Statements[k][i]
  BY DEF Holds
<1> HIDE DEF len
<1>3. MenuId = 1..MaxMenu /\ MaxMenu \in Nat /\ DOMAIN menus = MenuId
  BY AdminAssumption DEF MenuId, StoreTypeOK
<1>4. ASSUME NEW i \in 1..len
      PROVE  menus'[n + i - 1] = Statements[k][i]
  <2>1. n + i - 1 \in MenuId /\ n + i - 1 < next.menu
    BY <1>1, <1>2, <1>3
  <2>2. menus[n + i - 1] # None
    BY <1>1, <1>2
  <2> QED
    BY <1>2, <1>3, <2>1, <2>2 DEF Live
<1>5. n + len <= next'.menu
  BY <1>1, <1>2
<1> QED
  BY <1>2, <1>4, <1>5 DEF Holds, len

\* A create puts its rows on new ids.
LEMMA SeededHolds ==
  ASSUME StoreTypeOK, NEW k \in DOMAIN SeedStep, NEW n, n = next.menu,
         next.menu + Len(Statements[k]) - 1 \in MenuId,
         menus' = Inserted(menus, next.menu, Statements[k]),
         next'.menu = next.menu + Len(Statements[k])
  PROVE  /\ Holds(k, n)'
         /\ \A m \in Live(menus) : m < next.menu => menus'[m] = menus[m]
<1> DEFINE len == Len(Statements[k])
<1>1. len \in Nat \ {0} /\ next.menu \in Nat \ {0} /\ DOMAIN menus = 1..MaxMenu /\ MaxMenu \in Nat
  BY StatementTypes, AdminAssumption DEF StoreTypeOK, MenuId
<1>2. \A i \in 1..MaxMenu :
        menus'[i] = IF i \in next.menu..(next.menu + len - 1) THEN Statements[k][i - next.menu + 1] ELSE menus[i]
  BY <1>1 DEF Inserted
<1> HIDE DEF len
<1>3. next.menu + len - 1 \in 1..MaxMenu
  BY DEF MenuId, len
<1>4. \A i \in 1..len : menus'[next.menu + i - 1] = Statements[k][i]
  <2> SUFFICES ASSUME NEW i \in 1..len
               PROVE  menus'[next.menu + i - 1] = Statements[k][i]
    OBVIOUS
  <2>1. next.menu + i - 1 \in 1..MaxMenu /\ next.menu + i - 1 \in next.menu..(next.menu + len - 1)
    BY <1>1, <1>3
  <2>2. (next.menu + i - 1) - next.menu + 1 = i
    BY <1>1
  <2> QED
    BY <1>2, <2>1, <2>2
<1>5. Holds(k, n)'
  BY <1>1, <1>3, <1>4 DEF Holds, MenuId, len
<1>6. \A m \in Live(menus) : m < next.menu => menus'[m] = menus[m]
  BY <1>1, <1>2 DEF Live
<1> QED
  BY <1>5, <1>6

\* A create gives its rows new ids, so they stand apart from the older ones; what
\* is deleted is deleted by a wipe, and the wipe's own creates are to come.
LEMMA SeedInvKeeps ==
  ASSUME AdminInv, SeedInv, [AdminNext]_adminVars
  PROVE  SeedInv'
<1>1. /\ StoreTypeOK /\ StepsFit /\ pending \subseteq Work
      /\ next.menu \in Nat \ {0} /\ next'.menu \in Nat \ {0}
      /\ wiped' \in BOOLEAN /\ broken' \in BOOLEAN
  BY FlagTypes, StoreKeeps DEF AdminInv, AdminTypeOK, StoreTypeOK, WorkTypeOK
<1>2. DOMAIN SeedStep = 1..4 /\ \A i, j \in 1..4 : SeedStep[i] = SeedStep[j] => i = j
  BY DEF SeedStep
<1> SUFFICES ASSUME wiped', ~broken'
             PROVE  \E at \in [DOMAIN SeedStep -> Nat] : Standing(at)'
  BY <1>1 DEF SeedInv
<1>3. CASE \E r \in Request : Wipe(r)
  <2>1. PICK r \in Request : step'[r] = SeedStep[1]
    BY <1>1, <1>3 DEF Wipe, Goto, StepsFit
  <2>2. \A k \in DOMAIN SeedStep : Coming(k)'
    BY <1>2, <2>1 DEF Coming
  <2>3. \A at : Standing(at)'
    BY <2>2 DEF Standing
  <2>4. [k \in DOMAIN SeedStep |-> 0] \in [DOMAIN SeedStep -> Nat]
    OBVIOUS
  <2> QED
    BY <2>3, <2>4
<1>4. ASSUME NEW r \in Request, Seed(r)
      PROVE  \E at \in [DOMAIN SeedStep -> Nat] : Standing(at)'
  <2>1. PICK k \in DOMAIN SeedStep :
          /\ step[r] = SeedStep[k]
          /\ next.menu + Len(Statements[k]) - 1 \in MenuId
          /\ menus' = Inserted(menus, next.menu, Statements[k])
          /\ next' = [next EXCEPT !.menu = @ + Len(Statements[k])]
          /\ AfterSeed(r, k)
          /\ UNCHANGED accessHistory
    BY <1>4 DEF Seed
  <2>2. PICK n : n = next.menu
    OBVIOUS
  <2>3. next'.menu = next.menu + Len(Statements[k]) /\ Len(Statements[k]) \in Nat \ {0}
    BY <2>1, StatementTypes DEF StoreTypeOK, AdminInv, AdminTypeOK
  <2>4. /\ Holds(k, n)'
        /\ \A m \in Live(menus) : m < next.menu => menus'[m] = menus[m]
    BY <1>1, <2>1, <2>2, <2>3, SeededHolds
  <2>5. PICK old \in [DOMAIN SeedStep -> Nat] : Standing(old)
    BY <2>1 DEF SeedInv, accessHistory
  <2>6. ASSUME NEW l \in DOMAIN SeedStep \ {k}, Coming(l)
        PROVE  Coming(l)'
    <3>1. PICK q \in Request, j \in DOMAIN SeedStep : j <= l /\ step[q] = SeedStep[j]
      BY <2>6 DEF Coming
    <3>2. CASE q # r
      <4>1. step'[q] = step[q]
        BY <1>1, <2>1, <3>2 DEF AfterSeed, Goto, Answer, StepsFit
      <4> QED
        BY <3>1, <4>1 DEF Coming
    <3>3. CASE q = r
      <4>1. j = k /\ k + 1 \in DOMAIN SeedStep /\ k + 1 <= l
        BY <1>2, <2>1, <3>1, <3>3
      <4>2. step'[r] = SeedStep[k + 1]
        BY <1>1, <1>2, <2>1, <4>1, SeedSteps DEF AfterSeed, Goto, StepsFit
      <4> QED
        BY <4>1, <4>2 DEF Coming
    <3> QED
      BY <3>2, <3>3
  <2>7. ASSUME NEW l \in DOMAIN SeedStep \ {k}, ~Coming(l)'
        PROVE  /\ Holds(l, old[l]) /\ Holds(l, old[l])' /\ ~Coming(l)
               /\ old[l] + Len(Statements[l]) <= n
    <3>1. ~Coming(l)
      BY <2>6, <2>7
    <3>2. Holds(l, old[l])
      BY <2>5, <3>1 DEF Standing
    <3>3. Holds(l, old[l])'
      BY <1>1, <2>3, <2>4, <3>2, HoldsStays
    <3> QED
      BY <2>2, <3>1, <3>2, <3>3 DEF Holds
  <2> DEFINE at == [old EXCEPT ![k] = n]
  <2>8. at \in [DOMAIN SeedStep -> Nat] /\ at[k] = n /\ \A l \in DOMAIN SeedStep \ {k} : at[l] = old[l]
    BY <1>1, <2>2
  <2> HIDE DEF at
  <2>9. Standing(at)'
    <3>1. ASSUME NEW i \in DOMAIN SeedStep, ~Coming(i)'
          PROVE  Holds(i, at[i])'
      BY <2>4, <2>7, <2>8, <3>1
    <3>2. ASSUME NEW i \in DOMAIN SeedStep, ~Coming(i)', NEW l \in DOMAIN SeedStep \ {i}, ~Coming(l)'
          PROVE  Apart(i, at[i], l, at[l])
      <4>1. CASE i = k
        BY <2>7, <2>8, <3>2, <4>1 DEF Apart
      <4>2. CASE l = k
        BY <2>7, <2>8, <3>2, <4>2 DEF Apart
      <4>3. CASE i # k /\ l # k
        <5>1. ~Coming(i) /\ ~Coming(l)
          BY <2>7, <3>2, <4>3
        <5>2. Apart(i, old[i], l, old[l])
          BY <2>5, <3>2, <5>1 DEF Standing
        <5> QED
          BY <2>8, <4>3, <5>2
      <4> QED
        BY <4>1, <4>2, <4>3
    <3> QED
      BY <3>1, <3>2 DEF Standing, Apart
  <2> QED
    BY <2>8, <2>9
<1>5. CASE \A r \in Request : ~Wipe(r) /\ ~Seed(r)
  <2>1. /\ ~broken /\ wiped' = wiped
        /\ \A m \in Live(menus) : menus'[m] = menus[m]
        /\ next'.menu >= next.menu
    BY <1>1, <1>5, MenusStay
  <2>2. PICK at \in [DOMAIN SeedStep -> Nat] : Standing(at)
    BY <2>1 DEF SeedInv
  <2>3. ASSUME NEW k \in DOMAIN SeedStep, Coming(k)
        PROVE  Coming(k)'
    BY <1>1, <1>5, <2>3, SeedStays DEF Coming
  <2>4. \A k \in DOMAIN SeedStep : Holds(k, at[k]) => Holds(k, at[k])'
    BY <1>1, <2>1, HoldsStays
  <2>5. Standing(at)'
    BY <2>2, <2>3, <2>4 DEF Standing, Apart
  <2> QED
    BY <2>2, <2>5
<1> QED
  BY <1>3, <1>4, <1>5

\* Blocks that hold the rows of different creates have no row in common, so
\* that a row is there as often as there are creates it is part of.
LEMMA RowsCounted ==
  ASSUME StoreTypeOK, NEW at \in [DOMAIN SeedStep -> Nat], Standing(at),
         \A k \in DOMAIN SeedStep : ~Coming(k), NEW row
  PROVE  Cardinality({m \in Live(menus) : menus[m] = row})
           >= Cardinality({k \in DOMAIN Statements : row \in Range(Statements[k])})
<1> DEFINE T == {m \in Live(menus) : menus[m] = row}
           K == {k \in DOMAIN Statements : row \in Range(Statements[k])}
           place == [k \in K |-> CHOOSE i \in 1..Len(Statements[k]) : Statements[k][i] = row]
           f == [k \in K |-> at[k] + place[k] - 1]
<1>1. DOMAIN Statements = 1..4 /\ DOMAIN SeedStep = 1..4
  BY DEF Statements, SeedButtons, SeedStep
<1>2. ASSUME NEW k \in K
      PROVE  /\ k \in DOMAIN SeedStep /\ Holds(k, at[k])
             /\ place[k] \in 1..Len(Statements[k]) /\ Statements[k][place[k]] = row
             /\ Len(Statements[k]) \in Nat /\ row # None
  <2>1. k \in DOMAIN SeedStep
    BY <1>1
  <2>2. Statements[k] \in Seq(MenuRow) /\ Len(Statements[k]) \in Nat
    BY <2>1, StatementTypes
  <2>3. \E i \in 1..Len(Statements[k]) : Statements[k][i] = row
    BY <2>2 DEF Range
  <2>4. place[k] \in 1..Len(Statements[k]) /\ Statements[k][place[k]] = row
    BY <2>3
  <2>5. row # None
    BY <2>2, <2>4, AdminAssumption
  <2> QED
    BY <2>1, <2>2, <2>4, <2>5 DEF Standing
<1>3. DOMAIN menus = 1..MaxMenu /\ MaxMenu \in Nat
  BY AdminAssumption DEF StoreTypeOK, MenuId
<1>4. \A k \in K : f[k] = at[k] + place[k] - 1
  OBVIOUS
<1>5. IsFiniteSet(K)
  BY <1>1, FS_Interval, FS_Subset
<1>6. IsFiniteSet(T)
  <2>1. T \subseteq 1..MaxMenu
    BY <1>3 DEF Live
  <2> QED
    BY <1>3, <2>1, FS_Interval, FS_Subset
<1> HIDE DEF place, f
<1>7. f \in [K -> T]
  <2>1. ASSUME NEW k \in K
        PROVE  f[k] \in T
    <3>1. at[k] \in Nat \ {0} /\ at[k] + Len(Statements[k]) - 1 \in 1..MaxMenu
      BY <1>2 DEF Holds, MenuId
    <3>2. menus[at[k] + place[k] - 1] = row
      BY <1>2 DEF Holds
    <3>3. at[k] + place[k] - 1 \in 1..MaxMenu
      BY <1>2, <1>3, <3>1
    <3> QED
      BY <1>2, <1>3, <1>4, <3>2, <3>3 DEF Live
  <2> QED
    BY <2>1 DEF f
<1>8. ASSUME NEW k \in K, NEW l \in K, k # l
      PROVE  f[k] # f[l]
  <2>1. Apart(k, at[k], l, at[l])
    BY <1>2, <1>8 DEF Standing
  <2>2. at[k] \in Nat /\ at[l] \in Nat
    BY <1>2
  <2> QED
    BY <1>2, <1>4, <2>1, <2>2 DEF Apart
<1> HIDE DEF T, K
<1>9. Cardinality(T) \in Nat /\ Cardinality(K) \in Nat
  BY <1>5, <1>6, FS_CardinalityType
<1>10. ~(Cardinality(T) < Cardinality(K))
  BY <1>5, <1>6, <1>7, <1>8, FS_PigeonHole
<1>11. Cardinality(T) >= Cardinality(K)
  BY <1>9, <1>10
<1> QED
  BY <1>11 DEF T, K

\* MenuService.reset: five statements without a transaction, and several resets
\* may run beside each other.  Once they have ended, every built-in directory
\* and button is there, as often as the statements have it, unless a reset
\* was cut short or a menu was edited: what the last wipe deletes is still to
\* come from some reset or stands in a place of its own.
THEOREM BuiltInMenusStand == AdminSpec => []BuiltInMenusBack
<1>1. AdminInit => SeedInv
  BY DEF AdminInit, AccessInit, SeedInv
<1>2. AdminInv /\ SeedInv /\ [AdminNext]_adminVars => SeedInv'
  BY SeedInvKeeps
<1>3. AdminInv /\ SeedInv => BuiltInMenusBack
  <2> SUFFICES ASSUME AdminInv, SeedInv, wiped, ~broken, \A r \in Request : ~Resetting(r), NEW row
               PROVE  Cardinality({m \in Live(menus) : menus[m] = row})
                        >= Cardinality({k \in DOMAIN Statements : row \in Range(Statements[k])})
    BY DEF BuiltInMenusBack
  <2>1. PICK at \in [DOMAIN SeedStep -> Nat] : Standing(at)
    BY DEF SeedInv
  <2>2. \A k \in DOMAIN SeedStep : ~Coming(k)
    BY DEF Coming, Resetting
  <2> QED
    BY <2>1, <2>2, RowsCounted DEF AdminInv, AdminTypeOK
<1> QED
  BY <1>1, <1>2, <1>3, AdminInvHolds, PTL DEF AdminSpec
==============================================================================
