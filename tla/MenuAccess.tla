------------------------------ MODULE MenuAccess ------------------------------
(***************************************************************************)
(* Who may do what: PermissionsGuard in front of every route, the menus a    *)
(* user is shown, and MenuService.reset, which deletes all menus and creates *)
(* the built-in ones again, by five statements without a transaction.        *)
(***************************************************************************)
EXTENDS AdminStore

\* The four creates of a reset, each a directory with the buttons under it.
Statements == [k \in DOMAIN SeedButtons |-> Rows("C", SeedButtons[k])]

VARIABLES
  seen,     \* [Request -> the user row it read, or None]
  shown,    \* [Request -> the menu or factory ids it answers with]
  wiped,    \* history: some reset has deleted the menus
  granted,  \* history: the roles that were given a menu since the last wipe
  broken    \* history: a reset was cut short, or a menu was edited

accessVars    == <<seen, shown>>
accessHistory == <<wiped, granted, broken>>

\* The permission a route asks for; Absent where it has no @Permissions.
RoutePermission(kind) ==
  CASE kind \in {"tree", "list"} -> <<"project:factory", "query">>
    [] kind = "valves" -> <<"project:valve", "query">>
    [] kind = "reset" -> <<"system:menu", "create">>
    [] kind = "createTask" -> <<"project:analysisTask", "create">>
    [] kind = "removeFactory" -> <<"project:factory", "delete">>
    [] OTHER -> Absent

FirstStep(r) == IF RoutePermission(Kind(r)) = Absent THEN "handle" ELSE "guard"

AccessInit ==
  /\ seen = [r \in Request |-> None]
  /\ shown = [r \in Request |-> {}]
  /\ wiped = FALSE /\ granted = {} /\ broken = FALSE

---------------------------------------------------------------------------
(* The guard reads the user with the enabled buttons of its roles. *)

Buttons(u) ==
  {m \in Live(menus) : /\ menus[m].type = "B" /\ menus[m].status
                       /\ \E x \in users[u].roles : m \in roles[x].menus}

Permitted(r) ==
  LET u == Ask[r].by IN
  /\ users[u] # None
  /\ \/ users[u].isAdmin
     \/ RoutePermission(Kind(r)) \in {menus[m].permission : m \in Buttons(u)}

Guard(r) ==
  /\ step[r] = "guard"
  /\ \/ Permitted(r) /\ Goto(r, "handle")
     \/ ~Permitted(r) /\ Answer(r, "refused")
  /\ UNCHANGED <<adminTables, edits, accessVars, accessHistory>>

(* Every list reads the user and its roles first.  A user that was removed   *)
(* while its access token lives fails the request.                           *)

Lists == {"menus", "tree", "list", "valves"}

ReadUser(r) ==
  /\ step[r] = "handle" /\ Kind(r) \in Lists
  /\ seen' = [seen EXCEPT ![r] = users[Ask[r].by]]
  /\ \/ users[Ask[r].by] # None /\ Goto(r, "read")
     \/ users[Ask[r].by] = None /\ Answer(r, "failed")
  /\ UNCHANGED <<adminTables, edits, shown, accessHistory>>

(* MenuService.findAll: the menus, buttons left out, that are joined with a  *)
(* role the user had.                                                        *)

ReadMenus(r) ==
  /\ step[r] = "read" /\ Kind(r) = "menus"
  /\ shown' = [shown EXCEPT ![r] =
       {m \in Live(menus) : /\ menus[m].type # "B"
                            /\ \/ seen[r].isAdmin
                               \/ \E x \in seen[r].roles \cap Live(roles) : m \in roles[x].menus}]
  /\ Answer(r, "ok")
  /\ UNCHANGED <<adminTables, edits, seen, accessHistory>>

---------------------------------------------------------------------------
(* reset *)

\* The step before the k-th create.
SeedStep == <<"home", "project", "system", "monitor">>

AfterSeed(r, k) ==
  IF k = Len(SeedStep) THEN Answer(r, "ok") ELSE Goto(r, SeedStep[k + 1])

\* Mutant: TRUNCATE ... RESTART IDENTITY on the menus alone.
WipeRestarting(r) ==
  /\ step[r] = "handle" /\ Kind(r) = "reset"
  /\ menus' = Without(menus, MenuId)
  /\ next' = [next EXCEPT !.menu = 1]
  /\ Goto(r, SeedStep[1])
  /\ wiped' = TRUE /\ granted' = {}
  /\ UNCHANGED <<users, roles, factories, tasks, pdfs, edits, accessVars, broken>>

Wipe(r) ==
  /\ step[r] = "handle" /\ Kind(r) = "reset"
  /\ DeleteMenus(MenuId)
  /\ Goto(r, SeedStep[1])
  /\ wiped' = TRUE /\ granted' = {}
  /\ UNCHANGED <<users, factories, tasks, pdfs, next, edits, accessVars, broken>>

\* Mutant: a statement seeds only a table that holds no other reset's rows.
SeedIfEmpty(r) ==
  \E k \in DOMAIN SeedStep :
    /\ step[r] = SeedStep[k]
    /\ next.menu + Len(Statements[k]) - 1 \in MenuId
    /\ \/ /\ k > 1 \/ Live(menus) = {}
          /\ menus' = Inserted(menus, next.menu, Statements[k])
          /\ next' = [next EXCEPT !.menu = @ + Len(Statements[k])]
       \/ k = 1 /\ Live(menus) # {} /\ UNCHANGED <<menus, next>>
    /\ AfterSeed(r, k)
    /\ UNCHANGED <<users, roles, factories, tasks, pdfs, edits, accessVars, accessHistory>>

Seed(r) ==
  \E k \in DOMAIN SeedStep :
    /\ step[r] = SeedStep[k]
    /\ next.menu + Len(Statements[k]) - 1 \in MenuId
    /\ menus' = Inserted(menus, next.menu, Statements[k])
    /\ next' = [next EXCEPT !.menu = @ + Len(Statements[k])]
    /\ AfterSeed(r, k)
    /\ UNCHANGED <<users, roles, factories, tasks, pdfs, edits, accessVars, accessHistory>>

Resetting(r) == \E k \in DOMAIN SeedStep : step[r] = SeedStep[k]

\* A statement fails, which fails the request: what was written stays.
FailStatement(r) ==
  /\ step[r] \notin {FirstStep(r), "done"}
  /\ Answer(r, "failed")
  /\ broken' = (broken \/ Resetting(r))
  /\ UNCHANGED <<adminTables, edits, accessVars, wiped, granted>>

AccessStep(r) == Guard(r) \/ ReadMenus(r) \/ Wipe(r) \/ Seed(r) \/ FailStatement(r)

\* What an administrator's statement does to the histories.
WatchGrants ==
  /\ granted' = granted \cup
       {x \in Live(roles)' : roles[x] = None \/ ~(roles'[x].menus \subseteq roles[x].menus)}
  /\ broken' = (broken \/ \E m \in Live(menus) : menus'[m] # menus[m])
  /\ UNCHANGED <<accessVars, wiped>>

---------------------------------------------------------------------------
(* Properties *)

AccessTypeOK ==
  /\ seen \in [Request -> UserRow \cup {None}]
  /\ shown \in [Request -> SUBSET (MenuId \cup Factory)]
  /\ step \in [Request -> {"guard", "handle", "read", "readValves", "put", "tokens", "done",
                          "home", "project", "system", "monitor"}]
  /\ answer \in [Request -> {"ok", "refused", "failed", "lost", None}]
  /\ \A r \in Request : step[r] = "read" /\ Kind(r) \in Lists => seen[r] # None

\* A reset takes every grant away: the new buttons have new ids, so a user who
\* is no administrator passes the guard only through a role that was
\* given menus again since the last wipe.
OnlyRegrantedPass ==
  [][\A r \in Request :
       (/\ wiped /\ step[r] = "guard" /\ step'[r] = "handle"
        /\ ~users[Ask[r].by].isAdmin)
       => users[Ask[r].by].roles \cap granted # {}]_<<step, granted>>

\* However resets interleave, the built-in rows are all there once the resets
\* have ended, unless one was cut short or a menu was edited: what the last wipe has
\* deleted is created again after it.  (Some rows may be there twice.)
BuiltInMenusBack ==
  wiped /\ ~broken /\ (\A r \in Request : ~Resetting(r)) =>
    \A row \in UNION {Range(Statements[k]) : k \in DOMAIN Statements} :
      Cardinality({m \in Live(menus) : menus[m] = row})
        >= Cardinality({k \in DOMAIN Statements : row \in Range(Statements[k])})
===============================================================================
