----------------------------- MODULE FactoryScope -----------------------------
(***************************************************************************)
(* Which factories a user sees: FactoryService.findAll (the tree) and         *)
(* findAllList, and ValveService.findAll without a factoryId (the valves     *)
(* are represented by their factories).  The user's roles, the factories of  *)
(* the roles and the valves are read by separate statements.                 *)
(***************************************************************************)
EXTENDS MenuAccess

VARIABLES
  accessible,  \* [Request -> accessibleIds of ValveService.findAll, None for all]
  always,      \* history: [Request -> factories visible throughout the reads so far]
  ever,        \* history: [Request -> factories visible at some time during the reads]
  allScope,    \* history: [Request -> the user has had the scope of an admin throughout]
  widened,     \* history: [Request -> the scope grew to all after it was read]
  crossed      \* history: [Request -> how many edits fell between its reads]

scopeHistory == <<always, ever, allScope, widened, crossed>>
scopeVars    == <<accessible, scopeHistory>>

Reading(r) == step[r] \in {"read", "readValves"} /\ Kind(r) \in Lists

\* Mutant: the check from before roles could grant all factories.
IsAdminScope(user) == user.isAdmin

HasAllFactoryScope(user) ==
  user.isAdmin \/ \E x \in user.roles \cap Live(roles) : roles[x].grantAll

OfRoles(xs) == UNION {roles[x].factories : x \in xs \cap Live(roles)}

Created(u) == {f \in Live(factories) : factories[f].createBy = u}

\* What the design promises the user of r at this moment: the scope of an
\* admin, if one of its roles grants it; else the factories of its roles, and
\* in the list its own ones too.
HasAll(r) ==
  LET user == users[Ask[r].by] IN
  user # None /\ (user.isAdmin \/ TRUE \in {roles[x].grantAll : x \in user.roles})

Visible(r) ==
  IF users[Ask[r].by] = None THEN {}
  ELSE IF HasAll(r) THEN Live(factories)
  ELSE OfRoles(users[Ask[r].by].roles)
         \cup (IF Kind(r) = "list" THEN Created(Ask[r].by) ELSE {})

ScopeInit ==
  /\ accessible = [r \in Request |-> {}]
  /\ always = [r \in Request |-> {}]
  /\ ever = [r \in Request |-> {}]
  /\ allScope = [r \in Request |-> FALSE]
  /\ widened = [r \in Request |-> FALSE]
  /\ crossed = [r \in Request |-> 0]

---------------------------------------------------------------------------
\* ReadUser: grantAllFactories comes with the roles, so the scope is settled here.
ReadScope(r) ==
  /\ ReadUser(r)
  /\ accessible' = [accessible EXCEPT ![r] =
       IF users[Ask[r].by] # None /\ HasAllFactoryScope(users[Ask[r].by]) THEN None ELSE @]
  /\ always' = [always EXCEPT ![r] = Visible(r)]
  /\ ever' = [ever EXCEPT ![r] = Visible(r)]
  /\ allScope' = [allScope EXCEPT ![r] = HasAll(r)]
  /\ UNCHANGED <<widened, crossed>>

\* Mutant: every role of the user has the factory (Prisma's every for some).
FoundOfEveryRole(r) ==
  IF accessible[r] = None THEN Live(factories)
  ELSE {f \in OfRoles(seen[r].roles) : \A x \in seen[r].roles \cap Live(roles) : f \in roles[x].factories}
         \cup (IF Kind(r) = "list" THEN Created(Ask[r].by) ELSE {})

Found(r) ==
  IF accessible[r] = None THEN Live(factories)
  ELSE OfRoles(seen[r].roles) \cup (IF Kind(r) = "list" THEN Created(Ask[r].by) ELSE {})

\* The factories that are found; a tree then shows those of them whose parents
\* were found too, which is the matter of Trees.
ReadFactories(r) ==
  /\ step[r] = "read" /\ Kind(r) \in {"tree", "list"}
  /\ shown' = [shown EXCEPT ![r] = Found(r)]
  /\ Answer(r, "ok")
  /\ UNCHANGED <<adminTables, edits, seen, accessHistory, scopeVars>>

\* getAccessibleFactoryIds reads the ids, unless the scope is everything.
ReadIds(r) ==
  /\ step[r] = "read" /\ Kind(r) = "valves"
  /\ accessible' = [accessible EXCEPT ![r] = IF @ = None THEN None ELSE OfRoles(seen[r].roles)]
  /\ Goto(r, "readValves")
  /\ UNCHANGED <<adminTables, edits, accessVars, accessHistory, scopeHistory>>

ReadValves(r) ==
  /\ step[r] = "readValves"
  /\ shown' = [shown EXCEPT ![r] =
       IF accessible[r] = None THEN Live(factories) ELSE accessible[r] \cap Live(factories)]
  /\ Answer(r, "ok")
  /\ UNCHANGED <<adminTables, edits, seen, accessHistory, scopeVars>>

\* ReadScope is the step ReadUser of MenuAccess.
ScopeStep(r) == ReadScope(r) \/ ReadFactories(r) \/ ReadIds(r) \/ ReadValves(r)

\* What a statement of somebody else does to the histories of r.
WatchScope ==
  /\ always' = [r \in Request |-> IF Reading(r) THEN always[r] \cap Visible(r)' ELSE always[r]]
  /\ ever' = [r \in Request |-> IF Reading(r) THEN ever[r] \cup Visible(r)' ELSE ever[r]]
  /\ allScope' = [r \in Request |-> allScope[r] /\ (Reading(r) => HasAll(r)')]
  /\ widened' = [r \in Request |->
       widened[r] \/ (Reading(r) /\ accessible[r] # None /\ HasAll(r)')]
  /\ crossed' = [r \in Request |-> IF Reading(r) THEN crossed[r] + 1 ELSE crossed[r]]
  /\ UNCHANGED accessible

---------------------------------------------------------------------------
(* Properties *)

Listed(r) == Kind(r) \in Lists \ {"menus"} /\ answer[r] = "ok"

\* The reads of a list are not one snapshot.  As long as at most one
\* administrator's statement falls between them, the list shows no factory the
\* user could not see at some time during the request, and misses none it
\* could see all the time, unless that statement gave it the scope of all:
\* one that also empties the role's factories leaves the list without both.
\* (Two statements are enough to break the rest.)
ListWithinScope ==
  \A r \in Request : Listed(r) /\ crossed[r] <= 1 =>
    shown[r] \subseteq ever[r] /\ (widened[r] \/ always[r] \subseteq shown[r])

\* grantAllFactories counts like isAdmin: whoever holds such a role throughout the
\* request is shown every factory that exists throughout, the ones created
\* after the role included, whatever else is edited meanwhile.
GrantAllSeesAll ==
  \A r \in Request : Listed(r) /\ allScope[r] => always[r] \subseteq shown[r]
===============================================================================
