-------------------------------- MODULE Routes --------------------------------
(***************************************************************************)
(* The routes of every controller in the order of their handlers, which is   *)
(* the order in which the router tries them, with the permission that        *)
(* @Permissions asks for.  A path is a sequence of segments; Param matches   *)
(* any segment.                                                              *)
(***************************************************************************)
EXTENDS Naturals, Sequences, MenuSeed

CONSTANTS Param, Open     \* the segment ":id"; the permission of an unguarded route

Route(method, path, permission) == [method |-> method, path |-> path, permission |-> permission]

OpenRoute(method, path) == Route(method, path, Open)

\* Mutant: the routes that end in ":id" come before the others.
CrudIdFirst(area, others) ==
  <<Route("POST", <<>>, <<area, "create">>), Route("GET", <<>>, <<area, "query">>),
    Route("GET", <<Param>>, <<area, "query">>), Route("PATCH", <<Param>>, <<area, "update">>),
    Route("DELETE", <<Param>>, <<area, "delete">>)>> \o others

\* The five routes every resource has, with its other routes before the ones
\* that end in ":id".
Crud(area, others) ==
  <<Route("POST", <<>>, <<area, "create">>), Route("GET", <<>>, <<area, "query">>)>>
  \o others \o
  <<Route("GET", <<Param>>, <<area, "query">>), Route("PATCH", <<Param>>, <<area, "update">>),
    Route("DELETE", <<Param>>, <<area, "delete">>)>>

Query(area, path) == Route("GET", path, <<area, "query">>)
RemoveAll(area)   == Route("DELETE", <<"removeAll">>, <<area, "delete">>)

FactoryRoutes == Crud("project:factory",
  <<Query("project:factory", <<"all">>), OpenRoute("POST", <<"import">>),
    Route("POST", <<"report">>, <<"project:factory", "query">>),
    Query("project:factory", <<"chart", Param>>),
    Route("POST", <<"chart2">>, <<"project:factory", "query">>), RemoveAll("project:factory")>>)

ValveRoutes == Crud("project:valve",
  <<Query("project:valve", <<"all">>), Query("project:valve", <<"run-info", Param>>),
    Query("project:valve", <<"history">>), Query("project:valve", <<"HealthScoreTrendPlot", Param>>),
    Query("project:valve", <<"history", Param>>), Query("project:valve", <<"historyChart">>),
    Query("project:valve", <<"score", Param>>), Query("project:valve", <<"tree">>),
    RemoveAll("project:valve"), Query("project:valve", <<"historyScore">>),
    Query("project:valve", <<"workOrder">>)>>)

DeviceRoutes   == Crud("project:device", <<RemoveAll("project:device")>>)
ContractRoutes == Crud("project:contract", <<>>)

AnalysisTaskRoutes == Crud("project:analysisTask",
  <<OpenRoute("POST", <<"execute", Param>>), OpenRoute("GET", <<"clear">>),
    OpenRoute("POST", <<"uploadPdf">>), Query("project:analysisTask", <<"result", Param>>),
    RemoveAll("project:analysisTask")>>)

UserRoutes == Crud("system:user",
  <<OpenRoute("GET", <<"info">>), OpenRoute("GET", <<"charts">>),
    OpenRoute("PATCH", <<"changePassword">>), OpenRoute("POST", <<"uploadAvatar">>)>>)

RoleRoutes == Crud("system:role", <<>>)

\* Both lists of menus are open; the guard of reset asks for "create".
MenuRoutes ==
  <<Route("POST", <<>>, <<"system:menu", "create">>), OpenRoute("GET", <<>>),
    OpenRoute("GET", <<"all">>), Route("GET", <<"reset">>, <<"system:menu", "create">>),
    Query("system:menu", <<Param>>), Route("PATCH", <<Param>>, <<"system:menu", "update">>),
    Route("DELETE", <<Param>>, <<"system:menu", "delete">>)>>

DeptRoutes         == Crud("system:dept", <<>>)
PostRoutes         == Crud("system:post", <<>>)
RuleRoutes         == Crud("system:rule", <<OpenRoute("POST", <<"upload">>)>>)
UnitRoutes         == Crud("system:unit", <<>>)
DictTypeRoutes     == Crud("system:dictType", <<OpenRoute("GET", <<"export">>)>>)
DictDataRoutes     == Crud("system:dictData", <<Query("system:dictData", <<"charts">>)>>)
DictDataTreeRoutes == Crud("system:dictDataTree", <<Query("system:dictDataTree", <<"all">>)>>)

LoginLogRoutes     == <<OpenRoute("GET", <<>>), OpenRoute("GET", <<Param>>)>>
OperationLogRoutes == <<OpenRoute("GET", <<>>), OpenRoute("GET", <<Param>>)>>
InfoRoutes         == <<OpenRoute("GET", <<>>)>>
ServiceAppRoutes   == <<OpenRoute("POST", <<>>)>>
SessionRoutes == <<OpenRoute("POST", <<"sign-up">>), OpenRoute("POST", <<"sign-in">>),
                   OpenRoute("POST", <<"refresh-token">>)>>

Controllers ==
  <<FactoryRoutes, ValveRoutes, DeviceRoutes, ContractRoutes, AnalysisTaskRoutes, UserRoutes,
    RoleRoutes, MenuRoutes, DeptRoutes, PostRoutes, RuleRoutes, UnitRoutes, DictTypeRoutes,
    DictDataRoutes, DictDataTreeRoutes, LoginLogRoutes, OperationLogRoutes, InfoRoutes,
    ServiceAppRoutes, SessionRoutes>>

---------------------------------------------------------------------------
(* Dispatch.  A request is written for one route of a controller, with some   *)
(* segment in place of ":id"; the first route that matches handles it.        *)

VARIABLES asked, handler   \* <<controller, route>>, or <<>>

routeVars == <<asked, handler>>

Matches(request, route) ==
  /\ request.method = route.method /\ Len(request.path) = Len(route.path)
  /\ \A i \in DOMAIN route.path : route.path[i] \in {Param, request.path[i]}

RoutesInit == asked = <<>> /\ handler = <<>>

Dispatch(c, i) ==
  LET routes  == Controllers[c]
      matches == {j \in DOMAIN routes : Matches(routes[i], routes[j])}
  IN  /\ asked' = <<c, i>>
      /\ handler' = <<c, CHOOSE j \in matches : \A k \in matches : j <= k>>

RoutesNext == \E c \in DOMAIN Controllers : \E i \in DOMAIN Controllers[c] : Dispatch(c, i)

\* Every request reaches the handler it is written for: no route of the controller that
\* ends in ":id" takes the requests of a later one.  And every permission that this
\* handler asks for is on a button of a new installation and of reset, so that a role
\* can be given it.
RoutesUsable ==
  asked # <<>> =>
    LET permission == Controllers[handler[1]][handler[2]].permission IN
    /\ handler = asked
    /\ permission # Open =>
         permission \in FirstButtons \cap UNION {SeedButtons[s] : s \in DOMAIN SeedButtons}
===============================================================================
