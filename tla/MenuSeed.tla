------------------------------- MODULE MenuSeed -------------------------------
(***************************************************************************)
(* The permissions on the buttons of the built-in menus: by the create       *)
(* statements of MenuService.reset, and as prisma/seed.ts first makes them.  *)
(* A permission "project:valve:query" is the pair of its area                *)
(* "project:valve" and its verb.                                             *)
(***************************************************************************)

Verbs == {"create", "query", "update", "delete"}

\* The first statement: the home page has no buttons.
SeedHome == {}

\* The second statement, menuProjectSeed.
SeedFactory  == ({"project:factory"} \X Verbs) \cup {<<"project:factory", "workTable">>}
SeedDevice   == {"project:device"} \X Verbs
SeedValve    == {"project:valve"} \X
                (Verbs \cup {"historyData", "history", "workOrder", "list", "score", "runInfo"})
SeedContract == {"project:contract"} \X Verbs
SeedTask     == {"project:analysisTask"} \X (Verbs \cup {"execute"})
SeedProject  == SeedFactory \cup SeedDevice \cup SeedValve \cup SeedContract \cup SeedTask

\* The third statement.
SeedPeople == {"system:user", "system:role", "system:menu"} \X Verbs
SeedDict   == {"system:dictType", "system:dictData"} \X Verbs
SeedOffice == {"system:dept", "system:post", "system:rule"} \X Verbs
SeedUnit   == {"system:dictDataTree", "system:unit"} \X Verbs
SeedSystem == SeedPeople \cup SeedDict \cup SeedOffice \cup SeedUnit

\* The fourth statement.
SeedMonitor ==
  ({"monitor:online", "monitor:loginLog", "monitor:operationLog", "monitor:info"} \X {"query"})
  \cup {<<"monitor:online", "forceLogout">>}

SeedButtons == <<SeedHome, SeedProject, SeedSystem, SeedMonitor>>

\* The verbs MenuService.create gives the four buttons of a new menu.
NewMenuVerbs == {"create", "read", "update", "delete"}

\* The menus of a new installation.
FirstFactory  == {"project:factory"} \X Verbs
FirstDevice   == {"project:device"} \X Verbs
FirstValve    == {"project:valve"} \X Verbs
FirstContract == {"project:contract"} \X Verbs
FirstTask     == {"project:analysisTask"} \X (Verbs \cup {"execute"})
FirstPeople   == {"system:user", "system:role", "system:menu"} \X Verbs
FirstDict     == {"system:dictType", "system:dictData"} \X Verbs
FirstOffice   == {"system:dept", "system:post", "system:rule"} \X Verbs
FirstUnit     == {"system:dictDataTree", "system:unit"} \X Verbs
FirstMonitor  ==
  ({"monitor:online", "monitor:loginLog", "monitor:operationLog", "monitor:info"} \X {"query"})
  \cup {<<"monitor:online", "forceLogout">>}

FirstButtons ==
  FirstFactory \cup FirstDevice \cup FirstValve \cup FirstContract \cup FirstTask
  \cup FirstPeople \cup FirstDict \cup FirstOffice \cup FirstUnit \cup FirstMonitor
===============================================================================
