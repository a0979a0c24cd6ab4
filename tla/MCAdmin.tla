------------------------------- MODULE MCAdmin -------------------------------
(* A small instance of Admin for TLC. *)
EXTENDS Admin

CONSTANTS admin, jane, clerk, lead, plantA, plantB

\* Jane is a clerk; "lead" sees every factory, and so may Jane when given it.
Users     == [u \in User |-> [isAdmin |-> u = admin, roles |-> IF u = jane THEN {clerk} ELSE {}]]
Roles     == [x \in Role |->
                IF x = clerk THEN [menus |-> {1, 2, 3}, factories |-> {plantA}, grantAll |-> FALSE]
                             ELSE [menus |-> {}, factories |-> {}, grantAll |-> TRUE]]
Plants    == [f \in Factory |-> IF f = plantA THEN [createBy |-> admin] ELSE None]

Told  == {<<"project:factory", "query">>, <<"project:valve", "query">>, <<"system:menu", "create">>}
Menus == <<Button(<<"project:factory", "query">>), Button(<<"project:valve", "query">>),
           Button(<<"system:menu", "create">>)>> \o [m \in 1..(MaxMenu - 3) |-> None]

\* The forms give back menus and factories of any age: the first menus, those
\* of a reset, and a form that knows nothing of grantAllFactories.
Form(ms, fs, all) == [menus |-> ms, factories |-> fs, grantAll |-> all]
Forms ==
  {Form({}, {plantB}, FALSE), Form({1, 6, 7}, {plantA, plantB}, Absent), Form({5, 6}, {}, TRUE)}
Disabled == {[Button(<<"project:factory", "query">>) EXCEPT !.status = FALSE]}

\* Two PDFs, still with the parameters of their signed addresses.
Tasks == [t \in TaskId |-> IF t <= 2 THEN [factory |-> plantA] ELSE None]
Pdfs  == [i \in TaskId |-> IF i <= 2 THEN [task |-> i, url |-> "pdf1", signed |-> TRUE] ELSE None]

By(u, kind) == [kind |-> kind, by |-> u]

Asks ==
  [reset1 |-> By(jane, "reset"), reset2 |-> By(admin, "reset"),
   tree |-> By(jane, "tree"), list |-> By(jane, "list"), valves |-> By(jane, "valves"),
   menus |-> By(jane, "menus"), clear |-> By(admin, "clear"), signIn |-> By(jane, "signIn"),
   task |-> [kind |-> "createTask", by |-> admin, factory |-> plantA],
   remove |-> [kind |-> "removeFactory", by |-> admin, factory |-> plantA],
   upload1 |-> [kind |-> "upload", by |-> admin, file |-> "report"],
   upload2 |-> [kind |-> "upload", by |-> jane, file |-> "report"]]

Hosts == [r \in Request |-> IF r \in {"reset2", "upload2", "signIn"} THEN "vls-b" ELSE "vls-a"]

\* Bound on what a behaviour mixes: the requests it serves, and which tables are
\* edited meanwhile.  Neither arrivals nor edits are fair, so refusing some of
\* them restricts no fairness condition.
Starts == [r \in Request |-> FirstStep(r)]
Serves(rs) == \A r \in Request \ rs : step[r] = Starts[r]
Edits(n)   == edits <= n
SameMenus  == menus = FirstMenus
SameTasks  == <<tasks, pdfs>> = <<FirstTasks, FirstPdfs>>
SameAdmin  == users[admin] = FirstUsers[admin]
SameRoles  == <<users, roles>> = <<FirstUsers, FirstRoles>>
SamePlants == factories = FirstFactories

OneCast ==
  \/ Edits(0) /\ Serves({"upload1", "upload2"})
  \/ clock = 0 /\ SameAdmin /\
       \/ Edits(0) /\ \E rs \in {{"reset1", "reset2"}, {"menus", "reset2"}, {"clear", "task"},
                             {"list", "remove"}} : Serves(rs)
       \/ Edits(1) /\ SamePlants /\ SameTasks /\ Serves({"tree", "reset2"})
       \/ Edits(1) /\ SameMenus /\ SameRoles /\ \E r \in {"remove", "signIn"} : Serves({r, "clear"})
       \/ Edits(2) /\ SameMenus /\ SameTasks /\ \E r \in {"list", "valves"} : Serves({r})

CastSpec == AdminInit /\ [][AdminNext /\ OneCast']_adminVars /\ WF_adminVars(Settle)
==============================================================================
