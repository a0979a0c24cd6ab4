---------------------------- MODULE DeployProofs ----------------------------
(***************************************************************************)
(* Proofs about Deploy, for every list of hosts and every bound: DeployInv  *)
(* is inductive, and the three safety properties follow from it.            *)
(***************************************************************************)
EXTENDS Deploy, TLAPS

\* Facts about the list of hosts.
LEMMA HostsCounted ==
  /\ Len(Hosts) \in Nat
  /\ Len(Hosts) >= 1
  /\ \A i \in 1..Len(Hosts) : Hosts[i] \in Host
  /\ \A i, j \in 1..Len(Hosts) : Hosts[i] = Hosts[j] => i = j
  BY DeployAssumption DEF Host

\* The host being deployed is one of the hosts.
LEMMA HereIsHost == TypeOK => here \in Host
  BY DEF TypeOK, here, Host

\* Where the script goes after a host.
LEMMA NextHostMoves ==
  ASSUME TypeOK, NextHost
  PROVE  \/ line' = "host" /\ at < Len(Hosts) /\ at' = at + 1 /\ at' \in 1..Len(Hosts)
         \/ line' = "done" /\ at = Len(Hosts) /\ at' = at /\ at' \in 1..Len(Hosts)
<1>1. CASE at < Len(Hosts)
  BY <1>1, HostsCounted DEF TypeOK, NextHost
<1>2. CASE ~(at < Len(Hosts))
  BY <1>2, HostsCounted DEF TypeOK, NextHost
<1> QED
  BY <1>1, <1>2

\* The numbers in the trees and processes are commits.
LEMMA CommitsInTrees ==
  ASSUME TypeOK, NEW h \in Host
  PROVE  /\ tree[h] \in Tree
         /\ tree[h].head \in Version /\ tree[h].deps \in Version
         /\ tree[h].client \in Version /\ tree[h].dist \in Version
         /\ running[h].dist \in Version /\ site[h] \in Site /\ site[h].head \in Version
  BY DEF TypeOK, Tree, Process, Site

\* What a command of the server part does to the working tree, field by field.
Edited(h, d, c, b) ==
  /\ tree' \in [Host -> Tree]
  /\ tree'[here].head = h /\ tree'[here].deps = d
  /\ tree'[here].client = c /\ tree'[here].dist = b
  /\ \A k \in Host : k # here => tree'[k] = tree[k]
  /\ UNCHANGED <<origin, running, site, schema, at, options, prev, new, status, target, runs>>

\* Each command on the working tree, with the fields it leaves.
LEMMA TreeCommands ==
  ASSUME TypeOK
  PROVE  LET t == tree[here] IN
         /\ Reset     => /\ line = "reset" /\ line' = "install"
                         /\ Edited(new, t.deps, t.client, t.dist)
         /\ Install   => /\ line = "install" /\ line' = "generate"
                         /\ Edited(t.head, t.head, t.client, t.dist)
         /\ Generate  => /\ line = "generate" /\ line' = "migrate"
                         /\ Edited(t.head, t.deps, t.head, t.dist)
         /\ Build     => /\ line = "build" /\ line' = "restart"
                         /\ Edited(t.head, t.deps, t.client, t.head)
         /\ BackReset => /\ line = "backReset" /\ line' = "backBuild"
                         /\ Edited(prev, t.deps, t.client, t.dist)
         /\ BackBuild => /\ line = "backBuild" /\ line' = "backRestart"
                         /\ Edited(t.head, t.deps, t.client, t.head)
<1> DEFINE t == tree[here]
<1>1. t \in Tree
  BY HereIsHost DEF TypeOK
<1>2. /\ t.head \in Version /\ t.deps \in Version /\ t.client \in Version /\ t.dist \in Version
      /\ new \in Version /\ prev \in Version
  BY HereIsHost, CommitsInTrees DEF TypeOK
<1>3. ASSUME NEW v
      PROVE  /\ [t EXCEPT !.head = v] = [head |-> v, deps |-> t.deps, client |-> t.client, dist |-> t.dist]
             /\ [t EXCEPT !.deps = v] = [head |-> t.head, deps |-> v, client |-> t.client, dist |-> t.dist]
             /\ [t EXCEPT !.client = v] = [head |-> t.head, deps |-> t.deps, client |-> v, dist |-> t.dist]
             /\ [t EXCEPT !.dist = v] = [head |-> t.head, deps |-> t.deps, client |-> t.client, dist |-> v]
  BY <1>1 DEF Tree
<1>4. ASSUME NEW from, NEW to, NEW h \in Version, NEW d \in Version, NEW c \in Version,
             NEW b \in Version,
             InTree(from, to, [head |-> h, deps |-> d, client |-> c, dist |-> b])
      PROVE  line = from /\ line' = to /\ Edited(h, d, c, b)
  <2>1. [head |-> h, deps |-> d, client |-> c, dist |-> b] \in Tree
    BY DEF Tree
  <2>2. tree' = [tree EXCEPT ![here] = [head |-> h, deps |-> d, client |-> c, dist |-> b]]
    BY <1>4 DEF InTree
  <2>3. tree' \in [Host -> Tree] /\ \A k \in Host : k # here => tree'[k] = tree[k]
    BY <2>1, <2>2, HereIsHost DEF TypeOK
  <2>4. tree'[here] = [head |-> h, deps |-> d, client |-> c, dist |-> b]
    BY <2>2, HereIsHost DEF TypeOK
  <2> QED
    BY <1>4, <2>3, <2>4 DEF InTree, Edited
<1>5. ASSUME Reset
      PROVE  line = "reset" /\ line' = "install" /\ Edited(new, t.deps, t.client, t.dist)
  <2>1. InTree("reset", "install", [head |-> new, deps |-> t.deps, client |-> t.client, dist |-> t.dist])
    BY <1>5, <1>3 DEF Reset
  <2> QED
    BY <2>1, <1>2, <1>4
<1>6. ASSUME Install
      PROVE  line = "install" /\ line' = "generate" /\ Edited(t.head, t.head, t.client, t.dist)
  <2>1. InTree("install", "generate", [head |-> t.head, deps |-> t.head, client |-> t.client, dist |-> t.dist])
    BY <1>6, <1>3 DEF Install
  <2> QED
    BY <2>1, <1>2, <1>4
<1>7. ASSUME Generate
      PROVE  line = "generate" /\ line' = "migrate" /\ Edited(t.head, t.deps, t.head, t.dist)
  <2>1. InTree("generate", "migrate", [head |-> t.head, deps |-> t.deps, client |-> t.head, dist |-> t.dist])
    BY <1>7, <1>3 DEF Generate
  <2> QED
    BY <2>1, <1>2, <1>4
<1>8. ASSUME Build
      PROVE  line = "build" /\ line' = "restart" /\ Edited(t.head, t.deps, t.client, t.head)
  <2>1. InTree("build", "restart", [head |-> t.head, deps |-> t.deps, client |-> t.client, dist |-> t.head])
    BY <1>8, <1>3 DEF Build
  <2> QED
    BY <2>1, <1>2, <1>4
<1>9. ASSUME BackReset
      PROVE  line = "backReset" /\ line' = "backBuild" /\ Edited(prev, t.deps, t.client, t.dist)
  <2>1. InTree("backReset", "backBuild", [head |-> prev, deps |-> t.deps, client |-> t.client, dist |-> t.dist])
    BY <1>9, <1>3 DEF BackReset
  <2> QED
    BY <2>1, <1>2, <1>4
<1>10. ASSUME BackBuild
      PROVE  line = "backBuild" /\ line' = "backRestart" /\ Edited(t.head, t.deps, t.client, t.head)
  <2>1. InTree("backBuild", "backRestart", [head |-> t.head, deps |-> t.deps, client |-> t.client, dist |-> t.head])
    BY <1>10, <1>3 DEF BackBuild
  <2> QED
    BY <2>1, <1>2, <1>4
<1> QED
  BY <1>5, <1>6, <1>7, <1>8, <1>9, <1>10

\* The commands that change the working tree.
TreeCommand == Reset \/ Install \/ Generate \/ Build \/ BackReset \/ BackBuild

\* The same without the details: only the tree of the host being deployed changes.
LEMMA TreeStep ==
  ASSUME TypeOK, TreeCommand
  PROVE  /\ line \in ServerLines \ {"fetch"} /\ line' \in ServerLines
         /\ line' \in BackLines <=> line \in BackLines
         /\ tree' \in [Host -> Tree]
         /\ \A k \in Host : k # here => tree'[k] = tree[k]
         /\ tree'[here].head \in {tree[here].head, new, prev}
         /\ here' = here
         /\ UNCHANGED <<origin, running, site, schema, at, options, prev, new, status, target, runs>>
<1>1. PICK h, d, c, b : Edited(h, d, c, b) /\ h \in {tree[here].head, new, prev}
  BY TreeCommands DEF TreeCommand
<1>2. line \in ServerLines \ {"fetch"} /\ line' \in ServerLines
  BY TreeCommands DEF ServerLines, TreeCommand
<1>3. line' \in BackLines <=> line \in BackLines
  BY TreeCommands DEF BackLines, TreeCommand
<1>4. here' = here
  BY <1>1 DEF Edited, here
<1> QED
  BY <1>1, <1>2, <1>3, <1>4 DEF Edited

\* The commands that leave the server alone: they enter or leave a host, or work on its client.
Passing == EnterHost \/ AlreadyThere \/ SitePart

\* Where the script goes after such a command, or after the health check.
Moves ==
  \/ line' \in SiteLines \cup {"failed"} /\ at' = at
  \/ line' = "fetch" /\ line = "host" /\ at' = at
  \/ line' = "host" /\ at < Len(Hosts) /\ at' = at + 1 /\ at' \in 1..Len(Hosts)
  \/ line' = "done" /\ at' = at

\* Such a command changes neither the server nor what is recorded of it.
LEMMA PassingStep ==
  ASSUME TypeOK, Passing
  PROVE  /\ line \in SiteLines \cup {"host", "compare"}
         /\ Moves
         /\ UNCHANGED <<origin, tree, running, schema, options, status, target, runs>>
<1>1. CASE EnterHost
  BY <1>1, NextHostMoves DEF EnterHost, Moves, SiteLines
<1>2. CASE AlreadyThere
  BY <1>2, NextHostMoves DEF AlreadyThere, AfterServer, Moves, SiteLines
<1>3. CASE SiteFetch \/ SiteBuildFails
  BY <1>3 DEF SiteFetch, SiteBuildFails, Moves, SiteLines
<1>4. CASE SiteCompare \/ SiteBuild
  BY <1>4, NextHostMoves DEF SiteCompare, SiteBuild, Moves, SiteLines
<1>5. CASE SiteReset \/ SiteInstall \/ SiteBackReset \/ SiteBackBuild
  BY <1>5 DEF SiteReset, SiteInstall, SiteBackReset, SiteBackBuild, InSite, Moves, SiteLines
<1> QED
  BY <1>1, <1>2, <1>3, <1>4, <1>5 DEF Passing, SitePart

\* The same for the end of the server part.
LEMMA HealthyStep ==
  ASSUME TypeOK, Healthy
  PROVE  /\ line = "health" /\ Moves /\ line' # "failed"
         /\ status' = [status EXCEPT ![here] = "deployed"]
         /\ UNCHANGED <<origin, tree, running, site, schema, options, prev, new, target, runs>>
  BY NextHostMoves DEF Healthy, AfterServer, Moves, SiteLines

\* The kinds of steps the lemmas below go through.
LEMMA StepKinds ==
  ASSUME [Next]_vars
  PROVE  \/ TreeCommand \/ Passing \/ Healthy
         \/ PushCommit \/ Fetch \/ Outdated \/ Migrate \/ Restart \/ Unhealthy
         \/ BackRestart \/ Fail \/ MigratePartly
         \/ \E o \in Options : Run(o)
         \/ \E h \in Host : Respawn(h)
         \/ UNCHANGED vars
  BY DEF Next, ServerPart, TreeCommand, Passing

---------------------------------------------------------------------------
\* The client part keeps its trees.
LEMMA SitesTyped ==
  ASSUME TypeOK, SitePart
  PROVE  site' \in [Host -> Site]
<1>1. here \in Host /\ new \in Version /\ prev \in Version /\ site[here].head \in Version
  BY HereIsHost DEF TypeOK, Site
<1>2. ASSUME NEW v \in Version
      PROVE  /\ [site[here] EXCEPT !.head = v] \in Site
             /\ [site[here] EXCEPT !.deps = v] \in Site
             /\ [site[here] EXCEPT !.dist = v] \in Site
  BY HereIsHost DEF TypeOK, Site
<1>3. ASSUME NEW s \in Site, site' = [site EXCEPT ![here] = s]
      PROVE  site' \in [Host -> Site]
  BY <1>3 DEF TypeOK
<1>4. CASE SiteReset \/ SiteInstall \/ SiteBackReset \/ SiteBackBuild
  BY <1>1, <1>2, <1>3, <1>4 DEF SiteReset, SiteInstall, SiteBackReset, SiteBackBuild, InSite
<1>5. CASE SiteBuild
  <2>1. site' = [site EXCEPT ![here] = [site[here] EXCEPT !.dist = site[here].head]]
    BY <1>5 DEF SiteBuild
  <2> QED
    BY <1>1, <1>2, <1>3, <2>1
<1>6. CASE SiteFetch \/ SiteCompare \/ SiteBuildFails
  BY <1>6 DEF SiteFetch, SiteCompare, SiteBuildFails, TypeOK
<1> QED
  BY <1>4, <1>5, <1>6 DEF SitePart

\* A process started from what is on disk is a process.
LEMMA ProcessOnDisk ==
  ASSUME TypeOK, NEW h \in Host
  PROVE  /\ OnDisk(h) \in Process
         /\ running' = [running EXCEPT ![h] = OnDisk(h)] =>
              /\ running' \in [Host -> Process]
              /\ running'[h] = OnDisk(h)
              /\ \A k \in Host : k # h => running'[k] = running[k]
<1>1. OnDisk(h) \in Process
  BY CommitsInTrees DEF OnDisk, Process
<1> QED
  BY <1>1 DEF TypeOK

\* The types are kept.
LEMMA TypePreserved ==
  ASSUME TypeOK, [Next]_vars
  PROVE  TypeOK'
<1>1. CASE TreeCommand
  <2>1. line' \in Lines /\ tree' \in [Host -> Tree]
    BY <1>1, TreeStep DEF Lines
  <2>2. UNCHANGED <<origin, running, site, schema, at, options, prev, new, status, target, runs>>
    BY <1>1, TreeStep
  <2> QED
    BY <2>1, <2>2 DEF TypeOK
<1>2. CASE Passing
  <2>1. /\ line' \in Lines /\ at' \in 1..Len(Hosts)
        /\ UNCHANGED <<origin, tree, running, schema, options, status, target, runs>>
    BY <1>2, PassingStep DEF Moves, Lines, ServerLines, TypeOK
  <2>2. site' \in [Host -> Site]
    BY <1>2, SitesTyped DEF Passing, EnterHost, AlreadyThere, TypeOK
  <2>3. site[here].head \in Version
    BY CommitsInTrees, HereIsHost
  <2>4. prev' \in Version /\ new' \in Version
    BY <1>2, <2>3 DEF Passing, EnterHost, AlreadyThere, SitePart, SiteFetch, SiteCompare,
       SiteReset, SiteInstall, SiteBuild, SiteBuildFails, SiteBackReset, SiteBackBuild,
       InSite, TypeOK
  <2> QED
    BY <2>1, <2>2, <2>4 DEF TypeOK
<1>3. CASE Healthy
  <2>1. line' \in Lines /\ at' \in 1..Len(Hosts)
    BY <1>3, HealthyStep DEF Moves, Lines, ServerLines, TypeOK
  <2> QED
    BY <1>3, <2>1, HealthyStep DEF TypeOK
<1>4. CASE PushCommit
  BY <1>4, DeployAssumption DEF PushCommit, TypeOK, Version
<1>5. CASE Fetch
  <2>1. tree[here].head \in Version
    BY CommitsInTrees, HereIsHost
  <2> QED
    BY <1>5, <2>1 DEF Fetch, TypeOK, Lines, ServerLines
<1>6. CASE Outdated \/ Unhealthy
  BY <1>6 DEF Outdated, Unhealthy, TypeOK, Lines, ServerLines
<1>7. CASE Migrate
  <2>1. tree[here].head \in Version
    BY CommitsInTrees, HereIsHost
  <2> QED
    BY <1>7, <2>1 DEF Migrate, TypeOK, Lines, ServerLines
<1>8. CASE Restart \/ BackRestart
  <2>1. running' \in [Host -> Process]
    BY <1>8, HereIsHost, ProcessOnDisk DEF Restart, BackRestart, StartProcess
  <2> QED
    BY <1>8, <2>1 DEF Restart, BackRestart, TypeOK, Lines, ServerLines
<1>9. CASE Fail
  BY <1>9 DEF Fail, TypeOK, Lines
<1>10. CASE MigratePartly
  BY <1>10 DEF MigratePartly, TypeOK, Lines
<1>11. ASSUME NEW o \in Options, Run(o) PROVE TypeOK'
  BY <1>11, HostsCounted, DeployAssumption DEF Run, TypeOK, Lines
<1>12. ASSUME NEW h \in Host, Respawn(h) PROVE TypeOK'
  BY <1>12, ProcessOnDisk DEF Respawn, TypeOK
<1>13. CASE UNCHANGED vars
  BY <1>13 DEF vars, TypeOK
<1> QED
  BY <1>1, <1>2, <1>3, <1>4, <1>5, <1>6, <1>7, <1>8, <1>9, <1>10, <1>11, <1>12, <1>13, StepKinds

---------------------------------------------------------------------------
\* Commits are numbers.
LEMMA CommitsAreInts ==
  ASSUME TypeOK
  PROVE  /\ origin \in Int /\ prev \in Int /\ new \in Int /\ schema \in Int
         /\ here \in Host
         /\ \A k \in Host : /\ tree[k].head \in Int /\ tree[k].dist \in Int
                            /\ running[k].dist \in Int
  BY HereIsHost, CommitsInTrees DEF TypeOK, Version

\* Checked out commits stay behind the branch, PREV behind NEW.
LEMMA FetchPreserved ==
  ASSUME DeployInv, [Next]_vars
  PROVE  FetchedInOrder'
<1> TypeOK /\ FetchedInOrder
  BY DEF DeployInv
<1>1. CASE TreeCommand
  <2>1. prev <= new /\ new <= origin /\ target[here] = new
    BY <1>1, TreeStep DEF FetchedInOrder
  <2>2. \A k \in Host : tree'[k].head <= origin
    BY <1>1, <2>1, TreeStep, CommitsAreInts DEF FetchedInOrder
  <2> QED
    BY <1>1, <2>1, <2>2, TreeStep DEF FetchedInOrder
<1>2. CASE Passing \/ Healthy
  BY <1>2, PassingStep, HealthyStep DEF FetchedInOrder, Moves, ServerLines, SiteLines
<1>3. CASE PushCommit
  BY <1>3, CommitsAreInts DEF PushCommit, FetchedInOrder, here
<1>4. CASE Fetch
  <2>1. here' = here /\ target'[here] = origin
    BY <1>4, CommitsAreInts DEF Fetch, here, TypeOK
  <2> QED
    BY <1>4, <2>1, CommitsAreInts DEF Fetch, FetchedInOrder
<1>5. CASE Outdated \/ Unhealthy \/ Migrate \/ Restart
  BY <1>5 DEF Outdated, Unhealthy, Migrate, Restart, FetchedInOrder, ServerLines, here
<1>6. CASE BackRestart \/ Fail \/ MigratePartly
  BY <1>6 DEF BackRestart, Fail, MigratePartly, FetchedInOrder, ServerLines
<1>7. ASSUME NEW o \in Options, Run(o) PROVE FetchedInOrder'
  BY <1>7 DEF Run, FetchedInOrder, ServerLines
<1>8. ASSUME NEW h \in Host, Respawn(h) PROVE FetchedInOrder'
  BY <1>8 DEF Respawn, FetchedInOrder, here
<1>9. CASE UNCHANGED vars
  BY <1>9 DEF vars, FetchedInOrder, here
<1> QED
  BY <1>1, <1>2, <1>3, <1>4, <1>5, <1>6, <1>7, <1>8, <1>9, StepKinds

\* Each command leaves what the next one relies on.
LEMMA TreePreserved ==
  ASSUME DeployInv, [Next]_vars
  PROVE  TreeAtLine'
<1> TypeOK /\ TreeAtLine
  BY DEF DeployInv
<1>1. CASE TreeCommand
  <2>1. here' = here /\ new' = new /\ prev' = prev
    BY <1>1, TreeStep
  <2>2. CASE Reset \/ Install \/ Generate \/ Build
    BY <2>1, <2>2, TreeCommands DEF Edited, TreeAtLine, BackLines
  <2>3. CASE BackReset \/ BackBuild
    BY <2>1, <2>3, TreeCommands DEF Edited, TreeAtLine, BackLines
  <2> QED
    BY <1>1, <2>2, <2>3 DEF TreeCommand
<1>2. CASE Passing \/ Healthy
  BY <1>2, PassingStep, HealthyStep DEF TreeAtLine, Moves, SiteLines, BackLines
<1>3. CASE PushCommit
  BY <1>3 DEF PushCommit, TreeAtLine, BackLines, here
<1>4. CASE Fetch \/ Outdated \/ Unhealthy \/ BackRestart \/ Fail \/ MigratePartly
  BY <1>4
  DEF Fetch, Outdated, Unhealthy, BackRestart, Fail, MigratePartly, TreeAtLine, BackLines, here
<1>5. CASE Migrate
  BY <1>5 DEF Migrate, TreeAtLine, BackLines, here
<1>6. CASE Restart
  <2>1. OnDisk(here) = Whole(new)
    BY <1>6 DEF Restart, TreeAtLine, OnDisk, Whole
  <2>2. running'[here] = Whole(new)
    BY <1>6, <2>1, CommitsAreInts, ProcessOnDisk DEF Restart, StartProcess
  <2> QED
    BY <1>6, <2>2 DEF Restart, TreeAtLine, BackLines, here, Whole
<1>7. ASSUME NEW o \in Options, Run(o) PROVE TreeAtLine'
  BY <1>7 DEF Run, TreeAtLine, BackLines
<1>8. ASSUME NEW h \in Host, Respawn(h) PROVE TreeAtLine'
  <2>1. line = "health" => running'[here] = Whole(new)
    <3>1. line = "health" => OnDisk(here) = Whole(new) /\ running[here] = Whole(new)
      BY DEF TreeAtLine, OnDisk, Whole
    <3> QED
      BY <1>8, <3>1, CommitsAreInts, ProcessOnDisk DEF Respawn
  <2> QED
    BY <1>8, <2>1 DEF Respawn, TreeAtLine, BackLines, here, Whole
<1>9. CASE UNCHANGED vars
  BY <1>9 DEF vars, TreeAtLine, BackLines, here, Whole
<1> QED
  BY <1>1, <1>2, <1>3, <1>4, <1>5, <1>6, <1>7, <1>8, <1>9, StepKinds

\* Nothing is built, restarted or rolled back to beyond the schema.
LEMMA MigratePreserved ==
  ASSUME DeployInv, [Next]_vars
  PROVE  MigratedFirst'
<1> TypeOK /\ MigratedFirst /\ TreeAtLine /\ FetchedInOrder
  BY DEF DeployInv
<1>1. CASE TreeCommand
  <2>1. line' \in {"build", "restart", "health"} \cup BackLines => new <= schema
    BY <1>1, TreeCommands DEF TreeCommand, MigratedFirst, BackLines
  <2>2. tree'[here].dist <= schema
    <3>1. CASE Reset \/ Install \/ Generate \/ BackReset
      BY <3>1, TreeCommands, CommitsAreInts DEF Edited, MigratedFirst
    <3>2. CASE Build
      BY <3>2, TreeCommands DEF Edited, MigratedFirst, TreeAtLine
    <3>3. CASE BackBuild
      <4>1. tree[here].head = prev /\ new <= schema /\ prev <= new
        BY <3>3, TreeCommands
        DEF MigratedFirst, TreeAtLine, FetchedInOrder, ServerLines, BackLines
      <4> QED
        BY <3>3, <4>1, TreeCommands, CommitsAreInts DEF Edited
    <3> QED
      BY <1>1, <3>1, <3>2, <3>3 DEF TreeCommand
  <2>3. /\ \A k \in Host : k # here => tree'[k] = tree[k]
        /\ UNCHANGED <<running, schema, new>>
    BY <1>1, TreeStep
  <2> QED
    BY <2>1, <2>2, <2>3 DEF MigratedFirst
<1>2. CASE Passing \/ Healthy
  BY <1>2, PassingStep, HealthyStep DEF MigratedFirst, Moves, SiteLines, BackLines
<1>3. CASE PushCommit
  BY <1>3 DEF PushCommit, MigratedFirst
<1>4. CASE Fetch \/ Outdated \/ Unhealthy \/ Fail
  BY <1>4 DEF Fetch, Outdated, Unhealthy, Fail, MigratedFirst, BackLines
<1>5. CASE Migrate
  <2>1. schema' \in Int /\ schema <= schema' /\ new' <= schema'
    BY <1>5, CommitsAreInts DEF Migrate, TreeAtLine
  <2> QED
    BY <1>5, <2>1, CommitsAreInts DEF Migrate, MigratedFirst
<1>6. CASE MigratePartly
  <2>1. schema' \in Int /\ schema <= schema'
    BY <1>6, CommitsAreInts DEF MigratePartly, Version
  <2> QED
    BY <1>6, <2>1, CommitsAreInts DEF MigratePartly, MigratedFirst, BackLines
<1>7. CASE Restart \/ BackRestart
  <2>1. \A k \in Host : running'[k].dist <= schema
    <3>1. /\ running'[here] = OnDisk(here)
          /\ \A k \in Host : k # here => running'[k] = running[k]
      BY <1>7, CommitsAreInts, ProcessOnDisk DEF Restart, BackRestart, StartProcess
    <3>2. running'[here].dist = tree[here].dist
      BY <3>1 DEF OnDisk
    <3> QED
      BY <3>1, <3>2, CommitsAreInts DEF MigratedFirst
  <2> QED
    BY <1>7, <2>1 DEF Restart, BackRestart, MigratedFirst, BackLines
<1>8. ASSUME NEW o \in Options, Run(o) PROVE MigratedFirst'
  BY <1>8 DEF Run, MigratedFirst, BackLines
<1>9. ASSUME NEW h \in Host, Respawn(h) PROVE MigratedFirst'
  <2>1. \A k \in Host : running'[k].dist <= schema
    BY <1>9, ProcessOnDisk DEF Respawn, OnDisk, MigratedFirst
  <2> QED
    BY <1>9, <2>1 DEF Respawn, MigratedFirst
<1>10. CASE UNCHANGED vars
  BY <1>10 DEF vars, MigratedFirst
<1> QED
  BY <1>1, <1>2, <1>3, <1>4, <1>5, <1>6, <1>7, <1>8, <1>9, <1>10, StepKinds

---------------------------------------------------------------------------
\* Writing the status of the host being deployed leaves the others alone.
LEMMA StatusHere ==
  ASSUME TypeOK, NEW s, status' = [status EXCEPT ![here] = s]
  PROVE  /\ status'[here] = s
         /\ \A k \in Host : k # here => status'[k] = status[k]
         /\ \A i \in 1..Len(Hosts) : i # at => Hosts[i] \in Host /\ Hosts[i] # here
  BY HereIsHost, HostsCounted DEF TypeOK, here

\* The hosts are taken in order, up to the first that breaks.
LEMMA OrderPreserved ==
  ASSUME DeployInv, [Next]_vars
  PROVE  HostsInOrder'
<1> TypeOK /\ HostsInOrder
  BY DEF DeployInv
<1> at \in 1..Len(Hosts) /\ Len(Hosts) \in Nat /\ at \in Int
  BY HostsCounted DEF TypeOK
<1>1. CASE TreeCommand
  <2>1. /\ line' \in BackLines <=> line \in BackLines
        /\ line \in ServerLines /\ line' \in ServerLines
        /\ at' = at /\ here' = here /\ status' = status
    BY <1>1, TreeStep
  <2> QED
    BY <2>1 DEF HostsInOrder, ServerLines, SiteLines
<1>2. CASE Passing
  <2>1. Moves /\ status' = status /\ status[here] # "broken"
    BY <1>2, PassingStep DEF HostsInOrder, SiteLines, ServerLines, BackLines
  <2>2. CASE at' = at /\ line' \in SiteLines \cup {"failed", "done"}
    BY <2>1, <2>2 DEF HostsInOrder, here, SiteLines, ServerLines, BackLines
  <2>3. CASE at' = at /\ line' = "fetch" /\ line = "host"
    BY <2>1, <2>3 DEF HostsInOrder, here, SiteLines, ServerLines, BackLines
  <2>4. CASE line' = "host" /\ at' = at + 1 /\ at' \in 1..Len(Hosts)
    BY <2>1, <2>4 DEF HostsInOrder, here, SiteLines, ServerLines, BackLines
  <2> QED
    BY <2>1, <2>2, <2>3, <2>4 DEF Moves
<1>3. CASE Healthy
  <2>1. Moves /\ line = "health" /\ line' # "failed"
    BY <1>3, HealthyStep
  <2>2. /\ status'[here] = "deployed"
        /\ \A i \in 1..Len(Hosts) : i # at => status'[Hosts[i]] = status[Hosts[i]]
    BY <1>3, HealthyStep, StatusHere
  <2>3. CASE at' = at /\ line' \in SiteLines \cup {"done"}
    BY <2>2, <2>3 DEF HostsInOrder, here, SiteLines, ServerLines, BackLines
  <2>4. CASE line' = "host" /\ at' = at + 1 /\ at' \in 1..Len(Hosts)
    BY <2>2, <2>4 DEF HostsInOrder, here, SiteLines, ServerLines, BackLines
  <2> QED
    BY <2>1, <2>3, <2>4 DEF Moves
<1>4. CASE Unhealthy \/ MigratePartly \/ (Fail /\ line \in ServerLines)
  <2>1. /\ status' = [status EXCEPT ![here] = "broken"] /\ at' = at /\ here' = here
        /\ line' \in {"backReset", "failed"}
    BY <1>4 DEF Unhealthy, MigratePartly, Fail, here
  <2>2. /\ status'[here] = "broken"
        /\ \A i \in 1..Len(Hosts) : i # at => status'[Hosts[i]] = status[Hosts[i]]
    BY <2>1, StatusHere
  <2> QED
    BY <2>1, <2>2 DEF HostsInOrder, SiteLines, ServerLines, BackLines
<1>5. CASE \/ PushCommit \/ Fetch \/ Outdated \/ Migrate \/ Restart \/ BackRestart
           \/ (Fail /\ line \notin ServerLines)
  <2>1. at' = at /\ here' = here /\ status' = status
    BY <1>5 DEF PushCommit, Fetch, Outdated, Migrate, Restart, BackRestart, Fail, here
  <2>2. \/ line' = line \/ line' = "failed"
        \/ line \in ServerLines \ BackLines /\ line' \in ServerLines \ BackLines
    BY <1>5 DEF PushCommit, Fetch, Outdated, Migrate, Restart, BackRestart, Fail,
       ServerLines, BackLines
  <2> QED
    BY <2>1, <2>2 DEF HostsInOrder, SiteLines, ServerLines, BackLines
<1>6. ASSUME NEW o \in Options, Run(o) PROVE HostsInOrder'
  <2>1. /\ at' = 1 /\ line' = "host"
        /\ \A i \in 1..Len(Hosts) : status'[Hosts[i]] = "untouched"
    BY <1>6, HostsCounted DEF Run
  <2> QED
    BY <2>1, HostsCounted DEF HostsInOrder, here, SiteLines, ServerLines, BackLines
<1>7. ASSUME NEW h \in Host, Respawn(h) PROVE HostsInOrder'
  BY <1>7 DEF Respawn, HostsInOrder, here
<1>8. CASE UNCHANGED vars
  BY <1>8 DEF vars, HostsInOrder, here
<1> QED
  BY <1>1, <1>2, <1>3, <1>4, <1>5, <1>6, <1>7, <1>8, StepKinds

\* While its server part is being deployed a host is not yet reported as deployed.
LEMMA NotYetDeployed ==
  ASSUME DeployInv, line \in ServerLines
  PROVE  here \in Host /\ status[here] # "deployed"
<1>1. here \in Host
  BY HereIsHost DEF DeployInv
<1>2. status[here] = "untouched" \/ status[here] = "broken"
  BY DEF DeployInv, HostsInOrder
<1> QED
  BY <1>1, <1>2

\* A deployed host is left alone until the next run.
LEMMA DiskPreserved ==
  ASSUME DeployInv, [Next]_vars
  PROVE  DeployedOnDisk'
<1> TypeOK /\ DeployedOnDisk
  BY DEF DeployInv
<1>1. CASE TreeCommand
  <2>1. /\ line \in ServerLines
        /\ \A k \in Host : k # here => tree'[k] = tree[k]
        /\ UNCHANGED <<running, status, target>>
    BY <1>1, TreeStep
  <2>2. ASSUME NEW h \in Host, status'[h] = "deployed"
        PROVE  tree'[h] = tree[h] /\ status[h] = "deployed"
    BY <2>1, <2>2, NotYetDeployed
  <2> QED
    BY <2>1, <2>2 DEF DeployedOnDisk, OnDisk, Whole
<1>2. CASE Passing
  BY <1>2, PassingStep DEF DeployedOnDisk, OnDisk, Whole
<1>3. CASE Healthy
  <2>1. /\ \A k \in Host : k # here => status'[k] = status[k]
        /\ UNCHANGED <<tree, running, target>>
    BY <1>3, HealthyStep, StatusHere
  <2>2. OnDisk(here) = Whole(target[here]) /\ running[here] = Whole(target[here])
    <3>1. line = "health" /\ TreeAtLine /\ FetchedInOrder
      BY <1>3, HealthyStep DEF DeployInv
    <3> QED
      BY <3>1 DEF TreeAtLine, FetchedInOrder, ServerLines, OnDisk, Whole
  <2> QED
    BY <2>1, <2>2 DEF DeployedOnDisk, OnDisk, Whole
<1>4. CASE Fetch
  <2>1. /\ \A k \in Host : k # here => target'[k] = target[k]
        /\ UNCHANGED <<tree, running, status>>
        /\ status[here] # "deployed"
    BY <1>4, NotYetDeployed DEF Fetch, TypeOK, ServerLines
  <2> QED
    BY <2>1 DEF DeployedOnDisk, OnDisk, Whole
<1>5. CASE Restart \/ BackRestart
  <2>1. /\ \A k \in Host : k # here => running'[k] = running[k]
        /\ UNCHANGED <<tree, status, target>>
        /\ status[here] # "deployed"
    BY <1>5, NotYetDeployed, ProcessOnDisk DEF Restart, BackRestart, StartProcess, ServerLines
  <2> QED
    BY <2>1 DEF DeployedOnDisk, OnDisk, Whole
<1>6. CASE PushCommit \/ Outdated \/ Migrate
  BY <1>6 DEF PushCommit, Outdated, Migrate, DeployedOnDisk, OnDisk, Whole
<1>7. CASE Unhealthy \/ Fail \/ MigratePartly
  <2>1. /\ \A k \in Host : status'[k] = "deployed" => status[k] = "deployed"
        /\ UNCHANGED <<tree, running, target>>
    BY <1>7, StatusHere DEF Unhealthy, Fail, MigratePartly
  <2> QED
    BY <2>1 DEF DeployedOnDisk, OnDisk, Whole
<1>8. ASSUME NEW o \in Options, Run(o) PROVE DeployedOnDisk'
  BY <1>8 DEF Run, DeployedOnDisk
<1>9. ASSUME NEW h \in Host, Respawn(h) PROVE DeployedOnDisk'
  <2>1. /\ running'[h] = OnDisk(h)
        /\ \A k \in Host : k # h => running'[k] = running[k]
        /\ UNCHANGED <<tree, status, target>>
    BY <1>9, ProcessOnDisk DEF Respawn
  <2> QED
    BY <2>1 DEF DeployedOnDisk, OnDisk, Whole
<1>10. CASE UNCHANGED vars
  BY <1>10 DEF vars, DeployedOnDisk, OnDisk, Whole
<1> QED
  BY <1>1, <1>2, <1>3, <1>4, <1>5, <1>6, <1>7, <1>8, <1>9, <1>10, StepKinds

\* DeployInv is an inductive invariant of the script.
THEOREM DeployInvariant == Spec => []DeployInv
<1>1. Init => DeployInv
  BY HostsCounted, DeployAssumption
  DEF Init, DeployInv, TypeOK, FetchedInOrder, TreeAtLine, MigratedFirst, HostsInOrder,
      DeployedOnDisk, Version, Tree, Process, Site, Options, Lines, ServerLines, SiteLines,
      BackLines, Whole, OnDisk, here
<1>2. DeployInv /\ [Next]_vars => DeployInv'
  BY TypePreserved, FetchPreserved, TreePreserved, MigratePreserved, OrderPreserved,
     DiskPreserved DEF DeployInv
<1> QED
  BY <1>1, <1>2, PTL DEF Spec

\* The script starts nothing that is ahead of the schema, pm2 no code that is.
THEOREM SchemaAhead == Spec => SchemaCoversStarted
<1> DEFINE Covered(h) ==
      /\ running'[h].dist <= schema
      /\ line' # line \/ status[h] = "deployed" => running'[h].client <= schema
<1>1. ASSUME DeployInv, [Next]_vars, NEW h \in Host, running'[h] # running[h]
      PROVE  Covered(h)
  <2> TypeOK /\ TreeAtLine /\ MigratedFirst
    BY <1>1 DEF DeployInv
  <2>1. CASE Restart \/ BackRestart
    <3>1. h = here /\ running'[h] = OnDisk(h)
      BY <1>1, <2>1, CommitsAreInts, ProcessOnDisk DEF Restart, BackRestart, StartProcess
    <3>2. tree[h].client = new /\ new <= schema
      BY <2>1, <3>1 DEF Restart, BackRestart, TreeAtLine, MigratedFirst, BackLines
    <3> QED
      BY <3>1, <3>2 DEF OnDisk, MigratedFirst
  <2>2. ASSUME NEW k \in Host, Respawn(k)
        PROVE  Covered(h)
    <3>1. h = k /\ running'[h] = OnDisk(h) /\ line' = line
      BY <1>1, <2>2, ProcessOnDisk DEF Respawn
    <3>2. status[h] = "deployed" => tree[h].client = tree[h].dist
      BY <1>1 DEF DeployInv, DeployedOnDisk, OnDisk, Whole
    <3> QED
      BY <3>1, <3>2 DEF OnDisk, MigratedFirst
  <2>3. \/ Restart \/ BackRestart
        \/ \E k \in Host : Respawn(k)
        \/ UNCHANGED running
    <3>1. TreeCommand \/ Passing \/ Healthy => UNCHANGED running
      BY TreeStep, PassingStep, HealthyStep
    <3> QED
      BY <1>1, <3>1, StepKinds
      DEF PushCommit, Fetch, Outdated, Migrate, Unhealthy, Fail, MigratePartly, Run, vars
  <2> QED
    BY <1>1, <2>1, <2>2, <2>3
<1>2. DeployInv /\ [Next]_vars
        => [\A h \in Host : running'[h] # running[h] => Covered(h)]_vars
  BY <1>1
<1> QED
  BY <1>2, DeployInvariant, PTL DEF Spec, SchemaCoversStarted

\* The host whose deployment breaks is the last one the run has touched.
THEOREM FirstFailureStops == Spec => []StopsAtFirstFailure
<1>1. DeployInv => StopsAtFirstFailure
  BY HostsCounted DEF DeployInv, TypeOK, HostsInOrder, StopsAtFirstFailure
<1> QED
  BY <1>1, DeployInvariant, PTL

\* A host reported as deployed runs exactly the commit fetched for it.
THEOREM DeployedRunsTarget == Spec => []DeployedIsWhole
<1>1. DeployInv => DeployedIsWhole
  BY DEF DeployInv, DeployedOnDisk, DeployedIsWhole, Whole
<1> QED
  BY <1>1, DeployInvariant, PTL
=============================================================================
