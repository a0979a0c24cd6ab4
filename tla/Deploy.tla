------------------------------- MODULE Deploy -------------------------------
(***************************************************************************)
(* scripts/deploy.sh: brings the servers of vls-server, which share one     *)
(* database, to the head of the deployed branch, one after the other.       *)
(* Commits are numbered along the branch, 0 being what runs at first.  A    *)
(* command may fail at any time (set -e), the connection may drop, and the  *)
(* operator may run the script again; commits are pushed in between.        *)
(***************************************************************************)
EXTENDS Integers, Sequences

CONSTANTS
  Hosts,        \* HOSTS, in order
  MaxVersion,   \* bound on the commits pushed
  MaxRuns       \* bound on the runs of the script

ASSUME DeployAssumption ==
  /\ Hosts \in Seq(STRING) \ {<<>>}
  /\ \A i, j \in 1..Len(Hosts) : Hosts[i] = Hosts[j] => i = j
  /\ MaxVersion \in Nat
  /\ MaxRuns \in Nat

Host    == {Hosts[i] : i \in 1..Len(Hosts)}
Version == 0..MaxVersion

\* A working tree: the commit checked out, and the commits for which its
\* dependencies were installed, its Prisma client generated, its dist built.
Tree == [head : Version, deps : Version, client : Version, dist : Version]

\* What a process was started from.
Process == [dist : Version, deps : Version, client : Version]

Site == [head : Version, deps : Version, dist : Version]   \* the web client's tree

Options == [only : SUBSET Host, server : BOOLEAN, site : BOOLEAN]

ServerLines == {"fetch", "compare", "reset", "install", "generate", "migrate", "build",
                "restart", "health", "backReset", "backBuild", "backRestart"}
SiteLines   == {"siteFetch", "siteCompare", "siteReset", "siteInstall", "siteBuild",
                "siteBackReset", "siteBackBuild"}
Lines == ServerLines \cup SiteLines \cup {"idle", "host", "done", "failed"}

VARIABLES
  origin,    \* head of the branch in the remote repository
  tree,      \* [Host -> Tree]
  running,   \* [Host -> Process]
  site,      \* [Host -> Site]
  schema,    \* the commit whose migrations the shared database has
  line,      \* the command about to run
  at,        \* index of the host being deployed
  options,   \* HOSTS_ONLY, SKIP_SERVER and SKIP_CLIENT of this run
  prev, new, \* PREV and NEW (PREV_C and NEW_C in the client part)
  status,    \* history: [Host -> how this run left the host's server part]
  target,    \* history: [Host -> NEW of the server part in this run]
  runs       \* number of runs so far

vars == <<origin, tree, running, site, schema, line, at, options, prev, new,
          status, target, runs>>

here == Hosts[at]

Init ==
  /\ origin = 0
  /\ tree = [h \in Host |-> [head |-> 0, deps |-> 0, client |-> 0, dist |-> 0]]
  /\ running = [h \in Host |-> [dist |-> 0, deps |-> 0, client |-> 0]]
  /\ site = [h \in Host |-> [head |-> 0, deps |-> 0, dist |-> 0]]
  /\ schema = 0
  /\ line = "idle" /\ at = 1 /\ prev = 0 /\ new = 0 /\ runs = 0
  /\ options = [only |-> Host, server |-> TRUE, site |-> TRUE]
  /\ status = [h \in Host |-> "untouched"]
  /\ target = [h \in Host |-> 0]

---------------------------------------------------------------------------
\* git push to the remote.
PushCommit ==
  /\ origin < MaxVersion
  /\ origin' = origin + 1
  /\ UNCHANGED <<tree, running, site, schema, line, at, options, prev, new,
                 status, target, runs>>

Run(o) ==
  /\ line \in {"idle", "done", "failed"}
  /\ runs < MaxRuns
  /\ runs' = runs + 1
  /\ options' = o
  /\ at' = 1
  /\ line' = "host"
  /\ status' = [h \in Host |-> "untouched"]
  /\ UNCHANGED <<origin, tree, running, site, schema, prev, new, target>>

\* Mutant: one host too many.
NextHostPastEnd ==
  /\ at' = IF at <= Len(Hosts) THEN at + 1 ELSE at
  /\ line' = IF at <= Len(Hosts) THEN "host" ELSE "done"

NextHost ==
  /\ at' = IF at < Len(Hosts) THEN at + 1 ELSE at
  /\ line' = IF at < Len(Hosts) THEN "host" ELSE "done"

\* deploy_host: skip the host, or run the parts that are not skipped.
EnterHost ==
  /\ line = "host"
  /\ IF here \notin options.only \/ ~(options.server \/ options.site)
     THEN NextHost
     ELSE at' = at /\ line' = IF options.server THEN "fetch" ELSE "siteFetch"
  /\ UNCHANGED <<origin, tree, running, site, schema, options, prev, new,
                 status, target, runs>>

\* After the server part: the client part, or the next host.
AfterServer ==
  IF options.site THEN line' = "siteFetch" /\ at' = at ELSE NextHost

Fetch ==
  /\ line = "fetch"
  /\ prev' = tree[here].head
  /\ new' = origin
  /\ target' = [target EXCEPT ![here] = origin]
  /\ line' = "compare"
  /\ UNCHANGED <<origin, tree, running, site, schema, at, options, status, runs>>

\* Mutant: a host that is not restarted is reported as deployed.
AlreadyDeployed ==
  /\ line = "compare"
  /\ prev = new
  /\ status' = [status EXCEPT ![here] = "deployed"]
  /\ AfterServer
  /\ UNCHANGED <<origin, tree, running, site, schema, options, prev, new, target, runs>>

\* "already at $NEW - skip build & restart"
AlreadyThere ==
  /\ line = "compare"
  /\ prev = new
  /\ AfterServer
  /\ UNCHANGED <<origin, tree, running, site, schema, options, prev, new,
                 status, target, runs>>

Outdated ==
  /\ line = "compare"
  /\ prev # new
  /\ line' = "reset"
  /\ UNCHANGED <<origin, tree, running, site, schema, at, options, prev, new,
                 status, target, runs>>

\* A command of the server part that changes the working tree.
InTree(from, to, newTree) ==
  /\ line = from
  /\ line' = to
  /\ tree' = [tree EXCEPT ![here] = newTree]
  /\ UNCHANGED <<origin, running, site, schema, at, options, prev, new, status, target, runs>>

Reset    == InTree("reset", "install", [tree[here] EXCEPT !.head = new])
Install  == InTree("install", "generate", [tree[here] EXCEPT !.deps = tree[here].head])
Generate == InTree("generate", "migrate", [tree[here] EXCEPT !.client = tree[here].head])
Build    == InTree("build", "restart", [tree[here] EXCEPT !.dist = tree[here].head])

\* prisma migrate deploy applies every migration of the tree not yet applied.
Migrate ==
  /\ line = "migrate"
  /\ line' = "build"
  /\ schema' = IF schema < tree[here].head THEN tree[here].head ELSE schema
  /\ UNCHANGED <<origin, tree, running, site, at, options, prev, new, status, target, runs>>

\* pm2 restart: the new process loads what is on disk.
OnDisk(h) == [dist |-> tree[h].dist, deps |-> tree[h].deps, client |-> tree[h].client]

StartProcess == running' = [running EXCEPT ![here] = OnDisk(here)]

\* Mutant: no restart before the health check.
RestartForgotten ==
  /\ line = "restart"
  /\ line' = "health"
  /\ UNCHANGED <<origin, tree, running, site, schema, at, options, prev, new,
                 status, target, runs>>

Restart ==
  /\ line = "restart"
  /\ StartProcess
  /\ line' = "health"
  /\ UNCHANGED <<origin, tree, site, schema, at, options, prev, new, status, target, runs>>

Healthy ==
  /\ line = "health"
  /\ status' = [status EXCEPT ![here] = "deployed"]
  /\ AfterServer
  /\ UNCHANGED <<origin, tree, running, site, schema, options, prev, new, target, runs>>

Unhealthy ==
  /\ line = "health"
  /\ status' = [status EXCEPT ![here] = "broken"]
  /\ line' = "backReset"
  /\ UNCHANGED <<origin, tree, running, site, schema, at, options, prev, new, target, runs>>

\* The rollback resets and rebuilds; dependencies, Prisma client and database stay.
BackReset == InTree("backReset", "backBuild", [tree[here] EXCEPT !.head = prev])
BackBuild == InTree("backBuild", "backRestart", [tree[here] EXCEPT !.dist = tree[here].head])

\* Mutant: no "exit 1" after the rollback.
BackRestartGoesOn ==
  /\ line = "backRestart"
  /\ StartProcess
  /\ AfterServer
  /\ UNCHANGED <<origin, tree, site, schema, options, prev, new, status, target, runs>>

BackRestart ==
  /\ line = "backRestart"
  /\ StartProcess
  /\ line' = "failed"
  /\ UNCHANGED <<origin, tree, site, schema, at, options, prev, new, status, target, runs>>

---------------------------------------------------------------------------
(* The client part: nginx serves dist, there is no process to restart. *)

SiteFetch ==
  /\ line = "siteFetch"
  /\ prev' = site[here].head
  /\ new' = origin
  /\ line' = "siteCompare"
  /\ UNCHANGED <<origin, tree, running, site, schema, at, options, status, target, runs>>

SiteCompare ==
  /\ line = "siteCompare"
  /\ IF prev = new THEN NextHost ELSE line' = "siteReset" /\ at' = at
  /\ UNCHANGED <<origin, tree, running, site, schema, options, prev, new,
                 status, target, runs>>

InSite(from, to, newSite) ==
  /\ line = from
  /\ line' = to
  /\ site' = [site EXCEPT ![here] = newSite]
  /\ UNCHANGED <<origin, tree, running, schema, at, options, prev, new, status, target, runs>>

SiteReset   == InSite("siteReset", "siteInstall", [site[here] EXCEPT !.head = new])
SiteInstall == InSite("siteInstall", "siteBuild", [site[here] EXCEPT !.deps = site[here].head])

SiteBuild ==
  /\ line = "siteBuild"
  /\ site' = [site EXCEPT ![here].dist = site[here].head]
  /\ NextHost
  /\ UNCHANGED <<origin, tree, running, schema, options, prev, new, status, target, runs>>

SiteBuildFails ==
  /\ line = "siteBuild"
  /\ line' = "siteBackReset"
  /\ UNCHANGED <<origin, tree, running, site, schema, at, options, prev, new,
                 status, target, runs>>

SiteBackReset == InSite("siteBackReset", "siteBackBuild", [site[here] EXCEPT !.head = prev])
SiteBackBuild == InSite("siteBackBuild", "failed", [site[here] EXCEPT !.dist = site[here].head])

---------------------------------------------------------------------------
\* A command fails (set -e) or the connection drops: the script ends.
Fail ==
  /\ line \in ServerLines \cup SiteLines \cup {"host"}
  /\ line' = "failed"
  /\ status' = IF line \in ServerLines THEN [status EXCEPT ![here] = "broken"] ELSE status
  /\ UNCHANGED <<origin, tree, running, site, schema, at, options, prev, new, target, runs>>

\* Mutant: a failed migration is rolled back as a failed health check is.
MigratePartlyRollsBack ==
  /\ line = "migrate"
  /\ line' = "backReset"
  /\ \E v \in Version : schema < v /\ v < tree[here].head /\ schema' = v
  /\ status' = [status EXCEPT ![here] = "broken"]
  /\ UNCHANGED <<origin, tree, running, site, at, options, prev, new, target, runs>>

\* A migration fails after earlier ones have been applied.
MigratePartly ==
  /\ line = "migrate"
  /\ line' = "failed"
  /\ \E v \in Version : schema < v /\ v < tree[here].head /\ schema' = v
  /\ status' = [status EXCEPT ![here] = "broken"]
  /\ UNCHANGED <<origin, tree, running, site, at, options, prev, new, target, runs>>

\* pm2 restarts a server that has died, from what is on disk at that moment.
Respawn(h) ==
  /\ running' = [running EXCEPT ![h] = OnDisk(h)]
  /\ UNCHANGED <<origin, tree, site, schema, line, at, options, prev, new,
                 status, target, runs>>

ServerPart == \/ Fetch \/ AlreadyThere \/ Outdated \/ Reset \/ Install \/ Generate
              \/ Migrate \/ Build \/ Restart \/ Healthy \/ Unhealthy
              \/ BackReset \/ BackBuild \/ BackRestart
SitePart   == \/ SiteFetch \/ SiteCompare \/ SiteReset \/ SiteInstall \/ SiteBuild
              \/ SiteBuildFails \/ SiteBackReset \/ SiteBackBuild

Next ==
  \/ PushCommit
  \/ \E o \in Options : Run(o)
  \/ EnterHost \/ ServerPart \/ SitePart
  \/ Fail \/ MigratePartly
  \/ \E h \in Host : Respawn(h)

Spec == Init /\ [][Next]_vars

---------------------------------------------------------------------------
(* Properties *)

\* The types of the script's state and of what it maintains.
TypeOK ==
  /\ origin \in Version
  /\ tree \in [Host -> Tree]
  /\ running \in [Host -> Process]
  /\ site \in [Host -> Site]
  /\ schema \in Version
  /\ line \in Lines
  /\ at \in 1..Len(Hosts)
  /\ options \in Options
  /\ prev \in Version /\ new \in Version
  /\ status \in [Host -> {"untouched", "deployed", "broken"}]
  /\ target \in [Host -> Version]
  /\ runs \in 0..MaxRuns

\* What the script starts, by the restart or by that of a rollback, is not ahead of
\* the database: neither its code nor its Prisma client needs a migration that is
\* missing.  A process that pm2 starts by itself never has such code either, but it
\* may have such a client, as "prisma generate" (deploy.sh:84) precedes the
\* migrations (:87): a server that dies there, or after they have failed, comes back
\* with it.  Not so on a host that this run has reported as deployed.
SchemaCoversStarted ==
  [][\A h \in Host : running'[h] # running[h] =>
       /\ running'[h].dist <= schema
       /\ line' # line \/ status[h] = "deployed" => running'[h].client <= schema]_vars

\* A host whose deployment broke stops the run: no later host has been touched.
StopsAtFirstFailure ==
  \A i, j \in 1..Len(Hosts) :
     i < j /\ status[Hosts[i]] = "broken" => status[Hosts[j]] = "untouched"

\* A host reported "deployed (health OK)" runs the commit that was fetched for
\* it, with that commit's dependencies and Prisma client.
DeployedIsWhole ==
  \A h \in Host : status[h] = "deployed" =>
     running[h] = [dist |-> target[h], deps |-> target[h], client |-> target[h]]

\* "all hosts deployed": every host the run selected runs the commit that was
\* fetched for it.
AllHostsDeployed ==
  line = "done" /\ options.server =>
     \A h \in options.only : running[h].dist = target[h]

---------------------------------------------------------------------------
(* Why the properties hold: what is known at each line of the script. *)

BackLines == {"backReset", "backBuild", "backRestart"}
Whole(v)  == [dist |-> v, deps |-> v, client |-> v]

\* Commits only come from the branch, and the branch only grows.
FetchedInOrder ==
  /\ \A h \in Host : tree[h].head <= origin
  /\ line \in ServerLines \ {"fetch"} =>
       prev <= new /\ new <= origin /\ target[here] = new

\* What the commands before this line have left in the working tree.
TreeAtLine ==
  /\ line \in {"install", "generate", "migrate", "build", "restart", "health"} =>
       tree[here].head = new
  /\ line \in {"generate", "migrate", "build", "restart", "health"} => tree[here].deps = new
  /\ line \in {"migrate", "build", "restart", "health"} \cup BackLines =>
       tree[here].client = new
  /\ line \in {"restart", "health"} => tree[here].dist = new
  /\ line = "health" => running[here] = Whole(new)
  /\ line \in {"backBuild", "backRestart"} => tree[here].head = prev

\* The schema is ahead of every dist, and of what is about to be built or started.
MigratedFirst ==
  /\ line \in {"build", "restart", "health"} \cup BackLines => new <= schema
  /\ \A h \in Host : tree[h].dist <= schema /\ running[h].dist <= schema

\* Hosts before the current one did not break, later ones are untouched.
HostsInOrder ==
  /\ \A i \in 1..Len(Hosts) : i < at => status[Hosts[i]] # "broken"
  /\ \A i \in 1..Len(Hosts) : i > at => status[Hosts[i]] = "untouched"
  /\ line \in (ServerLines \ BackLines) \cup {"host"} => status[here] = "untouched"
  /\ line \in BackLines => status[here] = "broken"
  /\ line \in SiteLines => status[here] # "broken"

DeployedOnDisk ==
  \A h \in Host : status[h] = "deployed" =>
     OnDisk(h) = Whole(target[h]) /\ running[h] = Whole(target[h])

DeployInv ==
  /\ TypeOK
  /\ FetchedInOrder
  /\ TreeAtLine
  /\ MigratedFirst
  /\ HostsInOrder
  /\ DeployedOnDisk
=============================================================================
