-------------------------------- MODULE Admin --------------------------------
(***************************************************************************)
(* The administration pages together: guarded requests that read menus and   *)
(* factories, resets of the menus, task work nobody awaits, and the          *)
(* statements of administrators, on servers that share one database.  The    *)
(* components meet in the tables, in the guard, in the cascade from a        *)
(* factory to its tasks and PDFs, and when a server dies.                    *)
(***************************************************************************)
EXTENDS FactoryScope, TaskWork

adminVars == <<adminTables, edits, requestVars, accessVars, accessHistory, scopeVars, workVars>>

AdminInit ==
  /\ InitStore([r \in Request |-> FirstStep(r)])
  /\ AccessInit /\ ScopeInit /\ WorkInit

\* An administrator's statement, and the removal of a factory, are seen by the
\* requests that are reading.
EditTables     == Edit /\ WatchGrants /\ WatchScope /\ UNCHANGED workVars
RemoveFactory(r) == RemoveOne(r) /\ WatchGrants /\ WatchScope

\* Every request on h is lost, a reset among them.
Serving(h) == {r \in Request : HostOf[r] = h /\ step[r] \notin {FirstStep(r), "done"}}

Stop(h) ==
  /\ Die(h, Serving(h))
  /\ broken' = (broken \/ \E r \in Serving(h) : Resetting(r))
  /\ UNCHANGED <<accessVars, wiped, granted, scopeVars>>

\* Nobody handles the rejection of a statement nobody awaits: an update of
\* clear(), whose row may be gone, or an insert into one of the logs.
Reject(w) == Stop(HostOf[w.by])

Settle == \E w \in pending :
            \/ /\ Strip(w) \/ Log(w)
               /\ UNCHANGED <<accessVars, accessHistory, scopeVars>>
            \/ Reject(w)

AdminStep(r) ==
  \/ AccessStep(r) /\ UNCHANGED <<scopeVars, workVars>>
  \/ ScopeStep(r) /\ UNCHANGED workVars
  \/ WorkStep(r) /\ UNCHANGED <<accessVars, accessHistory, scopeVars>>
  \/ RemoveFactory(r)

AdminNext ==
  \/ EditTables
  \/ \E r \in Request : AdminStep(r)
  \/ Settle
  \/ \E h \in Host : Stop(h)
  \/ Tick /\ UNCHANGED <<accessVars, accessHistory, scopeVars>>

AdminSpec == AdminInit /\ [][AdminNext]_adminVars

\* The database executes what was sent to it; nothing else must happen.
FairAdminSpec == AdminSpec /\ WF_adminVars(Settle)

AdminTypeOK == StoreTypeOK /\ AccessTypeOK /\ WorkTypeOK
===============================================================================
