--------------------------- MODULE PushRefinement ---------------------------
(***************************************************************************)
(* ServiceAppPush implements SyncContract: its interleaved, abortable       *)
(* transactions have the effects of pushes applied one at a time.  The      *)
(* refinement mapping forgets the ids of the committed rows.                *)
(***************************************************************************)
EXTENDS ServiceAppPush

\* What the rows of a store say, without their ids.
Visible(s) ==
  [factories  |-> s.factories,
   devices    |-> {[factory |-> d.factory, name |-> d.name] : d \in s.devices},
   valves     |-> {[factory |-> v.factory,
                    device |-> (CHOOSE d \in s.devices : d.id = v.device).name,
                    tag |-> v.tag, serialNumber |-> v.serialNumber] : v \in s.valves},
   workOrders |-> s.workOrders,
   links      |-> UNION {{<<v.factory, v.tag, l[2]>> : l \in {k \in s.links : k[1] = v.id}} :
                         v \in s.valves}]

Committed == [factories |-> factories, devices |-> devices, valves |-> valves,
              workOrders |-> workOrders, links |-> links]

Outcome ==
  [p \in Push |-> IF p \in committed THEN "applied"
                  ELSE IF pc[p] \in {"recordFailure", "answered", "lost"} THEN "rejected"
                  ELSE None]

Contract == INSTANCE SyncContract
  WITH store <- Visible(Committed), outcome <- Outcome,
       StartingStores <- {Visible(s) : s \in InitialStores}

\* The stores the contract is for: a tag names one valve of its factory, and every
\* valve is on a device of its factory.  Neither is a key of the schema; a sheet
\* import or an administrator may have left a store otherwise.
TagsOnce(vs)    == \A v, w \in vs : v.factory = w.factory /\ v.tag = w.tag => v = w
Mounted(ds, vs) == \A v \in vs : \E d \in ds : d.id = v.device /\ d.factory = v.factory
StoresNamed == \A s \in InitialStores : TagsOnce(s.valves) /\ Mounted(s.devices, s.valves)

\* Every behaviour of the concurrent pushes, with aborts, lost commit replies,
\* crashes and deletes at any point, is one in which each push is applied
\* atomically and alone, or not at all.
ImplementsContract == Contract!ContractSpec
=============================================================================
