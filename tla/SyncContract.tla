---------------------------- MODULE SyncContract ----------------------------
(***************************************************************************)
(* What ServiceAppService.create promises: a push either takes effect as a  *)
(* whole, as if it ran alone, or has no effect.  Rows carry no ids here: a  *)
(* device is a factory and a name, a valve a factory and a tag.  The        *)
(* contract is for stores in which each of these names one row.             *)
(***************************************************************************)
EXTENDS Integers, FiniteSets, Sequences

CONSTANTS Push, Factory, Unit, Tag, SerialNumber, Placeholder, WorkOrderNo,
          Data, Absent, None, Payload, StartingStores

VARIABLES
  store,      \* the visible rows
  outcome     \* [Push -> {None, "applied", "rejected"}]

contractVars == <<store, outcome>>

ContractInit ==
  /\ store \in StartingStores
  /\ outcome = [p \in Push |-> None]

---------------------------------------------------------------------------
(* The effect of one push on a store, as the set of stores it may lead to; *)
(* no store when it must be rejected.                                      *)

WithFactory(s, f, d) == [s EXCEPT !.factories[f] = d]

WithWorkOrder(s, f, w, d) ==
  [s EXCEPT !.workOrders[w] =
     [factory |-> IF s.workOrders[w] = None THEN f ELSE s.workOrders[w].factory,
      data |-> d]]

\* The devices the entry may be mounted on, the one it creates if none fits.
Mounts(s, f, entry) ==
  LET fitting == {d \in s.devices : d.factory = f /\ entry.unit \in {Absent, d.name}}
  IN IF fitting = {} /\ entry.unit # Absent
     THEN {[factory |-> f, name |-> entry.unit]} ELSE fitting

SameValve(s, f, entry) == {v \in s.valves : v.factory = f /\ v.tag = entry.tag}

WithValve(s, f, w, entry) ==
  LET same   == SameValve(s, f, entry)
      others == s.valves \ same
      serial == IF entry.serialNumber # Absent THEN {entry.serialNumber}
                ELSE IF same = {} THEN {Absent} ELSE {v.serialNumber : v \in same}
      taken(n) == /\ n \notin Placeholder \cup {Absent}
                  /\ \E v \in others : v.factory = f /\ v.serialNumber = n
  IN {[s EXCEPT !.devices = @ \cup {d},
                !.valves = others \cup {[factory |-> f, device |-> d.name,
                                         tag |-> entry.tag, serialNumber |-> n]},
                !.links = @ \cup {<<f, entry.tag, w>>}] :
        d \in Mounts(s, f, entry), n \in {m \in serial : ~taken(m)}}

\* The stores that the factory, the work order and the first k entries lead to.
Stages(s, p) ==
  LET r     == Payload[p]
      start == WithWorkOrder(WithFactory(s, r.endUser, r.data), r.endUser, r.serial, r.data)
      after[k \in 0..Len(r.valves)] ==
        IF k = 0 THEN {start}
        ELSE UNION {WithValve(t, r.endUser, r.serial, r.valves[k]) : t \in after[k-1]}
  IN after

Effects(s, p) == Stages(s, p)[Len(Payload[p].valves)]

Apply(p) ==
  /\ outcome[p] = None
  /\ store' \in Effects(store, p)
  /\ outcome' = [outcome EXCEPT ![p] = "applied"]

\* A server that stops rejects all pushes it was serving.
Reject(ps) ==
  /\ \A p \in ps : outcome[p] = None
  /\ outcome' = [p \in Push |-> IF p \in ps THEN "rejected" ELSE outcome[p]]
  /\ store' = store

---------------------------------------------------------------------------
(* The administrators' deletes *)

Without(s, gone, orders) ==
  [s EXCEPT !.valves = @ \ gone,
            !.links = {l \in @ : l[3] \notin orders /\
                                 \A v \in gone : <<l[1], l[2]>> # <<v.factory, v.tag>>}]

DropValves ==
  \E gone \in SUBSET store.valves : store' = Without(store, gone, {})

DropDevices ==
  \E gone \in SUBSET store.devices :
     store' = Without([store EXCEPT !.devices = @ \ gone],
                      {v \in store.valves : \E d \in gone :
                          v.factory = d.factory /\ v.device = d.name}, {})

DropFactories ==
  \E gone \in SUBSET Factory :
     LET orders == {w \in WorkOrderNo : /\ store.workOrders[w] # None
                                        /\ store.workOrders[w].factory \in gone}
     IN store' = Without([store EXCEPT
                            !.factories = [f \in Factory |-> IF f \in gone THEN None ELSE @[f]],
                            !.devices = {d \in @ : d.factory \notin gone},
                            !.workOrders = [w \in WorkOrderNo |->
                               IF w \in orders THEN None ELSE @[w]]],
                         {v \in store.valves : v.factory \in gone}, orders)

ContractNext ==
  \/ \E p \in Push : Apply(p)
  \/ \E ps \in SUBSET Push : Reject(ps)
  \/ (DropValves \/ DropDevices \/ DropFactories) /\ UNCHANGED outcome

ContractSpec == ContractInit /\ [][ContractNext]_contractVars
=============================================================================
