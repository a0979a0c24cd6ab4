-------------------------- MODULE MCPushRefinement --------------------------
(* Small instances of the refinement for TLC. *)
EXTENDS PushRefinement, MCPush

\* p1 and p2: serials that move between tags, an entry without unit, a placeholder.
\* p3 and p4 are one request, sent twice.
RefinedPayload ==
  LET again == Request("F1", "w1", "d1", <<Entry3("a", "u1", Absent), Entry3("b", "u2", "s2")>>)
  IN [p1 |-> Request("F1", "w1", "d1", <<Entry3("b", Absent, "N/A"), Entry3("a", "u1", "s1")>>),
      p2 |-> Request("F1", "w1", "d2", <<Entry3("a", "u1", "s2"), Entry3("b", "u1", "s1")>>),
      p3 |-> again, p4 |-> again]

RefinedHosts == [p \in Push |-> IF p \in {"p1", "p3"} THEN "vls-a" ELSE "vls-b"]

\* Bound on what a behaviour mixes: one of the two pairs; the second one has no
\* neighbour, and a log that is written, which plays no part in what a retry changes.
OneCouple ==
  \/ \A p \in {"p3", "p4"} : pc[p] = "idle"
  \/ /\ \A p \in {"p1", "p2"} : pc[p] = "idle"
     /\ \A p \in {"p3", "p4"} : /\ pc[p] # "idle" => log[p] # None
                              /\ pc[p] = "answered" => log[p] # "pending"
     /\ factories["F2"] = None

\* Another plant has a valve of the same tag and the work order.
Neighbour ==
  [NoRows EXCEPT
     !.factories["F2"] = "d0",
     !.devices = {[id |-> 1, factory |-> "F2", name |-> "u1"]},
     !.valves = {ValveRow(1, "F2", 1, "a", "s1")},
     !.workOrders["w1"] = [factory |-> "F2", data |-> "d0"],
     !.links = {<<1, "w1">>},
     !.seq = [device |-> 2, valve |-> 2]]

UniqueStores == {NoRows, Serviced, Neighbour}

ASSUME UniqueStoresNamed == StoresNamed
=============================================================================
