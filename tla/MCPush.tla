------------------------------- MODULE MCPush -------------------------------
(* Small instances of ServiceAppPush for TLC. *)
EXTENDS ServiceAppPush

Entry3(t, u, s) == [tag |-> t, unit |-> u, serialNumber |-> s]

Request(f, w, d, vs) == [endUser |-> f, serial |-> w, data |-> d, valves |-> vs]

\* p1 and p2 push for one plant, with two work orders: both want to create
\* device u1, and each names a valve first that the other names last; p1's
\* first valve does not name its unit.  p3 pushes for another plant that uses
\* the same unit, tag and serial number, p4 there for the work order of p1.
PairsPayload ==
  [p1 |-> Request("F1", "w1", "d1", <<Entry3("b", Absent, "N/A"), Entry3("a", "u1", "s1")>>),
   p2 |-> Request("F1", "w2", "d2", <<Entry3("a", "u1", "s2"), Entry3("b", "u1", Absent)>>),
   p3 |-> Request("F2", "w2", "d2", <<Entry3("a", "u1", "s1")>>),
   p4 |-> Request("F2", "w1", "d2", <<Entry3("a", "u1", "s1")>>)]

RacePayload == [p \in {"p1", "p2"} |-> PairsPayload[p]]

OneOnA   == [p \in Push |-> IF p = "p1" THEN "vls-a" ELSE "vls-b"]

\* Bound on what a behaviour mixes: p1 and one other push.
OnePair == \E other \in Push : \A p \in Push \ {"p1", other} : pc[p] = "idle"

NoRows == [factories |-> [f \in Factory |-> None], devices |-> {}, valves |-> {},
           workOrders |-> [w \in WorkOrderNo |-> None], links |-> {},
           seq |-> [device |-> 1, valve |-> 1]]

ValveRow(i, f, d, t, s) ==
  [id |-> i, factory |-> f, device |-> d, tag |-> t, serialNumber |-> s]

\* A plant that imports have filled: tag "a" already stands for two valves.
Imported ==
  [NoRows EXCEPT
     !.factories["F1"] = "d0",
     !.devices = {[id |-> 1, factory |-> "F1", name |-> "u1"]},
     !.valves = {ValveRow(1, "F1", 1, "a", "s1"), ValveRow(2, "F1", 1, "a", "s3")},
     !.seq = [device |-> 2, valve |-> 3]]

\* A plant with a device and one valve, under work order w1.
Serviced ==
  [NoRows EXCEPT
     !.factories["F1"] = "d0",
     !.devices = {[id |-> 1, factory |-> "F1", name |-> "u2"]},
     !.valves = {ValveRow(1, "F1", 1, "a", "s1")},
     !.workOrders["w1"] = [factory |-> "F1", data |-> "d0"],
     !.links = {<<1, "w1">>},
     !.seq = [device |-> 2, valve |-> 2]]

EmptyStore  == {NoRows}
Ambiguous   == {Imported}
RaceStores  == {NoRows, Imported, Serviced}
=============================================================================
