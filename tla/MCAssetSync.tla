----------------------------- MODULE MCAssetSync -----------------------------
(* Small instances of AssetSync for TLC. *)
EXTENDS AssetSync, MCPush

Line(u, t, s) == [unit |-> u, tag |-> t, serialNumber |-> s]

\* A sheet with one row, whose serial number one push uses and whose tag the
\* other, or the other entry.
ShortSheet ==
  [i1 |-> [factory |-> "F1", rows |-> <<Line("u1", "b", "s1")>>]]

\* i2 and i3: two longer sheets for one plant that share a unit, a serial number
\* and a placeholder, with rows the import must skip.
TwinSheets ==
  [i1 |-> ShortSheet["i1"],
   i2 |-> [factory |-> "F1", rows |-> <<Line("u1", "a", "s1"), Line(Absent, "b", "s2"),
                                        Line("u1", "a", "N/A")>>],
   i3 |-> [factory |-> "F1", rows |-> <<Line("u1", "b", "s1"), Line("u1", "b", Absent),
                                        Line("u1", "b", "N/A")>>]]

\* p1, p2 and p3: one work order pushed for two end users, and a second work
\* order of the first, so that the waits for factory and work order rows can
\* chain.  p4 meets the sheet.
WaitingPayload ==
  [p1 |-> Request("F1", "w1", "d1", <<>>),
   p2 |-> Request("F2", "w1", "d2", <<>>),
   p3 |-> Request("F1", "w2", "d1", <<>>),
   p4 |-> Request("F1", "w1", "d1", <<Entry3("a", "u1", "s1"), Entry3("b", "u1", "s2")>>)]
WaitingHosts == [p \in DOMAIN WaitingPayload |-> IF p = "p2" THEN "vls-b" ELSE "vls-a"]

\* Bound on what a behaviour mixes.  Arrivals are not fair, so refusing some of
\* them restricts no fairness condition.
OneCast == \/ pc["p4"] = "idle" /\ step["i1"] = "idle"
           \/ \A p \in {"p1", "p2", "p3"} : pc[p] = "idle"
WaitingSpec ==
  SyncInit /\ [][SyncNext /\ OneCast']_syncVars /\ SyncFairness

PairPayload ==
  [p1 |-> Request("F1", "w1", "d1", <<Entry3("a", "u1", "s1")>>),
   p2 |-> Request("F1", "w2", "d1", <<Entry3("b", "u1", "s2")>>)]

\* A device of the same name, one that moves to the other plant, and valves
\* with every column or some.
DeviceColumns == {[name |-> "u1", factory |-> "F1"], [factory |-> "F2"]}
ValveColumns ==
  {[factory |-> "F1", device |-> 1, tag |-> "a", serialNumber |-> "s1"],
   [factory |-> "F2", device |-> NoDevice, tag |-> "b", serialNumber |-> "s2"],
   [serialNumber |-> "s1"], [factory |-> "F2"], [device |-> 1]}

\* Bound on what a behaviour mixes: administrators edit, and delete the other plant,
\* while p1 and i1 run; the twin imports run beside deletes only.
EditedPair == IF assetEdits = 0 THEN factories["F2"] # None ELSE pc["p2"] = "idle"
TwinsRun   == \E i \in {"i2", "i3"} : step[i] # "idle"
TwinsApart ==
  TwinsRun => assetEdits = 0 /\ step["i1"] = "idle" /\ \A p \in Push : pc[p] = "idle"

\* Every push finds its log writable: the log plays no part in these properties.
LogsWritten ==
  \A p \in Push : /\ pc[p] # "idle" => log[p] # None
                  /\ pc[p] = "answered" => log[p] # "pending"
PairSpec == SyncInit /\ [][SyncNext /\ (EditedPair /\ TwinsApart /\ LogsWritten)']_syncVars

TwoPlants   == {[NoRows EXCEPT !.factories["F1"] = "d0", !.factories["F2"] = "d0"]}
KnownPlant  == {[NoRows EXCEPT !.factories["F1"] = "d0"]}
==============================================================================
