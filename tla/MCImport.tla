------------------------------ MODULE MCImport ------------------------------
(* Small instances of ValveImport for TLC. *)
EXTENDS ValveImport

Line(u, t, s) == [unit |-> u, tag |-> t, serialNumber |-> s]

\* Two valves of one plant whose serial numbers are not known yet.
PlaceholderSheet ==
  [i1 |-> [factory |-> "F1", rows |-> <<Line("u1", "a", "N/A"), Line("u1", "b", "N/A"),
                                        Line("u2", "b", "s1")>>]]

\* A plant without devices or valves yet.
NoRows == [factories |-> [f \in Factory |-> None], devices |-> {}, valves |-> {},
           workOrders |-> [w \in WorkOrderNo |-> None], links |-> {},
           seq |-> [device |-> 1, valve |-> 1]]

KnownPlant == {[NoRows EXCEPT !.factories = [f \in Factory |-> "d0"]]}
=============================================================================
