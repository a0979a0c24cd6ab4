------------------------------- MODULE MCPages -------------------------------
(* Small instances of Trees, Report, Routes and Dictionary for TLC. *)
EXTENDS Trees, Report, Routes, Dictionary

Row(tag, time, name) == [tag |-> tag, time |-> time, name |-> name]

\* A tag that ends like a key of another one, a time that comes twice.
Rows2  == {Row(tag, time, name) : tag \in {<<"a">>, <<"a", "|", "t">>}, time \in {<<"t">>, <<"u">>},
                                 name \in {"leak", "stuck"}}
Alarms == {<<>>} \cup {<<r>> : r \in Rows2} \cup (Rows2 \X Rows2)
          \cup {<<r, s, t>> : r \in {Row(<<"a">>, <<"t">>, "leak")}, s \in Rows2, t \in Rows2}

Plot == [times |-> <<"t">>, dataLine |-> <<3, 27>>, auxiliaryLine |-> TRUE, predictionLine |-> TRUE,
         lowerLimit |-> 5, upperLimit |-> 15, standardLine |-> <<>>, deviation |-> FALSE]

Plots == {None, <<>>, Plot}
  \cup {[Plot EXCEPT !.times = ts, !.dataLine = d] : ts \in {<<>>, <<"t">>}, d \in {<<>>, <<-7>>, <<40, 0>>}}
  \cup {[Plot EXCEPT !.auxiliaryLine = a, !.predictionLine = p] : a, p \in BOOLEAN}
  \cup {[Plot EXCEPT !.standardLine = l, !.deviation = d] :
           l \in {<<NaN>>, <<20>>, <<NaN, 50, 20>>}, d \in BOOLEAN}
  \cup {[Plot EXCEPT !.lowerLimit = l, !.upperLimit = u] : l, u \in {Absent, -33, 5, 64}}

Item(plot) == [name |-> "leak", plot |-> plot]
Valve(tag, items) == [tag |-> tag, items |-> items]

Valves == {<<Valve("a", <<Item(p), Item(q)>>), Valve("b", <<Item(Plot)>>)>> : p \in Plots, q \in {None, Plot}}
  \cup {<<Valve("a", <<>>), Valve("b", <<Item(p)>>), Valve("a", <<Item(None)>>)>> : p \in Plots}

Named(names) == [i \in DOMAIN names |-> [name |-> names[i]]]
Records == {<<Named(r), Named(s)>> : r \in {<<"tag">>, <<"tag", "size">>, <<"tag", "size", "cv">>},
              s \in {<<>>, <<"tag">>, <<"size">>, <<"size", "tag">>, <<"tag", "cv", "size">>}}

Timed(ts) == [data |-> [i \in DOMAIN ts |-> [time |-> ts[i]]]]
Cycles == {<<Timed(r), Timed(s)>> : r, s \in {<<"q1", "q2">>, <<"q1", "q2", "q3">>, <<"q2", "q1", "q3">>,
                                              <<"q1", "q2", "q3", "q4">>}}

\* One part of the report varies at a time.
Plain == [newProblem |-> <<>>, oldProblem |-> <<>>, valveDetails |-> <<>>, records |-> <<>>, cycle |-> <<>>]

MCDetails ==
  {[Plain EXCEPT !.newProblem = a, !.oldProblem = <<Row(<<"a">>, <<"t">>, "leak")>>] : a \in Alarms}
  \cup {[Plain EXCEPT !.oldProblem = a] : a \in Alarms}
  \cup {[Plain EXCEPT !.valveDetails = v] : v \in Valves}
  \cup {[Plain EXCEPT !.records = r] : r \in Records}
  \cup {[Plain EXCEPT !.cycle = c] : c \in Cycles}

\* Bound: only one of the four moves.
Unseeded == DictInit
PagesInit == TreeInit /\ ReportInit /\ RoutesInit /\ DictInit
PagesNext ==
  \/ /\ doc = None /\ asked = <<>> /\ Unseeded
     /\ TreeNext /\ UNCHANGED <<reportVars, routeVars, dictVars>>
  \/ /\ Rows = {} /\ asked = <<>> /\ Unseeded
     /\ ReportNext /\ UNCHANGED <<treeVars, routeVars, dictVars>>
  \/ /\ Rows = {} /\ doc = None /\ Unseeded
     /\ RoutesNext /\ UNCHANGED <<treeVars, reportVars, dictVars>>
  \/ /\ Rows = {} /\ doc = None /\ asked = <<>>
     /\ DictNext /\ UNCHANGED <<treeVars, reportVars, routeVars>>
PagesSpec == PagesInit /\ [][PagesNext]_<<treeVars, reportVars, routeVars, dictVars>>
==============================================================================
