-------------------------------- MODULE Report --------------------------------
(***************************************************************************)
(* FactoryService.findReport: the answer of the analysis service becomes a    *)
(* Word document (type 1) or a list of problems (type 2).  Modelled is what   *)
(* goes where: rows and merged cells of the alarm table, cells and headings   *)
(* of the cycle and travel tables, problems and pictures of the details.      *)
(*                                                                          *)
(* Tags and times are sequences of marks, as the code joins them to keys.     *)
(* Measured values are whole tenths.                                         *)
(***************************************************************************)
EXTENDS Integers, FiniteSets, SequencesExt

CONSTANTS
  Details,       \* the answers of the analysis service
  MaxPictures,   \* bound on the pictures of a process
  Absent, NaN,   \* a limit that is missing, a standard line that is no number
  Blank,         \* no text
  Failed, None

VARIABLES
  docPrSeq,   \* the counter of report.helper.ts, shared by the reports of a process
  told,       \* the answer the last report was made of, or None
  doc         \* the last document, or Failed

reportVars == <<docPrSeq, told, doc>>

---------------------------------------------------------------------------
(* The alarm table: problems of one tag and time are one group.              *)

Bar == <<"|">>

\* Mutant: a group per tag.
KeyOfTag(r) == r.tag

Key(r) == r.tag \o Bar \o r.time

\* A problem joins the group of its key, or starts one behind the others.
Pushed(groups, r) ==
  IF \E g \in DOMAIN groups : Key(groups[g]) = Key(r)
  THEN [g \in DOMAIN groups |-> IF Key(groups[g]) = Key(r)
                               THEN [groups[g] EXCEPT !.problems = Append(@, r.name)]
                               ELSE groups[g]]
  ELSE Append(groups, [tag |-> r.tag, time |-> r.time, problems |-> <<r.name>>])

GroupAlarmRows(data) ==
  LET groups[n \in 0..Len(data)] ==
        IF n = 0 THEN <<>> ELSE Pushed(groups[n - 1], data[n])
  IN  groups[Len(data)]

\* A row's number, tag and time are merged with those of the row above it
\* unless it is the first of its group.
TableAlarm(data) ==
  LET groups == GroupAlarmRows(data) IN
  FlattenSeq([g \in DOMAIN groups |->
    [p \in DOMAIN groups[g].problems |->
       LET first == p = 1 IN
       [restart |-> first,
        number  |-> IF first THEN g ELSE Blank,
        tag     |-> IF first THEN groups[g].tag ELSE Blank,
        time    |-> IF first THEN groups[g].time ELSE Blank,
        problem |-> groups[g].problems[p]]]])

---------------------------------------------------------------------------
(* The details of the problems *)

MarkLines(plot) ==
  LET lines == plot.standardLine IN
  FlattenSeq([i \in DOMAIN lines |->
    IF lines[i] = NaN THEN <<>>
    ELSE IF plot.deviation THEN <<lines[i], -lines[i]>> ELSE <<lines[i]>>])

OrZero(limit) == IF limit = Absent THEN 0 ELSE limit

Floor(v) == 10 * (v \div 10)
Ceil(v)  == -Floor(-v)

AlarmChart(plot, id) ==
  LET lower == OrZero(plot.lowerLimit)
      upper == OrZero(plot.upperLimit)
      drawn == Range(plot.dataLine) \cup Range(MarkLines(plot))
  IN  [id    |-> id,
       max   |-> Ceil(Max(drawn \cup {upper})),
       min   |-> Floor(Min(drawn \cup {lower})),
       marks |-> <<lower, upper>> \o MarkLines(plot),
       data  |-> plot.dataLine]

\* An answer has no plot, or an empty array, or an object that may lack parts.
IsObject(plot) == plot \notin {None, <<>>}

\* Mutant: the check of the two lines that are computed is forgotten.
HasTimes(plot) == IsObject(plot) /\ plot.times # <<>> /\ plot.dataLine # <<>>

HasPlotData(plot) ==
  /\ IsObject(plot) /\ plot.times # <<>> /\ plot.dataLine # <<>>
  /\ plot.auxiliaryLine /\ plot.predictionLine

Problems(detail) ==
  FlattenSeq([v \in DOMAIN detail.valveDetails |-> detail.valveDetails[v].items])

\* The problems up to the first whose picture reads a line that is missing, which throws.
Throws(item) == HasPlotData(item.plot) /\ ~(item.plot.auxiliaryLine /\ item.plot.predictionLine)

Built(items) ==
  SubSeq(items, 1, Max({n \in 0..Len(items) : \A i \in 1..n : ~Throws(items[i])}))

\* The problems with a picture.
Drawn(items) == {i \in DOMAIN items : HasPlotData(items[i].plot)}

\* The pictures before the details: health, alarms, quarters.
Overviews == 3

\* The texts under a valve's heading, each with its picture; every picture takes the next
\* number of the document.
DetailValvesAlarm(detail, first) ==
  LET before(v, i) ==
        Cardinality(Drawn(FlattenSeq([w \in 1..(v - 1) |-> detail.valveDetails[w].items])
                            \o SubSeq(detail.valveDetails[v].items, 1, i - 1)))
  IN  [v \in DOMAIN detail.valveDetails |->
         LET valve == detail.valveDetails[v] IN
         [tag   |-> valve.tag,
          items |-> [i \in DOMAIN valve.items |->
             [text    |-> valve.items[i].name,
              picture |-> IF HasPlotData(valve.items[i].plot)
                          THEN AlarmChart(valve.items[i].plot, first + before(v, i))
                          ELSE None]]]]

---------------------------------------------------------------------------
(* The tables with computed headings *)

Indicators == <<"cycleCount", "dailyMovementCount", "travelAccumulator", "amplitudePerAction">>

\* Four headings that span three columns each, above the times of the first valve.
CycleHeadings(data) ==
  LET times == [i \in DOMAIN data[1].data |-> data[1].data[i].time]
      under == times \o times \o times \o times
  IN  [c \in 1..12 |-> [indicator |-> Indicators[(c - 1) \div 3 + 1],
                        time |-> IF c \in DOMAIN under THEN under[c] ELSE Blank]]

\* Mutant: the indicators of a month side by side.
CycleCellsByMonth(valve) ==
  FlattenSeq([m \in DOMAIN valve.data |->
    [k \in DOMAIN Indicators |-> [indicator |-> Indicators[k], time |-> valve.data[m].time]]])

CycleCells(valve) ==
  FlattenSeq([k \in DOMAIN Indicators |->
    [m \in DOMAIN valve.data |-> [indicator |-> Indicators[k], time |-> valve.data[m].time]]])

\* The headings are the names of the first record.  A record shows its values in
\* their order, as many as it has; what it lacks is left out without a cell.
TravelHeadings(records) == [c \in DOMAIN records[1] |-> records[1][c].name]

TravelCells(records, r) ==
  LET headings == TravelHeadings(records)
      names    == {records[r][i].name : i \in DOMAIN records[r]}
      looked   == SubSeq(headings, 1, IF Len(records[r]) < Len(headings) THEN Len(records[r]) ELSE Len(headings))
  IN  FlattenSeq([i \in DOMAIN looked |-> IF looked[i] \in names THEN <<looked[i]>> ELSE <<>>])

---------------------------------------------------------------------------
(* Reports *)

Document(detail, first) ==
  [alarms     |-> <<TableAlarm(detail.newProblem), TableAlarm(detail.oldProblem)>>,
   details    |-> DetailValvesAlarm(detail, first + Overviews),
   overviews  |-> [k \in 1..Overviews |-> first + k - 1],
   travel     |-> [r \in DOMAIN detail.records |-> TravelCells(detail.records, r)],
   cycle      |-> [v \in DOMAIN detail.cycle |-> CycleCells(detail.cycle[v])]]

Pictures(detail) ==
  Overviews + Cardinality(Drawn(Built(Problems(detail))))

ReportInit == docPrSeq = 1000 /\ told = None /\ doc = None

\* The document is put together without an await in between.
FindReport(detail) ==
  /\ told' = detail
  /\ docPrSeq' = docPrSeq + Pictures(detail)
  /\ doc' = IF Built(Problems(detail)) = Problems(detail) THEN Document(detail, docPrSeq) ELSE Failed

\* Type 2 answers with the problems alone.
FindProblems(detail) ==
  /\ told' = detail
  /\ doc' = [problems |-> Problems(detail)]
  /\ UNCHANGED docPrSeq

\* The service is away or answers without a detail, or the plant or task of the request is gone.
ServiceFails == doc' = Failed /\ told' = None /\ UNCHANGED docPrSeq

RestartServer == docPrSeq' = 1000 /\ told' = None /\ doc' = None

ReportNext ==
  \/ /\ docPrSeq < 1000 + MaxPictures
     /\ \E detail \in Details : FindReport(detail) \/ FindProblems(detail)
  \/ ServiceFails
  \/ RestartServer

ReportSpec == ReportInit /\ [][ReportNext]_reportVars

---------------------------------------------------------------------------
(* What the analysis service answers *)

\* Problems with a tag and a date; a date has no bar in it.
AlarmList(data) ==
  /\ data \in Seq(Range(data))
  /\ \A r \in Range(data) :
       /\ r = [tag |-> r.tag, time |-> r.time, name |-> r.name]
       /\ r.tag \in Seq(Range(r.tag)) /\ r.time \in Seq(Range(r.time))
       /\ "|" \notin Range(r.time)

\* Valves with problems; the lines and limits of a whole plot are numbers.
ValveList(valves) ==
  /\ valves \in Seq(Range(valves))
  /\ \A valve \in Range(valves) :
       /\ valve.items \in Seq(Range(valve.items))
       /\ \A item \in Range(valve.items) :
            HasPlotData(item.plot) =>
              /\ item.plot.dataLine \in Seq(Int) /\ item.plot.standardLine \in Seq(Int \cup {NaN})
              /\ {item.plot.lowerLimit, item.plot.upperLimit} \subseteq Int \cup {Absent}

\* No answer is written as a failure.
ASSUME ReportAssumption ==
  /\ MaxPictures \in Nat
  /\ \A detail \in Details :
       /\ AlarmList(detail.newProblem) /\ AlarmList(detail.oldProblem)
       /\ ValveList(detail.valveDetails)
       /\ Failed # [problems |-> Problems(detail)]
       /\ \A first \in 1000..(1000 + MaxPictures) : Failed # Document(detail, first)

---------------------------------------------------------------------------
(* Properties *)

IsDocument == doc # None /\ doc # Failed /\ "details" \in DOMAIN doc

\* What a reader of the table sees in row i: merged cells show the row they start in.
Merged(table, i) == CHOOSE j \in 1..i : table[j].restart /\ \A k \in (j + 1)..i : ~table[k].restart

AsRead(table) ==
  [i \in DOMAIN table |-> [tag  |-> table[Merged(table, i)].tag,
                           time |-> table[Merged(table, i)].time,
                           name |-> table[i].problem]]

Faithful(table, data) ==
  LET read   == AsRead(table)
      starts == {i \in DOMAIN table : table[i].restart}
      Times(s, x) == Cardinality({i \in DOMAIN s : s[i] = x})
  IN  /\ Len(read) = Len(data)
      /\ \A row \in Range(data) : Times(read, row) = Times(data, row)
      /\ \A i \in starts : table[i].number = Cardinality({j \in starts : j <= i})
      /\ \A i, j \in starts : table[i].tag = table[j].tag /\ table[i].time = table[j].time => i = j

\* The tables of new and of known alarms list every problem as often as it was told, beside
\* its own tag and time although these cells are merged; the groups are numbered in
\* order and no tag has two groups of one time.
AlarmTableFaithful ==
  IsDocument => Faithful(doc.alarms[1], told.newProblem) /\ Faithful(doc.alarms[2], told.oldProblem)

\* The ids of the pictures in the template.
TemplateIds == {9, 31, 71, 75, 86, 87, 88, 89, 233}

Items(document) == FlattenSeq([v \in DOMAIN document.details |-> document.details[v].items])

AllDrawn(items, document, detail) ==
  LET texts    == [i \in DOMAIN items |-> items[i].text]
      pictures == {i \in DOMAIN items : items[i].picture # None}
      id(i)    == items[i].picture.id
  IN  /\ texts = [i \in DOMAIN Problems(detail) |-> Problems(detail)[i].name]
      /\ \A v \in DOMAIN document.details : document.details[v].tag = detail.valveDetails[v].tag
      /\ \A i \in pictures :
           LET p == items[i].picture IN
           \A y \in Range(p.data) \cup
                    (IF p.marks[1] <= p.marks[2] THEN Range(p.marks)
                                                 ELSE Range(SubSeq(p.marks, 3, Len(p.marks)))) :
             p.min <= y /\ y <= p.max
      /\ Range(document.overviews) \cap TemplateIds = {}
      /\ \A i \in pictures : id(i) \notin TemplateIds \cup Range(document.overviews)
      /\ \A i, j \in pictures : id(i) = id(j) => i = j

\* No problem is dropped and no report fails for a plot that is missing or lacks
\* parts ("不能让整份报告 500", report.helper.ts): each text stands under its valve.
\* On a picture every measured value, standard line and limit lies on the axis (limits
\* that are given in their order), and pictures have ids of their own that
\* the template does not use.
ProblemsDrawn == told # None => doc # Failed /\ (IsDocument => AllDrawn(Items(doc), doc, told))

\* A value of the cycle table stands under its own indicator and time if and only if the
\* first valve was told for three times and this valve for the same ones; one of the
\* travel table under its own heading if and only if its record has no fewer values than
\* the first and all of the first's names.
CellsUnderHeadings ==
  IsDocument =>
    /\ \A v \in DOMAIN doc.cycle :
         (doc.cycle[v] = CycleHeadings(told.cycle))
         <=> LET times(w) == [i \in DOMAIN told.cycle[w].data |-> told.cycle[w].data[i].time]
             IN  Len(times(1)) = 3 /\ times(v) = times(1)
    /\ \A r \in DOMAIN doc.travel :
         (doc.travel[r] = TravelHeadings(told.records))
         <=> LET names(q) == {told.records[q][i].name : i \in DOMAIN told.records[q]}
             IN  Len(told.records[1]) <= Len(told.records[r]) /\ names(1) \subseteq names(r)
===============================================================================
