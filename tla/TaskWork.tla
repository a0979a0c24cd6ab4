------------------------------- MODULE TaskWork -------------------------------
(***************************************************************************)
(* Work that outlives its request: AnalysisTaskService.clear() starts one    *)
(* UPDATE per PDF and awaits none of them; the handlers of the events        *)
(* "create", "delete" and "login" insert a log row while the request goes    *)
(* on.  The emitter does not look at what a handler returns and src/ has no  *)
(* hook for unhandled rejections: when one of these statements is rejected,  *)
(* the Node process ends with every request it was serving, and pm2 starts   *)
(* it again.  Also the uploads of PDFs to the object store.                  *)
(***************************************************************************)
EXTENDS AdminStore

CONSTANTS File, MaxClock     \* names of uploaded files; bound on the clock

Name == (0..MaxClock) \X File

ASSUME WorkAssumption ==
  /\ MaxClock \in Nat
  /\ \A r \in Request : Ask[r].kind = "upload" => Ask[r].file \in File
  /\ None \notin Name \cup Request

VARIABLES
  pending,   \* the statements that were started and not awaited
  logs,      \* the requests that have their row in the login or operation log
  clock,     \* Date.now()
  objects,   \* MinIO, bucket pdf: [object name -> the upload that wrote it, or None]
  object,    \* [Request -> the name its upload chose, or None]
  began,     \* history: [Request -> the time its upload chose the name]
  saw,       \* history: [Request -> the PDFs its clear has found]
  died       \* history: the servers that have died

workVars == <<pending, logs, clock, objects, object, began, saw, died>>

Stripping(r, i) == [kind |-> "strip", by |-> r, pdf |-> i, url |-> pdfs[i].url]
Logging(r, k)   == [kind |-> k, by |-> r]

Work == [kind : {"strip"}, by : Request, pdf : TaskId, url : Url] \cup
        [kind : {"operationLog", "loginLog"}, by : Request]

WorkInit ==
  /\ pending = {} /\ logs = {} /\ clock = 0
  /\ objects = [n \in Name |-> None]
  /\ object = [r \in Request |-> None]
  /\ began = [r \in Request |-> 0]
  /\ saw = [r \in Request |-> {}]
  /\ died = {}

---------------------------------------------------------------------------
(* Requests *)

\* clear: findMany, then one update per row, none awaited.
Clear(r) ==
  /\ step[r] = "handle" /\ Kind(r) = "clear"
  /\ pending' = pending \cup {Stripping(r, i) : i \in Live(pdfs)}
  /\ saw' = [saw EXCEPT ![r] = Live(pdfs)]
  /\ Answer(r, "ok")
  /\ UNCHANGED <<adminTables, edits, logs, clock, objects, object, began, died>>

\* create of a task, and remove of a factory: the statement, then the event,
\* whose handler runs up to its insert before emit returns.
Emit(r) ==
  /\ pending' = pending \cup {Logging(r, "operationLog")}
  /\ Answer(r, "ok")
  /\ UNCHANGED <<edits, logs, clock, objects, object, began, saw, died>>

Create(r) ==
  /\ step[r] = "handle" /\ Kind(r) = "createTask"
  /\ \E url \in Url, signed \in BOOLEAN : CreateTask(Ask[r].factory, url, signed)
  /\ Emit(r)

RemoveOne(r) ==
  /\ step[r] = "handle" /\ Kind(r) = "removeFactory"
  /\ RemoveFamily({Ask[r].factory})
  /\ Emit(r)

\* signIn emits "login" before it writes the refresh token (Session has the rest).
SignIn(r) ==
  /\ step[r] = "handle" /\ Kind(r) = "signIn"
  /\ users[Ask[r].by] # None
  /\ pending' = pending \cup {Logging(r, "loginLog")}
  /\ Goto(r, "tokens")
  /\ UNCHANGED <<adminTables, edits, logs, clock, objects, object, began, saw, died>>

SignedIn(r) ==
  /\ step[r] = "tokens"
  /\ Answer(r, "ok")
  /\ UNCHANGED <<adminTables, edits, workVars>>

\* Mutant: the original name, as uploadAvatar uses it.
ChoosePlainName(r) ==
  /\ step[r] = "handle" /\ Kind(r) = "upload"
  /\ object' = [object EXCEPT ![r] = <<0, Ask[r].file>>]
  /\ began' = [began EXCEPT ![r] = clock]
  /\ Goto(r, "put")
  /\ UNCHANGED <<adminTables, edits, pending, logs, clock, objects, saw, died>>

\* uploadPdf: the name gets a time stamp, then the object is written.
ChooseName(r) ==
  /\ step[r] = "handle" /\ Kind(r) = "upload"
  /\ object' = [object EXCEPT ![r] = <<clock, Ask[r].file>>]
  /\ began' = [began EXCEPT ![r] = clock]
  /\ Goto(r, "put")
  /\ UNCHANGED <<adminTables, edits, pending, logs, clock, objects, saw, died>>

Put(r) ==
  /\ step[r] = "put"
  /\ objects' = [objects EXCEPT ![object[r]] = r]
  /\ Answer(r, "ok")
  /\ UNCHANGED <<adminTables, edits, pending, logs, clock, object, began, saw, died>>

Tick == /\ clock < MaxClock /\ clock' = clock + 1
        /\ UNCHANGED <<adminTables, requestVars, edits, pending, logs, objects, object, began, saw, died>>

---------------------------------------------------------------------------
(* Work nobody awaits *)

\* The process of h ends; what its requests have written stays.
Die(h, lost) ==
  /\ step' = [r \in Request |-> IF r \in lost THEN "done" ELSE step[r]]
  /\ answer' = [r \in Request |-> IF r \in lost THEN "lost" ELSE answer[r]]
  /\ pending' = {w \in pending : HostOf[w.by] # h}
  /\ died' = died \cup {h}
  /\ UNCHANGED <<adminTables, edits, logs, clock, objects, object, began, saw>>

\* Mutant: the updates of a clear are awaited one by one in a try block.
StripInTurn(w) ==
  /\ w.kind = "strip"
  /\ \/ /\ pdfs[w.pdf] # None
        /\ pdfs' = [pdfs EXCEPT ![w.pdf].url = w.url, ![w.pdf].signed = FALSE]
        /\ pending' = pending \ {w}
     \/ /\ pdfs[w.pdf] = None
        /\ pdfs' = pdfs
        /\ pending' = {v \in pending : v.by # w.by}
  /\ UNCHANGED <<users, roles, menus, factories, tasks, next, edits, requestVars,
                 logs, clock, objects, object, began, saw, died>>

Strip(w) ==
  /\ w.kind = "strip" /\ pdfs[w.pdf] # None
  /\ pdfs' = [pdfs EXCEPT ![w.pdf].url = w.url, ![w.pdf].signed = FALSE]
  /\ pending' = pending \ {w}
  /\ UNCHANGED <<users, roles, menus, factories, tasks, next, edits, requestVars,
                 logs, clock, objects, object, began, saw, died>>

Log(w) ==
  /\ w.kind \in {"operationLog", "loginLog"}
  /\ logs' = logs \cup {w.by}
  /\ pending' = pending \ {w}
  /\ UNCHANGED <<adminTables, requestVars, edits, clock, objects, object, began, saw, died>>

WorkStep(r) == \/ Clear(r) \/ Create(r) \/ SignIn(r) \/ SignedIn(r)
               \/ ChooseName(r) \/ Put(r)

---------------------------------------------------------------------------
(* Properties *)

WorkTypeOK ==
  /\ pending \subseteq Work
  /\ logs \subseteq Request
  /\ clock \in 0..MaxClock
  /\ objects \in [Name -> Request \cup {None}]
  /\ object \in [Request -> Name \cup {None}]
  /\ began \in [Request -> 0..MaxClock]
  /\ saw \in [Request -> SUBSET TaskId]
  /\ died \subseteq Host

\* A PDF keeps its address: an update of clear() that comes late never puts the
\* address of a replaced PDF on the row of its successor.
PdfKeepsAddress ==
  [][\A w \in pending \ pending' : \A i \in TaskId :
       pdfs[i] # None /\ pdfs'[i] # None => pdfs'[i].url = pdfs[i].url]_<<pending, pdfs>>

\* clear() answers before its updates have run; each PDF it found nevertheless
\* loses its parameters or is deleted, unless the server dies.
ClearedInTheEnd ==
  \A r \in {q \in Request : Kind(q) = "clear"} :
    answer[r] = "ok" ~>
      \/ HostOf[r] \in died
      \/ \A i \in saw[r] : pdfs[i] = None \/ ~pdfs[i].signed

\* The object an answered upload names holds what was uploaded, as long as no
\* upload of the same file name began in the same millisecond ("加上时间戳，避免文件
\* 名重复", analysis-task.service.ts:372).
UploadStands ==
  \A r \in Request : Kind(r) = "upload" /\ answer[r] = "ok" =>
    \/ objects[object[r]] = r
    \/ \E s \in Request \ {r} : /\ Kind(s) = "upload" /\ Ask[s].file = Ask[r].file
                                /\ object[s] # None /\ began[s] = began[r]
===============================================================================
