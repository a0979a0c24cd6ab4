------------------------------ MODULE Dictionary ------------------------------
(***************************************************************************)
(* Where dictionaries come from: prisma/seed.ts, a script of statements that *)
(* commit one by one against a database whose server may already run, GET    *)
(* dict-type/export, which makes a tree of the rows of TreeStructure.ts and  *)
(* inserts it below a type it has read before, and administrators who make   *)
(* and delete types and trees.  Rows below the root of a tree are deleted    *)
(* and moved in Trees.                                                       *)
(***************************************************************************)
EXTENDS Integers, FiniteSets, SequencesExt, DictTree

CONSTANTS
  Export,      \* requests of GET dict-type/export
  MaxType,     \* bound on the ids of types that administrators create
  MaxTree,     \* bound on the trees in the table
  MaxRuns,     \* bound on the runs of the seed
  MaxDictEdits \* bound on the administrators' changes

VARIABLES
  left,        \* the statements of the seed still to run
  ended,       \* "no", or how its last run ended
  runs,        \* how often it was started
  done,        \* the statements whose rows are in the database
  types,       \* rows of DictType
  nextType,    \* the sequence of their ids
  trees,       \* trees of DictDataTree with their DictData
  exports,     \* [Export -> its step and the type it has read]
  dictEdits    \* the administrators' changes so far

dictVars == <<left, ended, runs, done, types, nextType, trees, exports, dictEdits>>

Statements == <<"roles", "admin", "user", "home", "project", "system", "monitor", "types", "chart",
                "hart", "ff", "factory", "factories", "rules">>

TypeIds == {t.id : t \in types}

---------------------------------------------------------------------------
(* The tree that an export makes of data and keyWord. *)

\* getChildren: the rows below p, in the order of data.
GetChildren(p) == SelectSeq([r \in DOMAIN Data |-> r], LAMBDA r : Data[r] = p)

\* Mutant: the sort of a datum is the index.
AddKeyWordIndex(r, index) == IF KeyWords[r] > 0 THEN index - 1 ELSE 0

\* A row's first keyword becomes its datum, with the row's place among its
\* siblings as sort; further keywords of the row are not looked at.
AddKeyWord(r, index) == IF KeyWords[r] > 0 THEN index ELSE 0

\* treeData[1]: the second root of data with the rows below it.
Exported ==
  LET tree[r \in DOMAIN Data, index \in DOMAIN Data] ==
        LET below == GetChildren(r) IN
        <<AddKeyWord(r, index)>> \o [k \in DOMAIN below |-> tree[below[k], k]]
  IN  tree[GetChildren(0)[2], 2]

RECURSIVE Bare(_)
\* What the cascade of a type's deletion leaves of a tree: its rows.
Bare(tree) == <<0>> \o [k \in 1..(Len(tree) - 1) |-> Bare(tree[k + 1])]

---------------------------------------------------------------------------
DictInit ==
  /\ left = <<>> /\ ended = "no" /\ runs = 0 /\ done = {}
  /\ types = {} /\ nextType = 1 /\ trees = {}
  /\ exports = [e \in Export |-> [step |-> "idle", type |-> 0]]
  /\ dictEdits = 0

AddType(name) == types' = types \cup {[id |-> nextType, name |-> name]} /\ nextType' = nextType + 1

\* One nested create: the rows and their data, or nothing.
AddTree(type, source, rows) ==
  /\ Cardinality(trees) < MaxTree
  /\ LET id == Min(1..MaxTree \ {t.id : t \in trees})
     IN  trees' = trees \cup {[id |-> id, type |-> type, source |-> source, rows |-> rows]}

---------------------------------------------------------------------------
(* The seed. *)

StartSeed ==
  /\ left = <<>> /\ runs < MaxRuns
  /\ left' = Statements /\ ended' = "no" /\ runs' = runs + 1
  /\ UNCHANGED <<done, types, nextType, trees, exports, dictEdits>>

\* The type that the data of a tree name, by its number.
TypeOf(tree) == IF tree = "hart" THEN 1 ELSE 4

\* Unique columns of roles, users and factories; the role a user is connected to;
\* the key from DictData to DictType.
Refused(s) ==
  \/ s \in {"roles", "admin", "user", "factory", "factories"} /\ s \in done
  \/ s \in {"admin", "user"} /\ "roles" \notin done
  \/ s \in {"hart", "ff"} /\ TypeOf(s) \notin TypeIds

Proceed(s) ==
  /\ left # <<>> /\ s = Head(left) /\ ~Refused(s)
  /\ left' = Tail(left)
  /\ ended' = IF Len(left) = 1 THEN "success" ELSE ended
  /\ done' = done \cup {s}
  /\ UNCHANGED <<runs, exports, dictEdits>>

SeedRows ==
  \E s \in ToSet(Statements) \ {"types", "chart", "hart", "ff"} :
    Proceed(s) /\ UNCHANGED <<types, nextType, trees>>

SeedTypes ==
  /\ Proceed("types")
  /\ types' = types \cup {[id |-> nextType, name |-> "hart"], [id |-> nextType + 1, name |-> "ff"]}
  /\ nextType' = nextType + 2
  /\ UNCHANGED trees

SeedChart == Proceed("chart") /\ AddType("chart") /\ UNCHANGED trees

\* The rows of hart's tree, a selection of their own, are left out but for the root.
SeedTree ==
  \E s \in {"hart", "ff"} :
    /\ Proceed(s)
    /\ AddTree(TypeOf(s), s, IF s = "ff" THEN SeededFf ELSE <<0>>)
    /\ UNCHANGED <<types, nextType>>

\* main().catch: the error is printed and the script ends; what it did remains.
EndSeed(how) ==
  /\ left # <<>>
  /\ left' = <<>> /\ ended' = how
  /\ UNCHANGED <<runs, done, types, nextType, trees, exports, dictEdits>>

RefuseSeed == left # <<>> /\ Refused(Head(left)) /\ EndSeed("refused")
BreakSeed  == EndSeed("broken")

---------------------------------------------------------------------------
(* Exports. *)

SetExport(e, step, type) == exports' = [exports EXCEPT ![e] = [step |-> step, type |-> type]]

ExportOnly == UNCHANGED <<left, ended, runs, done, types, nextType, dictEdits>>

\* Without a type of that name the handler throws at dictType.id.
FindType(e) ==
  /\ exports[e].step = "idle"
  /\ \/ \E t \in types : t.name = "ff" /\ SetExport(e, "create", t.id)
     \/ (\A t \in types : t.name # "ff") /\ SetExport(e, "failed", 0)
  /\ UNCHANGED trees /\ ExportOnly

CreateTree(e) ==
  /\ exports[e].step = "create" /\ exports[e].type \in TypeIds
  /\ AddTree(exports[e].type, "export", Exported)
  /\ SetExport(e, "created", exports[e].type)
  /\ ExportOnly

\* The type has been deleted since, or the connection breaks: no row is inserted.
FailExport(e) ==
  /\ exports[e].step \in {"idle", "create"}
  /\ SetExport(e, "failed", 0)
  /\ UNCHANGED trees /\ ExportOnly

---------------------------------------------------------------------------
(* Administrators, as soon as the seed has made their account. *)

Administered ==
  /\ "admin" \in done /\ dictEdits < MaxDictEdits
  /\ dictEdits' = dictEdits + 1
  /\ UNCHANGED <<left, ended, runs, done, exports>>

CreateType(name) ==
  Administered /\ nextType <= MaxType /\ AddType(name) /\ UNCHANGED trees

RenameType(t, name) ==
  /\ Administered
  /\ types' = (types \ {t}) \cup {[t EXCEPT !.name = name]}
  /\ UNCHANGED <<nextType, trees>>

\* Mutant: the key of DictData without ON DELETE CASCADE.
RemoveTypeAlone(t) ==
  Administered /\ types' = types \ {t} /\ UNCHANGED <<nextType, trees>>

RemoveType(t) ==
  /\ Administered
  /\ types' = types \ {t}
  /\ trees' = {IF r.type = t.id THEN [r EXCEPT !.rows = Bare(@)] ELSE r : r \in trees}
  /\ UNCHANGED nextType

RemoveTree(r) ==
  Administered /\ trees' = trees \ {r} /\ UNCHANGED <<types, nextType>>

DictNext ==
  \/ StartSeed \/ SeedRows \/ SeedTypes \/ SeedChart \/ SeedTree \/ RefuseSeed \/ BreakSeed
  \/ \E e \in Export : FindType(e) \/ CreateTree(e) \/ FailExport(e)
  \/ \E name \in {"ff", "other"} : CreateType(name) \/ \E t \in types : RenameType(t, name)
  \/ \E t \in types : RemoveType(t)
  \/ \E r \in trees : RemoveTree(r)

---------------------------------------------------------------------------
(* Properties *)

RECURSIVE Cut(_, _)
\* A tree as far as the includes of DictDataTreeService.findAll reach.
Cut(tree, depth) ==
  IF depth = 1 THEN <<tree[1]>>
  ELSE <<tree[1]>> \o [k \in 1..(Len(tree) - 1) |-> Cut(tree[k + 1], depth - 1)]

\* Whenever it is exported, the tree of ff has the rows and the data that the
\* seed inserts for ff below its root, all of them within the four levels that
\* the list of trees shows; when its type is deleted, it loses its data and keeps
\* its rows.  Never is there half a tree.
ExportedAsSeeded ==
  \A t \in trees : t.source = "export" =>
    LET whole == SeededFf[3] IN
    /\ t.rows = IF t.type \in TypeIds THEN whole ELSE Bare(whole)
    /\ Cut(t.rows, 4) = t.rows

\* A first run of the seed that no failure meets does not end before its last
\* statement and the message behind it, that the data have been inserted.
SeedFinishes == runs = 1 => ended # "refused"
===============================================================================
