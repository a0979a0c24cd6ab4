--------------------------------- MODULE Trees ---------------------------------
(***************************************************************************)
(* The tables whose rows name a parent: factories, menus, departments and    *)
(* the dictionary tree.  Nothing checks the parent an update names but its   *)
(* foreign key, so rows may come to stand under themselves.  A deleted row    *)
(* takes its descendants along (factories, dictionary tree) or makes its     *)
(* children roots (menus, departments).  Two ways of reading them: the       *)
(* recursive transformationTree over rows that one query has found, and      *)
(* include clauses nested to a fixed depth.                                  *)
(***************************************************************************)
EXTENDS Naturals, FiniteSets, SequencesExt

CONSTANTS MaxNode, Root, Gone     \* ids are 1..MaxNode; a null parent; no row

Node == 1..MaxNode

ASSUME TreesAssumption ==
  MaxNode \in Nat /\ Root \notin Node /\ Gone \notin Node /\ Root # Gone

VARIABLES
  parent,      \* [Node -> Node, Root, or Gone]
  onDelete     \* what the foreign key does: "cascade" or "set null"

treeVars == <<parent, onDelete>>

Rows == {n \in Node : parent[n] # Gone}

TreeInit ==
  /\ parent = [n \in Node |-> Gone]
  /\ onDelete \in {"cascade", "set null"}

---------------------------------------------------------------------------
CreateRow(n, p) ==
  /\ n \notin Rows /\ p \in Rows \cup {Root}
  /\ parent' = [parent EXCEPT ![n] = p]

MoveRow(n, p) ==
  /\ n \in Rows /\ p \in Rows \cup {Root}
  /\ parent' = [parent EXCEPT ![n] = p]

\* The parent, its parent, and so on: n within MaxNode steps, as a set.
Ancestors(n) ==
  LET up[k \in 0..MaxNode] ==
        IF k = 0 THEN {n}
        ELSE up[k - 1] \cup {parent[m] : m \in up[k - 1] \cap Rows}
  IN  up[MaxNode] \ {Root, Gone}

\* Mutant: the key is only dropped, and children keep the id of the deleted row.
RemoveRowAlone(n) ==
  /\ n \in Rows
  /\ parent' = [parent EXCEPT ![n] = Gone]

RemoveRow(n) ==
  /\ n \in Rows
  /\ parent' = [m \in Node |->
       IF m = n \/ (onDelete = "cascade" /\ n \in Ancestors(m)) THEN Gone
       ELSE IF parent[m] = n THEN Root ELSE parent[m]]

TreeNext ==
  /\ UNCHANGED onDelete
  /\ \/ \E n \in Node, p \in Node \cup {Root} : CreateRow(n, p) \/ MoveRow(n, p)
     \/ \E n \in Node : RemoveRow(n)

TreeSpec == TreeInit /\ [][TreeNext]_treeVars

---------------------------------------------------------------------------
(* Reading.  A tree is the sequence of its rows, each followed by its        *)
(* subtrees; no table has the column order, so siblings keep the order of    *)
(* the query, which is here the order of the ids.                            *)

\* Those of the found rows that are under p, each followed by its part of below.
Listed(found, p, below) ==
  LET upTo[n \in 0..MaxNode] ==
        IF n = 0 THEN <<>>
        ELSE IF n \in found /\ parent[n] = p THEN upTo[n - 1] \o <<n>> \o below[n]
        ELSE upTo[n - 1]
  IN  upTo[MaxNode]

\* The subtrees under p to the given depth.
Under(found, p, depth) ==
  LET trees[d \in 0..depth] ==
        IF d = 0 THEN [q \in Node \cup {Root} |-> <<>>]
        ELSE [q \in Node \cup {Root} |-> Listed(found, q, trees[d - 1])]
  IN  trees[depth][p]

\* Mutant: rows whose parent was not found become roots.
TreeOfOrphansToo(found) ==
  LET tops == SelectSeq([n \in Node |-> n], LAMBDA n : n \in found /\ parent[n] \notin found)
  IN  FlattenSeq([i \in DOMAIN tops |-> <<tops[i]>> \o Under(found, tops[i], MaxNode)])

\* The recursion has no bound of its own; one level more than there are rows is
\* deeper than it ever gets.
TransformationTree(found) == Under(found, Root, MaxNode + 1)

\* The factories of a scope, or the menus of a role's list.
ScopedTree(scope) == TransformationTree(scope \cap Rows)

DeptTree     == Under(Rows, Root, 3)
DictDataTree == Under(Rows, Root, 4)

---------------------------------------------------------------------------
(* Properties *)

\* The row ends at a root, going by its ancestors.
Rooted(ancestors) == \E m \in ancestors : parent[m] = Root

OnCycle(n) == parent[n] \in Node /\ n \in Ancestors(parent[n])

Depth(n) == Cardinality(Ancestors(n))

\* Whatever rows a query has found, the tree shows once each row that hangs from a
\* root through rows that were found, behind its parent, and no other: a factory
\* whose parent lies outside the user's scope is counted and not shown.
TreeShowsRooted ==
  LET chain == [n \in Rows |-> Ancestors(n)]
      hangs == {n \in Rows : Rooted(chain[n])}
  IN
  \A found \in SUBSET Rows :
    LET tree == ScopedTree(found) IN
    /\ Range(tree) = {n \in found \cap hangs : chain[n] \subseteq found}
    /\ \A i, j \in DOMAIN tree : tree[i] = tree[j] => i = j
    /\ \A i \in DOMAIN tree : parent[tree[i]] # Root =>
         \E j \in 1..(i - 1) : tree[j] = parent[tree[i]]

\* However rows were created, moved and deleted, the only rows that no tree of
\* the whole table shows are those under a cycle; the reads that nest include
\* clauses show the same rows down to their depth.
OnlyCyclesHide ==
  /\ Rows \ Range(TransformationTree(Rows)) =
       {n \in Rows : \E m \in Ancestors(n) : OnCycle(m)}
  /\ Range(DeptTree) = {n \in Range(TransformationTree(Rows)) : Depth(n) <= 3}
  /\ Range(DictDataTree) = {n \in Range(TransformationTree(Rows)) : Depth(n) <= 4}
===============================================================================
