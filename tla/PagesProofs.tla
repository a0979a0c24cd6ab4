----------------------------- MODULE PagesProofs -----------------------------
(***************************************************************************)
(* Proofs about Trees and Report: what the system's pages and documents      *)
(* show of the rows and answers they are made of, however many these are.    *)
(*                                                                         *)
(* Trees: what transformationTree shows of the rows a query has found, and   *)
(* which rows no tree shows.  The recursive functions are unfolded once;     *)
(* from there on a row is followed by its walk, the sequence of its parents. *)
(*                                                                         *)
(* Report: every problem of an answer is followed to its cell in the alarm   *)
(* table and to its place in the details.                                    *)
(***************************************************************************)
EXTENDS Trees, Report, FiniteSetTheorems, SequenceTheorems, WellFoundedInduction, TLAPS

---------------------------------------------------------------------------
(* Induction and recursion *)

\* A set of numbers that has 0 and the successor of each of its members has them all.
LEMMA Succession ==
  ASSUME NEW S \in SUBSET Nat, 0 \in S, \A n \in S : n + 1 \in S
  PROVE  \A n \in Nat : n \in S
<1> SUFFICES ASSUME Nat \ S # {} PROVE FALSE
  OBVIOUS
<1> DEFINE Less   == StrictSubsetOrdering(Nat)
           Starts == {0..n : n \in Nat \ S}
<1>1. IsWellFoundedOn(Less, FiniteSubsetsOf(Nat))
  BY FS_StrictSubsetOrderingWellFounded
<1>2. Starts \subseteq FiniteSubsetsOf(Nat) /\ Starts # {}
  <2>1. \A n \in Nat : 0..n \subseteq Nat /\ IsFiniteSet(0..n)
    BY FS_Interval
  <2> QED
    BY <2>1 DEF FiniteSubsetsOf
<1>3. PICK T \in Starts : \A U \in Starts : <<U, T>> \notin Less
  <2> HIDE DEF Less, Starts
  <2> QED
    BY <1>1, <1>2, WFMin
<1>4. PICK x \in Nat \ S : T = 0..x
  OBVIOUS
<1>5. x - 1 \in Nat /\ x - 1 \notin S
  <2>1. x # 0
    OBVIOUS
  <2>2. x - 1 \in Nat /\ x = (x - 1) + 1
    BY <2>1
  <2> QED
    BY <2>2
<1>6. /\ 0..(x-1) \in Starts /\ 0..(x-1) \subseteq 0..x /\ 0..x \subseteq Nat
      /\ x \in 0..x /\ x \notin 0..(x-1)
  BY <1>5
<1>7. <<0..(x-1), 0..x>> \in Less
  BY <1>6 DEF StrictSubsetOrdering
<1> QED
  BY <1>3, <1>4, <1>6, <1>7

\* g starts with a and takes m steps of F.
Unfolds(g, m, a, F) == g[0] = a /\ \A k \in 1..m : g[k] = F[k][g[k-1]]

\* What a recursive function over an interval is defined by has a solution.
LEMMA Recursion ==
  ASSUME NEW m \in Nat, NEW S, NEW a \in S, NEW F \in [1..m -> [S -> S]]
  PROVE  \E g \in [0..m -> S] : Unfolds(g, m, a, F)
<1> DEFINE Solved == {j \in Nat : j <= m => \E g \in [0..j -> S] : Unfolds(g, j, a, F)}
<1>1. 0 \in Solved
  <2>1. PICK g : g = [k \in 0..0 |-> a]
    OBVIOUS
  <2>2. g \in [0..0 -> S] /\ g[0] = a
    BY <2>1
  <2>3. Unfolds(g, 0, a, F)
    BY <2>2 DEF Unfolds
  <2> QED
    BY <2>2, <2>3
<1>2. ASSUME NEW j \in Solved PROVE j + 1 \in Solved
  <2> SUFFICES ASSUME j + 1 <= m PROVE \E g \in [0..(j+1) -> S] : Unfolds(g, j + 1, a, F)
    OBVIOUS
  <2>0. j \in Nat /\ j <= m /\ j + 1 \in 1..m /\ j \in 0..j /\ (j + 1) - 1 = j
    OBVIOUS
  <2>1. PICK g \in [0..j -> S] : Unfolds(g, j, a, F)
    BY <2>0
  <2>2. PICK h : h = [k \in 0..(j+1) |-> IF k = j + 1 THEN F[j+1][g[j]] ELSE g[k]]
    OBVIOUS
  <2>3. F[j+1][g[j]] \in S
    BY <2>0
  <2>4. h \in [0..(j+1) -> S]
    BY <2>0, <2>2, <2>3
  <2>5. h[j+1] = F[j+1][g[j]] /\ \A k \in 0..j : h[k] = g[k]
    BY <2>0, <2>2
  <2>6. ASSUME NEW k \in 1..(j+1) PROVE h[k] = F[k][h[k-1]]
    <3>1. CASE k = j + 1
      BY <2>0, <2>5, <3>1
    <3>2. CASE k # j + 1
      <4>1. k \in 1..j /\ k \in 0..j /\ k - 1 \in 0..j
        BY <2>0, <3>2
      <4> QED
        BY <2>1, <2>5, <4>1 DEF Unfolds
    <3> QED
      BY <3>1, <3>2
  <2>7. h[0] = a
    BY <2>0, <2>1, <2>5 DEF Unfolds
  <2> QED
    BY <2>4, <2>6, <2>7 DEF Unfolds
<1> QED
  <2> HIDE DEF Solved
  <2>1. Solved \subseteq Nat
    BY DEF Solved
  <2>2. m \in Solved
    BY <1>1, <1>2, <2>1, Succession
  <2> QED
    BY <2>2 DEF Solved

\* A function can be applied again and again.
LEMMA Iteration ==
  ASSUME NEW S, NEW a \in S, NEW F \in [S -> S]
  PROVE  \E w \in [Nat -> S] : w[0] = a /\ \A i \in Nat : w[i+1] = F[w[i]]
<1> DEFINE Steps(m) == [k \in 1..m |-> F]
           Is(g, m)  == g \in [0..m -> S] /\ g[0] = a /\ \A k \in 1..m : g[k] = F[g[k-1]]
           Run(m)    == CHOOSE g : Is(g, m)
           Alike     == {j \in Nat : \A m \in Nat : j <= m => Run(m)[j] = Run(j)[j]}
<1>1. ASSUME NEW m \in Nat PROVE Is(Run(m), m)
  <2>1. Steps(m) \in [1..m -> [S -> S]]
    OBVIOUS
  <2>2. PICK g \in [0..m -> S] : Unfolds(g, m, a, Steps(m))
    <3> HIDE DEF Steps
    <3> QED
      BY <2>1, Recursion
  <2>3. Is(g, m)
    BY <2>2 DEF Unfolds
  <2> HIDE DEF Is
  <2> QED
    BY <2>3
<1>2. 0 \in Alike
  <2>1. \A m \in Nat : Run(m)[0] = a
    <3> HIDE DEF Run
    <3> QED
      BY <1>1
  <2> HIDE DEF Run
  <2> QED
    BY <2>1
<1>3. ASSUME NEW j \in Alike PROVE j + 1 \in Alike
  <2>1. j \in Nat /\ \A m \in Nat : j <= m => Run(m)[j] = Run(j)[j]
    OBVIOUS
  <2>2. ASSUME NEW m \in Nat, j + 1 <= m
        PROVE  Run(m)[j+1] = F[Run(j)[j]]
    <3>1. j + 1 \in 1..m /\ (j + 1) - 1 = j /\ j <= m
      BY <2>1, <2>2
    <3>2. Run(m)[j+1] = F[Run(m)[(j+1)-1]]
      <4> HIDE DEF Run
      <4> QED
        BY <1>1, <3>1
    <3> HIDE DEF Run
    <3> QED
      BY <2>1, <3>1, <3>2
  <2>3. j + 1 \in Nat /\ j + 1 <= j + 1
    BY <2>1
  <2> HIDE DEF Run
  <2> QED
    BY <2>2, <2>3
<1>4. \A j \in Nat : j \in Alike
  <2> HIDE DEF Alike
  <2>1. Alike \subseteq Nat
    BY DEF Alike
  <2> QED
    BY <1>2, <1>3, <2>1, Succession
<1> DEFINE w == [i \in Nat |-> Run(i)[i]]
<1>5. ASSUME NEW i \in Nat PROVE w[i] \in S /\ w[i+1] = F[w[i]]
  <2> HIDE DEF Run
  <2>1. i + 1 \in Nat /\ i + 1 \in 1..(i+1) /\ i <= i + 1 /\ i \in 0..i /\ (i + 1) - 1 = i
    OBVIOUS
  <2>2. Run(i+1)[i+1] = F[Run(i+1)[i]] /\ Run(i)[i] \in S
    BY <1>1, <2>1
  <2>3. Run(i+1)[i] = Run(i)[i]
    BY <1>4, <2>1
  <2> QED
    BY <2>1, <2>2, <2>3
<1>6. w[0] = a
  <2> HIDE DEF Run
  <2> QED
    BY <1>1
<1> QED
  <2>1. w \in [Nat -> S]
    BY <1>5
  <2> HIDE DEF w
  <2> QED
    BY <1>5, <1>6, <2>1

---------------------------------------------------------------------------
(* Walks: a row, its parent, the parent of that, and so on *)

TreeTypeOK == parent \in [Node -> Node \cup {Root, Gone}]

Place  == Node \cup {Root, Gone}
Upward == [x \in Place |-> IF x \in Node THEN parent[x] ELSE Gone]
Walk(n) == CHOOSE w \in [Nat -> Place] : w[0] = n /\ \A i \in Nat : w[i+1] = Upward[w[i]]

\* A walk begins where it should and goes up step by step.
LEMMA Walks ==
  ASSUME TreeTypeOK, NEW n \in Place
  PROVE  /\ Walk(n) \in [Nat -> Place] /\ Walk(n)[0] = n
         /\ \A i \in Nat : Walk(n)[i+1] = Upward[Walk(n)[i]]
<1>1. Upward \in [Place -> Place]
  BY DEF Upward, Place, TreeTypeOK
<1>2. \E w \in [Nat -> Place] : w[0] = n /\ \A i \in Nat : w[i+1] = Upward[w[i]]
  BY <1>1, Iteration
<1> QED
  BY <1>2 DEF Walk

\* A walk goes on as the walk from where it has come to.
LEMMA WalksOn ==
  ASSUME TreeTypeOK, NEW n \in Place, NEW i \in Nat
  PROVE  /\ Walk(n)[i] \in Place
         /\ \A j \in Nat : Walk(n)[i+j] = Walk(Walk(n)[i])[j]
<1> PICK x : x = Walk(n)[i]
  OBVIOUS
<1>0. x \in Place
  BY Walks
<1> DEFINE S == {j \in Nat : Walk(n)[i+j] = Walk(x)[j]}
<1>1. 0 \in S
  <2>1. i + 0 = i
    OBVIOUS
  <2>2. Walk(x)[0] = x
    BY <1>0, Walks
  <2> QED
    BY <2>1, <2>2
<1>2. ASSUME NEW j \in S PROVE j + 1 \in S
  <2>1. j \in Nat /\ i + j \in Nat /\ i + (j + 1) = (i + j) + 1
    OBVIOUS
  <2>2. Walk(n)[(i+j)+1] = Upward[Walk(n)[i+j]] /\ Walk(x)[j+1] = Upward[Walk(x)[j]]
    BY <1>0, <2>1, Walks
  <2> QED
    BY <2>1, <2>2
<1>3. \A j \in Nat : j \in S
  <2> HIDE DEF S
  <2>1. S \subseteq Nat
    BY DEF S
  <2> QED
    BY <1>1, <1>2, <2>1, Succession
<1> QED
  BY <1>0, <1>3

\* A walk takes its first step to the parent.
LEMMA FirstStep ==
  ASSUME TreeTypeOK, NEW n \in Node
  PROVE  Walk(n)[1] = parent[n] /\ parent[n] \in Place /\ n \in Place
<1>1. n \in Place
  BY DEF Place
<1>2. Walk(n)[0] = n /\ Walk(n)[0+1] = Upward[Walk(n)[0]]
  <2>1. 0 \in Nat
    OBVIOUS
  <2> QED
    BY <1>1, <2>1, Walks, Zenon
<1>3. Walk(n)[1] = Upward[n]
  BY <1>2
<1> QED
  BY <1>1, <1>3 DEF Upward, Place, TreeTypeOK

\* It leads out of the tables above a root and where there is no row.
LEMMA WalksEnd ==
  ASSUME TreeTypeOK, NEW x \in {Root, Gone}, NEW i \in Nat
  PROVE  Walk(x)[i+1] = Gone
<1> DEFINE S == {j \in Nat : Walk(x)[j+1] = Gone}
<1>0. x \in Place /\ Gone \in Place /\ Upward[x] = Gone /\ Upward[Gone] = Gone
  BY TreesAssumption DEF Place, Upward
<1>1. 0 \in S
  <2>1. Walk(x)[0] = x /\ Walk(x)[0+1] = Upward[Walk(x)[0]]
    BY <1>0, Walks
  <2> QED
    BY <1>0, <2>1
<1>2. ASSUME NEW j \in S PROVE j + 1 \in S
  <2>1. j \in Nat /\ j + 1 \in Nat /\ Walk(x)[j+1] = Gone
    OBVIOUS
  <2>2. Walk(x)[(j+1)+1] = Upward[Walk(x)[j+1]]
    BY <1>0, <2>1, Walks
  <2> QED
    BY <1>0, <2>1, <2>2
<1> QED
  <2> HIDE DEF S
  <2>1. S \subseteq Nat
    BY DEF S
  <2>2. i \in S
    BY <1>1, <1>2, <2>1, Succession
  <2> QED
    BY <2>2 DEF S

\* Once out of the tables it does not come back.
LEMMA NoWayBack ==
  ASSUME TreeTypeOK, NEW n \in Place, NEW i \in Nat, NEW j \in Nat, i < j,
         Walk(n)[i] \in {Root, Gone}
  PROVE  Walk(n)[j] = Gone
<1>1. PICK l \in Nat : j = i + (l + 1)
  <2>1. (j - i) - 1 \in Nat /\ j = i + (((j - i) - 1) + 1)
    OBVIOUS
  <2> QED
    BY <2>1
<1>2. l + 1 \in Nat
  OBVIOUS
<1>3. Walk(n)[i+(l+1)] = Walk(Walk(n)[i])[l+1]
  BY <1>2, WalksOn
<1>4. Walk(Walk(n)[i])[l+1] = Gone
  BY WalksEnd
<1> QED
  BY <1>1, <1>3, <1>4

\* It comes to a root at most once.
LEMMA RootOnce ==
  ASSUME TreeTypeOK, NEW n \in Place, NEW i \in Nat, NEW j \in Nat,
         Walk(n)[i] = Root, Walk(n)[j] = Root
  PROVE  i = j
<1>1. ASSUME NEW k \in Nat, NEW m \in Nat, Walk(n)[k] = Root, Walk(n)[m] = Root, k < m
      PROVE  FALSE
  BY <1>1, NoWayBack, TreesAssumption
<1> QED
  BY <1>1

---------------------------------------------------------------------------
(* The ancestors of a row *)

\* The sets that Ancestors collects, step by step.
More(v)  == v \cup {parent[m] : m \in v \cap Rows}
UpTo(n)  == CHOOSE g : g = [k \in 0..MaxNode |-> IF k = 0 THEN {n} ELSE More(g[k-1])]

\* The sets start with the row itself and grow by the parents of the last.
LEMMA UpToStep ==
  ASSUME TreeTypeOK, NEW n \in Node
  PROVE  UpTo(n)[0] = {n} /\ \A k \in 1..MaxNode : UpTo(n)[k] = More(UpTo(n)[k-1])
<1> DEFINE S == SUBSET Place
           F == [k \in 1..MaxNode |-> [v \in S |-> More(v)]]
<1>1. MaxNode \in Nat /\ {n} \in S
  BY TreesAssumption DEF Place
<1>2. \A v \in S : More(v) \in S
  BY DEF More, Place, TreeTypeOK, Rows
<1>3. F \in [1..MaxNode -> [S -> S]]
  BY <1>2
<1>4. PICK g \in [0..MaxNode -> S] : Unfolds(g, MaxNode, {n}, F)
  <2> HIDE DEF F, S
  <2> QED
    BY <1>1, <1>3, Recursion
<1>5. g[0] = {n} /\ \A k \in 1..MaxNode : g[k] = More(g[k-1])
  <2>1. \A k \in 1..MaxNode : k - 1 \in 0..MaxNode
    BY <1>1
  <2>2. \A k \in 1..MaxNode : g[k-1] \in S
    BY <2>1
  <2> HIDE DEF S
  <2> QED
    BY <1>4, <2>2 DEF Unfolds
<1> DEFINE Body(h) == [k \in 0..MaxNode |-> IF k = 0 THEN {n} ELSE More(h[k-1])]
<1>6. g = Body(g)
  <2>1. \A k \in 0..MaxNode : k = 0 \/ k \in 1..MaxNode
    BY <1>1
  <2> HIDE DEF S
  <2> QED
    BY <1>5, <2>1
<1>7. UpTo(n) = Body(UpTo(n))
  <2>1. UpTo(n) = CHOOSE h : h = Body(h)
    BY DEF UpTo
  <2> HIDE DEF Body
  <2> QED
    BY <1>6, <2>1
<1>8. 0 \in 0..MaxNode /\ \A k \in 1..MaxNode : k \in 0..MaxNode /\ k # 0
  BY <1>1
<1>9. PICK u : u = UpTo(n)
  OBVIOUS
<1>10. u[0] = {n} /\ \A k \in 1..MaxNode : u[k] = More(u[k-1])
  <2>1. u = Body(u)
    BY <1>7, <1>9
  <2> HIDE DEF F, S
  <2> QED
    BY <1>8, <2>1
<1> QED
  BY <1>9, <1>10

\* They are the places of the walk.
LEMMA UpToWalk ==
  ASSUME TreeTypeOK, NEW n \in Node, NEW k \in 0..MaxNode
  PROVE  \A x : x # Gone => (x \in UpTo(n)[k] <=> \E i \in 0..k : Walk(n)[i] = x)
<1> DEFINE Same(j) == \A x : x # Gone => (x \in UpTo(n)[j] <=> \E i \in 0..j : Walk(n)[i] = x)
           S == {j \in Nat : j <= MaxNode => Same(j)}
<1>0. n \in Place /\ MaxNode \in Nat /\ Node \subseteq Place
  BY TreesAssumption DEF Place
<1>1. 0 \in S
  <2>1. Walk(n)[0] = n /\ UpTo(n)[0] = {n}
    BY <1>0, Walks, UpToStep
  <2>2. \A i : i \in 0..0 <=> i = 0
    OBVIOUS
  <2>3. Same(0)
    BY <2>1, <2>2
  <2> HIDE DEF Same
  <2> QED
    BY <2>3
<1>2. ASSUME NEW j \in S PROVE j + 1 \in S
  <2> SUFFICES ASSUME j + 1 <= MaxNode PROVE Same(j + 1)
    OBVIOUS
  <2>0. /\ j \in Nat /\ j <= MaxNode /\ j + 1 \in 1..MaxNode /\ (j + 1) - 1 = j
        /\ \A i : i \in 0..(j+1) <=> i \in 0..j \/ i = j + 1
    BY <1>0
  <2>1. Same(j)
    BY <2>0
  <2>2. UpTo(n)[j+1] = More(UpTo(n)[j])
    BY <2>0, UpToStep
  <2>3. \A x : x \in UpTo(n)[j+1] <=>
                  x \in UpTo(n)[j] \/ \E m \in UpTo(n)[j] : m \in Rows /\ x = parent[m]
    BY <2>2 DEF More
  <2>4. \A m \in Rows : m \in Node /\ m # Gone /\ Upward[m] = parent[m]
    BY TreesAssumption DEF Rows, Upward, Place
  <2>5. \A m \in Place : m \notin Rows => Upward[m] = Gone
    BY DEF Rows, Upward, Place
  <2>6. \A i \in Nat : Walk(n)[i] \in Place /\ Walk(n)[i+1] = Upward[Walk(n)[i]]
    <3>1. Walk(n) \in [Nat -> Place] /\ \A i \in Nat : Walk(n)[i+1] = Upward[Walk(n)[i]]
      BY <1>0, Walks
    <3> QED
      BY <3>1
  <2>7. ASSUME NEW x, x # Gone, x \in UpTo(n)[j+1]
        PROVE  \E i \in 0..(j+1) : Walk(n)[i] = x
    <3>1. CASE x \in UpTo(n)[j]
      BY <2>0, <2>1, <2>7, <3>1
    <3>2. CASE \E m \in UpTo(n)[j] : m \in Rows /\ x = parent[m]
      <4>1. PICK m \in UpTo(n)[j] : m \in Rows /\ x = parent[m]
        BY <3>2
      <4>2. PICK i \in 0..j : Walk(n)[i] = m
        BY <2>1, <2>4, <4>1
      <4>3. i \in Nat /\ i + 1 \in 0..(j+1)
        BY <2>0
      <4>4. Walk(n)[i+1] = x
        BY <2>4, <2>6, <4>1, <4>2, <4>3
      <4> QED
        BY <4>3, <4>4
    <3> QED
      BY <2>3, <2>7, <3>1, <3>2
  <2>8. ASSUME NEW x, x # Gone, NEW i \in 0..(j+1), Walk(n)[i] = x
        PROVE  x \in UpTo(n)[j+1]
    <3>1. CASE i \in 0..j
      BY <2>1, <2>3, <2>8, <3>1
    <3>2. CASE i = j + 1
      <4>1. x = Upward[Walk(n)[j]] /\ Walk(n)[j] \in Place
        BY <2>0, <2>6, <2>8, <3>2
      <4>2. Walk(n)[j] \in Rows
        BY <2>5, <2>8, <4>1
      <4>3. j \in 0..j /\ Walk(n)[j] \in UpTo(n)[j]
        BY <2>0, <2>1, <2>4, <4>2
      <4> QED
        BY <2>3, <2>4, <4>1, <4>2, <4>3
    <3> QED
      BY <2>0, <3>1, <3>2
  <2> QED
    BY <2>7, <2>8
<1>3. k \in Nat /\ k <= MaxNode
  BY <1>0
<1> QED
  <2> HIDE DEF Same
  <2> HIDE DEF S
  <2>1. S \subseteq Nat
    BY DEF S
  <2>2. k \in S
    BY <1>1, <1>2, <1>3, <2>1, Succession
  <2>3. Same(k)
    BY <1>3, <2>2 DEF S
  <2> QED
    BY <2>3 DEF Same

\* The ancestors of a row are the rows its walk comes by.
LEMMA AncestorsWalk ==
  ASSUME TreeTypeOK, NEW n \in Node
  PROVE  \A x : x \in Ancestors(n) <=> x \in Node /\ \E i \in 0..MaxNode : Walk(n)[i] = x
<1>1. Ancestors(n) = UpTo(n)[MaxNode] \ {Root, Gone}
  BY DEF Ancestors, UpTo, More
<1>2. MaxNode \in 0..MaxNode
  BY TreesAssumption
<1>3. \A x : x # Gone => (x \in UpTo(n)[MaxNode] <=> \E i \in 0..MaxNode : Walk(n)[i] = x)
  BY <1>2, UpToWalk
<1>4. ASSUME NEW i \in 0..MaxNode PROVE Walk(n)[i] \in Node \cup {Root, Gone}
  <2>1. n \in Place /\ i \in Nat
    BY DEF Place
  <2> QED
    BY <2>1, Walks DEF Place
<1> QED
  BY <1>1, <1>3, <1>4, TreesAssumption

\* y hangs from q, k rows up, through found rows.
Climbs(found, y, k, q) == Walk(y)[k+1] = q /\ \A i \in 0..k : Walk(y)[i] \in found

\* A row hangs from a root through found rows when its walk goes through them.
LEMMA HangsByWalk ==
  ASSUME TreeTypeOK, NEW found \in SUBSET Rows, NEW n \in Rows
  PROVE  Rooted(Ancestors(n)) /\ Ancestors(n) \subseteq found
           <=> \E k \in 0..MaxNode : Climbs(found, n, k, Root)
<1>0. n \in Node /\ n \in Place /\ MaxNode \in Nat /\ found \subseteq Node
  BY TreesAssumption DEF Rows, Place
<1>1. \A i \in Nat : Walk(n)[i] \in Place /\ Walk(n)[i+1] = Upward[Walk(n)[i]]
  BY <1>0, Walks
<1>2. \A m \in Node : Upward[m] = parent[m]
  BY DEF Upward, Place
<1>4. ASSUME NEW i \in Nat, NEW j \in Nat, i < j, Walk(n)[i] \in {Root, Gone}
      PROVE  Walk(n)[j] = Gone
  BY <1>0, <1>4, NoWayBack
<1>5. ASSUME NEW k \in 0..MaxNode, Climbs(found, n, k, Root)
      PROVE  Rooted(Ancestors(n)) /\ Ancestors(n) \subseteq found
  <2>0. k \in Nat /\ k \in 0..k /\ k + 1 \in Nat
    BY <1>0
  <2>1. Walk(n)[k] \in Node /\ Walk(n)[k] \in Ancestors(n)
    BY <1>0, <1>5, <2>0, AncestorsWalk DEF Climbs
  <2>2. parent[Walk(n)[k]] = Root
    BY <1>1, <1>2, <1>5, <2>0, <2>1 DEF Climbs
  <2>3. ASSUME NEW x \in Ancestors(n) PROVE x \in found
    <3>1. PICK i \in 0..MaxNode : Walk(n)[i] = x /\ x \in Node
      BY <1>0, AncestorsWalk
    <3>2. i \in Nat /\ (i \in 0..k \/ i = k + 1 \/ k + 1 < i)
      BY <1>0, <2>0
    <3>3. i # k + 1
      BY <1>5, <3>1, TreesAssumption DEF Climbs
    <3>4. ~(k + 1 < i)
      BY <1>4, <1>5, <2>0, <3>1, <3>2, TreesAssumption DEF Climbs
    <3> QED
      BY <1>5, <3>1, <3>2, <3>3, <3>4 DEF Climbs
  <2> QED
    BY <2>1, <2>2, <2>3 DEF Rooted
<1>6. ASSUME Rooted(Ancestors(n)), Ancestors(n) \subseteq found
      PROVE  \E k \in 0..MaxNode : Climbs(found, n, k, Root)
  <2>1. PICK m \in Ancestors(n) : parent[m] = Root
    BY <1>6 DEF Rooted
  <2>2. PICK k \in 0..MaxNode : Walk(n)[k] = m /\ m \in Node
    BY <1>0, <2>1, AncestorsWalk
  <2>3. k \in Nat /\ Walk(n)[k+1] = Root
    BY <1>0, <1>1, <1>2, <2>1, <2>2
  <2>4. ASSUME NEW i \in 0..k PROVE Walk(n)[i] \in found
    <3>1. i \in Nat /\ i \in 0..MaxNode /\ (i = k \/ i < k)
      BY <1>0, <2>3
    <3>2. Walk(n)[i] \in Node
      BY <1>1, <1>4, <2>2, <2>3, <3>1, TreesAssumption DEF Place
    <3> QED
      BY <1>0, <1>6, <3>1, <3>2, AncestorsWalk
  <2> QED
    BY <2>3, <2>4 DEF Climbs
<1> QED
  BY <1>5, <1>6

---------------------------------------------------------------------------
(* Sequences of rows *)

\* No row twice; each row under q or behind its parent.
Distinct(s)   == \A i, j \in 1..Len(s) : s[i] = s[j] => i = j
Ordered(s, q) == \A i \in 1..Len(s) : parent[s[i]] = q \/ \E j \in 1..(i-1) : s[j] = parent[s[i]]

Joint(s, x, t) == s \o <<x>> \o t

\* u has the rows of s, then x, then those of t.
Parts(s, x, t, u, m, l) ==
  /\ Len(s) = m /\ Len(t) = l
  /\ u \in Seq(Node) /\ Len(u) = m + 1 + l /\ u[m+1] = x
  /\ \A i \in 1..m : u[i] = s[i]
  /\ \A i \in 1..l : u[m+1+i] = t[i]

\* A sequence, a row and another sequence, joined.
LEMMA Joined ==
  ASSUME NEW s \in Seq(Node), NEW x \in Node, NEW t \in Seq(Node), NEW u, u = Joint(s, x, t)
  PROVE  \E m, l \in Nat : Parts(s, x, t, u, m, l)
<1> PICK v : v = s \o <<x>>
  OBVIOUS
<1>0. u = v \o t
  BY DEF Joint
<1>1. /\ v \in Seq(Node) /\ Len(v) = Len(s) + 1 /\ v[Len(s)+1] = x
      /\ \A i \in 1..Len(s) : v[i] = s[i]
  OBVIOUS
<1>2. /\ u \in Seq(Node) /\ Len(u) = Len(v) + Len(t)
      /\ \A i \in 1..Len(v) : u[i] = v[i]
  BY <1>0, <1>1
<1>3. \A i \in 1..Len(t) : u[Len(v)+i] = t[i]
  BY <1>0, <1>1
<1>4. Len(s) \in Nat /\ Len(t) \in Nat /\ \A i \in 1..Len(s) : i \in 1..(Len(s)+1)
  OBVIOUS
<1>5. Len(s) + 1 \in 1..(Len(s)+1)
  BY <1>4
<1>6. Parts(s, x, t, u, Len(s), Len(t))
  BY <1>1, <1>2, <1>3, <1>4, <1>5 DEF Parts
<1> QED
  BY <1>4, <1>6

\* An index of it lies in the one, at the row, or in the other.
LEMMA JoinedIndex ==
  ASSUME NEW m \in Nat, NEW l \in Nat
  PROVE  \A i \in 1..(m+1+l) : i \in 1..m \/ i = m + 1 \/ \E k \in 1..l : i = m + 1 + k
<1> SUFFICES ASSUME NEW i \in 1..(m+1+l)
             PROVE  i \in 1..m \/ i = m + 1 \/ \E k \in 1..l : i = m + 1 + k
  OBVIOUS
<1>1. CASE i > m + 1
  <2>1. i - (m + 1) \in 1..l /\ i = m + 1 + (i - (m + 1))
    BY <1>1
  <2> QED
    BY <2>1
<1>2. CASE i <= m + 1
  BY <1>2
<1> QED
  BY <1>1, <1>2

\* The rows of a sequence.
LEMMA RangeOf ==
  ASSUME NEW s \in Seq(Node)
  PROVE  Len(s) \in Nat /\ \A y : y \in Range(s) <=> \E i \in 1..Len(s) : s[i] = y
BY DEF Range

\* The rows of joined sequences are those of the parts.
LEMMA JoinedRange ==
  ASSUME NEW s \in Seq(Node), NEW x \in Node, NEW t \in Seq(Node)
  PROVE  Range(Joint(s, x, t)) = Range(s) \cup {x} \cup Range(t)
<1> PICK u : u = Joint(s, x, t)
  OBVIOUS
<1> PICK m, l \in Nat : Parts(s, x, t, u, m, l)
  BY Joined
<1>1. /\ u \in Seq(Node) /\ Len(u) = m + 1 + l /\ u[m+1] = x
      /\ \A i \in 1..m : u[i] = s[i]
      /\ \A i \in 1..l : u[m+1+i] = t[i]
      /\ Len(s) = m /\ Len(t) = l
  BY DEF Parts
<1>3. \A i \in 1..(m+1+l) : i \in 1..m \/ i = m + 1 \/ \E k \in 1..l : i = m + 1 + k
  BY JoinedIndex
<1>4. /\ m + 1 \in 1..(m+1+l) /\ \A i \in 1..m : i \in 1..(m+1+l)
      /\ \A i \in 1..l : m + 1 + i \in 1..(m+1+l)
  OBVIOUS
<1>5. \A y : y \in Range(u) <=> \E i \in 1..(m+1+l) : u[i] = y
  <2>1. \A y : y \in Range(u) <=> \E i \in 1..Len(u) : u[i] = y
    BY <1>1, RangeOf
  <2> QED
    BY <1>1, <2>1
<1>6. ASSUME NEW i \in 1..(m+1+l)
      PROVE  u[i] \in Range(s) \/ u[i] = x \/ u[i] \in Range(t)
  <2>1. \A k \in 1..m : s[k] \in Range(s)
    BY <1>1, RangeOf
  <2>2. \A k \in 1..l : t[k] \in Range(t)
    BY <1>1, RangeOf
  <2> QED
    BY <1>1, <1>3, <2>1, <2>2
<1>7. ASSUME NEW y, y \in Range(s) \/ y = x \/ y \in Range(t)
      PROVE  \E i \in 1..(m+1+l) : u[i] = y
  <2>1. CASE y \in Range(s)
    BY <1>1, <1>4, <2>1, RangeOf
  <2>2. CASE y = x
    BY <1>1, <1>4, <2>2
  <2>3. CASE y \in Range(t)
    <3>1. PICK i \in 1..l : t[i] = y
      BY <1>1, <2>3, RangeOf
    <3> QED
      BY <1>1, <1>4, <3>1
  <2> QED
    BY <1>7, <2>1, <2>2, <2>3
<1> QED
  BY <1>5, <1>6, <1>7

\* Joining what has no row in common repeats none.
LEMMA JoinedDistinct ==
  ASSUME NEW s \in Seq(Node), NEW x \in Node, NEW t \in Seq(Node), NEW u, u = Joint(s, x, t),
         Distinct(s), Distinct(t), x \notin Range(s), x \notin Range(t),
         \A y \in Range(s) : y \notin Range(t)
  PROVE  Distinct(u)
<1> PICK m, l \in Nat : Parts(s, x, t, u, m, l)
  BY Joined
<1>1. /\ Len(u) = m + 1 + l /\ u[m+1] = x
      /\ \A i \in 1..m : u[i] = s[i]
      /\ \A i \in 1..l : u[m+1+i] = t[i]
      /\ Len(s) = m /\ Len(t) = l
  BY DEF Parts
<1>8. \A i \in 1..(m+1+l) : i \in 1..m \/ i = m + 1 \/ \E k \in 1..l : i = m + 1 + k
  BY JoinedIndex
<1>2. (\A i \in 1..Len(s) : s[i] \in Range(s)) /\ (\A i \in 1..Len(t) : t[i] \in Range(t))
  BY RangeOf
<1>3. /\ \A i \in 1..m : u[i] \in Range(s)
      /\ \A i \in 1..l : u[m+1+i] \in Range(t)
  BY <1>1, <1>2
<1>4. SUFFICES ASSUME NEW i \in 1..(m+1+l), NEW j \in 1..(m+1+l), u[i] = u[j] PROVE i = j
  BY <1>1 DEF Distinct
<1>5. CASE i \in 1..m
  <2>1. j \in 1..m
    <3>1. u[j] \in Range(s)
      BY <1>3, <1>4, <1>5
    <3>2. u[j] # x /\ u[j] \notin Range(t)
      BY <3>1
    <3>3. j # m + 1
      BY <1>1, <3>2
    <3>4. ASSUME NEW k \in 1..l, j = m + 1 + k PROVE FALSE
      BY <1>3, <3>2, <3>4
    <3> QED
      BY <1>8, <3>3, <3>4
  <2> QED
    BY <1>1, <1>4, <1>5, <2>1 DEF Distinct
<1>6. CASE i = m + 1
  <2>1. u[j] = x
    BY <1>1, <1>4, <1>6
  <2>2. j \notin 1..m
    BY <1>3, <2>1
  <2>3. ~\E k \in 1..l : j = m + 1 + k
    BY <1>3, <2>1
  <2> QED
    BY <1>6, <2>2, <2>3, <1>8
<1>7. CASE \E k \in 1..l : i = m + 1 + k
  <2>1. PICK k \in 1..l : i = m + 1 + k
    BY <1>7
  <2>2. u[j] = t[k] /\ u[j] \in Range(t)
    BY <1>1, <1>3, <1>4, <2>1
  <2>3. PICK h \in 1..l : j = m + 1 + h
    BY <1>1, <1>3, <2>2, <1>8
  <2>4. t[h] = t[k]
    BY <1>1, <2>2, <2>3
  <2> QED
    BY <1>1, <2>1, <2>3, <2>4 DEF Distinct
<1> QED
  BY <1>5, <1>6, <1>7, <1>8

\* Joining keeps every row behind its parent, or under q.
LEMMA JoinedOrdered ==
  ASSUME NEW s \in Seq(Node), NEW x \in Node, NEW t \in Seq(Node), NEW u, u = Joint(s, x, t),
         NEW q, Ordered(s, q), parent[x] = q, Ordered(t, x)
  PROVE  Ordered(u, q)
<1> PICK m, l \in Nat : Parts(s, x, t, u, m, l)
  BY Joined
<1>1. /\ Len(u) = m + 1 + l /\ u[m+1] = x
      /\ \A i \in 1..m : u[i] = s[i]
      /\ \A i \in 1..l : u[m+1+i] = t[i]
      /\ Len(s) = m /\ Len(t) = l
  BY DEF Parts
<1>8. \A i \in 1..(m+1+l) : i \in 1..m \/ i = m + 1 \/ \E k \in 1..l : i = m + 1 + k
  BY JoinedIndex
<1>3. SUFFICES ASSUME NEW i \in 1..(m+1+l)
               PROVE  parent[u[i]] = q \/ \E j \in 1..(i-1) : u[j] = parent[u[i]]
  BY <1>1 DEF Ordered
<1>4. CASE i \in 1..m
  <2>1. \A j \in 1..(i-1) : j \in 1..m
    BY <1>4
  <2> QED
    BY <1>1, <1>4, <2>1 DEF Ordered
<1>5. CASE i = m + 1
  BY <1>1, <1>5
<1>6. CASE \E k \in 1..l : i = m + 1 + k
  <2>1. PICK k \in 1..l : i = m + 1 + k
    BY <1>6
  <2>2. u[i] = t[k]
    BY <1>1, <2>1
  <2>3. CASE parent[t[k]] = x
    <3>1. m + 1 \in 1..(i-1)
      BY <2>1
    <3> QED
      BY <1>1, <2>2, <2>3, <3>1
  <2>4. CASE parent[t[k]] # x
    <3>1. PICK h \in 1..(k-1) : t[h] = parent[t[k]]
      BY <1>1, <2>4 DEF Ordered
    <3>2. h \in 1..l /\ m + 1 + h \in 1..(i-1)
      BY <2>1
    <3>3. u[m+1+h] = t[h]
      BY <1>1, <3>2
    <3> QED
      BY <2>2, <3>1, <3>2, <3>3
  <2> QED
    BY <2>3, <2>4
<1> QED
  BY <1>4, <1>5, <1>6, <1>8

---------------------------------------------------------------------------
(* The rows under a row, each followed by its part *)

Below == [Node \cup {Root} -> Seq(Node)]

\* The loop of Listed: what row n adds, and the lists so far.
Under1(found, q, n) == n \in found /\ parent[n] = q
Adds(found, q, below, n, s) == IF Under1(found, q, n) THEN s \o <<n>> \o below[n] ELSE s
ListUpTo(found, q, below) ==
  CHOOSE g : g = [n \in 0..MaxNode |-> IF n = 0 THEN <<>> ELSE Adds(found, q, below, n, g[n-1])]

\* The list starts empty and grows by a row under p and its part, or stays as it is.
LEMMA ListStep ==
  ASSUME NEW found, NEW q, NEW below \in Below, NEW g, g = ListUpTo(found, q, below)
  PROVE  /\ g \in [0..MaxNode -> Seq(Node)] /\ g[0] = <<>>
         /\ \A n \in Node : g[n] = Adds(found, q, below, n, g[n-1])
<1> DEFINE S == Seq(Node)
           F == [n \in 1..MaxNode |-> [s \in S |-> Adds(found, q, below, n, s)]]
           Body(h) == [n \in 0..MaxNode |-> IF n = 0 THEN <<>> ELSE Adds(found, q, below, n, h[n-1])]
<1>1. MaxNode \in Nat /\ <<>> \in S
  BY TreesAssumption
<1>2. ASSUME NEW n \in Node, NEW s \in S PROVE Adds(found, q, below, n, s) \in S
  <2>1. below[n] \in Seq(Node)
    BY DEF Below
  <2>2. s \o <<n>> \o below[n] \in Seq(Node)
    BY <2>1, Joined
  <2> QED
    BY <2>2 DEF Adds
<1>3. F \in [1..MaxNode -> [S -> S]]
  <2> HIDE DEF S
  <2> QED
    BY <1>2 DEF Node
<1>4. PICK h \in [0..MaxNode -> S] : Unfolds(h, MaxNode, <<>>, F)
  <2> HIDE DEF F, S
  <2> QED
    BY <1>1, <1>3, Recursion
<1>5. \A n \in 0..MaxNode : n # 0 => n \in 1..MaxNode /\ n - 1 \in 0..MaxNode
  BY <1>1
<1>6. h = Body(h)
  <2>1. \A n \in 1..MaxNode : h[n-1] \in S
    BY <1>1
  <2>2. \A n \in 1..MaxNode : h[n] = Adds(found, q, below, n, h[n-1])
    <3> HIDE DEF S
    <3> QED
      BY <1>4, <2>1 DEF Unfolds
  <2>3. h[0] = <<>>
    BY <1>4 DEF Unfolds
  <2> HIDE DEF S, F
  <2> QED
    BY <1>5, <2>2, <2>3
<1>7. g = Body(g)
  <2>1. g = CHOOSE k : k = Body(k)
    BY DEF ListUpTo
  <2> HIDE DEF Body
  <2> QED
    BY <1>6, <2>1
<1>8. 0 \in 0..MaxNode /\ \A n \in Node : n \in 0..MaxNode /\ n # 0 /\ n - 1 \in 0..MaxNode /\ (n - 1) + 1 = n
  BY <1>1 DEF Node
<1>9. g[0] = <<>> /\ \A n \in Node : g[n] = Adds(found, q, below, n, g[n-1])
  <2> HIDE DEF F, S
  <2> QED
    BY <1>7, <1>8
<1>10. ASSUME NEW n \in 0..MaxNode PROVE g[n] \in S
  <2> DEFINE Good == {k \in Nat : k <= MaxNode => g[k] \in S}
  <2>1. 0 \in Good
    BY <1>1, <1>9
  <2>2. ASSUME NEW k \in Good PROVE k + 1 \in Good
    <3> SUFFICES ASSUME k + 1 <= MaxNode PROVE g[k+1] \in S
      OBVIOUS
    <3>1. k \in Nat /\ k <= MaxNode /\ k + 1 \in Node /\ (k + 1) - 1 = k
      BY <1>1 DEF Node
    <3>2. g[k] \in S /\ g[k+1] = Adds(found, q, below, k + 1, g[k])
      BY <1>9, <3>1
    <3> QED
      BY <1>2, <3>1, <3>2
  <2>3. n \in Nat /\ n <= MaxNode
    BY <1>1
  <2>4. Good \subseteq Nat
    OBVIOUS
  <2> HIDE DEF Good
  <2>5. n \in Good
    BY <2>1, <2>2, <2>3, <2>4, Succession
  <2> QED
    BY <2>3, <2>5 DEF Good
<1> QED
  <2>1. g \in [0..MaxNode -> S]
    <3> HIDE DEF S, F
    <3> QED
      BY <1>7, <1>10
  <2> QED
    BY <1>9, <2>1

\* A row and its part.
InPart(below, n, y) == y = n \/ y \in Range(below[n])

\* The parts are in order, no part names a row twice, and no two share one.
PartsOrdered(found, q, below) == \A n \in Node : Under1(found, q, n) => Ordered(below[n], n)
PartsApart(found, q, below) ==
  /\ \A n \in Node : Under1(found, q, n) => Distinct(below[n]) /\ n \notin Range(below[n])
  /\ \A n, m \in Node, y \in Node :
       Under1(found, q, n) /\ Under1(found, q, m) /\ InPart(below, n, y) /\ InPart(below, m, y)
       => n = m

\* What the loop has listed after k rows.
ListedSoFar(found, q, below, k, s) ==
  /\ \A y : y \in Range(s) <=> \E n \in 1..k : Under1(found, q, n) /\ InPart(below, n, y)
  /\ PartsOrdered(found, q, below) => Ordered(s, q)
  /\ PartsApart(found, q, below) => Distinct(s)

\* One more row keeps it so.
LEMMA ListGrows ==
  ASSUME NEW found, NEW q, NEW below \in Below, NEW k \in Nat, k + 1 \in Node,
         NEW s \in Seq(Node), ListedSoFar(found, q, below, k, s),
         NEW u, u = Adds(found, q, below, k + 1, s)
  PROVE  ListedSoFar(found, q, below, k + 1, u)
<1>9. PICK x, t : x = k + 1 /\ t = below[x]
  OBVIOUS
<1>0. x \in Node /\ t \in Seq(Node) /\ \A n : n \in 1..x <=> n \in 1..k \/ n = x
  BY <1>9 DEF Below, Node
<1>1. CASE Under1(found, q, x)
  <2>1. u = Joint(s, x, t)
    BY <1>1, <1>9 DEF Adds, Joint
  <2>2. \A y : y \in Range(u) <=> y \in Range(s) \/ y = x \/ y \in Range(t)
    <3>0. s \in Seq(Node) /\ t \in Seq(Node) /\ x \in Node
      BY <1>0
    <3>1. Range(Joint(s, x, t)) = Range(s) \cup {x} \cup Range(t)
      BY <3>0, JoinedRange
    <3> QED
      BY <2>1, <3>1
  <2>3. \A y : y \in Range(u) <=> \E n \in 1..x : Under1(found, q, n) /\ InPart(below, n, y)
    <3>1. \A y : y \in Range(s) <=> \E n \in 1..k : Under1(found, q, n) /\ InPart(below, n, y)
      BY DEF ListedSoFar
    <3>2. \A y : InPart(below, x, y) <=> y = x \/ y \in Range(t)
      BY <1>9 DEF InPart
    <3> QED
      BY <1>0, <1>1, <2>2, <3>1, <3>2
  <2>4. ASSUME PartsOrdered(found, q, below) PROVE Ordered(u, q)
    <3>1. Ordered(s, q) /\ Ordered(t, x) /\ parent[x] = q
      BY <1>0, <1>1, <1>9, <2>4 DEF ListedSoFar, PartsOrdered, Under1
    <3> QED
      BY <1>0, <2>1, <3>1, JoinedOrdered
  <2>5. ASSUME PartsApart(found, q, below) PROVE Distinct(u)
    <3>1. Distinct(s) /\ Distinct(t) /\ x \notin Range(t)
      BY <1>0, <1>1, <1>9, <2>5 DEF ListedSoFar, PartsApart
    <3>2. ASSUME NEW y \in Range(s), y = x \/ y \in Range(t) PROVE FALSE
      <4>1. y \in Node
        BY RangeOf
      <4>2. PICK n \in 1..k : Under1(found, q, n) /\ InPart(below, n, y)
        BY DEF ListedSoFar
      <4>3. n \in Node /\ n # x
        BY <1>9, TreesAssumption DEF Node
      <4>4. InPart(below, x, y)
        BY <1>9, <3>2 DEF InPart
      <4> QED
        BY <1>0, <1>1, <2>5, <4>1, <4>2, <4>3, <4>4 DEF PartsApart
    <3> QED
      BY <1>0, <2>1, <3>1, <3>2, JoinedDistinct
  <2> QED
    BY <1>9, <2>3, <2>4, <2>5 DEF ListedSoFar
<1>2. CASE ~Under1(found, q, x)
  <2>1. u = s
    BY <1>2, <1>9 DEF Adds
  <2> QED
    BY <1>0, <1>2, <1>9, <2>1 DEF ListedSoFar
<1> QED
  BY <1>1, <1>2

\* What Listed lists.
LEMMA ListedRows ==
  ASSUME NEW found, NEW q, NEW below \in Below, NEW s, s = Listed(found, q, below)
  PROVE  s \in Seq(Node) /\ ListedSoFar(found, q, below, MaxNode, s)
<1> PICK g : g = ListUpTo(found, q, below)
  OBVIOUS
<1>0. MaxNode \in Nat /\ MaxNode \in 0..MaxNode
  BY TreesAssumption
<1>1. /\ g \in [0..MaxNode -> Seq(Node)] /\ g[0] = <<>>
      /\ \A n \in Node : g[n] = Adds(found, q, below, n, g[n-1])
  BY ListStep
<1>2. s = g[MaxNode]
  BY DEF Listed, ListUpTo, Adds, Under1
<1> DEFINE Good == {k \in Nat : k <= MaxNode => ListedSoFar(found, q, below, k, g[k])}
<1>3. 0 \in Good
  <2>1. PICK e : e = g[0]
    OBVIOUS
  <2>2. e \in Seq(Node) /\ Len(e) = 0 /\ \A n : n \notin 1..0
    BY <1>1, <2>1
  <2>3. (\A y : y \notin Range(e)) /\ Ordered(e, q) /\ Distinct(e)
    BY <2>2, RangeOf DEF Ordered, Distinct
  <2>4. ListedSoFar(found, q, below, 0, e)
    BY <2>2, <2>3 DEF ListedSoFar
  <2> QED
    BY <2>1, <2>4
<1>4. ASSUME NEW k \in Good PROVE k + 1 \in Good
  <2> SUFFICES ASSUME k + 1 <= MaxNode PROVE ListedSoFar(found, q, below, k + 1, g[k+1])
    OBVIOUS
  <2>1. k \in Nat /\ k \in 0..MaxNode /\ k <= MaxNode /\ k + 1 \in Node /\ (k + 1) - 1 = k
    BY <1>0 DEF Node
  <2>2. g[k] \in Seq(Node) /\ ListedSoFar(found, q, below, k, g[k])
    BY <1>1, <2>1
  <2>3. g[k+1] = Adds(found, q, below, k + 1, g[k])
    BY <1>1, <2>1
  <2> QED
    BY <2>1, <2>2, <2>3, ListGrows
<1> QED
  <2>1. Good \subseteq Nat
    OBVIOUS
  <2> HIDE DEF Good
  <2>2. MaxNode \in Good
    BY <1>0, <1>3, <1>4, <2>1, Succession
  <2>3. ListedSoFar(found, q, below, MaxNode, g[MaxNode])
    BY <1>0, <2>2 DEF Good
  <2> QED
    BY <1>0, <1>1, <1>2, <2>3

---------------------------------------------------------------------------
(* Trees to a depth *)

\* What the trees to a depth show of the found rows: those that hang from q by less
\* than d rows, in order, and each once if q itself hangs from a root.
TreeRight(found, d, b, q) ==
  /\ \A y \in Node : y \in Range(b[q]) <=> \E k \in Nat : k < d /\ Climbs(found, y, k, q)
  /\ Ordered(b[q], q)
  /\ (\E h \in Nat : Walk(q)[h] = Root) => Distinct(b[q])
TreesRight(found, d, b) == \A q \in Node \cup {Root} : TreeRight(found, d, b, q)

\* What a part shows below n is what hangs from n, or n.
LEMMA PartClimbs ==
  ASSUME TreeTypeOK, NEW found \in SUBSET Rows, NEW d \in Nat, NEW b \in Below,
         TreesRight(found, d, b), NEW q \in Node \cup {Root}, NEW y \in Node
  PROVE  (\E n \in Node : Under1(found, q, n) /\ InPart(b, n, y))
           <=> \E k \in Nat : k < d + 1 /\ Climbs(found, y, k, q)
<1>0. y \in Place /\ found \subseteq Node
  BY DEF Place, Rows
<1>1. /\ Walk(y)[0] = y
      /\ \A i \in Nat : Walk(y)[i] \in Place /\ Walk(y)[i+1] = Upward[Walk(y)[i]]
  BY <1>0, Walks
<1>2. \A n \in Node : Upward[n] = parent[n]
  BY DEF Upward, Place
<1>3. ASSUME NEW n \in Node, Under1(found, q, n), InPart(b, n, y)
      PROVE  \E k \in Nat : k < d + 1 /\ Climbs(found, y, k, q)
  <2>1. CASE y = n
    <3>1. Walk(y)[0+1] = q
      BY <1>1, <1>2, <1>3, <2>1 DEF Under1
    <3>2. \A i \in 0..0 : Walk(y)[i] \in found
      BY <1>1, <1>3, <2>1 DEF Under1
    <3>3. Climbs(found, y, 0, q)
      BY <3>1, <3>2 DEF Climbs
    <3> QED
      BY <3>3
  <2>2. CASE y # n
    <3>1. PICK k \in Nat : k < d /\ Climbs(found, y, k, n)
      BY <1>3, <2>2 DEF InPart, TreesRight, TreeRight
    <3>2. k + 1 \in Nat /\ k + 1 < d + 1 /\ \A i \in 0..(k+1) : i \in 0..k \/ i = k + 1
      BY <3>1
    <3>3. Walk(y)[(k+1)+1] = q
      BY <1>1, <1>2, <1>3, <3>1, <3>2 DEF Climbs, Under1
    <3>4. ASSUME NEW i \in 0..(k+1) PROVE Walk(y)[i] \in found
      BY <1>3, <3>1, <3>2 DEF Climbs, Under1
    <3> QED
      BY <3>2, <3>3, <3>4 DEF Climbs
  <2> QED
    BY <2>1, <2>2
<1>4. ASSUME NEW k \in Nat, k < d + 1, Climbs(found, y, k, q)
      PROVE  \E n \in Node : Under1(found, q, n) /\ InPart(b, n, y)
  <2>1. k \in 0..k /\ Walk(y)[k] \in found /\ Walk(y)[k+1] = q
    BY <1>4 DEF Climbs
  <2>2. PICK n \in Node : n = Walk(y)[k]
    BY <1>0, <2>1
  <2>3. Under1(found, q, n)
    BY <1>1, <1>2, <2>1, <2>2 DEF Under1
  <2>4. CASE k = 0
    BY <1>1, <2>2, <2>3, <2>4 DEF InPart
  <2>5. CASE k # 0
    <3>1. k - 1 \in Nat /\ k - 1 < d /\ (k - 1) + 1 = k /\ \A i \in 0..(k-1) : i \in 0..k
      BY <1>4, <2>5
    <3>2. Climbs(found, y, k - 1, n)
      BY <1>4, <2>2, <3>1 DEF Climbs
    <3>3. y \in Range(b[n])
      BY <3>1, <3>2 DEF TreesRight, TreeRight
    <3> QED
      BY <2>3, <3>3 DEF InPart
  <2> QED
    BY <2>4, <2>5
<1> QED
  BY <1>3, <1>4

\* Below a row that hangs from a root the parts are apart.
LEMMA PartsStandApart ==
  ASSUME TreeTypeOK, NEW found \in SUBSET Rows, NEW d \in Nat, NEW b \in Below,
         TreesRight(found, d, b), NEW q \in Node \cup {Root}, NEW h \in Nat, Walk(q)[h] = Root
  PROVE  PartsApart(found, q, b)
<1>0. Node \subseteq Place /\ q \in Place
  BY DEF Place
<1>1. ASSUME NEW n \in Node, Under1(found, q, n), NEW y \in Node, NEW i \in Nat, Walk(y)[i] = n
      PROVE  Walk(y)[i+(1+h)] = Root
  <2>1. Walk(n)[1] = q /\ n \in Place
    BY <1>1, FirstStep DEF Under1
  <2>2. Walk(n)[1+h] = Root
    <3>1. \A j \in Nat : Walk(n)[1+j] = Walk(Walk(n)[1])[j]
      BY <2>1, WalksOn
    <3> QED
      BY <2>1, <3>1
  <2>3. 1 + h \in Nat
    OBVIOUS
  <2>4. Walk(y)[i+(1+h)] = Walk(Walk(y)[i])[1+h]
    <3>1. \A j \in Nat : Walk(y)[i+j] = Walk(Walk(y)[i])[j]
      BY <1>0, WalksOn
    <3> QED
      BY <2>3, <3>1
  <2> QED
    BY <1>1, <2>2, <2>4
<1>2. ASSUME NEW n \in Node, Under1(found, q, n) PROVE Walk(n)[0] = n /\ Walk(n)[0+(1+h)] = Root
  <2>1. Walk(n)[0] = n
    BY <1>0, Walks
  <2> QED
    BY <1>1, <1>2, <2>1
<1>3. ASSUME NEW n \in Node, NEW y \in Node, y \in Range(b[n])
      PROVE  \E i \in Nat : Walk(y)[i+1] = n
  BY <1>3 DEF TreesRight, TreeRight, Climbs
<1>4. ASSUME NEW n \in Node, NEW y \in Node, InPart(b, n, y)
      PROVE  \E i \in Nat : Walk(y)[i] = n
  <2>1. CASE y = n
    BY <1>0, <2>1, Walks
  <2>2. CASE y \in Range(b[n])
    <3>1. PICK i \in Nat : Walk(y)[i+1] = n
      BY <1>3, <2>2
    <3>2. i + 1 \in Nat
      OBVIOUS
    <3> QED
      BY <3>1, <3>2
  <2> QED
    BY <1>4, <2>1, <2>2 DEF InPart
<1>5. ASSUME NEW n \in Node, Under1(found, q, n)
      PROVE  Distinct(b[n]) /\ n \notin Range(b[n])
  <2>1. Walk(n)[1+h] = Root /\ 1 + h \in Nat
    BY <1>2, <1>5
  <2>2. Distinct(b[n])
    BY <2>1 DEF TreesRight, TreeRight
  <2>3. ASSUME n \in Range(b[n]) PROVE FALSE
    <3>1. PICK i \in Nat : Walk(n)[i+1] = n
      BY <1>3, <2>3
    <3>2. i + 1 \in Nat /\ (i+1)+(1+h) \in Nat /\ (i+1)+(1+h) # 1+h
      OBVIOUS
    <3>3. Walk(n)[(i+1)+(1+h)] = Root
      BY <1>1, <1>5, <3>1, <3>2
    <3> QED
      BY <1>0, <2>1, <3>2, <3>3, RootOnce
  <2> QED
    BY <2>2, <2>3
<1>6. ASSUME NEW n \in Node, NEW m \in Node, NEW y \in Node, Under1(found, q, n), Under1(found, q, m),
             InPart(b, n, y), InPart(b, m, y)
      PROVE  n = m
  <2>1. PICK i \in Nat : Walk(y)[i] = n
    BY <1>4, <1>6
  <2>2. PICK j \in Nat : Walk(y)[j] = m
    BY <1>4, <1>6
  <2>3. Walk(y)[i+(1+h)] = Root /\ Walk(y)[j+(1+h)] = Root
    BY <1>1, <1>6, <2>1, <2>2
  <2>4. i + (1+h) \in Nat /\ j + (1+h) \in Nat
    OBVIOUS
  <2>5. i + (1+h) = j + (1+h)
    BY <1>0, <2>3, <2>4, RootOnce
  <2>6. i = j
    BY <2>5
  <2> QED
    BY <2>1, <2>2, <2>6
<1> QED
  BY <1>5, <1>6 DEF PartsApart

\* The trees that are one row deeper.
Deeper(found, b) == [q \in Node \cup {Root} |-> Listed(found, q, b)]
Empty            == [q \in Node \cup {Root} |-> <<>>]

\* If the parts show what is at most d rows below their row, the lists show one row more.
LEMMA DeeperRight ==
  ASSUME TreeTypeOK, NEW found \in SUBSET Rows, NEW d \in Nat, NEW b \in Below,
         TreesRight(found, d, b)
  PROVE  Deeper(found, b) \in Below /\ TreesRight(found, d + 1, Deeper(found, b))
<1>1. ASSUME NEW q \in Node \cup {Root}, NEW s, s = Listed(found, q, b)
      PROVE  /\ s \in Seq(Node) /\ Ordered(s, q)
             /\ \A y \in Node : y \in Range(s) <=> \E k \in Nat : k < d + 1 /\ Climbs(found, y, k, q)
             /\ (\E h \in Nat : Walk(q)[h] = Root) => Distinct(s)
  <2>1. s \in Seq(Node) /\ ListedSoFar(found, q, b, MaxNode, s)
    BY <1>1, ListedRows
  <2>2. PartsOrdered(found, q, b)
    BY DEF PartsOrdered, TreesRight, TreeRight
  <2>3. Ordered(s, q)
    BY <2>1, <2>2 DEF ListedSoFar
  <2>4. ASSUME NEW h \in Nat, Walk(q)[h] = Root PROVE Distinct(s)
    <3>1. PartsApart(found, q, b)
      BY <2>4, PartsStandApart
    <3> QED
      BY <2>1, <3>1 DEF ListedSoFar
  <2>5. ASSUME NEW y \in Node
        PROVE  y \in Range(s) <=> \E k \in Nat : k < d + 1 /\ Climbs(found, y, k, q)
    <3>1. y \in Range(s) <=> \E n \in Node : Under1(found, q, n) /\ InPart(b, n, y)
      BY <2>1 DEF ListedSoFar, Node
    <3>2. (\E n \in Node : Under1(found, q, n) /\ InPart(b, n, y))
             <=> \E k \in Nat : k < d + 1 /\ Climbs(found, y, k, q)
      BY PartClimbs
    <3> QED
      BY <3>1, <3>2
  <2> QED
    BY <2>1, <2>3, <2>4, <2>5
<1>2. Deeper(found, b) \in Below
  BY <1>1 DEF Deeper, Below
<1>3. ASSUME NEW q \in Node \cup {Root} PROVE TreeRight(found, d + 1, Deeper(found, b), q)
  <2>1. Deeper(found, b)[q] = Listed(found, q, b)
    BY DEF Deeper
  <2> QED
    BY <1>1, <2>1 DEF TreeRight
<1> QED
  BY <1>2, <1>3 DEF TreesRight

\* Nothing is less than no row below.
LEMMA EmptyRight ==
  ASSUME NEW found
  PROVE  Empty \in Below /\ TreesRight(found, 0, Empty)
<1>1. ASSUME NEW q \in Node \cup {Root} PROVE TreeRight(found, 0, Empty, q)
  <2>1. PICK e : e = Empty[q]
    OBVIOUS
  <2>2. e \in Seq(Node) /\ Len(e) = 0
    BY <2>1 DEF Empty
  <2>6. \A i : i \notin 1..Len(e)
    BY <2>2
  <2>7. \A y : y \notin Range(e)
    BY <2>2, <2>6, RangeOf
  <2>3. (\A y : y \notin Range(e)) /\ Ordered(e, q) /\ Distinct(e)
    BY <2>6, <2>7 DEF Ordered, Distinct
  <2>4. \A k \in Nat : ~(k < 0)
    OBVIOUS
  <2>5. \A y \in Node : y \in Range(e) <=> \E k \in Nat : k < 0 /\ Climbs(found, y, k, q)
    BY <2>3, <2>4
  <2> QED
    BY <2>1, <2>3, <2>5 DEF TreeRight
<1>2. Empty \in Below
  BY DEF Empty, Below
<1> QED
  BY <1>1, <1>2 DEF TreesRight

\* The trees that Under builds, depth by depth.
TreesTo(found, depth) ==
  CHOOSE g : g = [d \in 0..depth |-> IF d = 0 THEN Empty ELSE Deeper(found, g[d-1])]

\* Each depth lists the rows with the trees of the depth before.
LEMMA TreesStep ==
  ASSUME TreeTypeOK, NEW found \in SUBSET Rows, NEW depth \in Nat
  PROVE  /\ TreesTo(found, depth)[0] = Empty
         /\ \A d \in 1..depth : TreesTo(found, depth)[d] = Deeper(found, TreesTo(found, depth)[d-1])
<1> DEFINE F == [d \in 1..depth |-> [b \in Below |-> Deeper(found, b)]]
           Body(h) == [d \in 0..depth |-> IF d = 0 THEN Empty ELSE Deeper(found, h[d-1])]
<1>1. ASSUME NEW b \in Below PROVE Deeper(found, b) \in Below
  <2>1. \A q \in Node \cup {Root} : Listed(found, q, b) \in Seq(Node)
    BY ListedRows
  <2> QED
    BY <2>1 DEF Deeper, Below
<1>2. F \in [1..depth -> [Below -> Below]] /\ Empty \in Below
  BY <1>1, EmptyRight
<1>3. PICK h \in [0..depth -> Below] : Unfolds(h, depth, Empty, F)
  <2> HIDE DEF F
  <2> QED
    BY <1>2, Recursion
<1>4. h = Body(h)
  <2>1. \A d \in 0..depth : d # 0 => d \in 1..depth
    OBVIOUS
  <2>2. \A d \in 1..depth : h[d-1] \in Below
    OBVIOUS
  <2>3. h[0] = Empty /\ \A d \in 1..depth : h[d] = Deeper(found, h[d-1])
    BY <1>3, <2>2 DEF Unfolds
  <2> QED
    BY <2>1, <2>3
<1>5. PICK g : g = TreesTo(found, depth)
  OBVIOUS
<1>6. g = Body(g)
  <2>1. g = CHOOSE k : k = Body(k)
    BY <1>5 DEF TreesTo
  <2> HIDE DEF Body
  <2> QED
    BY <1>4, <2>1
<1>7. 0 \in 0..depth /\ \A d \in 1..depth : d \in 0..depth /\ d # 0
  OBVIOUS
<1>8. g[0] = Empty /\ \A d \in 1..depth : g[d] = Deeper(found, g[d-1])
  <2> HIDE DEF F
  <2> QED
    BY <1>6, <1>7
<1> QED
  BY <1>5, <1>8

\* Under lists the rows that hang from p by at most depth rows, in order, and each
\* once if p hangs from a root.
LEMMA UnderRight ==
  ASSUME TreeTypeOK, NEW found \in SUBSET Rows, NEW depth \in Nat, NEW p \in Node \cup {Root},
         NEW s, s = Under(found, p, depth)
  PROVE  /\ s \in Seq(Node) /\ Ordered(s, p)
         /\ \A y \in Node : y \in Range(s) <=> \E k \in Nat : k < depth /\ Climbs(found, y, k, p)
         /\ (\E h \in Nat : Walk(p)[h] = Root) => Distinct(s)
<1> DEFINE g == TreesTo(found, depth)
           Good == {d \in Nat : d <= depth => g[d] \in Below /\ TreesRight(found, d, g[d])}
<1>1. g[0] = Empty /\ \A d \in 1..depth : g[d] = Deeper(found, g[d-1])
  BY TreesStep
<1> HIDE DEF g
<1>2. 0 \in Good
  BY <1>1, EmptyRight
<1>3. ASSUME NEW d \in Good PROVE d + 1 \in Good
  <2> SUFFICES ASSUME d + 1 <= depth PROVE g[d+1] \in Below /\ TreesRight(found, d + 1, g[d+1])
    OBVIOUS
  <2>1. d \in Nat /\ d <= depth /\ d + 1 \in 1..depth /\ (d + 1) - 1 = d
    OBVIOUS
  <2>2. g[d] \in Below /\ TreesRight(found, d, g[d]) /\ g[d+1] = Deeper(found, g[d])
    BY <1>1, <2>1
  <2> QED
    BY <2>1, <2>2, DeeperRight
<1>4. g[depth] \in Below /\ TreesRight(found, depth, g[depth])
  <2>1. Good \subseteq Nat
    OBVIOUS
  <2> HIDE DEF Good
  <2>2. depth \in Good
    BY <1>2, <1>3, <2>1, Succession
  <2> QED
    BY <2>2 DEF Good
<1>5. s = g[depth][p]
  BY DEF Under, g, TreesTo, Deeper, Empty
<1> QED
  BY <1>4, <1>5 DEF TreesRight, TreeRight, Below

---------------------------------------------------------------------------
(* What the trees show *)

\* The tree of found rows shows those that hang from a root through found rows.
LEMMA TreeOfFound ==
  ASSUME TreeTypeOK, NEW found \in SUBSET Rows, NEW s, s = TransformationTree(found)
  PROVE  /\ s \in Seq(Node) /\ Ordered(s, Root) /\ Distinct(s)
         /\ \A y : y \in Range(s) <=> y \in found /\ \E k \in 0..MaxNode : Climbs(found, y, k, Root)
<1>0. MaxNode \in Nat /\ MaxNode + 1 \in Nat /\ Root \in Place /\ Node \subseteq Place /\ found \subseteq Node
  BY TreesAssumption DEF Place, Rows
<1>1. s = Under(found, Root, MaxNode + 1)
  BY DEF TransformationTree
<1>2. /\ s \in Seq(Node) /\ Ordered(s, Root)
      /\ \A y \in Node : y \in Range(s) <=> \E k \in Nat : k < MaxNode + 1 /\ Climbs(found, y, k, Root)
      /\ (\E h \in Nat : Walk(Root)[h] = Root) => Distinct(s)
  BY <1>0, <1>1, UnderRight
<1>3. Distinct(s)
  <2>1. Walk(Root)[0] = Root
    BY <1>0, Walks
  <2> QED
    BY <1>2, <2>1
<1>4. \A k : k \in 0..MaxNode <=> k \in Nat /\ k < MaxNode + 1
  BY <1>0
<1>5. ASSUME NEW y \in Node, NEW k \in Nat, Climbs(found, y, k, Root)
      PROVE  y \in found
  <2>1. 0 \in 0..k
    OBVIOUS
  <2>2. Walk(y)[0] = y
    BY <1>0, Walks
  <2> QED
    BY <1>5, <2>1, <2>2 DEF Climbs
<1>6. \A y \in Range(s) : y \in Node
  BY <1>2, RangeOf
<1>7. ASSUME NEW y
      PROVE  y \in Range(s) <=> y \in found /\ \E k \in 0..MaxNode : Climbs(found, y, k, Root)
  BY <1>0, <1>2, <1>4, <1>5, <1>6
<1> QED
  BY <1>2, <1>3, <1>7

\* Rows keep their types.
LEMMA TreeTypes == TreeSpec => []TreeTypeOK
<1>1. TreeInit => TreeTypeOK
  BY DEF TreeInit, TreeTypeOK
<1>2. TreeTypeOK /\ [TreeNext]_treeVars => TreeTypeOK'
  <2> SUFFICES ASSUME TreeTypeOK, [TreeNext]_treeVars PROVE TreeTypeOK'
    OBVIOUS
  <2>1. CASE TreeNext
    <3>1. ASSUME NEW n \in Node, NEW p \in Node \cup {Root}, CreateRow(n, p) \/ MoveRow(n, p)
          PROVE  TreeTypeOK'
      BY <3>1 DEF CreateRow, MoveRow, TreeTypeOK
    <3>2. ASSUME NEW n \in Node, RemoveRow(n) PROVE TreeTypeOK'
      BY <3>2 DEF RemoveRow, TreeTypeOK
    <3> QED
      BY <2>1, <3>1, <3>2 DEF TreeNext
  <2>2. CASE UNCHANGED treeVars
    BY <2>2 DEF treeVars, TreeTypeOK
  <2> QED
    BY <2>1, <2>2
<1> QED
  BY <1>1, <1>2, PTL DEF TreeSpec

\* Whatever rows a query has found, the tree shows once each row that hangs from a root
\* through them, behind its parent, and no other, for any number of rows and however they
\* were moved: this is transformationTree on the rows of a scope.
THEOREM TreesShowRooted == TreeSpec => []TreeShowsRooted
<1>1. TreeTypeOK => TreeShowsRooted
  <2> SUFFICES ASSUME TreeTypeOK PROVE TreeShowsRooted
    OBVIOUS
  <2> DEFINE chain == [n \in Rows |-> Ancestors(n)]
             hangs == {n \in Rows : Rooted(chain[n])}
  <2>1. ASSUME NEW found \in SUBSET Rows, NEW s, s = ScopedTree(found)
        PROVE  /\ Range(s) = {n \in found \cap hangs : chain[n] \subseteq found}
               /\ \A i, j \in DOMAIN s : s[i] = s[j] => i = j
               /\ \A i \in DOMAIN s : parent[s[i]] # Root =>
                    \E j \in 1..(i - 1) : s[j] = parent[s[i]]
    <3>1. found \cap Rows = found
      OBVIOUS
    <3>2. s = TransformationTree(found)
      BY <2>1, <3>1 DEF ScopedTree
    <3>3. /\ s \in Seq(Node) /\ Ordered(s, Root) /\ Distinct(s)
          /\ \A y : y \in Range(s) <=> y \in found /\ \E k \in 0..MaxNode : Climbs(found, y, k, Root)
      BY <3>2, TreeOfFound
    <3>4. \A n \in found : (\E k \in 0..MaxNode : Climbs(found, n, k, Root))
             <=> Rooted(Ancestors(n)) /\ Ancestors(n) \subseteq found
      BY HangsByWalk
    <3>5. \A n \in found : n \in Rows /\ chain[n] = Ancestors(n)
      OBVIOUS
    <3>6. \A y : y \in Range(s) <=> y \in found \cap hangs /\ chain[y] \subseteq found
      <4> HIDE DEF chain
      <4> QED
        BY <3>3, <3>4, <3>5
    <3>7. DOMAIN s = 1..Len(s)
      BY <3>3
    <3> QED
      <4> HIDE DEF chain, hangs
      <4> QED
        BY <3>3, <3>6, <3>7 DEF Distinct, Ordered
  <2> QED
    BY <2>1 DEF TreeShowsRooted
<1> QED
  BY <1>1, TreeTypes, PTL

---------------------------------------------------------------------------
(* Walks among finitely many rows *)

\* A walk that stays among the rows for as many steps as there are ids meets one again.
LEMMA MeetsAgain ==
  ASSUME TreeTypeOK, NEW n \in Place, NEW k \in Nat, k >= MaxNode,
         \A i \in 0..k : Walk(n)[i] \in Node
  PROVE  \E a \in Nat, b \in Nat : a < b /\ b <= k /\ Walk(n)[a] = Walk(n)[b]
<1>0. MaxNode \in Nat
  BY TreesAssumption
<1>1. IsFiniteSet(Node) /\ Cardinality(Node) = MaxNode
  <2>1. IsFiniteSet(1..MaxNode) /\ Cardinality(1..MaxNode) = IF 1 > MaxNode THEN 0 ELSE MaxNode - 1 + 1
    BY <1>0, FS_Interval
  <2> QED
    BY <1>0, <2>1 DEF Node
<1>2. IsFiniteSet(0..k) /\ Cardinality(0..k) = k + 1
  <2>1. IsFiniteSet(0..k) /\ Cardinality(0..k) = IF 0 > k THEN 0 ELSE k - 0 + 1
    BY FS_Interval
  <2> QED
    BY <2>1
<1> DEFINE f == [i \in 0..k |-> Walk(n)[i]]
<1>3. f \in [0..k -> Node]
  OBVIOUS
<1>4. PICK x \in 0..k, y \in 0..k : x # y /\ f[x] = f[y]
  <2> HIDE DEF f
  <2>1. Cardinality(Node) < Cardinality(0..k)
    BY <1>0, <1>1, <1>2
  <2> QED
    BY <1>1, <1>2, <1>3, <2>1, FS_PigeonHole
<1>5. x \in Nat /\ y \in Nat /\ x <= k /\ y <= k /\ Walk(n)[x] = Walk(n)[y] /\ (x < y \/ y < x)
  BY <1>4
<1> QED
  BY <1>5

\* A place among the rows that a walk comes to, it comes to within as many steps.
LEMMA Near ==
  ASSUME TreeTypeOK, NEW n \in Place, NEW i \in Nat, Walk(n)[i] \in Node
  PROVE  \E j \in Nat : j < MaxNode /\ Walk(n)[j] = Walk(n)[i]
<1> DEFINE Close(l) == Walk(n)[l] \in Node => \E j \in Nat : j < MaxNode /\ Walk(n)[j] = Walk(n)[l]
           S == {m \in Nat : \A l \in 0..m : Close(l)}
<1>0. MaxNode \in Nat
  BY TreesAssumption
<1>1. ASSUME NEW m \in Nat, \A l \in Nat : l < m => Close(l) PROVE Close(m)
  <2> SUFFICES ASSUME Walk(n)[m] \in Node, m >= MaxNode
               PROVE  \E j \in Nat : j < MaxNode /\ Walk(n)[j] = Walk(n)[m]
    BY <1>0
  <2>1. ASSUME NEW l \in 0..m PROVE Walk(n)[l] \in Node
    <3>1. l \in Nat /\ (l = m \/ l < m)
      OBVIOUS
    <3>2. Walk(n)[l] \in Place
      BY <3>1, WalksOn
    <3>3. Walk(n)[l] \in {Root, Gone} => l = m
      BY <3>1, NoWayBack, TreesAssumption
    <3> QED
      BY <3>2, <3>3 DEF Place
  <2>2. PICK a \in Nat, b \in Nat : a < b /\ b <= m /\ Walk(n)[a] = Walk(n)[b]
    BY <2>1, MeetsAgain
  <2>3. PICK c \in Nat : m = b + c
    <3>1. m - b \in Nat /\ m = b + (m - b)
      BY <2>2
    <3> QED
      BY <3>1
  <2>4. Walk(n)[b+c] = Walk(Walk(n)[b])[c] /\ Walk(n)[a+c] = Walk(Walk(n)[a])[c]
    BY WalksOn
  <2>5. a + c \in Nat /\ a + c < m
    BY <2>2, <2>3
  <2>6. Walk(n)[a+c] = Walk(n)[m]
    BY <2>2, <2>3, <2>4
  <2> QED
    BY <1>1, <2>5, <2>6
<1> HIDE DEF Close
<1>2. 0 \in S
  <2>1. \A l \in Nat : ~(l < 0)
    OBVIOUS
  <2>2. \A l \in 0..0 : l = 0
    OBVIOUS
  <2> QED
    BY <1>1, <2>1, <2>2
<1>3. ASSUME NEW m \in S PROVE m + 1 \in S
  <2>1. m \in Nat /\ m + 1 \in Nat /\ \A l \in 0..m : Close(l)
    OBVIOUS
  <2>2. \A l \in Nat : l < m + 1 => l \in 0..m
    BY <2>1
  <2>3. Close(m + 1)
    BY <1>1, <2>1, <2>2
  <2>4. \A l \in 0..(m+1) : l \in 0..m \/ l = m + 1
    BY <2>1
  <2> QED
    BY <2>1, <2>3, <2>4
<1>4. Close(i)
  <2>1. S \subseteq Nat
    OBVIOUS
  <2>2. i \in 0..i
    OBVIOUS
  <2>3. i \in S
    <3> HIDE DEF S
    <3> QED
      BY <1>2, <1>3, <2>1, Succession
  <2> QED
    BY <2>2, <2>3
<1> QED
  BY <1>4 DEF Close

\* Hence the ancestors of a row are all the rows that its walk ever comes by.
LEMMA AncestorsAll ==
  ASSUME TreeTypeOK, NEW n \in Node
  PROVE  \A x : x \in Ancestors(n) <=> x \in Node /\ \E i \in Nat : Walk(n)[i] = x
<1>1. n \in Place /\ MaxNode \in Nat
  BY TreesAssumption DEF Place
<1>2. \A j \in Nat : j < MaxNode => j \in 0..MaxNode
  BY <1>1
<1>3. ASSUME NEW x \in Node, NEW i \in Nat, Walk(n)[i] = x PROVE \E j \in 0..MaxNode : Walk(n)[j] = x
  BY <1>1, <1>2, <1>3, Near
<1>4. \A j \in 0..MaxNode : j \in Nat
  BY <1>1
<1> QED
  BY <1>3, <1>4, AncestorsWalk

---------------------------------------------------------------------------
(* What no tree shows *)

\* A row's parent is a row or null: the foreign key.
NoOrphans == \A n \in Rows : parent[n] \in Rows \cup {Root}

\* Who is above a row's parent is above the row.
LEMMA ParentsAncestors ==
  ASSUME TreeTypeOK, NEW m \in Node, parent[m] \in Node, NEW x \in Ancestors(parent[m])
  PROVE  x \in Ancestors(m)
<1>1. m \in Place /\ Walk(m)[1] = parent[m]
  BY FirstStep
<1>2. PICK j \in Nat : x \in Node /\ Walk(parent[m])[j] = x
  BY AncestorsAll
<1>3. Walk(m)[1+j] = x
  <2>1. \A l \in Nat : Walk(m)[1+l] = Walk(Walk(m)[1])[l]
    BY <1>1, WalksOn
  <2> QED
    BY <1>1, <1>2, <2>1
<1>4. \E i \in Nat : Walk(m)[i] = x
  <2>1. 1 + j \in Nat
    OBVIOUS
  <2> QED
    BY <1>3, <2>1
<1> QED
  BY <1>2, <1>4, AncestorsAll

\* Whatever is created, moved or deleted, the foreign key holds: a cascade takes all that is
\* under the deleted row, and the other rule makes its children roots.
LEMMA KeysHold == TreeSpec => []NoOrphans
<1>1. TreeInit => NoOrphans
  BY TreesAssumption DEF TreeInit, NoOrphans, Rows
<1>2. TreeTypeOK /\ NoOrphans /\ [TreeNext]_treeVars => NoOrphans'
  <2> SUFFICES ASSUME TreeTypeOK, NoOrphans, [TreeNext]_treeVars PROVE NoOrphans'
    OBVIOUS
  <2>1. ASSUME NEW n \in Node, NEW p \in Node \cup {Root}, CreateRow(n, p) \/ MoveRow(n, p)
        PROVE  NoOrphans'
    <3>1. /\ p \in Rows \cup {Root} /\ p # Gone
          /\ parent' = [parent EXCEPT ![n] = p]
      BY <2>1, TreesAssumption DEF CreateRow, MoveRow, Rows
    <3>2. parent'[n] = p /\ \A m \in Node : m # n => parent'[m] = parent[m]
      BY <3>1 DEF TreeTypeOK
    <3>3. Rows' = Rows \cup {n}
      BY <3>1, <3>2 DEF Rows
    <3> QED
      BY <3>1, <3>2, <3>3 DEF NoOrphans, Rows
  <2>2. ASSUME NEW n \in Node, RemoveRow(n) PROVE NoOrphans'
    <3> DEFINE Falls(m) == m = n \/ (onDelete = "cascade" /\ n \in Ancestors(m))
    <3>1. \A m \in Node : /\ Falls(m) => parent'[m] = Gone
                          /\ ~Falls(m) /\ parent[m] = n => parent'[m] = Root
                          /\ ~Falls(m) /\ parent[m] # n => parent'[m] = parent[m]
      BY <2>2 DEF RemoveRow
    <3>2. SUFFICES ASSUME NEW m \in Node, parent'[m] # Gone
                   PROVE  parent'[m] = Root \/ (parent'[m] \in Node /\ parent'[parent'[m]] # Gone)
      BY DEF NoOrphans, Rows
    <3>3. ~Falls(m)
      BY <3>1, <3>2
    <3>4. CASE parent[m] = n
      <4> HIDE DEF Falls
      <4> QED
        BY <3>1, <3>3, <3>4
    <3>5. CASE parent[m] # n
      <4>1. parent'[m] = parent[m]
        <5> HIDE DEF Falls
        <5> QED
          BY <3>1, <3>3, <3>5
      <4>2. m \in Rows
        BY <3>2, <4>1 DEF Rows
      <4>3. CASE parent[m] = Root
        BY <4>1, <4>3
      <4>4. CASE parent[m] \in Rows
        <5>1. parent[m] \in Node /\ parent[parent[m]] # Gone
          BY <4>4 DEF Rows
        <5>2. ~Falls(parent[m])
          BY <3>3, <3>5, <5>1, ParentsAncestors
        <5>3. parent'[parent[m]] # Gone
          <6> HIDE DEF Falls
          <6> QED
            BY <3>1, <5>1, <5>2, TreesAssumption
        <5> QED
          BY <4>1, <5>1, <5>3
      <4> QED
        BY <4>2, <4>3, <4>4 DEF NoOrphans
    <3> QED
      BY <3>4, <3>5
  <2>3. CASE UNCHANGED treeVars
    BY <2>3 DEF treeVars, NoOrphans, Rows
  <2> QED
    BY <2>1, <2>2, <2>3 DEF TreeNext
<1> QED
  BY <1>1, <1>2, TreeTypes, PTL DEF TreeSpec

\* A row is on a cycle when its walk comes back to it.
LEMMA CycleWalk ==
  ASSUME TreeTypeOK, NEW m \in Node
  PROVE  OnCycle(m) <=> \E j \in Nat : Walk(m)[j+1] = m
<1>0. m \in Place /\ Walk(m)[1] = parent[m] /\ parent[m] \in Place /\ 1 \in Nat
  BY FirstStep
<1>1. \A j \in Nat : Walk(m)[1+j] = Walk(parent[m])[j]
  <2>1. \A j \in Nat : Walk(m)[1+j] = Walk(Walk(m)[1])[j]
    BY <1>0, WalksOn
  <2> QED
    BY <1>0, <2>1
<1>2. \A j \in Nat : 1 + j = j + 1
  OBVIOUS
<1>3. ASSUME OnCycle(m) PROVE \E j \in Nat : Walk(m)[j+1] = m
  <2>1. parent[m] \in Node /\ m \in Ancestors(parent[m])
    BY <1>3 DEF OnCycle
  <2>2. PICK j \in Nat : Walk(parent[m])[j] = m
    BY <2>1, AncestorsAll
  <2> QED
    BY <1>1, <1>2, <2>2
<1>4. ASSUME NEW j \in Nat, Walk(m)[j+1] = m PROVE OnCycle(m)
  <2>1. Walk(parent[m])[j] = m
    BY <1>1, <1>2, <1>4
  <2>2. parent[m] \in Node
    <3> SUFFICES ASSUME parent[m] \in {Root, Gone} PROVE FALSE
      BY <1>0 DEF Place
    <3>1. CASE j = 0
      <4>1. 0 + 1 = 1 /\ Walk(m)[0+1] = m
        BY <1>4, <3>1
      <4> QED
        BY <1>0, <4>1, TreesAssumption
    <3>2. CASE j # 0
      <4>1. j + 1 \in Nat /\ 1 < j + 1
        BY <3>2
      <4>2. Walk(m)[j+1] = Gone
        BY <1>0, <4>1, NoWayBack
      <4> QED
        BY <1>4, <4>2, TreesAssumption
    <3> QED
      BY <3>1, <3>2
  <2>3. m \in Ancestors(parent[m])
    BY <2>1, <2>2, AncestorsAll
  <2> QED
    BY <2>2, <2>3 DEF OnCycle
<1> QED
  BY <1>3, <1>4

\* Below a root a walk goes up, and comes by no place twice.
LEMMA NeverTwice ==
  ASSUME TreeTypeOK, NEW n \in Place, NEW k \in Nat, Walk(n)[k] = Root,
         NEW a \in Nat, NEW b \in Nat, a < b, b <= k
  PROVE  Walk(n)[a] # Walk(n)[b]
<1> SUFFICES ASSUME Walk(n)[a] = Walk(n)[b] PROVE FALSE
  OBVIOUS
<1>1. PICK c \in Nat : k = b + c
  <2>1. k - b \in Nat /\ k = b + (k - b)
    OBVIOUS
  <2> QED
    BY <2>1
<1>2. Walk(n)[b+c] = Walk(Walk(n)[b])[c] /\ Walk(n)[a+c] = Walk(Walk(n)[a])[c]
  BY WalksOn
<1>3. Walk(n)[a+c] = Root
  BY <1>1, <1>2
<1>4. a + c \in Nat /\ a + c # k
  BY <1>1
<1> QED
  BY <1>3, <1>4, RootOnce

\* A row hangs from a root exactly when no row above it is on a cycle.
LEMMA HangsOrCycles ==
  ASSUME TreeTypeOK, NoOrphans, NEW n \in Rows
  PROVE  (\E k \in 0..MaxNode : Climbs(Rows, n, k, Root)) <=> ~ \E m \in Ancestors(n) : OnCycle(m)
<1>0. n \in Node /\ n \in Place /\ MaxNode \in Nat /\ Rows \subseteq Node
  BY TreesAssumption DEF Rows, Place
<1>1. ASSUME NEW k \in 0..MaxNode, Walk(n)[k+1] = Root, NEW m \in Ancestors(n), OnCycle(m)
      PROVE  FALSE
  <2>0. k \in Nat /\ k + 1 \in Nat
    BY <1>0
  <2>1. PICK i \in Nat : m \in Node /\ Walk(n)[i] = m
    BY <1>0, AncestorsAll
  <2>2. PICK j \in Nat : Walk(m)[j+1] = m
    BY <1>1, <2>1, CycleWalk
  <2>3. ~(k + 1 < i) /\ i # k + 1
    BY <1>0, <1>1, <2>0, <2>1, NoWayBack, TreesAssumption
  <2>4. PICK l \in Nat : l = i + (j + 1)
    OBVIOUS
  <2>5. Walk(n)[l] = m
    <3>1. j + 1 \in Nat
      OBVIOUS
    <3> QED
      BY <1>0, <2>1, <2>2, <2>4, <3>1, WalksOn
  <2>6. CASE l <= k + 1
    <3>1. i < l
      BY <2>4
    <3> QED
      BY <1>0, <1>1, <2>0, <2>1, <2>5, <2>6, <3>1, NeverTwice
  <2>7. CASE k + 1 < l
    BY <1>0, <1>1, <2>0, <2>1, <2>5, <2>7, NoWayBack, TreesAssumption
  <2> QED
    BY <2>0, <2>4, <2>6, <2>7
<1>2. ASSUME ~ \E k \in 0..MaxNode : Climbs(Rows, n, k, Root)
      PROVE  \E m \in Ancestors(n) : OnCycle(m)
  <2> DEFINE Stays(j) == \A i \in 0..j : Walk(n)[i] \in Rows
             S == {j \in Nat : j <= MaxNode => Stays(j)}
  <2>1. 0 \in S
    <3>1. Walk(n)[0] = n
      BY <1>0, Walks
    <3>2. \A i \in 0..0 : i = 0
      OBVIOUS
    <3> QED
      BY <3>1, <3>2
  <2>2. ASSUME NEW j \in S PROVE j + 1 \in S
    <3> SUFFICES ASSUME j + 1 <= MaxNode PROVE Stays(j + 1)
      OBVIOUS
    <3>1. j \in Nat /\ j \in 0..MaxNode /\ j \in 0..j
      BY <1>0
    <3>2. Stays(j)
      BY <1>0, <3>1
    <3>3. Walk(n)[j] \in Rows /\ Walk(n)[j] \in Node
      BY <1>0, <3>1, <3>2
    <3>4. Walk(n)[j+1] = parent[Walk(n)[j]]
      BY <1>0, <3>1, <3>3, Walks DEF Upward, Place
    <3>5. Walk(n)[j+1] # Root
      BY <1>2, <3>1, <3>2 DEF Climbs
    <3>6. Walk(n)[j+1] \in Rows
      BY <3>3, <3>4, <3>5 DEF NoOrphans
    <3>7. \A i \in 0..(j+1) : i \in 0..j \/ i = j + 1
      BY <3>1
    <3> QED
      BY <3>2, <3>6, <3>7
  <2>3. Stays(MaxNode)
    <3> HIDE DEF S
    <3>1. S \subseteq Nat
      BY DEF S
    <3>2. MaxNode \in S
      BY <1>0, <2>1, <2>2, <3>1, Succession
    <3>3. MaxNode <= MaxNode
      BY <1>0
    <3> QED
      BY <3>2, <3>3 DEF S
  <2>4. PICK a \in Nat, b \in Nat : a < b /\ b <= MaxNode /\ Walk(n)[a] = Walk(n)[b]
    <3>1. MaxNode >= MaxNode /\ \A i \in 0..MaxNode : Walk(n)[i] \in Node
      BY <1>0, <2>3
    <3> QED
      BY <1>0, <3>1, MeetsAgain
  <2>5. PICK m : m = Walk(n)[a]
    OBVIOUS
  <2>6. m \in Node
    <3>1. a \in 0..MaxNode
      BY <1>0, <2>4
    <3> QED
      BY <1>0, <2>3, <2>5, <3>1
  <2>7. PICK c \in Nat : b = a + (c + 1)
    <3>1. (b - a) - 1 \in Nat /\ b = a + (((b - a) - 1) + 1)
      BY <2>4
    <3> QED
      BY <3>1
  <2>8. Walk(m)[c+1] = m
    <3>1. c + 1 \in Nat
      OBVIOUS
    <3>2. Walk(n)[a+(c+1)] = Walk(m)[c+1]
      BY <1>0, <2>5, <3>1, WalksOn
    <3> QED
      BY <2>4, <2>5, <2>7, <3>2
  <2>9. m \in Ancestors(n)
    BY <1>0, <2>5, <2>6, AncestorsAll
  <2> QED
    BY <2>6, <2>8, <2>9, CycleWalk
<1> QED
  BY <1>1, <1>2 DEF Climbs

\* A row k rows below one without parent has depth k + 1.
LEMMA DepthOfRow ==
  ASSUME TreeTypeOK, NEW n \in Node, NEW k \in Nat, Climbs(Rows, n, k, Root)
  PROVE  k < MaxNode /\ Depth(n) = k + 1
<1>0. n \in Place /\ MaxNode \in Nat /\ Rows \subseteq Node /\ k + 1 \in Nat
  BY TreesAssumption DEF Rows, Place
<1>1. Walk(n)[k+1] = Root /\ \A i \in 0..k : Walk(n)[i] \in Node
  BY <1>0 DEF Climbs
<1>2. ASSUME NEW a \in 0..k, NEW b \in 0..k, a < b PROVE Walk(n)[a] # Walk(n)[b]
  <2>1. a \in Nat /\ b \in Nat /\ b <= k + 1
    OBVIOUS
  <2> QED
    BY <1>0, <1>1, <1>2, <2>1, NeverTwice
<1>3. k < MaxNode
  <2> SUFFICES ASSUME k >= MaxNode PROVE FALSE
    BY <1>0
  <2>1. PICK a \in Nat, b \in Nat : a < b /\ b <= k /\ Walk(n)[a] = Walk(n)[b]
    BY <1>0, <1>1, MeetsAgain
  <2>2. a \in 0..k /\ b \in 0..k
    BY <2>1
  <2> QED
    BY <1>2, <2>1, <2>2
<1> DEFINE f == [i \in 0..k |-> Walk(n)[i]]
<1>4. \A x : x \in Ancestors(n) <=> \E i \in 0..k : Walk(n)[i] = x
  <2>1. ASSUME NEW i \in Nat, Walk(n)[i] \in Node PROVE i \in 0..k
    <3>1. i # k + 1 /\ ~(k + 1 < i)
      BY <1>0, <1>1, <2>1, NoWayBack, TreesAssumption
    <3> QED
      BY <3>1
  <2>2. \A i \in 0..k : i \in Nat
    OBVIOUS
  <2> QED
    BY <1>1, <2>1, <2>2, AncestorsAll
<1>5. f \in Bijection(0..k, Ancestors(n))
  <2>1. f \in [0..k -> Ancestors(n)]
    BY <1>4
  <2>2. \A a, b \in 0..k : f[a] = f[b] => a = b
    <3>1. \A a, b \in 0..k : a < b \/ b < a \/ a = b
      OBVIOUS
    <3> QED
      BY <1>2, <3>1
  <2>3. \A x \in Ancestors(n) : \E i \in 0..k : f[i] = x
    BY <1>4
  <2> HIDE DEF f
  <2> QED
    BY <2>1, <2>2, <2>3 DEF Bijection, Injection, Surjection, IsInjective
<1>6. Cardinality(Ancestors(n)) = k + 1
  <2>1. IsFiniteSet(0..k) /\ Cardinality(0..k) = k + 1
    <3>1. IsFiniteSet(0..k) /\ Cardinality(0..k) = IF 0 > k THEN 0 ELSE k - 0 + 1
      BY FS_Interval
    <3> QED
      BY <3>1
  <2>2. ExistsBijection(0..k, Ancestors(n))
    <3> HIDE DEF f
    <3> QED
      BY <1>5 DEF ExistsBijection
  <2> QED
    BY <2>1, <2>2, FS_Bijection
<1> QED
  BY <1>3, <1>6 DEF Depth

\* Includes nested to a depth show the rows of the whole tree down to that depth.
LEMMA NestedShows ==
  ASSUME TreeTypeOK, NEW d \in Nat
  PROVE  Range(Under(Rows, Root, d)) =
           {n \in Range(TransformationTree(Rows)) : Depth(n) <= d}
<1>1. Root \in Node \cup {Root} /\ MaxNode \in Nat /\ Rows \subseteq Node
  BY TreesAssumption DEF Rows
<1>2. PICK s : s = Under(Rows, Root, d)
  OBVIOUS
<1>3. PICK t : t = TransformationTree(Rows)
  OBVIOUS
<1>4. /\ s \in Seq(Node)
      /\ \A y \in Node : y \in Range(s) <=> \E k \in Nat : k < d /\ Climbs(Rows, y, k, Root)
  BY <1>1, <1>2, UnderRight
<1>5. \A y : y \in Range(t) <=> y \in Rows /\ \E k \in 0..MaxNode : Climbs(Rows, y, k, Root)
  BY <1>3, TreeOfFound
<1>6. \A y \in Range(s) : y \in Node
  BY <1>4, RangeOf
<1>7. ASSUME NEW y \in Range(s) PROVE y \in Range(t) /\ Depth(y) <= d
  <2>1. y \in Node
    BY <1>6
  <2>2. PICK k \in Nat : k < d /\ Climbs(Rows, y, k, Root)
    BY <1>4, <2>1
  <2>3. k < MaxNode /\ Depth(y) = k + 1
    BY <2>1, <2>2, DepthOfRow
  <2>4. k \in 0..MaxNode /\ Depth(y) <= d
    BY <1>1, <2>2, <2>3
  <2>5. y \in Rows
    <3>1. y \in Place /\ 0 \in 0..k
      BY <2>1 DEF Place
    <3> QED
      BY <2>2, <3>1, Walks DEF Climbs
  <2> QED
    BY <1>5, <2>2, <2>4, <2>5
<1>8. ASSUME NEW y \in Range(t), Depth(y) <= d PROVE y \in Range(s)
  <2>1. PICK k \in 0..MaxNode : y \in Rows /\ Climbs(Rows, y, k, Root)
    BY <1>5
  <2>2. y \in Node /\ k \in Nat
    BY <1>1, <2>1
  <2>3. Depth(y) = k + 1
    BY <2>1, <2>2, DepthOfRow
  <2>4. k < d
    BY <1>8, <2>2, <2>3
  <2> QED
    BY <1>4, <2>1, <2>2, <2>4
<1> QED
  BY <1>2, <1>3, <1>7, <1>8

\* However rows were created, moved and deleted, the only rows that no tree of the whole
\* table shows are those with a row on a cycle above them; the departments and the
\* dictionary's data, read by nested includes, show the same rows to three and four levels.
THEOREM OnlyCyclesAreHidden == TreeSpec => []OnlyCyclesHide
<1>1. TreeTypeOK /\ NoOrphans => OnlyCyclesHide
  <2> SUFFICES ASSUME TreeTypeOK, NoOrphans PROVE OnlyCyclesHide
    OBVIOUS
  <2>1. Rows \ Range(TransformationTree(Rows)) =
          {n \in Rows : \E m \in Ancestors(n) : OnCycle(m)}
    <3>1. PICK t : t = TransformationTree(Rows)
      OBVIOUS
    <3>2. \A y : y \in Range(t) <=> y \in Rows /\ \E k \in 0..MaxNode : Climbs(Rows, y, k, Root)
      BY <3>1, TreeOfFound
    <3>3. \A n \in Rows : n \in Range(t) <=> ~ \E m \in Ancestors(n) : OnCycle(m)
      BY <3>2, HangsOrCycles
    <3> QED
      BY <3>1, <3>3
  <2>2. Range(DeptTree) = {n \in Range(TransformationTree(Rows)) : Depth(n) <= 3}
    BY NestedShows DEF DeptTree
  <2>3. Range(DictDataTree) = {n \in Range(TransformationTree(Rows)) : Depth(n) <= 4}
    BY NestedShows DEF DictDataTree
  <2> QED
    BY <2>1, <2>2, <2>3 DEF OnlyCyclesHide
<1> QED
  BY <1>1, TreeTypes, KeysHold, PTL

---------------------------------------------------------------------------
(* Flattened sequences *)

\* f is the first k of seqs one after the other, the g-th of them behind off[g-1].
Spread(seqs, k, f, off) ==
  /\ off \in [0..k -> Nat] /\ off[0] = 0 /\ Len(f) = off[k]
  /\ \A g, h \in 0..k : g <= h => off[g] <= off[h]
  /\ \A g \in 1..k : off[g] = off[g-1] + Len(seqs[g])
  /\ \A g \in 1..k : \A p \in 1..Len(seqs[g]) : f[off[g-1]+p] = seqs[g][p]
  /\ \A i \in 1..Len(f) : \E g \in 1..k : \E p \in 1..Len(seqs[g]) : i = off[g-1] + p

\* Two sequences, one after the other.
Follows(u, s, t) ==
  /\ Len(s) \in Nat /\ Len(t) \in Nat /\ Len(u) = Len(s) + Len(t)
  /\ \A i \in 1..Len(s) : u[i] = s[i]
  /\ \A i \in 1..Len(t) : u[Len(s)+i] = t[i]

\* A joined sequence is the first followed by the second.
LEMMA Appended ==
  ASSUME NEW S, NEW s \in Seq(S), NEW t \in Seq(S)
  PROVE  s \o t \in Seq(S) /\ Follows(s \o t, s, t)
BY DEF Follows

\* What comes behind the first k is spread, too.
LEMMA SpreadMore ==
  ASSUME NEW seqs, NEW k \in Nat, NEW f, NEW off, Spread(seqs, k, f, off),
         \A g \in 1..(k+1) : Len(seqs[g]) \in Nat, NEW h, Follows(h, f, seqs[k+1])
  PROVE  \E o : Spread(seqs, k + 1, h, o)
<1>1. PICK m, n \in Nat : /\ m = Len(f) /\ n = Len(seqs[k+1]) /\ Len(h) = m + n
                          /\ \A i \in 1..m : h[i] = f[i]
                          /\ \A i \in 1..n : h[m+i] = seqs[k+1][i]
  BY DEF Follows
<1>0. k + 1 \in 1..(k+1) /\ \A g \in 1..k : g \in 1..(k+1) /\ g # k + 1
  OBVIOUS
<1>3. PICK o : o = [j \in 0..(k+1) |-> IF j = k + 1 THEN m + n ELSE off[j]]
  OBVIOUS
<1>2. /\ off \in [0..k -> Nat] /\ off[0] = 0 /\ m = off[k]
      /\ \A g, l \in 0..k : g <= l => off[g] <= off[l]
      /\ \A g \in 1..k : off[g] = off[g-1] + Len(seqs[g])
      /\ \A g \in 1..k : \A p \in 1..Len(seqs[g]) : f[off[g-1]+p] = seqs[g][p]
      /\ \A i \in 1..m : \E g \in 1..k : \E p \in 1..Len(seqs[g]) : i = off[g-1] + p
  BY <1>1 DEF Spread
<1>4. o \in [0..(k+1) -> Nat]
  <2>1. \A j \in 0..(k+1) : j # k + 1 => j \in 0..k
    OBVIOUS
  <2> QED
    BY <1>2, <1>3, <2>1
<1>5. o[k+1] = m + n /\ \A j \in 0..k : o[j] = off[j]
  <2>1. k + 1 \in 0..(k+1) /\ \A j \in 0..k : j \in 0..(k+1) /\ j # k + 1
    OBVIOUS
  <2> QED
    BY <1>2, <1>3, <2>1
<1>6. \A g \in 1..k : g \in 0..k /\ g - 1 \in 0..k
  OBVIOUS
<1>7. \A g \in 1..(k+1) : g \in 1..k \/ g = k + 1
  OBVIOUS
<1>8. (k + 1) - 1 = k /\ 0 \in 0..k /\ k \in 0..k
  OBVIOUS
<1>9. o[0] = 0 /\ Len(h) = o[k+1] /\ o[k] = m
  BY <1>1, <1>2, <1>5, <1>8
<1>10. \A g \in 1..(k+1) : o[g] = o[g-1] + Len(seqs[g])
  <2>1. \A g \in 1..k : o[g] = o[g-1] + Len(seqs[g])
    BY <1>2, <1>5, <1>6
  <2>2. o[k+1] = o[(k+1)-1] + Len(seqs[k+1])
    BY <1>1, <1>5, <1>8, <1>9
  <2> QED
    BY <1>7, <2>1, <2>2
<1>11. ASSUME NEW g \in 1..k, NEW p \in 1..Len(seqs[g]) PROVE h[o[g-1]+p] = seqs[g][p]
  <2>1. off[g-1] + p \in 1..m
    <3>1. off[g-1] \in Nat /\ off[g] = off[g-1] + Len(seqs[g])
      BY <1>2, <1>6
    <3>2. off[g] <= off[k] /\ off[k] = m
      BY <1>2, <1>6, <1>8
    <3>3. Len(seqs[g]) \in Nat
      BY <1>0
    <3>4. p \in Nat /\ 1 <= p /\ p <= Len(seqs[g])
      BY <3>3
    <3>5. off[g-1] + p <= off[g] /\ 1 <= off[g-1] + p
      BY <3>1, <3>3, <3>4
    <3> QED
      BY <3>1, <3>2, <3>4, <3>5
  <2>2. h[off[g-1]+p] = f[off[g-1]+p]
    BY <1>1, <2>1
  <2> QED
    BY <1>2, <1>5, <1>6, <2>2
<1>12. \A g \in 1..(k+1) : \A p \in 1..Len(seqs[g]) : h[o[g-1]+p] = seqs[g][p]
  <2>1. ASSUME NEW p \in 1..n PROVE h[o[(k+1)-1]+p] = seqs[k+1][p]
    <3>1. o[(k+1)-1] = m
      BY <1>8, <1>9
    <3>2. \A i \in 1..n : h[m+i] = seqs[k+1][i]
      BY <1>1
    <3> QED
      BY <3>1, <3>2, Zenon
  <2>2. \A g \in 1..k : \A p \in 1..Len(seqs[g]) : h[o[g-1]+p] = seqs[g][p]
    BY <1>11
  <2>3. 1..Len(seqs[k+1]) = 1..n
    BY <1>1
  <2> QED
    BY <1>7, <2>1, <2>2, <2>3
<1>13. \A g, l \in 0..(k+1) : g <= l => o[g] <= o[l]
  <2>1. \A g \in 0..(k+1) : g \in 0..k \/ g = k + 1
    OBVIOUS
  <2>2. \A g \in 0..k : o[g] <= o[k] /\ o[g] \in Nat
    BY <1>2, <1>5, <1>8
  <2>3. o[k] <= o[k+1] /\ o[k+1] \in Nat
    BY <1>5, <1>9
  <2>4. \A g \in 0..k : o[g] <= o[k+1]
    BY <2>2, <2>3, <1>8
  <2>5. \A g, l \in 0..k : g <= l => o[g] <= o[l]
    BY <1>2, <1>5
  <2>6. \A l \in 0..k : ~(k + 1 <= l)
    OBVIOUS
  <2> QED
    BY <2>1, <2>3, <2>4, <2>5, <2>6
<1>14. ASSUME NEW i \in 1..Len(h)
       PROVE  \E g \in 1..(k+1) : \E p \in 1..Len(seqs[g]) : i = o[g-1] + p
  <2>1. CASE i \in 1..m
    <3>1. PICK g \in 1..k : \E p \in 1..Len(seqs[g]) : i = off[g-1] + p
      BY <1>2, <2>1
    <3> QED
      BY <1>0, <1>5, <1>6, <3>1
  <2>2. CASE i \notin 1..m
    <3>1. i \in Nat /\ i - m \in 1..n /\ i = m + (i - m)
      BY <1>1, <2>2
    <3>2. PICK p \in 1..n : i = m + p
      BY <3>1
    <3>3. p \in 1..Len(seqs[k+1]) /\ i = o[(k+1)-1] + p
      BY <1>1, <1>8, <1>9, <3>2
    <3> QED
      BY <1>0, <3>3
  <2> QED
    BY <2>1, <2>2
<1>15. Spread(seqs, k + 1, h, o)
  BY <1>4, <1>9, <1>10, <1>12, <1>13, <1>14 DEF Spread
<1> QED
  BY <1>15

\* One more sequence is spread behind those before it.
LEMMA SpreadStep ==
  ASSUME NEW S, NEW seqs, NEW k \in Nat, NEW f \in Seq(S), \E off : Spread(seqs, k, f, off),
         \A g \in 1..(k+1) : seqs[g] \in Seq(S)
  PROVE  f \o seqs[k+1] \in Seq(S) /\ \E o : Spread(seqs, k + 1, f \o seqs[k+1], o)
<1>1. seqs[k+1] \in Seq(S) /\ \A g \in 1..(k+1) : Len(seqs[g]) \in Nat
  OBVIOUS
<1>2. f \o seqs[k+1] \in Seq(S) /\ Follows(f \o seqs[k+1], f, seqs[k+1])
  BY <1>1, Appended
<1>3. PICK h : h = f \o seqs[k+1]
  OBVIOUS
<1>4. PICK off : Spread(seqs, k, f, off)
  OBVIOUS
<1>5. Follows(h, f, seqs[k+1])
  BY <1>2, <1>3
<1>6. \E o : Spread(seqs, k + 1, h, o)
  BY <1>1, <1>4, <1>5, SpreadMore
<1> QED
  BY <1>2, <1>3, <1>6

\* The sequences that FlattenSeq builds, step by step.
Joins(seqs, n, f) == [i \in 1..n |-> IF i = 1 THEN seqs[i] ELSE f[i-1] \o seqs[i]]
Joining(seqs, n)  == CHOOSE f : f = Joins(seqs, n, f)

\* The joined sequences, unfolded once.
LEMMA JoiningStep ==
  ASSUME NEW S, NEW n \in Nat, NEW seqs, \A g \in 1..n : seqs[g] \in Seq(S)
  PROVE  \A k \in 1..n : Joining(seqs, n)[k] = IF k = 1 THEN seqs[k] ELSE Joining(seqs, n)[k-1] \o seqs[k]
<1> DEFINE T == Seq(S)
           F == [k \in 1..n |-> [v \in T |-> v \o seqs[k]]]
<1>1. <<>> \in T /\ \A v \in T : \A k \in 1..n : v \o seqs[k] \in T
  OBVIOUS
<1>2. F \in [1..n -> [T -> T]]
  BY <1>1
<1>3. PICK g \in [0..n -> T] : Unfolds(g, n, <<>>, F)
  <2> HIDE DEF F, T
  <2> QED
    BY <1>1, <1>2, Recursion
<1>4. g[0] = <<>> /\ \A k \in 1..n : g[k] = g[k-1] \o seqs[k]
  <2>1. \A k \in 1..n : k - 1 \in 0..n
    OBVIOUS
  <2>2. \A k \in 1..n : g[k-1] \in T
    BY <2>1
  <2> HIDE DEF T
  <2> QED
    BY <1>3, <2>2 DEF Unfolds
<1>5. PICK h : h = [k \in 1..n |-> g[k]]
  OBVIOUS
<1>6. ASSUME NEW k \in 1..n PROVE h[k] = IF k = 1 THEN seqs[k] ELSE h[k-1] \o seqs[k]
  <2>1. CASE k = 1
    <3>1. h[k] = <<>> \o seqs[k]
      <4>1. g[k] = g[k-1] \o seqs[k] /\ h[k] = g[k]
        BY <1>4, <1>5
      <4>2. g[k-1] = <<>>
        BY <1>4, <2>1
      <4> QED
        BY <4>1, <4>2
    <3>2. <<>> \o seqs[k] = seqs[k]
      OBVIOUS
    <3> QED
      BY <2>1, <3>1, <3>2
  <2>2. CASE k # 1
    <3>1. k - 1 \in 1..n
      BY <2>2
    <3>2. h[k] = g[k] /\ h[k-1] = g[k-1]
      BY <1>5, <3>1
    <3> QED
      BY <1>4, <2>2, <3>2
  <2> QED
    BY <2>1, <2>2
<1>7. h = Joins(seqs, n, h)
  BY <1>5, <1>6 DEF Joins
<1>8. Joining(seqs, n) = Joins(seqs, n, Joining(seqs, n))
  BY <1>7 DEF Joining
<1> QED
  BY <1>8 DEF Joins

\* FlattenSeq spreads its sequences.
LEMMA Flattened ==
  ASSUME NEW S, NEW seqs \in Seq(Seq(S))
  PROVE  FlattenSeq(seqs) \in Seq(S) /\ \E off : Spread(seqs, Len(seqs), FlattenSeq(seqs), off)
<1>1. PICK n \in Nat : n = Len(seqs) /\ \A g \in 1..n : seqs[g] \in Seq(S)
  OBVIOUS
<1> DEFINE J == Joining(seqs, n)
           K == {k \in Nat : k \in 1..n => J[k] \in Seq(S) /\ \E off : Spread(seqs, k, J[k], off)}
<1>2. \A k \in 1..n : J[k] = IF k = 1 THEN seqs[k] ELSE J[k-1] \o seqs[k]
  <2>1. n \in Nat /\ \A g \in 1..n : seqs[g] \in Seq(S)
    BY <1>1
  <2> QED
    BY <2>1, JoiningStep
<1>3. \E off : Spread(seqs, 0, <<>>, off)
  <2>1. PICK off : off = [j \in 0..0 |-> 0]
    OBVIOUS
  <2>2. Spread(seqs, 0, <<>>, off)
    BY <2>1 DEF Spread
  <2> QED
    BY <2>2
<1>4. 0 \in K
  OBVIOUS
<1>5. ASSUME NEW k \in K PROVE k + 1 \in K
  <2> SUFFICES ASSUME k + 1 \in 1..n
               PROVE  J[k+1] \in Seq(S) /\ \E off : Spread(seqs, k + 1, J[k+1], off)
    OBVIOUS
  <2>0. k \in Nat /\ \A g \in 1..(k+1) : seqs[g] \in Seq(S)
    BY <1>1
  <2>1. CASE k = 0
    <3>1. J[k+1] = <<>> \o seqs[k+1]
      <4>1. J[k+1] = seqs[k+1]
        BY <1>2, <2>1
      <4>2. seqs[k+1] \in Seq(S)
        BY <1>1
      <4> QED
        BY <4>1, <4>2
    <3>2. <<>> \in Seq(S) /\ \E off : Spread(seqs, k, <<>>, off)
      BY <1>3, <2>1
    <3>3. <<>> \o seqs[k+1] \in Seq(S) /\ \E o : Spread(seqs, k + 1, <<>> \o seqs[k+1], o)
      BY <2>0, <3>2, SpreadStep
    <3> QED
      BY <3>1, <3>3
  <2>2. CASE k # 0
    <3>1. k \in 1..n /\ k + 1 # 1 /\ (k + 1) - 1 = k
      BY <2>0, <2>2
    <3>2. J[k] \in Seq(S) /\ \E off : Spread(seqs, k, J[k], off)
      BY <3>1
    <3>3. J[k+1] = J[k] \o seqs[k+1]
      <4> HIDE DEF J
      <4> QED
        BY <1>2, <3>1
    <3> HIDE DEF J
    <3>4. J[k] \o seqs[k+1] \in Seq(S) /\ \E o : Spread(seqs, k + 1, J[k] \o seqs[k+1], o)
      BY <2>0, <3>2, SpreadStep
    <3> QED
      BY <3>3, <3>4
  <2> QED
    BY <2>1, <2>2
<1>6. n \in K
  <2> HIDE DEF K
  <2>1. K \subseteq Nat
    BY DEF K
  <2> QED
    BY <1>1, <1>4, <1>5, <2>1, Succession
<1>7. CASE n = 0
  <2>1. seqs = <<>>
    <3>1. \A T : \A s \in Seq(T) : Len(s) = 0 => s = <<>>
      OBVIOUS
    <3> QED
      BY <1>1, <1>7, <3>1
  <2>2. FlattenSeq(seqs) = seqs
    BY <1>1, <1>7 DEF FlattenSeq
  <2>3. PICK e : e = <<>> /\ e \in Seq(S) /\ \E off : Spread(seqs, 0, e, off)
    <3>1. <<>> \in Seq(S)
      OBVIOUS
    <3> QED
      BY <1>3, <3>1, Zenon
  <2>4. FlattenSeq(seqs) = e /\ Len(seqs) = 0
    BY <1>1, <1>7, <2>1, <2>2, <2>3
  <2> QED
    BY <2>3, <2>4
<1>8. CASE n # 0
  <2>1. FlattenSeq(seqs) = J[n]
    BY <1>1, <1>8 DEF FlattenSeq, Joining, Joins
  <2>2. n \in 1..n
    BY <1>8
  <2>3. J[n] \in Seq(S) /\ \E off : Spread(seqs, n, J[n], off)
    BY <1>6, <2>2
  <2> HIDE DEF J
  <2> QED
    BY <1>1, <2>1, <2>3
<1> QED
  BY <1>7, <1>8

---------------------------------------------------------------------------
(* The keys of the groups *)

Text(s) == s \in Seq(Range(s))

\* k is s and t with a bar between them.
Barred(k, s, t) ==
  /\ Len(s) \in Nat /\ Len(t) \in Nat /\ Len(k) = Len(s) + 1 + Len(t)
  /\ \A i \in 1..Len(s) : k[i] = s[i]
  /\ k[Len(s)+1] = "|"
  /\ \A j \in 1..Len(t) : k[Len(s)+1+j] = t[j]

\* A key is its tag, a bar and its time.
LEMMA BarredText ==
  ASSUME NEW s, NEW t, Text(s), Text(t)
  PROVE  Barred(s \o Bar \o t, s, t)
<1>2. PICK A : A = Range(s) \cup Range(t) \cup {"|"}
  OBVIOUS
<1>3. s \in Seq(A) /\ t \in Seq(A) /\ <<"|">> \in Seq(A)
  <2>1. s \in Seq(Range(s)) /\ t \in Seq(Range(t))
    BY DEF Text
  <2>2. \A B, C : B \subseteq C => \A u \in Seq(B) : u \in Seq(C)
    OBVIOUS
  <2>3. <<"|">> \in Seq(A)
    BY <1>2
  <2> QED
    BY <1>2, <2>1, <2>2, <2>3
<1>4. PICK b : b = s \o <<"|">> /\ b \in Seq(A) /\ Follows(b, s, <<"|">>)
  BY <1>3, Appended
<1>5. PICK k : k = b \o t /\ k \in Seq(A) /\ Follows(k, b, t)
  BY <1>3, <1>4, Appended
<1>6. s \o Bar \o t = k
  BY <1>4, <1>5 DEF Bar
<1>7. PICK m, n \in Nat : m = Len(s) /\ n = Len(t)
  BY <1>3
<1>8. Len(b) = m + 1 /\ (\A i \in 1..m : b[i] = s[i]) /\ b[m+1] = "|"
  <2>1. Len(<<"|">>) = 1 /\ <<"|">>[1] = "|" /\ 1 \in 1..1
    OBVIOUS
  <2> QED
    BY <1>4, <1>7, <2>1 DEF Follows
<1>9. /\ Len(k) = m + 1 + n
      /\ \A i \in 1..(m+1) : k[i] = b[i]
      /\ \A j \in 1..n : k[m+1+j] = t[j]
  BY <1>5, <1>7, <1>8 DEF Follows
<1>10. m + 1 \in 1..(m+1) /\ \A i \in 1..m : i \in 1..(m+1)
  BY <1>7
<1>11. k[m+1] = "|" /\ \A i \in 1..m : k[i] = s[i]
  BY <1>8, <1>9, <1>10
<1>12. Barred(k, s, t)
  BY <1>7, <1>9, <1>11 DEF Barred
<1> QED
  BY <1>6, <1>12

\* The bar of one reading comes no later than that of another, when no date has a bar.
LEMMA BarsMeet ==
  ASSUME NEW k, NEW s, NEW t, NEW u, NEW v, Barred(k, s, t), Barred(k, u, v),
         \A j \in 1..Len(t) : t[j] # "|"
  PROVE  Len(u) <= Len(s)
<1>1. PICK l, m, n \in Nat : l = Len(u) /\ m = Len(s) /\ n = Len(t)
  BY DEF Barred
<1>2. k[l+1] = "|" /\ l + 1 <= m + 1 + n /\ \A j \in 1..n : k[m+1+j] = t[j] /\ t[j] # "|"
  BY <1>1 DEF Barred
<1>3. ASSUME m < l PROVE FALSE
  <2>1. l - m \in 1..n /\ m + 1 + (l - m) = l + 1
    BY <1>1, <1>2, <1>3
  <2>2. PICK j \in 1..n : m + 1 + j = l + 1
    BY <2>1
  <2>3. k[m+1+j] = t[j] /\ t[j] # "|"
    BY <1>2
  <2> QED
    BY <1>2, <2>2, <2>3
<1> QED
  BY <1>1, <1>3

\* A sequence as a function on its places.
LEMMA TextFunction ==
  ASSUME NEW s, Text(s)
  PROVE  Len(s) \in Nat /\ s = [i \in 1..Len(s) |-> s[i]] /\ Range(s) = {s[i] : i \in 1..Len(s)}
<1>1. \A T : \A w \in Seq(T) : Len(w) \in Nat /\ w = [i \in 1..Len(w) |-> w[i]] /\ DOMAIN w = 1..Len(w)
  OBVIOUS
<1>2. Len(s) \in Nat /\ s = [i \in 1..Len(s) |-> s[i]] /\ DOMAIN s = 1..Len(s)
  BY <1>1 DEF Text
<1> QED
  BY <1>2 DEF Range

\* Texts that are equal in all places are equal.
LEMMA SameText ==
  ASSUME NEW s, NEW t, Text(s), Text(t), Len(s) = Len(t), \A i \in 1..Len(s) : s[i] = t[i]
  PROVE  s = t
BY TextFunction

\* Keys are the same only for the same tag and time, as the last bar stands before the time.
LEMMA BarredTells ==
  ASSUME NEW k, NEW s, NEW t, NEW u, NEW v, Text(s), Text(t), Text(u), Text(v),
         "|" \notin Range(t), "|" \notin Range(v), Barred(k, s, t), Barred(k, u, v)
  PROVE  s = u /\ t = v
<1>1. (\A j \in 1..Len(t) : t[j] # "|") /\ (\A j \in 1..Len(v) : v[j] # "|")
  BY TextFunction
<1>2. Len(u) <= Len(s) /\ Len(s) <= Len(u)
  BY <1>1, BarsMeet
<1>3. PICK m, n \in Nat : m = Len(s) /\ n = Len(t) /\ m = Len(u) /\ n = Len(v)
  BY <1>2 DEF Barred
<1>4. (\A i \in 1..m : k[i] = s[i]) /\ (\A j \in 1..n : k[m+1+j] = t[j])
  BY <1>3 DEF Barred
<1>5. (\A i \in 1..m : k[i] = u[i]) /\ (\A j \in 1..n : k[m+1+j] = v[j])
  BY <1>3 DEF Barred
<1>6. \A i \in 1..m : s[i] = u[i]
  BY <1>4, <1>5
<1>7. ASSUME NEW j \in 1..n PROVE t[j] = v[j]
  BY <1>4, <1>5
<1> QED
  BY <1>3, <1>6, <1>7, SameText

\* Two problems with one key have one tag and one date.
LEMMA KeysTell ==
  ASSUME NEW r, NEW s, Text(r.tag), Text(r.time), Text(s.tag), Text(s.time),
         "|" \notin Range(r.time), "|" \notin Range(s.time), Key(r) = Key(s)
  PROVE  r.tag = s.tag /\ r.time = s.time
<1>1. Barred(Key(r), r.tag, r.time) /\ Barred(Key(r), s.tag, s.time)
  BY BarredText DEF Key
<1> QED
  BY <1>1, BarredTells

---------------------------------------------------------------------------
(* The groups of the alarm table *)

\* Group g has a p-th problem, and with its tag and date that problem is an entry.
Cell(gs, g, p)  == g \in 1..Len(gs) /\ p \in 1..Len(gs[g].problems)
Entry(gs, g, p) == [tag |-> gs[g].tag, time |-> gs[g].time, name |-> gs[g].problems[p]]

\* The first k problems fill the cells, one cell each.
Filed(gs, data, k, gr, pr) ==
  /\ \A i \in 1..k : Cell(gs, gr[i], pr[i]) /\ Entry(gs, gr[i], pr[i]) = data[i]
  /\ \A i, j \in 1..k : gr[i] = gr[j] /\ pr[i] = pr[j] => i = j
  /\ \A g, p : Cell(gs, g, p) => \E i \in 1..k : gr[i] = g /\ pr[i] = p

\* hs has one cell more than gs, for r.
Grown(gs, hs, r, g0, q) ==
  /\ Cell(hs, g0, q) /\ ~Cell(gs, g0, q) /\ Entry(hs, g0, q) = r
  /\ \A g, p : Cell(gs, g, p) => Cell(hs, g, p) /\ Entry(hs, g, p) = Entry(gs, g, p)
  /\ \A g, p : Cell(hs, g, p) => Cell(gs, g, p) \/ (g = g0 /\ p = q)

\* A pushed problem is filed behind those that were filed.
LEMMA FiledStep ==
  ASSUME NEW gs, NEW hs, NEW data, NEW k \in Nat, NEW g0, NEW q, Grown(gs, hs, data[k+1], g0, q),
         NEW gr, NEW pr, Filed(gs, data, k, gr, pr)
  PROVE  \E gn, pn : Filed(hs, data, k + 1, gn, pn)
<1>1. PICK gn : gn = [i \in 1..(k+1) |-> IF i = k + 1 THEN g0 ELSE gr[i]]
  OBVIOUS
<1>2. PICK pn : pn = [i \in 1..(k+1) |-> IF i = k + 1 THEN q ELSE pr[i]]
  OBVIOUS
<1>3. /\ \A i \in 1..k : i \in 1..(k+1) /\ i # k + 1
      /\ \A i \in 1..(k+1) : i \in 1..k \/ i = k + 1
      /\ k + 1 \in 1..(k+1)
  OBVIOUS
<1>4. PICK n : n = k + 1
  OBVIOUS
<1>5. gn[n] = g0 /\ pn[n] = q /\ \A i \in 1..k : gn[i] = gr[i] /\ pn[i] = pr[i]
  BY <1>1, <1>2, <1>3, <1>4
<1>6. ASSUME NEW i \in 1..n PROVE Cell(hs, gn[i], pn[i]) /\ Entry(hs, gn[i], pn[i]) = data[i]
  <2>1. CASE i = n
    BY <1>4, <1>5, <2>1, Zenon DEF Grown
  <2>2. CASE i # n
    <3>1. i \in 1..k
      BY <1>3, <1>4, <2>2
    <3>2. Cell(gs, gr[i], pr[i]) /\ Entry(gs, gr[i], pr[i]) = data[i]
      BY <3>1, Zenon DEF Filed
    <3>3. Cell(hs, gr[i], pr[i]) /\ Entry(hs, gr[i], pr[i]) = Entry(gs, gr[i], pr[i])
      BY <3>2, Zenon DEF Grown
    <3> QED
      BY <1>5, <3>1, <3>2, <3>3, Zenon
  <2> QED
    BY <2>1, <2>2
<1>7. \A i \in 1..k : ~(gn[i] = g0 /\ pn[i] = q)
  <2>1. \A i \in 1..k : Cell(gs, gr[i], pr[i])
    BY DEF Filed
  <2>2. ~Cell(gs, g0, q)
    BY DEF Grown
  <2> QED
    BY <1>5, <2>1, <2>2, Zenon
<1>8. ASSUME NEW i \in 1..n, NEW j \in 1..n, gn[i] = gn[j] /\ pn[i] = pn[j] PROVE i = j
  <2>1. \A a, b \in 1..k : gr[a] = gr[b] /\ pr[a] = pr[b] => a = b
    BY DEF Filed
  <2>2. (i \in 1..k \/ i = n) /\ (j \in 1..k \/ j = n)
    BY <1>3, <1>4
  <2> QED
    BY <1>5, <1>7, <1>8, <2>1, <2>2, Zenon
<1>9. ASSUME NEW g, NEW p, Cell(hs, g, p) PROVE \E i \in 1..n : gn[i] = g /\ pn[i] = p
  <2>1. CASE Cell(gs, g, p)
    <3>1. PICK i \in 1..k : gr[i] = g /\ pr[i] = p
      BY <2>1 DEF Filed
    <3> QED
      BY <1>3, <1>4, <1>5, <3>1
  <2>2. CASE g = g0 /\ p = q
    BY <1>3, <1>4, <1>5, <2>2
  <2> QED
    BY <1>9, <2>1, <2>2 DEF Grown
<1>10. Filed(hs, data, n, gn, pn)
  BY <1>6, <1>8, <1>9 DEF Filed
<1> QED
  BY <1>4, <1>10

\* The groups that lists like data can have.
Tags(data)   == {r.tag : r \in Range(data)}
Dates(data)  == {r.time : r \in Range(data)}
Names(data)  == {r.name : r \in Range(data)}
Groups(data) == [tag : Tags(data), time : Dates(data), problems : Seq(Names(data))]

\* The groups have different keys and a problem each, and hold the first k problems.
Grouped(gs, data, k) ==
  /\ gs \in Seq(Groups(data))
  /\ \A g \in 1..Len(gs) : 1 <= Len(gs[g].problems)
  /\ \A g, h \in 1..Len(gs) : Key(gs[g]) = Key(gs[h]) => g = h
  /\ \E gr, pr : Filed(gs, data, k, gr, pr)

\* A sequence and one that is appended to it.
LEMMA AppendShape ==
  ASSUME NEW S, NEW s \in Seq(S), NEW x \in S
  PROVE  /\ Append(s, x) \in Seq(S) /\ Len(s) \in Nat /\ Len(Append(s, x)) = Len(s) + 1
         /\ Append(s, x)[Len(s)+1] = x
         /\ \A i \in 1..Len(s) : Append(s, x)[i] = s[i]
OBVIOUS

\* A group has a tag, a time and a list of problems.
LEMMA GroupShape ==
  ASSUME NEW data, NEW gs \in Seq(Groups(data)), NEW g \in 1..Len(gs)
  PROVE  /\ Len(gs) \in Nat /\ gs[g] \in Groups(data)
         /\ gs[g] = [tag |-> gs[g].tag, time |-> gs[g].time, problems |-> gs[g].problems]
         /\ gs[g].tag \in Tags(data) /\ gs[g].time \in Dates(data)
         /\ gs[g].problems \in Seq(Names(data)) /\ Len(gs[g].problems) \in Nat
<1>1. Len(gs) \in Nat /\ gs[g] \in Groups(data)
  OBVIOUS
<1>2. PICK x : x = gs[g] /\ x \in Groups(data)
  BY <1>1
<1>3. PICK A, B, C : /\ A = Tags(data) /\ B = Dates(data)
                     /\ C = Names(data)
  OBVIOUS
<1>4. x \in [tag : A, time : B, problems : Seq(C)]
  BY <1>2, <1>3 DEF Groups
<1>5. /\ x = [tag |-> x.tag, time |-> x.time, problems |-> x.problems]
      /\ x.tag \in A /\ x.time \in B /\ x.problems \in Seq(C) /\ Len(x.problems) \in Nat
  BY <1>4
<1> QED
  BY <1>1, <1>2, <1>3, <1>5

\* The tag and the date of a group are texts, the date without a bar.
LEMMA GroupTexts ==
  ASSUME NEW data, AlarmList(data), NEW gs \in Seq(Groups(data)), NEW g \in 1..Len(gs)
  PROVE  Text(gs[g].tag) /\ Text(gs[g].time) /\ "|" \notin Range(gs[g].time)
<1>0. gs[g].tag \in Tags(data) /\ gs[g].time \in Dates(data)
  BY GroupShape, Zenon
<1>1. PICK r \in Range(data) : r.tag = gs[g].tag
  BY <1>0 DEF Tags
<1>2. PICK s \in Range(data) : s.time = gs[g].time
  BY <1>0 DEF Dates
<1>3. Text(r.tag) /\ Text(s.time) /\ "|" \notin Range(s.time)
  BY DEF AlarmList, Text
<1> QED
  BY <1>1, <1>2, <1>3, Zenon

\* A problem in the group of its key.
LEMMA JoinsGroup ==
  ASSUME NEW data, AlarmList(data), NEW gs \in Seq(Groups(data)), NEW r \in Range(data),
         NEW g0 \in 1..Len(gs), Key(gs[g0]) = Key(r),
         \A g, h \in 1..Len(gs) : Key(gs[g]) = Key(gs[h]) => g = h
  PROVE  LET hs == Pushed(gs, r)
             q  == Len(gs[g0].problems) + 1
         IN  /\ hs \in Seq(Groups(data)) /\ Len(hs) = Len(gs) /\ Grown(gs, hs, r, g0, q)
             /\ \A g \in 1..Len(gs) : Key(hs[g]) = Key(gs[g])
             /\ \A g \in 1..Len(gs) : Len(gs[g].problems) <= Len(hs[g].problems)
<1>1. PICK hs : hs = Pushed(gs, r)
  OBVIOUS
<1>2. PICK n \in Nat : n = Len(gs) /\ DOMAIN gs = 1..n
  OBVIOUS
<1>3. PICK x : x = gs[g0]
  OBVIOUS
<1>4. PICK ps, m : ps = x.problems /\ m = Len(ps)
  OBVIOUS
<1>5. /\ x \in Groups(data) /\ x = [tag |-> x.tag, time |-> x.time, problems |-> ps]
      /\ ps \in Seq(Names(data)) /\ m \in Nat
  <2>1. /\ gs[g0] \in Groups(data)
        /\ gs[g0] = [tag |-> gs[g0].tag, time |-> gs[g0].time, problems |-> gs[g0].problems]
        /\ gs[g0].problems \in Seq(Names(data)) /\ Len(gs[g0].problems) \in Nat
    BY GroupShape
  <2> QED
    BY <1>3, <1>4, <2>1
<1>6. PICK y : y = [tag |-> x.tag, time |-> x.time, problems |-> Append(ps, r.name)]
  OBVIOUS
<1>7. y = [x EXCEPT !.problems = Append(@, r.name)]
  <2>1. PICK e : e = r.name
    OBVIOUS
  <2>2. [x EXCEPT !.problems = Append(@, e)] = [x EXCEPT !.problems = Append(ps, e)]
    BY <1>4
  <2>3. \E A, B, C : x \in [tag : A, time : B, problems : C]
    BY <1>5, Zenon DEF Groups
  <2>4. [x EXCEPT !.problems = Append(ps, e)] = [tag |-> x.tag, time |-> x.time, problems |-> Append(ps, e)]
    <3>1. PICK z : z = Append(ps, e)
      OBVIOUS
    <3>2. [x EXCEPT !.problems = z] = [tag |-> x.tag, time |-> x.time, problems |-> z]
      BY <2>3
    <3> QED
      BY <3>1, <3>2
  <2> QED
    BY <1>6, <2>1, <2>2, <2>4
<1>8. hs = [g \in 1..n |-> IF g = g0 THEN y ELSE gs[g]]
  <2>1. hs = [g \in 1..n |-> IF Key(gs[g]) = Key(r)
                            THEN [gs[g] EXCEPT !.problems = Append(@, r.name)] ELSE gs[g]]
    BY <1>1, <1>2 DEF Pushed
  <2>2. \A g \in 1..n : Key(gs[g]) = Key(r) <=> g = g0
    BY <1>2, Zenon
  <2>3. ASSUME NEW g \in 1..n
        PROVE  (IF Key(gs[g]) = Key(r) THEN [gs[g] EXCEPT !.problems = Append(@, r.name)] ELSE gs[g])
               = IF g = g0 THEN y ELSE gs[g]
    BY <1>3, <1>7, <2>2
  <2> QED
    BY <2>1, <2>3
<1>9. /\ Append(ps, r.name) \in Seq(Names(data))
      /\ Len(Append(ps, r.name)) = m + 1 /\ Append(ps, r.name)[m+1] = r.name
      /\ \A p \in 1..m : Append(ps, r.name)[p] = ps[p]
  <2>1. r.name \in Names(data)
    BY DEF Names
  <2> QED
    BY <1>4, <1>5, <2>1, AppendShape
<1>10. y \in Groups(data)
  BY <1>5, <1>6, <1>9 DEF Groups
<1>11. hs \in Seq(Groups(data)) /\ Len(hs) = n
  <2>1. \A g \in 1..n : hs[g] \in Groups(data)
    BY <1>2, <1>8, <1>10
  <2> QED
    BY <1>8, <2>1
<1>12. hs[g0] = y /\ \A g \in 1..n : g # g0 => hs[g] = gs[g]
  BY <1>2, <1>8
<1>13. y.tag = x.tag /\ y.time = x.time /\ y.problems = Append(ps, r.name) /\ Len(y.problems) = m + 1
  BY <1>6, <1>9
<1>14. ASSUME NEW g \in 1..n PROVE hs[g].tag = gs[g].tag /\ hs[g].time = gs[g].time
  BY <1>3, <1>12, <1>13
<1>15. Entry(hs, g0, m + 1) = r
  <2>1. x.tag = r.tag /\ x.time = r.time
    <3>1. Text(x.tag) /\ Text(x.time) /\ "|" \notin Range(x.time)
      BY <1>3, GroupTexts, Zenon
    <3>2. Text(r.tag) /\ Text(r.time) /\ "|" \notin Range(r.time)
      BY DEF AlarmList, Text
    <3> QED
      BY <1>3, <3>1, <3>2, KeysTell, Zenon
  <2>2. r = [tag |-> r.tag, time |-> r.time, name |-> r.name]
    BY DEF AlarmList
  <2>3. Entry(hs, g0, m + 1) = [tag |-> y.tag, time |-> y.time, name |-> y.problems[m+1]]
    BY <1>12, Zenon DEF Entry
  <2> QED
    BY <1>9, <1>13, <2>1, <2>2, <2>3
<1>16. \A p : p \in 1..(m+1) <=> p \in 1..m \/ p = m + 1
  BY <1>5
<1>17. Cell(hs, g0, m + 1) /\ ~Cell(gs, g0, m + 1)
  <2>1. m + 1 \in 1..(m+1) /\ m + 1 \notin 1..m
    BY <1>5
  <2> QED
    BY <1>2, <1>3, <1>4, <1>11, <1>12, <1>13, <2>1 DEF Cell
<1>18. ASSUME NEW g, NEW p, Cell(gs, g, p) PROVE Cell(hs, g, p) /\ Entry(hs, g, p) = Entry(gs, g, p)
  <2>1. g \in 1..n /\ p \in 1..Len(gs[g].problems)
    BY <1>2, <1>18 DEF Cell
  <2>2. CASE g = g0
    <3>1. p \in 1..m /\ p \in 1..Len(hs[g].problems)
      BY <1>3, <1>4, <1>12, <1>13, <1>16, <2>1, <2>2
    <3>2. hs[g].problems[p] = gs[g].problems[p]
      BY <1>3, <1>4, <1>9, <1>12, <1>13, <2>2, <3>1
    <3> QED
      BY <1>11, <1>14, <2>1, <3>1, <3>2 DEF Cell, Entry
  <2>3. CASE g # g0
    <3>1. hs[g] = gs[g]
      BY <1>12, <2>1, <2>3
    <3> QED
      BY <1>11, <2>1, <3>1 DEF Cell, Entry
  <2> QED
    BY <2>2, <2>3
<1>19. ASSUME NEW g, NEW p, Cell(hs, g, p) PROVE Cell(gs, g, p) \/ (g = g0 /\ p = m + 1)
  <2>1. g \in 1..n /\ p \in 1..Len(hs[g].problems)
    BY <1>11, <1>19 DEF Cell
  <2>2. CASE g = g0
    <3>1. p \in 1..(m+1)
      BY <1>12, <1>13, <2>1, <2>2
    <3> QED
      BY <1>2, <1>3, <1>4, <1>16, <2>1, <2>2, <3>1 DEF Cell
  <2>3. CASE g # g0
    BY <1>2, <1>12, <2>1, <2>3 DEF Cell
  <2> QED
    BY <2>2, <2>3
<1>20. Grown(gs, hs, r, g0, m + 1)
  BY <1>15, <1>17, <1>18, <1>19 DEF Grown
<1>21. ASSUME NEW g \in 1..n PROVE Key(hs[g]) = Key(gs[g])
  BY <1>14 DEF Key
<1>22. ASSUME NEW g \in 1..n PROVE Len(gs[g].problems) <= Len(hs[g].problems)
  <2>1. CASE g = g0
    BY <1>3, <1>4, <1>5, <1>12, <1>13, <2>1
  <2>2. CASE g # g0
    <3>1. hs[g] = gs[g] /\ Len(gs[g].problems) \in Nat
      BY <1>2, <1>12, <2>2, GroupShape
    <3> QED
      BY <3>1
  <2> QED
    BY <2>1, <2>2
<1> QED
  <2>1. /\ hs \in Seq(Groups(data)) /\ Len(hs) = Len(gs) /\ Grown(gs, hs, r, g0, Len(gs[g0].problems) + 1)
        /\ \A g \in 1..Len(gs) : Key(hs[g]) = Key(gs[g])
        /\ \A g \in 1..Len(gs) : Len(gs[g].problems) <= Len(hs[g].problems)
    BY <1>2, <1>3, <1>4, <1>11, <1>20, <1>21, <1>22, Zenon
  <2> QED
    BY <1>1, <2>1

\* A problem that starts a group.
LEMMA StartsGroup ==
  ASSUME NEW data, AlarmList(data), NEW gs \in Seq(Groups(data)), NEW r \in Range(data),
         \A g \in 1..Len(gs) : Key(gs[g]) # Key(r)
  PROVE  LET hs == Pushed(gs, r)
             n  == Len(gs)
         IN  /\ hs \in Seq(Groups(data)) /\ Len(hs) = n + 1 /\ Grown(gs, hs, r, n + 1, 1)
             /\ \A g \in 1..n : hs[g] = gs[g]
             /\ Key(hs[n+1]) = Key(r) /\ Len(hs[n+1].problems) = 1
<1>1. PICK hs : hs = Pushed(gs, r)
  OBVIOUS
<1>2. PICK n \in Nat : n = Len(gs) /\ DOMAIN gs = 1..n
  OBVIOUS
<1>3. PICK y : y = [tag |-> r.tag, time |-> r.time, problems |-> <<r.name>>]
  OBVIOUS
<1>4. hs = Append(gs, y)
  BY <1>1, <1>2, <1>3 DEF Pushed
<1>5. y \in Groups(data)
  <2>1. r.tag \in Tags(data) /\ r.time \in Dates(data) /\ r.name \in Names(data)
    BY DEF Tags, Dates, Names
  <2>2. \A C : \A c \in C : <<c>> \in Seq(C)
    OBVIOUS
  <2>3. <<r.name>> \in Seq(Names(data))
    BY <2>1, <2>2
  <2> QED
    BY <1>3, <2>1, <2>3 DEF Groups
<1>6. PICK m : m = n + 1 /\ m \in Nat /\ m \notin 1..n /\ \A g : g \in 1..m <=> g \in 1..n \/ g = m
  BY <1>2
<1>7. /\ hs \in Seq(Groups(data)) /\ Len(hs) = m /\ hs[m] = y
      /\ \A g \in 1..n : hs[g] = gs[g]
  <2>1. /\ Append(gs, y) \in Seq(Groups(data)) /\ Len(Append(gs, y)) = Len(gs) + 1
        /\ Append(gs, y)[Len(gs)+1] = y
        /\ \A i \in 1..Len(gs) : Append(gs, y)[i] = gs[i]
    BY <1>5, AppendShape
  <2> QED
    BY <1>2, <1>4, <1>6, <2>1, Zenon
<1>8. y.tag = r.tag /\ y.time = r.time /\ y.problems = <<r.name>>
  BY <1>3
<1>9. Len(y.problems) = 1 /\ y.problems[1] = r.name /\ \A p : p \in 1..1 <=> p = 1
  BY <1>8
<1>10. Entry(hs, m, 1) = r
  <2>1. r = [tag |-> r.tag, time |-> r.time, name |-> r.name]
    BY DEF AlarmList
  <2>2. Entry(hs, m, 1) = [tag |-> y.tag, time |-> y.time, name |-> y.problems[1]]
    BY <1>7, Zenon DEF Entry
  <2> QED
    BY <1>8, <1>9, <2>1, <2>2
<1>11. \A g, p : Cell(hs, g, p) <=> Cell(gs, g, p) \/ (g = m /\ p = 1)
  <2>1. ASSUME NEW g, NEW p, g \in 1..n PROVE Cell(hs, g, p) <=> Cell(gs, g, p)
    BY <1>2, <1>6, <1>7, <2>1 DEF Cell
  <2>2. \A p : Cell(hs, m, p) <=> p = 1
    BY <1>6, <1>7, <1>9 DEF Cell
  <2>3. \A g, p : Cell(gs, g, p) => g \in 1..n
    BY <1>2 DEF Cell
  <2>4. \A g, p : Cell(hs, g, p) => g \in 1..n \/ g = m
    BY <1>6, <1>7 DEF Cell
  <2> QED
    BY <1>6, <2>1, <2>2, <2>3, <2>4
<1>12. ~Cell(gs, m, 1)
  BY <1>2, <1>6 DEF Cell
<1>13. \A g, p : Cell(gs, g, p) => Entry(hs, g, p) = Entry(gs, g, p)
  BY <1>2, <1>7, Zenon DEF Cell, Entry
<1>14. Grown(gs, hs, r, m, 1)
  BY <1>10, <1>11, <1>12, <1>13, Zenon DEF Grown
<1>15. Key(hs[m]) = Key(r)
  BY <1>7, <1>8, Zenon DEF Key
<1> QED
  <2>1. /\ hs \in Seq(Groups(data)) /\ Len(hs) = n + 1 /\ Grown(gs, hs, r, n + 1, 1)
        /\ \A g \in 1..n : hs[g] = gs[g]
        /\ Key(hs[n+1]) = Key(r) /\ Len(hs[n+1].problems) = 1
    BY <1>6, <1>7, <1>9, <1>14, <1>15, Zenon
  <2> QED
    BY <1>1, <1>2, <2>1, Zenon

\* One more problem keeps the grouping.
LEMMA PushedStep ==
  ASSUME NEW data, AlarmList(data), NEW k \in Nat, k + 1 \in 1..Len(data),
         NEW gs, Grouped(gs, data, k)
  PROVE  Grouped(Pushed(gs, data[k+1]), data, k + 1)
<1>1. PICK r : r = data[k+1]
  OBVIOUS
<1>2. r \in Range(data)
  <2>1. data \in Seq(Range(data))
    BY DEF AlarmList
  <2>2. DOMAIN data = 1..Len(data)
    BY <2>1
  <2> QED
    BY <1>1, <2>2 DEF Range
<1>3. PICK hs : hs = Pushed(gs, r)
  OBVIOUS
<1>4. PICK gr, pr : Filed(gs, data, k, gr, pr)
  BY DEF Grouped
<1>5. /\ gs \in Seq(Groups(data))
      /\ \A g \in 1..Len(gs) : 1 <= Len(gs[g].problems)
      /\ \A g, h \in 1..Len(gs) : Key(gs[g]) = Key(gs[h]) => g = h
  BY DEF Grouped
<1>6. PICK n \in Nat : n = Len(gs)
  BY <1>5
<1>7. CASE \E g \in 1..n : Key(gs[g]) = Key(r)
  <2>1. PICK g0 \in 1..n : Key(gs[g0]) = Key(r)
    BY <1>7
  <2>2. PICK q : q = Len(gs[g0].problems) + 1
    OBVIOUS
  <2>3. /\ hs \in Seq(Groups(data)) /\ Len(hs) = n /\ Grown(gs, hs, r, g0, q)
        /\ \A g \in 1..n : Key(hs[g]) = Key(gs[g])
        /\ \A g \in 1..n : Len(gs[g].problems) <= Len(hs[g].problems)
    BY <1>2, <1>3, <1>5, <1>6, <2>1, <2>2, JoinsGroup, SMTT(30)
  <2>4. \E gn, pn : Filed(hs, data, k + 1, gn, pn)
    BY <1>1, <1>4, <2>3, FiledStep
  <2>5. \A g \in 1..n : 1 <= Len(hs[g].problems)
    <3>1. \A g \in 1..n : Len(gs[g].problems) \in Nat /\ Len(hs[g].problems) \in Nat
      BY <1>5, <1>6, <2>3, GroupShape
    <3> QED
      BY <1>5, <1>6, <2>3, <3>1
  <2>6. \A g, h \in 1..n : Key(hs[g]) = Key(hs[h]) => g = h
    BY <1>5, <1>6, <2>3, Zenon
  <2> QED
    BY <1>1, <1>3, <2>3, <2>4, <2>5, <2>6, Zenon DEF Grouped
<1>8. CASE ~\E g \in 1..n : Key(gs[g]) = Key(r)
  <2>1. /\ hs \in Seq(Groups(data)) /\ Len(hs) = n + 1 /\ Grown(gs, hs, r, n + 1, 1)
        /\ \A g \in 1..n : hs[g] = gs[g]
        /\ Key(hs[n+1]) = Key(r) /\ Len(hs[n+1].problems) = 1
    BY <1>2, <1>3, <1>5, <1>6, <1>8, StartsGroup
  <2>2. \E gn, pn : Filed(hs, data, k + 1, gn, pn)
    BY <1>1, <1>4, <2>1, FiledStep
  <2>3. PICK m : m = n + 1 /\ \A g \in 1..m : g \in 1..n \/ g = m
    BY <1>6
  <2>4. \A g \in 1..m : 1 <= Len(hs[g].problems)
    <3>1. 1 <= Len(hs[m].problems)
      <4>1. Len(hs[m].problems) = 1
        BY <2>1, <2>3, Zenon
      <4> QED
        BY <4>1
    <3>2. \A g \in 1..n : 1 <= Len(hs[g].problems)
      BY <1>5, <1>6, <2>1
    <3> QED
      BY <2>3, <3>1, <3>2, Zenon
  <2>5. ASSUME NEW g \in 1..m, NEW h \in 1..m, Key(hs[g]) = Key(hs[h]) PROVE g = h
    <3>1. Key(hs[m]) = Key(r) /\ \A f \in 1..n : Key(hs[f]) = Key(gs[f]) /\ Key(gs[f]) # Key(r)
      BY <1>8, <2>1, <2>3, Zenon
    <3>2. \A e, f \in 1..n : Key(gs[e]) = Key(gs[f]) => e = f
      BY <1>5, <1>6
    <3> QED
      BY <2>3, <2>5, <3>1, <3>2, Zenon
  <2>6. Len(hs) = m
    BY <2>1, <2>3
  <2> QED
    BY <1>1, <1>3, <2>1, <2>2, <2>4, <2>5, <2>6, Zenon DEF Grouped
<1> QED
  BY <1>7, <1>8

\* The lists of groups that GroupAlarmRows builds, problem by problem.
Pushes(data, n, f) == [k \in 0..n |-> IF k = 0 THEN <<>> ELSE Pushed(f[k-1], data[k])]
Pushing(data, n)   == CHOOSE f : f = Pushes(data, n, f)

\* Lists of groups with different keys.
KeyLists(data) == {gs \in Seq(Groups(data)) : \A g, h \in 1..Len(gs) : Key(gs[g]) = Key(gs[h]) => g = h}

\* A pushed problem leaves a list of groups.
LEMMA PushedKeys ==
  ASSUME NEW data, AlarmList(data), NEW gs \in KeyLists(data), NEW r \in Range(data)
  PROVE  Pushed(gs, r) \in KeyLists(data)
<1>1. PICK hs : hs = Pushed(gs, r)
  OBVIOUS
<1>2. /\ gs \in Seq(Groups(data))
      /\ \A g, h \in 1..Len(gs) : Key(gs[g]) = Key(gs[h]) => g = h
  BY DEF KeyLists
<1>3. PICK n \in Nat : n = Len(gs)
  BY <1>2
<1>4. CASE \E g \in 1..n : Key(gs[g]) = Key(r)
  <2>1. PICK g0 \in 1..n : Key(gs[g0]) = Key(r)
    BY <1>4
  <2>2. hs \in Seq(Groups(data)) /\ Len(hs) = n /\ \A g \in 1..n : Key(hs[g]) = Key(gs[g])
    BY <1>1, <1>2, <1>3, <2>1, JoinsGroup
  <2>3. \A g, h \in 1..n : Key(hs[g]) = Key(hs[h]) => g = h
    BY <1>2, <1>3, <2>2, Zenon
  <2> QED
    BY <1>1, <2>2, <2>3, Zenon DEF KeyLists
<1>5. CASE ~\E g \in 1..n : Key(gs[g]) = Key(r)
  <2>1. /\ hs \in Seq(Groups(data)) /\ Len(hs) = n + 1
        /\ \A g \in 1..n : hs[g] = gs[g]
        /\ Key(hs[n+1]) = Key(r)
    BY <1>1, <1>2, <1>3, <1>5, StartsGroup
  <2>2. PICK m : m = n + 1 /\ \A g \in 1..m : g \in 1..n \/ g = m
    BY <1>3
  <2>3. ASSUME NEW g \in 1..m, NEW h \in 1..m, Key(hs[g]) = Key(hs[h]) PROVE g = h
    <3>1. Key(hs[m]) = Key(r) /\ \A f \in 1..n : Key(hs[f]) = Key(gs[f]) /\ Key(gs[f]) # Key(r)
      BY <1>5, <2>1, <2>2, Zenon
    <3>2. \A e, f \in 1..n : Key(gs[e]) = Key(gs[f]) => e = f
      BY <1>2, <1>3
    <3> QED
      BY <2>2, <2>3, <3>1, <3>2, Zenon
  <2>4. Len(hs) = m
    BY <2>1, <2>2
  <2> QED
    BY <1>1, <2>1, <2>3, <2>4, Zenon DEF KeyLists
<1> QED
  BY <1>4, <1>5

\* The groups of the first problems, unfolded once.
LEMMA PushingStep ==
  ASSUME NEW data, AlarmList(data), NEW n \in Nat, n = Len(data)
  PROVE  Pushing(data, n)[0] = <<>> /\ \A k \in 1..n : Pushing(data, n)[k] = Pushed(Pushing(data, n)[k-1], data[k])
<1> DEFINE S == KeyLists(data)
           F == [k \in 1..n |-> [v \in S |-> Pushed(v, data[k])]]
<1>1. <<>> \in S
  <2>1. <<>> \in Seq(Groups(data)) /\ Len(<<>>) = 0
    OBVIOUS
  <2> QED
    BY <2>1 DEF KeyLists
<1>2. \A k \in 1..n : data[k] \in Range(data)
  <2>1. data \in Seq(Range(data))
    BY DEF AlarmList
  <2> QED
    BY <2>1
<1>3. F \in [1..n -> [S -> S]]
  <2>1. \A k \in 1..n : \A v \in S : Pushed(v, data[k]) \in S
    BY <1>2, PushedKeys
  <2> HIDE DEF S
  <2> QED
    BY <2>1
<1>4. PICK g \in [0..n -> S] : Unfolds(g, n, <<>>, F)
  <2> HIDE DEF F, S
  <2> QED
    BY <1>1, <1>3, Recursion
<1>5. g[0] = <<>> /\ \A k \in 1..n : g[k] = Pushed(g[k-1], data[k])
  <2>1. \A k \in 1..n : k - 1 \in 0..n
    OBVIOUS
  <2>2. \A k \in 1..n : g[k-1] \in S
    BY <2>1
  <2> HIDE DEF S
  <2> QED
    BY <1>4, <2>2 DEF Unfolds
<1>6. g = Pushes(data, n, g)
  <2>1. \A k \in 0..n : k = 0 \/ k \in 1..n
    OBVIOUS
  <2> HIDE DEF S
  <2> QED
    BY <1>5, <2>1 DEF Pushes
<1>7. Pushing(data, n) = Pushes(data, n, Pushing(data, n))
  BY <1>6 DEF Pushing
<1>8. 0 \in 0..n /\ \A k \in 1..n : k \in 0..n /\ k # 0
  OBVIOUS
<1>9. PICK h : h = Pushing(data, n)
  OBVIOUS
<1>10. h = [k \in 0..n |-> IF k = 0 THEN <<>> ELSE Pushed(h[k-1], data[k])]
  BY <1>7, <1>9 DEF Pushes
<1>11. h[0] = <<>> /\ \A k \in 1..n : h[k] = Pushed(h[k-1], data[k])
  BY <1>8, <1>10
<1> QED
  BY <1>9, <1>11

\* The groups of a list hold its problems.
LEMMA RowsGrouped ==
  ASSUME NEW data, AlarmList(data)
  PROVE  Grouped(GroupAlarmRows(data), data, Len(data))
<1>1. PICK n \in Nat : n = Len(data)
  BY DEF AlarmList
<1> DEFINE P == Pushing(data, n)
           K == {k \in Nat : k <= n => Grouped(P[k], data, k)}
<1>2. P[0] = <<>> /\ \A k \in 1..n : P[k] = Pushed(P[k-1], data[k])
  BY <1>1, PushingStep
<1>3. 0 \in K
  <2>1. <<>> \in Seq(Groups(data)) /\ Len(<<>>) = 0
    OBVIOUS
  <2>2. PICK f : f = <<>>
    OBVIOUS
  <2>3. Filed(<<>>, data, 0, f, f)
    BY <2>1 DEF Filed, Cell
  <2>4. Grouped(<<>>, data, 0)
    BY <2>1, <2>3 DEF Grouped
  <2> QED
    BY <1>2, <2>4
<1>4. ASSUME NEW k \in K PROVE k + 1 \in K
  <2> SUFFICES ASSUME k + 1 <= n PROVE Grouped(P[k+1], data, k + 1)
    OBVIOUS
  <2>1. k \in Nat /\ k + 1 \in 1..n /\ (k + 1) - 1 = k /\ k <= n
    BY <1>1
  <2>2. Grouped(P[k], data, k)
    BY <2>1
  <2> HIDE DEF P
  <2>3. P[k+1] = Pushed(P[k], data[k+1])
    BY <1>2, <2>1
  <2>4. Grouped(Pushed(P[k], data[k+1]), data, k + 1)
    BY <1>1, <2>1, <2>2, PushedStep
  <2> QED
    BY <2>3, <2>4
<1>5. n \in K
  <2> HIDE DEF K
  <2>1. K \subseteq Nat
    BY DEF K
  <2> QED
    BY <1>1, <1>3, <1>4, <2>1, Succession
<1>6. GroupAlarmRows(data) = P[n]
  BY <1>1 DEF GroupAlarmRows, Pushing, Pushes
<1> QED
  <2>1. Grouped(P[n], data, n)
    BY <1>1, <1>5
  <2> HIDE DEF P
  <2> QED
    BY <1>1, <1>6, <2>1

\* Sets whose members correspond to each other are as large.
LEMMA SameCount ==
  ASSUME NEW A, NEW B, IsFiniteSet(A), NEW f \in [A -> B],
         \A x, y \in A : f[x] = f[y] => x = y, \A z \in B : \E x \in A : f[x] = z
  PROVE  IsFiniteSet(B) /\ Cardinality(B) = Cardinality(A)
<1>1. f \in Injection(A, B) /\ f \in Surjection(A, B)
  BY DEF Injection, IsInjective, Surjection
<1>2. ExistsBijection(A, B)
  BY <1>1 DEF ExistsBijection, Bijection
<1> QED
  BY <1>2, FS_Bijection

---------------------------------------------------------------------------
(* The rows of the alarm table *)

\* The row of the p-th problem of group g.
RowOf(gs, g, p) ==
  LET first == p = 1 IN
  [restart |-> first,
   number  |-> IF first THEN g ELSE Blank,
   tag     |-> IF first THEN gs[g].tag ELSE Blank,
   time    |-> IF first THEN gs[g].time ELSE Blank,
   problem |-> gs[g].problems[p]]

\* What stands in the row of a problem.
LEMMA RowFields ==
  ASSUME NEW gs, NEW g, NEW p
  PROVE  /\ RowOf(gs, g, p).restart <=> p = 1
         /\ RowOf(gs, g, p).problem = gs[g].problems[p]
         /\ p = 1 => /\ RowOf(gs, g, p).number = g
                     /\ RowOf(gs, g, p).tag = gs[g].tag
                     /\ RowOf(gs, g, p).time = gs[g].time
BY DEF RowOf

\* The rows of the groups gs, one group after the other, are a table.
RowsOf(gs) == [g \in DOMAIN gs |-> [p \in DOMAIN gs[g].problems |-> RowOf(gs, g, p)]]

\* The row of a cell.
At(off, g, p) == off[g-1] + p

Laid(gs, table, off) ==
  /\ Len(gs) \in Nat /\ \A g \in 1..Len(gs) : Len(gs[g].problems) \in Nat
  /\ Len(table) \in Nat /\ DOMAIN table = 1..Len(table)
  /\ off \in [0..Len(gs) -> Nat] /\ off[0] = 0 /\ Len(table) = off[Len(gs)]
  /\ \A g, h \in 0..Len(gs) : g <= h => off[g] <= off[h]
  /\ \A g \in 1..Len(gs) : off[g] = off[g-1] + Len(gs[g].problems)
  /\ \A g, p : Cell(gs, g, p) => table[At(off, g, p)] = RowOf(gs, g, p)
  /\ \A i \in 1..Len(table) : \E g, p : Cell(gs, g, p) /\ i = At(off, g, p)

\* The rows of a group stand one under the other, behind those of the groups before it.
LEMMA TableLaid ==
  ASSUME NEW data, NEW gs \in Seq(Groups(data)), NEW table, table = FlattenSeq(RowsOf(gs))
  PROVE  \E off : Laid(gs, table, off)
<1>1. PICK n \in Nat : n = Len(gs) /\ DOMAIN gs = 1..n
  <2>1. \A T : \A s \in Seq(T) : Len(s) \in Nat /\ DOMAIN s = 1..Len(s)
    OBVIOUS
  <2> QED
    BY <2>1
<1>2. \A g \in 1..n : /\ Len(gs[g].problems) \in Nat
                      /\ DOMAIN gs[g].problems = 1..Len(gs[g].problems)
  <2>1. ASSUME NEW g \in 1..n
        PROVE  Len(gs[g].problems) \in Nat /\ DOMAIN gs[g].problems = 1..Len(gs[g].problems)
    <3>1. gs[g].problems \in Seq(Names(data))
      BY <1>1, GroupShape
    <3> QED
      BY <3>1
  <2> QED
    BY <2>1
<1>3. PICK S : \A g, p \in Nat : RowOf(gs, g, p) \in S
  <2> DEFINE T == {RowOf(gs, x[1], x[2]) : x \in Nat \X Nat}
  <2>1. ASSUME NEW g \in Nat, NEW p \in Nat PROVE RowOf(gs, g, p) \in T
    <3>1. <<g, p>> \in Nat \X Nat /\ <<g, p>>[1] = g /\ <<g, p>>[2] = p
      OBVIOUS
    <3> QED
      BY <3>1
  <2> QED
    BY <2>1
<1>4. PICK seqs : seqs = RowsOf(gs)
  OBVIOUS
<1>5. seqs = [g \in 1..n |-> [p \in 1..Len(gs[g].problems) |-> RowOf(gs, g, p)]]
  <2>1. \A g \in 1..n : [p \in DOMAIN gs[g].problems |-> RowOf(gs, g, p)]
                      = [p \in 1..Len(gs[g].problems) |-> RowOf(gs, g, p)]
    BY <1>2
  <2> QED
    BY <1>1, <1>4, <2>1 DEF RowsOf
<1>6. ASSUME NEW g \in 1..n
      PROVE  /\ seqs[g] \in Seq(S) /\ Len(seqs[g]) = Len(gs[g].problems)
             /\ \A p \in 1..Len(gs[g].problems) : seqs[g][p] = RowOf(gs, g, p)
  <2>1. PICK m \in Nat : m = Len(gs[g].problems)
    BY <1>2
  <2>2. seqs[g] = [p \in 1..m |-> RowOf(gs, g, p)]
    BY <1>5, <2>1
  <2>3. \A p \in 1..m : RowOf(gs, g, p) \in S
    BY <1>1, <1>3
  <2>4. seqs[g] \in Seq(S) /\ Len(seqs[g]) = m /\ \A p \in 1..m : seqs[g][p] = RowOf(gs, g, p)
    BY <2>2, <2>3
  <2> QED
    BY <2>1, <2>4
<1>7. seqs \in Seq(Seq(S)) /\ Len(seqs) = n
  <2>1. \A g \in 1..n : seqs[g] \in Seq(S)
    BY <1>6
  <2>2. seqs = [g \in 1..n |-> seqs[g]]
    BY <1>5
  <2> QED
    BY <2>1, <2>2
<1>8. table \in Seq(S) /\ \E off : Spread(seqs, n, table, off)
  BY <1>4, <1>7, Flattened
<1>9. PICK off : Spread(seqs, n, table, off)
  BY <1>8
<1>10. Len(table) \in Nat /\ DOMAIN table = 1..Len(table)
  BY <1>8
<1>11. /\ off \in [0..n -> Nat] /\ off[0] = 0 /\ Len(table) = off[n]
       /\ \A g, h \in 0..n : g <= h => off[g] <= off[h]
       /\ \A g \in 1..n : off[g] = off[g-1] + Len(seqs[g])
       /\ \A g \in 1..n : \A p \in 1..Len(seqs[g]) : table[off[g-1]+p] = seqs[g][p]
       /\ \A i \in 1..Len(table) : \E g \in 1..n : \E p \in 1..Len(seqs[g]) : i = off[g-1] + p
  BY <1>9 DEF Spread
<1>12. \A g \in 1..n : off[g] = off[g-1] + Len(gs[g].problems)
  BY <1>6, <1>11
<1>13. ASSUME NEW g, NEW p, Cell(gs, g, p) PROVE table[At(off, g, p)] = RowOf(gs, g, p)
  <2>1. g \in 1..n /\ p \in 1..Len(gs[g].problems)
    BY <1>1, <1>13 DEF Cell
  <2>2. p \in 1..Len(seqs[g]) /\ seqs[g][p] = RowOf(gs, g, p)
    BY <1>6, <2>1
  <2>3. table[off[g-1]+p] = seqs[g][p]
    BY <1>11, <2>1, <2>2, Zenon
  <2> QED
    BY <2>2, <2>3 DEF At
<1>14. ASSUME NEW i \in 1..Len(table) PROVE \E g, p : Cell(gs, g, p) /\ i = At(off, g, p)
  <2>1. PICK g \in 1..n : \E p \in 1..Len(seqs[g]) : i = off[g-1] + p
    BY <1>11
  <2>2. PICK p \in 1..Len(gs[g].problems) : i = off[g-1] + p
    BY <1>6, <2>1
  <2> QED
    BY <1>1, <2>2 DEF Cell, At
<1>15. Laid(gs, table, off)
  BY <1>1, <1>2, <1>10, <1>11, <1>12, <1>13, <1>14, Zenon DEF Laid
<1> QED
  BY <1>15

\* Where the rows of a group are.
LEMMA CellAt ==
  ASSUME NEW gs, NEW table, NEW off, Laid(gs, table, off), NEW g, NEW p, Cell(gs, g, p)
  PROVE  /\ g \in 1..Len(gs) /\ g \in Nat /\ p \in Nat /\ 1 <= p /\ Cell(gs, g, 1)
         /\ off[g-1] \in Nat /\ off[g] \in Nat /\ off[g-1] + p <= off[g]
         /\ At(off, g, p) = off[g-1] + p /\ At(off, g, 1) = off[g-1] + 1
         /\ At(off, g, p) \in 1..Len(table) /\ table[At(off, g, p)] = RowOf(gs, g, p)
<1>1. PICK n, m, t \in Nat : n = Len(gs) /\ m = Len(gs[g].problems) /\ t = Len(table)
  BY DEF Laid, Cell
<1>2. g \in 1..n /\ p \in 1..m
  BY <1>1 DEF Cell
<1>3. g \in Nat /\ p \in Nat /\ 1 <= p /\ p <= m /\ g - 1 \in 0..n /\ g \in 0..n /\ n \in 0..n /\ g <= n
      /\ 1 \in 1..m
  BY <1>1, <1>2
<1>4. Cell(gs, g, 1)
  BY <1>1, <1>2, <1>3 DEF Cell
<1>5. off \in [0..n -> Nat] /\ t = off[n] /\ off[g] <= off[n] /\ off[g] = off[g-1] + m
  BY <1>1, <1>2, <1>3 DEF Laid
<1>6. off[g-1] \in Nat /\ off[g] \in Nat
  BY <1>3, <1>5
<1>7. PICK a, b \in Nat : a = off[g-1] /\ b = off[g]
  BY <1>6
<1>8. a + p <= b /\ a + p \in 1..t
  BY <1>1, <1>3, <1>5, <1>7, SMTT(30)
<1>9. table[At(off, g, p)] = RowOf(gs, g, p)
  BY DEF Laid
<1> QED
  BY <1>1, <1>2, <1>3, <1>4, <1>6, <1>7, <1>8, <1>9 DEF At

\* The groups follow one another.
LEMMA CellOrder ==
  ASSUME NEW gs, NEW table, NEW off, Laid(gs, table, off),
         NEW g, NEW p, NEW h, NEW q, Cell(gs, g, p), Cell(gs, h, q), g < h
  PROVE  At(off, g, p) < At(off, h, q)
<1>1. /\ g \in 1..Len(gs) /\ h \in 1..Len(gs) /\ Len(gs) \in Nat
      /\ off[g] \in Nat /\ At(off, g, p) <= off[g] /\ At(off, g, p) \in Nat
      /\ off[h-1] \in Nat /\ off[h-1] < At(off, h, q) /\ At(off, h, q) \in Nat
  <2>1. /\ g \in 1..Len(gs) /\ off[g] \in Nat /\ off[g-1] \in Nat /\ off[g-1] + p <= off[g] /\ p \in Nat
        /\ At(off, g, p) = off[g-1] + p
    BY CellAt
  <2>2. /\ h \in 1..Len(gs) /\ off[h-1] \in Nat /\ q \in Nat /\ 1 <= q
        /\ At(off, h, q) = off[h-1] + q
    BY CellAt
  <2>3. Len(gs) \in Nat
    BY DEF Laid
  <2> QED
    BY <2>1, <2>2, <2>3, SMTT(30)
<1>2. off[g] <= off[h-1]
  <2>1. g \in 0..Len(gs) /\ h - 1 \in 0..Len(gs) /\ g <= h - 1
    BY <1>1
  <2> QED
    BY <2>1 DEF Laid
<1> QED
  BY <1>1, <1>2

\* Every row is of one cell.
LEMMA CellOnce ==
  ASSUME NEW gs, NEW table, NEW off, Laid(gs, table, off),
         NEW g, NEW p, NEW h, NEW q, Cell(gs, g, p), Cell(gs, h, q), At(off, g, p) = At(off, h, q)
  PROVE  g = h /\ p = q
<1>1. /\ g \in Nat /\ h \in Nat /\ p \in Nat /\ q \in Nat /\ off[g-1] \in Nat /\ off[h-1] \in Nat
      /\ At(off, g, p) = off[g-1] + p /\ At(off, h, q) = off[h-1] + q
  <2>1. g \in Nat /\ p \in Nat /\ off[g-1] \in Nat /\ At(off, g, p) = off[g-1] + p
    BY CellAt
  <2>2. h \in Nat /\ q \in Nat /\ off[h-1] \in Nat /\ At(off, h, q) = off[h-1] + q
    BY CellAt
  <2> QED
    BY <2>1, <2>2
<1>2. ~(g < h)
  <2> SUFFICES ASSUME g < h PROVE FALSE
    OBVIOUS
  <2>1. At(off, g, p) < At(off, h, q)
    BY CellOrder
  <2> QED
    BY <1>1, <2>1
<1>3. ~(h < g)
  <2> SUFFICES ASSUME h < g PROVE FALSE
    OBVIOUS
  <2>1. At(off, h, q) < At(off, g, p)
    BY CellOrder
  <2> QED
    BY <1>1, <2>1
<1>4. g = h
  BY <1>1, <1>2, <1>3
<1>5. PICK a : a \in Nat /\ a = off[g-1]
  BY <1>1
<1>6. off[h-1] = a
  BY <1>4, <1>5, Zenon
<1>7. a + p = a + q
  BY <1>1, <1>5, <1>6, Zenon
<1> QED
  BY <1>1, <1>4, <1>5, <1>7

\* The merged cells of row i show row j.
Shows(table, i, j) == j \in 1..i /\ table[j].restart /\ \A k \in (j + 1)..i : ~table[k].restart

\* The merged cells show one row.
LEMMA ShowsOnce ==
  ASSUME NEW table, NEW i \in Nat, NEW j, Shows(table, i, j)
  PROVE  Merged(table, i) = j
<1> DEFINE P(k) == table[k].restart /\ \A l \in (k + 1)..i : ~table[l].restart
<1>1. Shows(table, i, Merged(table, i))
  <2>1. Merged(table, i) = CHOOSE k \in 1..i : P(k)
    BY DEF Merged
  <2>2. \A k : Shows(table, i, k) <=> k \in 1..i /\ P(k)
    BY DEF Shows
  <2> HIDE DEF P
  <2>3. j \in 1..i /\ P(j)
    BY <2>2
  <2>4. Merged(table, i) \in 1..i /\ P(Merged(table, i))
    BY <2>1, <2>3
  <2> QED
    BY <2>2, <2>4
<1>2. ASSUME NEW k, Shows(table, i, k) PROVE k = j
  <2>1. j \in 1..i /\ k \in 1..i /\ table[j].restart /\ table[k].restart
    BY <1>2 DEF Shows
  <2>2. k \notin (j+1)..i /\ j \notin (k+1)..i
    BY <1>2, <2>1 DEF Shows
  <2> QED
    BY <2>1, <2>2
<1> QED
  BY <1>1, <1>2

\* Merged cells show the first row of their group.
LEMMA MergedRow ==
  ASSUME NEW gs, NEW table, NEW off, Laid(gs, table, off), NEW g, NEW p, Cell(gs, g, p)
  PROVE  Merged(table, At(off, g, p)) = At(off, g, 1)
<1>1. PICK i, j : i = At(off, g, p) /\ j = At(off, g, 1)
  OBVIOUS
<1>2. /\ g \in Nat /\ p \in Nat /\ 1 <= p /\ Cell(gs, g, 1) /\ off[g-1] \in Nat
      /\ i = off[g-1] + p /\ j = off[g-1] + 1 /\ i \in 1..Len(table)
  BY <1>1, CellAt
<1>3. Len(table) \in Nat
  BY DEF Laid
<1>4. i \in Nat /\ j \in 1..i /\ j \in Nat
  BY <1>2, <1>3
<1>5. table[j].restart
  <2>1. table[j] = RowOf(gs, g, 1)
    BY <1>1, <1>2, CellAt
  <2>2. RowOf(gs, g, 1).restart
    BY RowFields
  <2> QED
    BY <2>1, <2>2
<1>6. ASSUME NEW k \in (j+1)..i PROVE ~table[k].restart
  <2>1. k \in 1..Len(table) /\ k \in Nat /\ j < k /\ k <= i
    BY <1>2, <1>3, <1>4, SMTT(30)
  <2>2. PICK h, q : Cell(gs, h, q) /\ k = At(off, h, q)
    BY <2>1 DEF Laid
  <2>3. h \in Nat /\ q \in Nat /\ k = off[h-1] + q /\ table[k] = RowOf(gs, h, q)
    BY <2>2, CellAt
  <2>4. ~(h < g)
    <3> SUFFICES ASSUME h < g PROVE FALSE
      OBVIOUS
    <3>1. k < j
      BY <1>1, <1>2, <2>2, CellOrder
    <3> QED
      BY <1>4, <2>1, <3>1
  <2>5. ~(g < h)
    <3> SUFFICES ASSUME g < h PROVE FALSE
      OBVIOUS
    <3>1. i < k
      BY <1>1, <2>2, CellOrder
    <3> QED
      BY <1>4, <2>1, <3>1
  <2>6. h = g
    BY <1>2, <2>3, <2>4, <2>5
  <2>7. q # 1
    BY <1>2, <2>1, <2>3, <2>6
  <2>8. ~RowOf(gs, h, q).restart
    BY <2>7, RowFields
  <2> QED
    BY <2>3, <2>8
<1>7. Shows(table, i, j)
  BY <1>4, <1>5, <1>6 DEF Shows
<1>8. Merged(table, i) = j
  BY <1>4, <1>7, ShowsOnce
<1> QED
  BY <1>1, <1>8

\* A reader of a row reads its entry.
LEMMA ReadEntry ==
  ASSUME NEW gs, NEW table, NEW off, Laid(gs, table, off), NEW g, NEW p, Cell(gs, g, p)
  PROVE  AsRead(table)[At(off, g, p)] = Entry(gs, g, p)
<1>1. PICK i, j : i = At(off, g, p) /\ j = At(off, g, 1)
  OBVIOUS
<1>2. i \in 1..Len(table) /\ table[i] = RowOf(gs, g, p) /\ Cell(gs, g, 1)
  BY <1>1, CellAt
<1>3. table[j] = RowOf(gs, g, 1)
  BY <1>1, <1>2, CellAt
<1>4. Merged(table, i) = j
  BY <1>1, MergedRow
<1>5. i \in DOMAIN table
  BY <1>2 DEF Laid
<1>6. AsRead(table)[i] = [tag |-> table[j].tag, time |-> table[j].time, name |-> table[i].problem]
  BY <1>4, <1>5 DEF AsRead
<1>7. /\ table[j].tag = gs[g].tag /\ table[j].time = gs[g].time
      /\ table[i].problem = gs[g].problems[p]
  BY <1>2, <1>3, RowFields
<1> QED
  BY <1>1, <1>6, <1>7 DEF Entry

\* f takes every problem of data to the row of the table that shows it.
Shown(data, table, f) ==
  /\ f \in [1..Len(data) -> 1..Len(table)]
  /\ \A i, j \in 1..Len(data) : f[i] = f[j] => i = j
  /\ \A t \in 1..Len(table) : \E i \in 1..Len(data) : f[i] = t
  /\ \A i \in 1..Len(data) : AsRead(table)[f[i]] = data[i]

\* Each problem that was told has a row of its own that shows it beside its tag and time.
LEMMA ProblemsShown ==
  ASSUME NEW data, NEW gs, NEW table, NEW off, Laid(gs, table, off), Len(data) \in Nat,
         NEW gr, NEW pr, Filed(gs, data, Len(data), gr, pr)
  PROVE  \E f : Shown(data, table, f)
<1>1. PICK n, t \in Nat : n = Len(data) /\ t = Len(table)
  BY DEF Laid
<1>2. PICK f : f = [i \in 1..n |-> At(off, gr[i], pr[i])]
  OBVIOUS
<1>3. \A i \in 1..n : Cell(gs, gr[i], pr[i]) /\ Entry(gs, gr[i], pr[i]) = data[i]
  BY <1>1 DEF Filed
<1>4. \A i \in 1..n : f[i] = At(off, gr[i], pr[i])
  BY <1>2
<1>5. f \in [1..n -> 1..t]
  <2>1. \A i \in 1..n : At(off, gr[i], pr[i]) \in 1..t
    BY <1>1, <1>3, CellAt
  <2> QED
    BY <1>2, <2>1
<1>6. ASSUME NEW i \in 1..n, NEW j \in 1..n, f[i] = f[j] PROVE i = j
  <2>1. At(off, gr[i], pr[i]) = At(off, gr[j], pr[j])
    BY <1>4, <1>6
  <2>2. gr[i] = gr[j] /\ pr[i] = pr[j]
    BY <1>3, <2>1, CellOnce
  <2> QED
    BY <1>1, <2>2 DEF Filed
<1>7. ASSUME NEW k \in 1..t PROVE \E i \in 1..n : f[i] = k
  <2>1. PICK g, p : Cell(gs, g, p) /\ k = At(off, g, p)
    BY <1>1 DEF Laid
  <2>2. PICK i \in 1..n : gr[i] = g /\ pr[i] = p
    BY <1>1, <2>1 DEF Filed
  <2> QED
    BY <1>4, <2>1, <2>2
<1>8. ASSUME NEW i \in 1..n PROVE AsRead(table)[f[i]] = data[i]
  <2>1. AsRead(table)[At(off, gr[i], pr[i])] = Entry(gs, gr[i], pr[i])
    BY <1>3, ReadEntry
  <2> QED
    BY <1>3, <1>4, <2>1
<1>9. Shown(data, table, f)
  BY <1>1, <1>5, <1>6, <1>7, <1>8, Zenon DEF Shown
<1> QED
  BY <1>9

Count(s, x) == Cardinality({i \in DOMAIN s : s[i] = x})

\* Every problem stands in the table as often as it was told.
LEMMA ToldAsOften ==
  ASSUME NEW data, NEW table, NEW f, Shown(data, table, f), Len(data) \in Nat, DOMAIN data = 1..Len(data),
         Len(table) \in Nat, DOMAIN table = 1..Len(table)
  PROVE  /\ Len(AsRead(table)) = Len(data)
         /\ \A row : Count(AsRead(table), row) = Count(data, row)
<1>1. PICK n, t \in Nat : n = Len(data) /\ t = Len(table) /\ DOMAIN data = 1..n /\ DOMAIN table = 1..t
  BY Zenon
<1>2. PICK read : read = AsRead(table)
  OBVIOUS
<1>3. DOMAIN read = 1..t /\ Len(read) = t
  <2>1. PICK F : F = [i \in 1..t |-> read[i]]
    OBVIOUS
  <2>2. read = F
    BY <1>1, <1>2, <2>1 DEF AsRead
  <2>3. DOMAIN F = 1..t /\ Len(F) = t
    BY <2>1
  <2> QED
    BY <2>2, <2>3
<1>4. /\ f \in [1..n -> 1..t]
      /\ \A i, j \in 1..n : f[i] = f[j] => i = j
      /\ \A k \in 1..t : \E i \in 1..n : f[i] = k
      /\ \A i \in 1..n : read[f[i]] = data[i]
  BY <1>1, <1>2 DEF Shown
<1>5. IsFiniteSet(1..n) /\ Cardinality(1..n) = n /\ Cardinality(1..t) = t
  <2>1. ASSUME NEW k \in Nat PROVE IsFiniteSet(1..k) /\ Cardinality(1..k) = k
    <3>1. 1 \in Int /\ k \in Int
      OBVIOUS
    <3>2. IsFiniteSet(1..k) /\ Cardinality(1..k) = IF 1 > k THEN 0 ELSE k-1+1
      BY <3>1, FS_Interval
    <3>3. (IF 1 > k THEN 0 ELSE k-1+1) = k
      OBVIOUS
    <3> QED
      BY <3>2, <3>3
  <2> QED
    BY <1>1, <2>1
<1>6. t = n
  BY <1>4, <1>5, SameCount, Zenon
<1>7. ASSUME NEW row
      PROVE  Cardinality({i \in 1..t : read[i] = row}) = Cardinality({i \in 1..n : data[i] = row})
  <2>1. PICK A, B : A = {i \in 1..n : data[i] = row} /\ B = {i \in 1..t : read[i] = row}
    OBVIOUS
  <2>2. IsFiniteSet(A)
    <3>1. A \subseteq 1..n
      BY <2>1
    <3> QED
      BY <1>5, <3>1, FS_Subset
  <2>3. PICK g : g = [i \in A |-> f[i]]
    OBVIOUS
  <2>4. g \in [A -> B]
    <3>1. \A i \in A : f[i] \in B
      BY <1>4, <2>1
    <3> QED
      BY <2>3, <3>1
  <2>5. \A x, y \in A : g[x] = g[y] => x = y
    BY <1>4, <2>1, <2>3
  <2>6. ASSUME NEW z \in B PROVE \E x \in A : g[x] = z
    <3>1. z \in 1..t /\ read[z] = row
      BY <2>1
    <3>2. PICK i \in 1..n : f[i] = z
      BY <1>4, <3>1
    <3>3. data[i] = row
      BY <1>4, <3>1, <3>2
    <3> QED
      BY <2>1, <2>3, <3>2, <3>3
  <2>7. Cardinality(B) = Cardinality(A)
    BY <2>2, <2>4, <2>5, <2>6, SameCount
  <2> QED
    BY <2>1, <2>7
<1>8. ASSUME NEW row PROVE Count(read, row) = Count(data, row)
  BY <1>1, <1>3, <1>7 DEF Count
<1> QED
  BY <1>1, <1>2, <1>3, <1>6, <1>8

\* The groups start in the rows of their first problems.
LEMMA StartsAt ==
  ASSUME NEW gs, NEW table, NEW off, Laid(gs, table, off),
         \A g \in 1..Len(gs) : Cell(gs, g, 1)
  PROVE  \A i : i \in {j \in DOMAIN table : table[j].restart} <=> \E g \in 1..Len(gs) : i = At(off, g, 1)
<1>1. ASSUME NEW g \in 1..Len(gs)
      PROVE  At(off, g, 1) \in DOMAIN table /\ table[At(off, g, 1)].restart
  <2>1. At(off, g, 1) \in 1..Len(table) /\ table[At(off, g, 1)] = RowOf(gs, g, 1)
    BY CellAt
  <2>2. RowOf(gs, g, 1).restart
    BY RowFields
  <2>3. DOMAIN table = 1..Len(table)
    BY DEF Laid
  <2> QED
    BY <2>1, <2>2, <2>3
<1>2. ASSUME NEW i \in DOMAIN table, table[i].restart PROVE \E g \in 1..Len(gs) : i = At(off, g, 1)
  <2>1. i \in 1..Len(table)
    BY DEF Laid
  <2>2. PICK g, p : Cell(gs, g, p) /\ i = At(off, g, p)
    BY <2>1 DEF Laid
  <2>3. g \in 1..Len(gs) /\ table[i] = RowOf(gs, g, p)
    BY <2>2, CellAt
  <2>4. p = 1
    BY <1>2, <2>3, RowFields
  <2> QED
    BY <2>2, <2>3, <2>4
<1> QED
  BY <1>1, <1>2

\* The g-th group that starts has the number g.
LEMMA NumberedInOrder ==
  ASSUME NEW gs, NEW table, NEW off, Laid(gs, table, off),
         \A g \in 1..Len(gs) : Cell(gs, g, 1),
         NEW starts, \A i : i \in starts <=> \E g \in 1..Len(gs) : i = At(off, g, 1),
         NEW g \in 1..Len(gs)
  PROVE  Cardinality({j \in starts : j <= At(off, g, 1)}) = g
<1>1. PICK n \in Nat : n = Len(gs)
  BY DEF Laid
<1>2. g \in Nat /\ g <= n /\ \A h \in 1..g : h \in 1..n /\ h \in Nat /\ h <= g
  BY <1>1
<1>3. PICK f, B : f = [h \in 1..g |-> At(off, h, 1)] /\ B = {j \in starts : j <= At(off, g, 1)}
  OBVIOUS
<1>4. \A h \in 1..n : At(off, h, 1) \in Nat
  <2>1. \A h \in 1..n : At(off, h, 1) \in 1..Len(table)
    BY <1>1, CellAt
  <2>2. Len(table) \in Nat
    BY DEF Laid
  <2> QED
    BY <2>1, <2>2
<1>5. \A h, k \in 1..n : h < k => At(off, h, 1) < At(off, k, 1)
  BY <1>1, CellOrder
<1>6. \A h \in 1..g : f[h] = At(off, h, 1)
  BY <1>3
<1>7. ASSUME NEW h \in 1..g PROVE At(off, h, 1) \in B
  <2>1. h < g \/ h = g
    BY <1>2
  <2>2. At(off, h, 1) <= At(off, g, 1)
    <3>1. h \in 1..n /\ g \in 1..n
      BY <1>1, <1>2
    <3>2. CASE h = g
      <4>1. At(off, g, 1) \in Nat
        BY <1>4, <3>1
      <4> QED
        BY <3>2, <4>1
    <3>3. CASE h < g
      <4>1. At(off, h, 1) < At(off, g, 1) /\ At(off, h, 1) \in Nat /\ At(off, g, 1) \in Nat
        BY <1>4, <1>5, <3>1, <3>3
      <4> QED
        BY <4>1
    <3> QED
      BY <2>1, <3>2, <3>3
  <2> QED
    BY <1>1, <1>2, <1>3, <2>2
<1>8. f \in [1..g -> B]
  BY <1>3, <1>7
<1>9. ASSUME NEW h \in 1..g, NEW k \in 1..g, f[h] = f[k] PROVE h = k
  <2>1. At(off, h, 1) = At(off, k, 1)
    BY <1>6, <1>9
  <2> QED
    BY <1>1, <1>2, <2>1, CellOnce
<1>10. ASSUME NEW z \in B PROVE \E h \in 1..g : f[h] = z
  <2>1. z \in starts /\ z <= At(off, g, 1)
    BY <1>3
  <2>2. PICK h \in 1..n : z = At(off, h, 1)
    BY <1>1, <2>1
  <2>3. ~(g < h)
    <3> SUFFICES ASSUME g < h PROVE FALSE
      OBVIOUS
    <3>1. At(off, g, 1) < At(off, h, 1) /\ At(off, g, 1) \in Nat /\ At(off, h, 1) \in Nat
      BY <1>1, <1>4, <1>5
    <3> QED
      BY <2>1, <2>2, <3>1
  <2>4. h \in 1..g
    BY <1>2, <2>3
  <2> QED
    BY <1>6, <2>2, <2>4
<1>11. IsFiniteSet(1..g) /\ Cardinality(1..g) = g
  <2>1. IsFiniteSet(1..g) /\ Cardinality(1..g) = IF 1 > g THEN 0 ELSE g-1+1
    BY <1>2, FS_Interval
  <2>2. 1 <= g
    BY <1>1
  <2> QED
    BY <1>2, <2>1, <2>2
<1>12. Cardinality(B) = Cardinality(1..g)
  BY <1>8, <1>9, <1>10, <1>11, SameCount
<1> QED
  BY <1>3, <1>11, <1>12

\* The table of the alarms is faithful to any list of problems.
LEMMA TableFaithful ==
  ASSUME NEW data, AlarmList(data)
  PROVE  Faithful(TableAlarm(data), data)
<1>1. Len(data) \in Nat /\ DOMAIN data = 1..Len(data)
  <2>1. data \in Seq(Range(data))
    BY DEF AlarmList
  <2>2. \A T : \A s \in Seq(T) : Len(s) \in Nat /\ DOMAIN s = 1..Len(s)
    OBVIOUS
  <2> QED
    BY <2>1, <2>2
<1>2. PICK gs, table : gs = GroupAlarmRows(data) /\ table = TableAlarm(data)
  OBVIOUS
<1>3. Grouped(gs, data, Len(data))
  BY <1>2, RowsGrouped
<1>4. /\ gs \in Seq(Groups(data))
      /\ \A g \in 1..Len(gs) : 1 <= Len(gs[g].problems)
      /\ \A g, h \in 1..Len(gs) : Key(gs[g]) = Key(gs[h]) => g = h
  BY <1>3 DEF Grouped
<1>5. PICK gr, pr : Filed(gs, data, Len(data), gr, pr)
  BY <1>3 DEF Grouped
<1>6. table = FlattenSeq(RowsOf(gs))
  BY <1>2 DEF TableAlarm, RowsOf, RowOf
<1>7. PICK off : Laid(gs, table, off)
  BY <1>4, <1>6, TableLaid
<1>8. PICK f : Shown(data, table, f)
  BY <1>1, <1>5, <1>7, ProblemsShown
<1>9. Len(table) \in Nat /\ DOMAIN table = 1..Len(table)
  BY <1>7 DEF Laid
<1>10. /\ Len(AsRead(table)) = Len(data)
       /\ \A row : Count(AsRead(table), row) = Count(data, row)
  BY <1>1, <1>8, <1>9, ToldAsOften
<1>11. \A g \in 1..Len(gs) : Cell(gs, g, 1)
  <2>1. ASSUME NEW g \in 1..Len(gs) PROVE 1 \in 1..Len(gs[g].problems)
    <3>1. Len(gs[g].problems) \in Nat /\ 1 <= Len(gs[g].problems)
      BY <1>4, <1>7 DEF Laid
    <3> QED
      BY <3>1
  <2> QED
    BY <2>1 DEF Cell
<1>12. PICK starts : starts = {i \in DOMAIN table : table[i].restart}
  OBVIOUS
<1>13. \A i : i \in starts <=> \E g \in 1..Len(gs) : i = At(off, g, 1)
  BY <1>7, <1>11, <1>12, StartsAt
<1>14. ASSUME NEW g \in 1..Len(gs)
       PROVE  /\ table[At(off, g, 1)].number = g
              /\ table[At(off, g, 1)].tag = gs[g].tag /\ table[At(off, g, 1)].time = gs[g].time
  <2>1. table[At(off, g, 1)] = RowOf(gs, g, 1)
    BY <1>7, <1>11, CellAt
  <2> QED
    BY <2>1, RowFields
<1>15. ASSUME NEW i \in starts PROVE table[i].number = Cardinality({j \in starts : j <= i})
  <2>1. PICK g \in 1..Len(gs) : i = At(off, g, 1)
    BY <1>13
  <2>2. Cardinality({j \in starts : j <= At(off, g, 1)}) = g
    BY <1>7, <1>11, <1>13, NumberedInOrder
  <2> QED
    BY <1>14, <2>1, <2>2
<1>16. ASSUME NEW i \in starts, NEW j \in starts, table[i].tag = table[j].tag /\ table[i].time = table[j].time
       PROVE  i = j
  <2>1. PICK g \in 1..Len(gs) : i = At(off, g, 1)
    BY <1>13
  <2>2. PICK h \in 1..Len(gs) : j = At(off, h, 1)
    BY <1>13
  <2>3. gs[g].tag = gs[h].tag /\ gs[g].time = gs[h].time
    BY <1>14, <1>16, <2>1, <2>2
  <2>4. Key(gs[g]) = Key(gs[h])
    BY <2>3 DEF Key
  <2>5. g = h
    BY <1>4, <2>4
  <2> QED
    BY <2>1, <2>2, <2>5
<1>17. Faithful(table, data)
  BY <1>10, <1>12, <1>15, <1>16 DEF Faithful, Count
<1> QED
  BY <1>2, <1>17

\* Every report that findReport writes shows the alarms it was told, whatever they are.
THEOREM AlarmsShownAsTold == ReportSpec => []AlarmTableFaithful
<1>1. ReportInit => AlarmTableFaithful
  BY DEF ReportInit, AlarmTableFaithful, IsDocument
<1>2. AlarmTableFaithful /\ [ReportNext]_reportVars => AlarmTableFaithful'
  <2> SUFFICES ASSUME AlarmTableFaithful, [ReportNext]_reportVars, IsDocument'
               PROVE  /\ Faithful(doc'.alarms[1], told'.newProblem)
                      /\ Faithful(doc'.alarms[2], told'.oldProblem)
    BY DEF AlarmTableFaithful
  <2>1. ASSUME NEW detail \in Details, FindReport(detail)
        PROVE  Faithful(doc'.alarms[1], told'.newProblem) /\ Faithful(doc'.alarms[2], told'.oldProblem)
    <3>1. told' = detail /\ doc' = Document(detail, docPrSeq)
      BY <2>1 DEF FindReport, IsDocument
    <3>2. PICK d : d = Document(detail, docPrSeq)
      OBVIOUS
    <3>3. d.alarms = <<TableAlarm(detail.newProblem), TableAlarm(detail.oldProblem)>>
      BY <3>2 DEF Document
    <3>4. AlarmList(detail.newProblem) /\ AlarmList(detail.oldProblem)
      BY ReportAssumption
    <3>5. Faithful(TableAlarm(detail.newProblem), detail.newProblem)
      BY <3>4, TableFaithful
    <3>6. Faithful(TableAlarm(detail.oldProblem), detail.oldProblem)
      BY <3>4, TableFaithful
    <3> QED
      BY <3>1, <3>2, <3>3, <3>5, <3>6
  <2>2. ASSUME NEW detail \in Details, FindProblems(detail) PROVE FALSE
    <3>1. doc' = [problems |-> Problems(detail)]
      BY <2>2 DEF FindProblems
    <3>2. "details" \notin DOMAIN doc'
      BY <3>1
    <3> QED
      BY <3>2 DEF IsDocument
  <2>3. ASSUME ServiceFails \/ RestartServer PROVE FALSE
    BY <2>3 DEF ServiceFails, RestartServer, IsDocument
  <2>4. CASE UNCHANGED reportVars
    BY <2>4 DEF reportVars, AlarmTableFaithful, IsDocument
  <2> QED
    BY <2>1, <2>2, <2>3, <2>4 DEF ReportNext
<1> QED
  BY <1>1, <1>2, PTL DEF ReportSpec

---------------------------------------------------------------------------
(* The greatest and the least of finitely many numbers *)

\* Finitely many numbers have a greatest.
LEMMA Greatest ==
  ASSUME NEW S \in SUBSET Int, IsFiniteSet(S), S # {}
  PROVE  \E x \in S : \A y \in S : y <= x
<1> DEFINE Above(x) == {y \in S : x < y}
           Aboves   == {Above(x) : x \in S}
           Less     == StrictSubsetOrdering(S)
<1>1. IsWellFoundedOn(Less, FiniteSubsetsOf(S))
  BY FS_StrictSubsetOrderingWellFounded
<1>2. Aboves \subseteq FiniteSubsetsOf(S) /\ Aboves # {}
  <2>1. ASSUME NEW x \in S PROVE Above(x) \in FiniteSubsetsOf(S)
    <3>1. Above(x) \subseteq S
      OBVIOUS
    <3>2. IsFiniteSet(Above(x))
      <4> HIDE DEF Above
      <4> QED
        BY <3>1, FS_Subset
    <3> HIDE DEF Above
    <3> QED
      BY <3>1, <3>2 DEF FiniteSubsetsOf
  <2> HIDE DEF Above
  <2> QED
    BY <2>1
<1>3. PICK T \in Aboves : \A U \in Aboves : <<U, T>> \notin Less
  <2> HIDE DEF Less, Aboves
  <2> QED
    BY <1>1, <1>2, WFMin
<1>4. PICK x \in S : T = Above(x)
  OBVIOUS
<1>5. ASSUME NEW y \in S, ~(y <= x) PROVE FALSE
  <2>1. x \in Int /\ y \in Int /\ x < y
    BY <1>5
  <2>2. Above(y) \subseteq Above(x) /\ y \in Above(x) /\ y \notin Above(y)
    <3>1. \A z \in S : y < z => x < z
      BY <2>1
    <3>2. ~(y < y)
      BY <2>1
    <3> QED
      BY <2>1, <3>1, <3>2
  <2>3. Above(y) \in Aboves /\ Above(y) \subseteq S /\ Above(x) \subseteq S
    OBVIOUS
  <2>4. <<Above(y), Above(x)>> \in Less
    <3> HIDE DEF Above, Aboves
    <3> QED
      BY <2>2, <2>3 DEF StrictSubsetOrdering
  <2> HIDE DEF Above, Less, Aboves
  <2> QED
    BY <1>3, <1>4, <2>3, <2>4
<1> QED
  BY <1>5

\* Max is a bound from above that is reached.
LEMMA MaxBounds ==
  ASSUME NEW S \in SUBSET Int, IsFiniteSet(S), S # {}
  PROVE  Max(S) \in S /\ \A y \in S : y <= Max(S)
<1>1. PICK x \in S : \A y \in S : x >= y
  <2>1. PICK x \in S : \A y \in S : y <= x
    BY Greatest
  <2>2. \A y \in S : x >= y
    BY <2>1
  <2> QED
    BY <2>2
<1>2. Max(S) \in S /\ \A y \in S : Max(S) >= y
  BY <1>1, Zenon DEF Max
<1>3. \A y \in S : y <= Max(S)
  BY <1>2
<1> QED
  BY <1>2, <1>3

\* Min is a bound from below that is reached.
LEMMA MinBounds ==
  ASSUME NEW S \in SUBSET Int, IsFiniteSet(S), S # {}
  PROVE  Min(S) \in S /\ \A y \in S : Min(S) <= y
<1>1. PICK N, f : N = {-x : x \in S} /\ f = [x \in S |-> -x]
  OBVIOUS
<1>2. N \in SUBSET Int /\ N # {}
  <2>1. \A x \in S : -x \in Int
    OBVIOUS
  <2> QED
    BY <1>1, <2>1
<1>3. IsFiniteSet(N)
  <2>1. f \in [S -> N] /\ \A z \in N : \E x \in S : f[x] = z
    BY <1>1
  <2>2. f \in Surjection(S, N)
    BY <2>1 DEF Surjection
  <2> QED
    BY <2>2, FS_Surjection
<1>4. PICK m \in N : \A y \in N : y <= m
  BY <1>2, <1>3, Greatest
<1>5. PICK x \in S : m = -x
  BY <1>1
<1>6. \A y \in S : x <= y
  <2>1. ASSUME NEW y \in S PROVE x <= y
    <3>1. -y <= m /\ x \in Int /\ y \in Int
      BY <1>1, <1>4
    <3> QED
      BY <1>5, <3>1
  <2> QED
    BY <2>1
<1> QED
  BY <1>6, Zenon DEF Min

\* Tens below and above a number.
LEMMA Tens ==
  ASSUME NEW v \in Int
  PROVE  Floor(v) \in Int /\ Floor(v) <= v /\ Ceil(v) \in Int /\ v <= Ceil(v)
<1>1. ASSUME NEW u \in Int PROVE Floor(u) \in Int /\ Floor(u) <= u
  <2>1. u \div 10 \in Int /\ 10 * (u \div 10) <= u
    OBVIOUS
  <2> QED
    BY <2>1 DEF Floor
<1>2. -v \in Int /\ Floor(-v) \in Int /\ Floor(-v) <= -v
  BY <1>1
<1>3. Ceil(v) = -Floor(-v)
  BY DEF Ceil
<1> QED
  BY <1>1, <1>2, <1>3

\* A sequence has finitely many elements.
LEMMA RangeFinite ==
  ASSUME NEW S, NEW s \in Seq(S)
  PROVE  IsFiniteSet(Range(s)) /\ Range(s) \subseteq S
<1>1. PICK n \in Nat : n = Len(s) /\ DOMAIN s = 1..n /\ s \in [1..n -> S]
  OBVIOUS
<1>2. Range(s) = {s[i] : i \in 1..n}
  BY <1>1 DEF Range
<1>3. s \in Surjection(1..n, Range(s))
  BY <1>1, <1>2 DEF Surjection
<1>4. IsFiniteSet(1..n)
  BY FS_Interval
<1> QED
  BY <1>1, <1>2, <1>3, <1>4, FS_Surjection

---------------------------------------------------------------------------
(* The pictures *)

\* A whole plot with numbers.
Numbers(plot) ==
  /\ plot.dataLine \in Seq(Int) /\ plot.standardLine \in Seq(Int \cup {NaN})
  /\ {plot.lowerLimit, plot.upperLimit} \subseteq Int \cup {Absent}

\* The lines of a picture are numbers.
LEMMA MarkNumbers ==
  ASSUME NEW plot, Numbers(plot)
  PROVE  MarkLines(plot) \in Seq(Int)
<1>1. PICK lines, d : lines = plot.standardLine /\ d = plot.deviation
  OBVIOUS
<1>2. PICK n \in Nat : n = Len(lines) /\ DOMAIN lines = 1..n /\ \A i \in 1..n : lines[i] \in Int \cup {NaN}
  <2>1. lines \in Seq(Int \cup {NaN})
    BY <1>1 DEF Numbers
  <2>2. \A T : \A s \in Seq(T) : Len(s) \in Nat /\ DOMAIN s = 1..Len(s) /\ \A i \in 1..Len(s) : s[i] \in T
    OBVIOUS
  <2> QED
    BY <2>1, <2>2
<1>3. PICK seqs : seqs = [i \in 1..n |-> IF lines[i] = NaN THEN <<>>
                                       ELSE IF d THEN <<lines[i], -lines[i]>> ELSE <<lines[i]>>]
  OBVIOUS
<1>4. ASSUME NEW i \in 1..n PROVE seqs[i] \in Seq(Int)
  <2>1. PICK x : x = lines[i]
    OBVIOUS
  <2>2. seqs[i] = IF x = NaN THEN <<>> ELSE IF d THEN <<x, -x>> ELSE <<x>>
    BY <1>3, <2>1
  <2>3. CASE x = NaN
    <3>1. seqs[i] = <<>>
      BY <2>2, <2>3
    <3>2. <<>> \in Seq(Int)
      OBVIOUS
    <3> QED
      BY <3>1, <3>2
  <2>4. CASE x # NaN
    <3>1. x \in Int /\ -x \in Int
      BY <1>2, <2>1, <2>4
    <3>2. <<x, -x>> \in Seq(Int) /\ <<x>> \in Seq(Int)
      BY <3>1
    <3>3. seqs[i] = <<x, -x>> \/ seqs[i] = <<x>>
      BY <2>2, <2>4
    <3> QED
      BY <3>2, <3>3
  <2> QED
    BY <2>3, <2>4
<1>5. seqs \in Seq(Seq(Int))
  <2>1. seqs = [i \in 1..n |-> seqs[i]]
    BY <1>3
  <2> QED
    BY <1>4, <2>1
<1>6. FlattenSeq(seqs) \in Seq(Int)
  BY <1>5, Flattened
<1>7. MarkLines(plot) = FlattenSeq(seqs)
  BY <1>1, <1>2, <1>3 DEF MarkLines
<1> QED
  BY <1>6, <1>7

\* The values of a picture that lie on its axis.
Values(p) ==
  Range(p.data) \cup (IF p.marks[1] <= p.marks[2] THEN Range(p.marks)
                                                  ELSE Range(SubSeq(p.marks, 3, Len(p.marks))))

\* Marks of two limits and some lines.
Marked(marks, l, u, ms) ==
  /\ marks[1] = l /\ marks[2] = u
  /\ Range(marks) \subseteq {l, u} \cup Range(ms)
  /\ Range(SubSeq(marks, 3, Len(marks))) \subseteq Range(ms)

\* The limits are the first two marks, the lines of a picture the others.
LEMMA MarksRange ==
  ASSUME NEW l \in Int, NEW u \in Int, NEW ms \in Seq(Int), NEW marks, marks = <<l, u>> \o ms
  PROVE  Marked(marks, l, u, ms)
<1>1. PICK two : two = <<l, u>>
  OBVIOUS
<1>2. two \in Seq(Int) /\ Len(two) = 2 /\ two[1] = l /\ two[2] = u
  BY <1>1
<1>3. PICK n \in Nat : n = Len(ms) /\ DOMAIN ms = 1..n
  OBVIOUS
<1>4. marks \in Seq(Int) /\ Follows(marks, two, ms)
  BY <1>1, <1>2, Appended
<1>5. Len(marks) = n + 2 /\ marks[1] = l /\ marks[2] = u /\ \A i \in 1..n : marks[2+i] = ms[i]
  <2>1. Len(two) = 2 /\ 1 \in 1..2 /\ 2 \in 1..2
    BY <1>2
  <2> QED
    BY <1>2, <1>3, <1>4, <2>1 DEF Follows
<1>6. DOMAIN marks = 1..(n+2)
  BY <1>4, <1>5
<1>7. \A i \in 1..n : marks[2+i] \in Range(ms)
  BY <1>3, <1>5 DEF Range
<1>8. Range(marks) \subseteq {l, u} \cup Range(ms)
  <2>1. ASSUME NEW i \in 1..(n+2) PROVE marks[i] \in {l, u} \cup Range(ms)
    <3>1. CASE i = 1 \/ i = 2
      BY <1>5, <3>1
    <3>2. CASE i # 1 /\ i # 2
      <4>1. i - 2 \in 1..n /\ 2 + (i - 2) = i
        BY <3>2
      <4>2. PICK j \in 1..n : 2 + j = i
        BY <4>1
      <4> QED
        BY <1>7, <4>2
    <3> QED
      BY <3>1, <3>2
  <2>2. Range(marks) = {marks[i] : i \in 1..(n+2)}
    BY <1>6 DEF Range
  <2> QED
    BY <2>1, <2>2
<1>9. Range(SubSeq(marks, 3, Len(marks))) \subseteq Range(ms)
  <2>1. PICK t : t = SubSeq(marks, 3, n + 2)
    OBVIOUS
  <2>2. \A i \in 3..(n+2) : marks[i] \in Range(ms)
    <3>1. ASSUME NEW i \in 3..(n+2) PROVE marks[i] \in Range(ms)
      <4>1. i - 2 \in 1..n /\ 2 + (i - 2) = i
        OBVIOUS
      <4>2. PICK j \in 1..n : 2 + j = i
        BY <4>1
      <4> QED
        BY <1>7, <4>2
    <3> QED
      BY <3>1
  <2>3. t \in Seq(Range(ms))
    <3>1. 3 \in Int /\ n + 2 \in Int
      OBVIOUS
    <3> QED
      BY <2>1, <2>2, <3>1, SubSeqProperties
  <2>4. Range(t) \subseteq Range(ms)
    BY <2>3, RangeFinite
  <2> QED
    BY <1>5, <2>1, <2>4
<1> QED
  BY <1>5, <1>8, <1>9 DEF Marked

\* Every value lies on the axis of its picture.
LEMMA ChartHolds ==
  ASSUME NEW plot, NEW id, Numbers(plot)
  PROVE  /\ AlarmChart(plot, id).id = id
         /\ \A y \in Values(AlarmChart(plot, id)) :
              AlarmChart(plot, id).min <= y /\ y <= AlarmChart(plot, id).max
<1>1. PICK l, u, ms : l = OrZero(plot.lowerLimit) /\ u = OrZero(plot.upperLimit) /\ ms = MarkLines(plot)
  OBVIOUS
<1>2. l \in Int /\ u \in Int
  BY <1>1 DEF Numbers, OrZero
<1>3. ms \in Seq(Int) /\ plot.dataLine \in Seq(Int)
  BY <1>1, MarkNumbers DEF Numbers
<1>4. PICK drawn : drawn = Range(plot.dataLine) \cup Range(ms)
  OBVIOUS
<1>5. drawn \subseteq Int /\ IsFiniteSet(drawn)
  <2>1. /\ IsFiniteSet(Range(plot.dataLine)) /\ Range(plot.dataLine) \subseteq Int
        /\ IsFiniteSet(Range(ms)) /\ Range(ms) \subseteq Int
    BY <1>3, RangeFinite
  <2> QED
    BY <1>4, <2>1, FS_Union
<1>6. PICK p : p = [id |-> id, max |-> Ceil(Max(drawn \cup {u})), min |-> Floor(Min(drawn \cup {l})),
                   marks |-> <<l, u>> \o ms, data |-> plot.dataLine]
  OBVIOUS
<1>7. AlarmChart(plot, id) = p
  BY <1>1, <1>4, <1>6 DEF AlarmChart
<1>8. /\ p.id = id /\ p.max = Ceil(Max(drawn \cup {u})) /\ p.min = Floor(Min(drawn \cup {l}))
      /\ p.marks = <<l, u>> \o ms /\ p.data = plot.dataLine
  BY <1>6
<1>9. p.max \in Int /\ \A y \in drawn \cup {u} : y <= p.max
  <2>1. PICK S : S = drawn \cup {u}
    OBVIOUS
  <2>2. S \in SUBSET Int /\ IsFiniteSet(S) /\ S # {}
    BY <1>2, <1>5, <2>1, FS_AddElement
  <2>3. Max(S) \in Int /\ \A y \in S : y \in Int /\ y <= Max(S)
    BY <2>2, MaxBounds
  <2>4. Max(S) <= p.max /\ p.max \in Int
    BY <1>8, <2>1, <2>3, Tens
  <2> QED
    BY <2>1, <2>3, <2>4
<1>10. p.min \in Int /\ \A y \in drawn \cup {l} : p.min <= y
  <2>1. PICK S : S = drawn \cup {l}
    OBVIOUS
  <2>2. S \in SUBSET Int /\ IsFiniteSet(S) /\ S # {}
    BY <1>2, <1>5, <2>1, FS_AddElement
  <2>3. Min(S) \in Int /\ \A y \in S : y \in Int /\ Min(S) <= y
    BY <2>2, MinBounds
  <2>4. p.min <= Min(S) /\ p.min \in Int
    BY <1>8, <2>1, <2>3, Tens
  <2> QED
    BY <2>1, <2>3, <2>4
<1>11. PICK marks : marks = p.marks
  OBVIOUS
<1>12. /\ marks[1] = l /\ marks[2] = u
       /\ Range(marks) \subseteq {l, u} \cup Range(ms)
       /\ Range(SubSeq(marks, 3, Len(marks))) \subseteq Range(ms)
  <2>1. marks = <<l, u>> \o ms
    BY <1>8, <1>11
  <2>2. Marked(marks, l, u, ms)
    BY <1>2, <1>3, <2>1, MarksRange
  <2> QED
    BY <2>2, Zenon DEF Marked
<1>13. ASSUME NEW y \in Values(p) PROVE p.min <= y /\ y <= p.max
  <2>1. y \in Range(plot.dataLine) \/ y \in (IF l <= u THEN Range(marks) ELSE Range(SubSeq(marks, 3, Len(marks))))
    BY <1>8, <1>11, <1>12 DEF Values
  <2>2. CASE y \in drawn
    BY <1>9, <1>10, <2>2
  <2>3. CASE l <= u /\ y \in {l, u}
    <3>1. p.min <= l /\ u <= p.max
      BY <1>9, <1>10
    <3> QED
      BY <1>2, <1>9, <1>10, <2>3, <3>1
  <2> QED
    BY <1>4, <1>12, <2>1, <2>2, <2>3
<1>14. p.id = id /\ \A y \in Values(p) : p.min <= y /\ y <= p.max
  BY <1>8, <1>13
<1> QED
  BY <1>7, <1>14, Zenon

---------------------------------------------------------------------------
(* The problems of the details *)

\* Sequences that are as long spread alike.
LEMMA SameSpread ==
  ASSUME NEW n \in Nat, NEW k \in Nat, k <= n, NEW s, NEW t, NEW f, NEW h, NEW off, NEW o,
         Spread(s, n, f, off), Spread(t, k, h, o), \A g \in 1..k : Len(s[g]) = Len(t[g])
  PROVE  \A g \in 0..k : off[g] = o[g]
<1> DEFINE K == {g \in Nat : g <= k => off[g] = o[g]}
<1>1. off[0] = 0 /\ o[0] = 0
  BY DEF Spread
<1>2. 0 \in K
  BY <1>1
<1>3. ASSUME NEW g \in K PROVE g + 1 \in K
  <2> SUFFICES ASSUME g + 1 <= k PROVE off[g+1] = o[g+1]
    OBVIOUS
  <2>1. g \in Nat /\ g + 1 \in 1..k /\ g + 1 \in 1..n /\ (g + 1) - 1 = g /\ g <= k
    OBVIOUS
  <2>2. off[g] = o[g]
    BY <2>1
  <2>3. off[g+1] = off[(g+1)-1] + Len(s[g+1])
    BY <2>1 DEF Spread
  <2>4. o[g+1] = o[(g+1)-1] + Len(t[g+1])
    BY <2>1 DEF Spread
  <2>5. Len(s[g+1]) = Len(t[g+1])
    BY <2>1
  <2> QED
    BY <2>1, <2>2, <2>3, <2>4, <2>5, Zenon
<1>4. \A g \in Nat : g \in K
  <2> HIDE DEF K
  <2>1. K \subseteq Nat
    BY DEF K
  <2> QED
    BY <1>2, <1>3, <2>1, Succession
<1> QED
  BY <1>4

\* The problems of all valves, those of a valve behind those of the valves before it.
ItemsOf(valves) == [v \in DOMAIN valves |-> valves[v].items]

Lined(valves, P, off) ==
  /\ Len(valves) \in Nat /\ DOMAIN valves = 1..Len(valves)
  /\ \A v \in 1..Len(valves) : Text(valves[v].items)
  /\ Len(P) \in Nat /\ DOMAIN P = 1..Len(P) /\ Text(P)
  /\ Spread(ItemsOf(valves), Len(valves), P, off)

Lists(valves) ==
  valves \in Seq(Range(valves)) /\ \A valve \in Range(valves) : valve.items \in Seq(Range(valve.items))

\* The problems of the valves, one after the other.
LEMMA ProblemsLined ==
  ASSUME NEW valves, Lists(valves), NEW P, P = FlattenSeq(ItemsOf(valves))
  PROVE  \E off : Lined(valves, P, off)
<1>1. \A T : \A s \in Seq(T) : Len(s) \in Nat /\ DOMAIN s = 1..Len(s) /\ Text(s)
  <2>1. ASSUME NEW T, NEW s \in Seq(T) PROVE Len(s) \in Nat /\ DOMAIN s = 1..Len(s) /\ Text(s)
    <3>1. Len(s) \in Nat /\ DOMAIN s = 1..Len(s)
      OBVIOUS
    <3>2. \A i \in 1..Len(s) : s[i] \in Range(s)
      BY <3>1 DEF Range
    <3>3. s = [i \in 1..Len(s) |-> s[i]]
      BY <3>1
    <3>4. s \in Seq(Range(s))
      BY <3>1, <3>2, <3>3
    <3> QED
      BY <3>1, <3>4 DEF Text
  <2> QED
    BY <2>1
<1>2. PICK n \in Nat : n = Len(valves) /\ DOMAIN valves = 1..n
  BY <1>1 DEF Lists
<1>3. \A v \in 1..n : valves[v] \in Range(valves)
  BY <1>2 DEF Range
<1>4. \A v \in 1..n : Text(valves[v].items)
  BY <1>3 DEF Lists, Text
<1>5. PICK S : S = UNION {Range(valves[v].items) : v \in 1..n}
  OBVIOUS
<1>6. \A A, B : A \subseteq B => \A s \in Seq(A) : s \in Seq(B)
  OBVIOUS
<1>7. \A v \in 1..n : valves[v].items \in Seq(S)
  <2>1. ASSUME NEW v \in 1..n PROVE valves[v].items \in Seq(S)
    <3>1. Range(valves[v].items) \subseteq S
      BY <1>5
    <3>2. valves[v].items \in Seq(Range(valves[v].items))
      BY <1>4 DEF Text
    <3> QED
      BY <1>6, <3>1, <3>2
  <2> QED
    BY <2>1
<1>8. PICK seqs : seqs = ItemsOf(valves)
  OBVIOUS
<1>9. seqs = [v \in 1..n |-> valves[v].items]
  BY <1>2, <1>8 DEF ItemsOf
<1>10. seqs \in Seq(Seq(S)) /\ Len(seqs) = n
  BY <1>7, <1>9
<1>11. P \in Seq(S) /\ \E off : Spread(seqs, n, P, off)
  BY <1>8, <1>10, Flattened
<1>12. PICK off : Spread(seqs, n, P, off)
  BY <1>11
<1>13. Len(P) \in Nat /\ DOMAIN P = 1..Len(P) /\ Text(P)
  BY <1>1, <1>11
<1>14. Lined(valves, P, off)
  BY <1>2, <1>4, <1>8, <1>12, <1>13 DEF Lined
<1> QED
  BY <1>14

\* What the offsets say.
LEMMA ItemPlace ==
  ASSUME NEW valves, NEW P, NEW off, Lined(valves, P, off), NEW v \in 1..Len(valves),
         NEW i \in 1..Len(valves[v].items)
  PROVE  /\ off[v-1] \in Nat /\ off[v-1] + i \in 1..Len(P) /\ P[off[v-1]+i] = valves[v].items[i]
<1>1. PICK n \in Nat : n = Len(valves) /\ DOMAIN valves = 1..n
  BY Zenon DEF Lined
<1>2. PICK s : s = ItemsOf(valves) /\ Spread(s, n, P, off)
  BY <1>1 DEF Lined
<1>3. s[v] = valves[v].items
  BY <1>1, <1>2 DEF ItemsOf
<1>4. PICK m \in Nat : m = Len(s[v])
  BY <1>1, <1>3, TextFunction DEF Lined
<1>5. /\ off \in [0..n -> Nat] /\ Len(P) = off[n] /\ off[v] <= off[n]
      /\ off[v] = off[v-1] + m
      /\ P[off[v-1]+i] = s[v][i]
  <2>1. v \in 1..n /\ v \in 0..n /\ n \in 0..n /\ v <= n
    BY <1>1
  <2>2. i \in 1..Len(s[v])
    BY <1>3
  <2>3. /\ off \in [0..n -> Nat] /\ Len(P) = off[n]
        /\ \A g, h \in 0..n : g <= h => off[g] <= off[h]
        /\ \A g \in 1..n : off[g] = off[g-1] + Len(s[g])
        /\ \A g \in 1..n : \A p \in 1..Len(s[g]) : P[off[g-1]+p] = s[g][p]
    BY <1>2, Zenon DEF Spread
  <2>4. P[off[v-1]+i] = s[v][i]
    BY <2>1, <2>2, <2>3, Zenon
  <2>5. off[v] <= off[n]
    BY <2>1, <2>3, Zenon
  <2>6. off[v] = off[v-1] + m
    BY <1>4, <2>1, <2>3, Zenon
  <2> QED
    BY <2>3, <2>4, <2>5, <2>6, Zenon
<1>6. v - 1 \in 0..n /\ v \in 0..n
  BY <1>1
<1>7. PICK a, b \in Nat : a = off[v-1] /\ b = off[v]
  BY <1>5, <1>6
<1>8. a + i \in 1..off[n]
  <2>1. off[n] \in Nat
    BY <1>1, <1>5
  <2>2. i \in Nat /\ 1 <= i /\ i <= m
    BY <1>3, <1>4
  <2>3. PICK c \in Nat : c = off[n]
    BY <2>1
  <2>4. b <= c /\ b = a + m
    BY <1>5, <1>7, <2>3, Zenon
  <2>5. a + i \in 1..c
    BY <2>2, <2>4
  <2> QED
    BY <2>3, <2>5
<1> QED
  BY <1>3, <1>5, <1>7, <1>8, Zenon

\* Every problem is some valve's.
LEMMA ItemAt ==
  ASSUME NEW valves, NEW P, NEW off, Lined(valves, P, off), NEW b \in 1..Len(P)
  PROVE  \E v \in 1..Len(valves) : \E i \in 1..Len(valves[v].items) : b = off[v-1] + i
<1>1. PICK n \in Nat : n = Len(valves) /\ DOMAIN valves = 1..n
  BY Zenon DEF Lined
<1>2. PICK s : s = ItemsOf(valves) /\ Spread(s, n, P, off)
  BY <1>1 DEF Lined
<1>3. \A v \in 1..n : s[v] = valves[v].items
  BY <1>1, <1>2 DEF ItemsOf
<1>4. \E v \in 1..n : \E i \in 1..Len(s[v]) : b = off[v-1] + i
  BY <1>2 DEF Spread
<1> QED
  BY <1>1, <1>3, <1>4

\* The valves before the v-th.
LEMMA FirstValves ==
  ASSUME NEW valves, Lists(valves), NEW P, NEW off, Lined(valves, P, off),
         NEW k \in 0..Len(valves), NEW Q, Q = FlattenSeq([w \in 1..k |-> valves[w].items])
  PROVE  Text(Q) /\ Len(Q) = off[k] /\ \A j \in 1..Len(Q) : Q[j] = P[j]
<1>1. PICK n \in Nat : n = Len(valves) /\ DOMAIN valves = 1..n
  BY Zenon DEF Lined
<1>2. k \in Nat /\ k <= n /\ k \in 0..k /\ \A w \in 1..k : w \in 1..n /\ w - 1 \in 0..k
  BY <1>1
<1>3. PICK first : first = [w \in 1..k |-> valves[w]]
  OBVIOUS
<1>4. DOMAIN first = 1..k /\ Len(first) = k /\ \A w \in 1..k : first[w] = valves[w]
  BY <1>2, <1>3
<1>5. ItemsOf(first) = [w \in 1..k |-> valves[w].items]
  BY <1>4 DEF ItemsOf
<1>6. Lists(first)
  <2>1. \A w \in 1..k : first[w] \in Range(first)
    BY <1>4 DEF Range
  <2>2. first \in Seq(Range(first))
    BY <1>2, <1>3, <1>4, <2>1
  <2>3. Range(first) \subseteq Range(valves)
    BY <1>1, <1>2, <1>4 DEF Range
  <2> QED
    BY <2>2, <2>3 DEF Lists
<1>7. PICK o : Lined(first, Q, o)
  BY <1>5, <1>6, ProblemsLined
<1>8. \A w \in 0..k : off[w] = o[w]
  <2>1. PICK s, t : s = ItemsOf(valves) /\ t = ItemsOf(first)
    OBVIOUS
  <2>2. Spread(s, n, P, off) /\ Spread(t, k, Q, o)
    BY <1>1, <1>4, <1>7, <2>1 DEF Lined
  <2>3. \A w \in 1..k : Len(s[w]) = Len(t[w])
    <3>1. \A w \in 1..k : s[w] = valves[w].items /\ t[w] = valves[w].items
      BY <1>1, <1>2, <1>5, <2>1 DEF ItemsOf
    <3> QED
      BY <3>1
  <2> QED
    BY <1>1, <1>2, <2>2, <2>3, SameSpread
<1>9. Len(Q) = off[k]
  <2>1. PICK t : t = ItemsOf(first) /\ Spread(t, k, Q, o)
    BY <1>4, <1>7 DEF Lined
  <2>2. Len(Q) = o[k]
    BY <2>1 DEF Spread
  <2> QED
    BY <1>2, <1>8, <2>2
<1>10. ASSUME NEW j \in 1..Len(Q) PROVE Q[j] = P[j]
  <2>0. \E w \in 1..Len(first) : \E i \in 1..Len(first[w].items) : j = o[w-1] + i
    BY <1>7, ItemAt, SMTT(30)
  <2>1. PICK w \in 1..k : \E i \in 1..Len(first[w].items) : j = o[w-1] + i
    BY <1>4, <2>0
  <2>2. PICK i \in 1..Len(first[w].items) : j = o[w-1] + i
    BY <2>1
  <2>3. Q[o[w-1]+i] = first[w].items[i]
    BY <1>4, <1>7, ItemPlace
  <2>4. first[w] = valves[w] /\ w \in 1..n /\ o[w-1] = off[w-1]
    BY <1>2, <1>4, <1>8
  <2>5. P[off[w-1]+i] = valves[w].items[i]
    BY <1>1, <2>4, ItemPlace
  <2> QED
    BY <2>2, <2>3, <2>4, <2>5, Zenon
<1>11. Text(Q)
  BY <1>7 DEF Lined
<1> QED
  BY <1>9, <1>10, <1>11, Zenon

Earlier(P, b) == Cardinality({j \in 1..(b - 1) : HasPlotData(P[j].plot)})

\* The pictures before item i of the v-th valve.
Before(valves, v, i) ==
  Cardinality(Drawn(FlattenSeq([w \in 1..(v - 1) |-> valves[w].items]) \o SubSeq(valves[v].items, 1, i - 1)))

\* A picture is counted by the pictures before it in the whole list.
LEMMA CountBefore ==
  ASSUME NEW valves, Lists(valves), NEW P, NEW off, Lined(valves, P, off),
         NEW v \in 1..Len(valves), NEW i \in 1..Len(valves[v].items)
  PROVE  Before(valves, v, i) = Earlier(P, off[v-1] + i)
<1>1. PICK Q, items, sub, U : /\ Q = FlattenSeq([w \in 1..(v - 1) |-> valves[w].items])
                              /\ items = valves[v].items /\ sub = SubSeq(items, 1, i - 1)
                              /\ U = Q \o sub
  OBVIOUS
<1>2. v - 1 \in 0..Len(valves)
  BY DEF Lined
<1>3. Text(Q) /\ Len(Q) = off[v-1] /\ \A j \in 1..Len(Q) : Q[j] = P[j]
  <2>1. PICK k : k = v - 1 /\ k \in 0..Len(valves)
    BY <1>2
  <2>2. Q = FlattenSeq([w \in 1..k |-> valves[w].items])
    BY <1>1, <2>1, Zenon
  <2>3. Text(Q) /\ Len(Q) = off[k] /\ \A j \in 1..Len(Q) : Q[j] = P[j]
    BY <2>1, <2>2, FirstValves
  <2> QED
    BY <2>1, <2>3
<1>4. Text(items)
  BY <1>1 DEF Lined
<1>5. PICK m \in Nat : m = Len(items) /\ i \in 1..m /\ DOMAIN items = 1..m
  BY <1>1, <1>4, TextFunction
<1>6. sub \in Seq(Range(items)) /\ Len(sub) = i - 1 /\ \A p \in 1..(i-1) : sub[p] = items[p]
  <2>1. 1 \in Int /\ i - 1 \in Int /\ \A p \in 1..(i-1) : items[p] \in Range(items)
    <3>1. i \in Nat /\ i - 1 \in Int /\ \A p \in 1..(i-1) : p \in 1..m
      BY <1>5
    <3>2. \A p \in 1..m : items[p] \in Range(items)
      BY <1>5 DEF Range
    <3>3. \A p \in 1..(i-1) : items[p] \in Range(items)
      BY <3>1, <3>2, Zenon
    <3> QED
      BY <3>1, <3>3
  <2>2. /\ SubSeq(items, 1, i - 1) \in Seq(Range(items))
        /\ Len(SubSeq(items, 1, i - 1)) = IF 1 <= i - 1 THEN (i - 1) - 1 + 1 ELSE 0
        /\ \A p \in 1..((i - 1) - 1 + 1) : SubSeq(items, 1, i - 1)[p] = items[1 + p - 1]
    BY <2>1, SubSeqProperties
  <2>3. i \in Nat /\ 1 <= i /\ (i - 1) - 1 + 1 = i - 1 /\ \A p \in 1..(i-1) : 1 + p - 1 = p
    BY <1>5
  <2> QED
    BY <1>1, <2>2, <2>3
<1>7. PICK S : S = Range(Q) \cup Range(items)
  OBVIOUS
<1>8. Q \in Seq(S) /\ sub \in Seq(S)
  <2>1. \A A, B : A \subseteq B => \A s \in Seq(A) : s \in Seq(B)
    OBVIOUS
  <2> QED
    BY <1>3, <1>6, <1>7, <2>1 DEF Text
<1>9. U \in Seq(S) /\ Follows(U, Q, sub)
  BY <1>1, <1>8, Appended
<1>10. PICK a \in Nat : a = off[v-1] /\ a = Len(Q)
  BY <1>3, <1>8
<1>11. PICK c \in Nat : c = a + (i - 1) /\ c = (a + i) - 1
  <2>1. i \in Nat /\ 1 <= i
    BY <1>5
  <2>2. a + (i - 1) \in Nat /\ a + (i - 1) = (a + i) - 1
    BY <2>1
  <2> QED
    BY <2>2
<1>12. Len(U) = c /\ DOMAIN U = 1..c
  BY <1>6, <1>9, <1>10, <1>11 DEF Follows
<1>13. ASSUME NEW j \in 1..c PROVE U[j] = P[j]
  <2>1. CASE j \in 1..a
    <3>1. U[j] = Q[j]
      BY <1>9, <1>10, <2>1 DEF Follows
    <3> QED
      BY <1>3, <1>10, <2>1, <3>1
  <2>2. CASE j \notin 1..a
    <3>1. j - a \in 1..(i-1) /\ a + (j - a) = j
      BY <1>5, <1>11, <2>2
    <3>2. PICK p \in 1..(i-1) : a + p = j
      BY <3>1
    <3>3. U[Len(Q)+p] = sub[p]
      BY <1>6, <1>9 DEF Follows
    <3>4. p \in 1..Len(valves[v].items)
      BY <1>1, <1>5
    <3>5. P[off[v-1]+p] = valves[v].items[p]
      BY <3>4, ItemPlace, SMTT(30)
    <3>6. sub[p] = items[p]
      BY <1>6
    <3> QED
      BY <1>1, <1>10, <3>2, <3>3, <3>5, <3>6, Zenon
  <2> QED
    BY <2>1, <2>2
<1>14. Drawn(U) = {j \in 1..c : HasPlotData(P[j].plot)}
  BY <1>12, <1>13 DEF Drawn
<1>15. Before(valves, v, i) = Cardinality(Drawn(U))
  BY <1>1, Zenon DEF Before
<1> QED
  BY <1>10, <1>11, <1>14, <1>15 DEF Earlier

\* The pictures before a problem are finitely many.
LEMMA EarlierNumber ==
  ASSUME NEW P, NEW b \in Nat
  PROVE  Earlier(P, b) \in Nat
<1>1. PICK A : A = {j \in 1..(b - 1) : HasPlotData(P[j].plot)}
  OBVIOUS
<1>2. 1 \in Int /\ b - 1 \in Int
  OBVIOUS
<1>3. A \subseteq 1..(b-1) /\ IsFiniteSet(1..(b-1))
  BY <1>1, <1>2, FS_Interval
<1>4. IsFiniteSet(A)
  BY <1>3, FS_Subset
<1> QED
  BY <1>1, <1>4, FS_CardinalityType DEF Earlier

\* Pictures have different numbers of pictures before them.
LEMMA EarlierTells ==
  ASSUME NEW P, NEW a \in Nat \ {0}, NEW b \in Nat \ {0},
         HasPlotData(P[a].plot), HasPlotData(P[b].plot), Earlier(P, a) = Earlier(P, b)
  PROVE  a = b
<1>1. ASSUME NEW x \in Nat \ {0}, NEW y \in Nat, HasPlotData(P[x].plot), x < y
      PROVE  Earlier(P, x) < Earlier(P, y)
  <2>1. PICK A, B : /\ A = {j \in 1..(x - 1) : HasPlotData(P[j].plot)}
                    /\ B = {j \in 1..(y - 1) : HasPlotData(P[j].plot)}
    OBVIOUS
  <2>2. A \subseteq B /\ x \in B /\ x \notin A
    BY <1>1, <2>1
  <2>3. IsFiniteSet(A) /\ IsFiniteSet(B)
    <3>1. IsFiniteSet(1..(x-1)) /\ IsFiniteSet(1..(y-1))
      BY FS_Interval
    <3>2. A \subseteq 1..(x-1) /\ B \subseteq 1..(y-1)
      BY <2>1
    <3> QED
      BY <3>1, <3>2, FS_Subset
  <2>4. Cardinality(A) \in Nat /\ Cardinality(B) \in Nat /\ Cardinality(A) <= Cardinality(B)
        /\ (Cardinality(A) = Cardinality(B) => A = B)
    BY <2>2, <2>3, FS_Subset, FS_CardinalityType
  <2>5. A # B
    BY <2>2
  <2> QED
    BY <2>1, <2>4, <2>5 DEF Earlier
<1>2. ~(a < b)
  <2> SUFFICES ASSUME a < b PROVE FALSE
    OBVIOUS
  <2>1. Earlier(P, a) < Earlier(P, b)
    BY <1>1
  <2>2. Earlier(P, a) \in Nat
    BY EarlierNumber
  <2> QED
    BY <2>1, <2>2
<1>3. ~(b < a)
  <2> SUFFICES ASSUME b < a PROVE FALSE
    OBVIOUS
  <2>1. Earlier(P, b) < Earlier(P, a)
    BY <1>1
  <2>2. Earlier(P, a) \in Nat
    BY EarlierNumber
  <2> QED
    BY <2>1, <2>2
<1> QED
  BY <1>2, <1>3

\* What stands in the document for problem b of the list P.
ItemOf(P, first, b) ==
  [text |-> P[b].name,
   picture |-> IF HasPlotData(P[b].plot) THEN AlarmChart(P[b].plot, first + Earlier(P, b)) ELSE None]

\* Every problem stands in the document, at its own place and under its own valve.
LEMMA ItemsShown ==
  ASSUME NEW detail, Lists(detail.valveDetails), NEW first, NEW P, P = Problems(detail),
         NEW shown, shown = DetailValvesAlarm(detail, first), NEW D, D = FlattenSeq(ItemsOf(shown))
  PROVE  /\ Len(P) \in Nat /\ DOMAIN P = 1..Len(P) /\ DOMAIN D = 1..Len(P)
         /\ \A b \in 1..Len(P) : D[b] = ItemOf(P, first, b)
         /\ \A v \in DOMAIN shown : shown[v].tag = detail.valveDetails[v].tag
<1>1. PICK valves : valves = detail.valveDetails
  OBVIOUS
<1>2. P = FlattenSeq(ItemsOf(valves))
  BY <1>1 DEF Problems, ItemsOf
<1>3. PICK off : Lined(valves, P, off)
  BY <1>1, <1>2, ProblemsLined, Zenon
<1>4. PICK n \in Nat : n = Len(valves) /\ DOMAIN valves = 1..n
  BY <1>3, Zenon DEF Lined
<1>a. ASSUME NEW v \in 1..n, NEW i \in 1..Len(valves[v].items)
       PROVE  P[off[v-1]+i] = valves[v].items[i]
  <2>1. v \in 1..Len(valves) /\ i \in 1..Len(valves[v].items)
    BY <1>4
  <2> QED
    BY <1>3, <2>1, ItemPlace, SMTT(30)
<1> DEFINE row(v, i) == [text |-> valves[v].items[i].name,
                         picture |-> IF HasPlotData(valves[v].items[i].plot)
                                     THEN AlarmChart(valves[v].items[i].plot, first + Before(valves, v, i))
                                     ELSE None]
<1>5. shown = [v \in 1..n |-> [tag |-> valves[v].tag, items |-> [i \in DOMAIN valves[v].items |-> row(v, i)]]]
  BY <1>1, <1>4 DEF DetailValvesAlarm, Before
<1>6. ASSUME NEW v \in 1..n, NEW i \in 1..Len(valves[v].items)
      PROVE  Before(valves, v, i) = Earlier(P, off[v-1] + i)
  <2>1. Lists(valves) /\ v \in 1..Len(valves)
    BY <1>1, <1>4
  <2> QED
    BY <1>3, <2>1, CountBefore
<1>7. ASSUME NEW v \in 1..n, NEW i \in 1..Len(valves[v].items)
      PROVE  row(v, i) = ItemOf(P, first, off[v-1] + i)
  <2>1. P[off[v-1]+i] = valves[v].items[i]
    BY <1>a
  <2>2. Before(valves, v, i) = Earlier(P, off[v-1] + i)
    BY <1>6
  <2> QED
    BY <2>1, <2>2 DEF ItemOf
<1> HIDE DEF row
<1>8. ASSUME NEW v \in 1..n
      PROVE  /\ Len(valves[v].items) \in Nat /\ DOMAIN valves[v].items = 1..Len(valves[v].items)
             /\ shown[v].tag = valves[v].tag
             /\ shown[v].items = [i \in 1..Len(valves[v].items) |-> row(v, i)]
  <2>1. Text(valves[v].items)
    BY <1>3, <1>4 DEF Lined
  <2>2. Len(valves[v].items) \in Nat /\ DOMAIN valves[v].items = 1..Len(valves[v].items)
    <3>1. \A T : \A s \in Seq(T) : Len(s) \in Nat /\ DOMAIN s = 1..Len(s)
      OBVIOUS
    <3> QED
      BY <2>1, <3>1 DEF Text
  <2>3. shown[v] = [tag |-> valves[v].tag, items |-> [i \in DOMAIN valves[v].items |-> row(v, i)]]
    BY <1>5
  <2> QED
    BY <2>2, <2>3
<1>9. ASSUME NEW v \in 1..n
      PROVE  /\ Text(shown[v].items) /\ Len(shown[v].items) = Len(valves[v].items)
             /\ \A i \in 1..Len(valves[v].items) : shown[v].items[i] = row(v, i)
  <2>1. PICK s, m : s = shown[v].items /\ m = Len(valves[v].items)
    OBVIOUS
  <2>2. m \in Nat /\ s = [i \in 1..m |-> row(v, i)]
    BY <1>8, <2>1
  <2>3. DOMAIN s = 1..m /\ Len(s) = m /\ \A i \in 1..m : s[i] = row(v, i)
    BY <2>2
  <2>4. s \in Seq(Range(s))
    <3>1. \A i \in 1..m : s[i] \in Range(s)
      BY <2>3 DEF Range
    <3>2. s = [i \in 1..m |-> s[i]]
      BY <2>2
    <3> QED
      BY <2>2, <3>1, <3>2
  <2> QED
    BY <2>1, <2>3, <2>4 DEF Text
<1>10. DOMAIN shown = 1..n /\ Len(shown) = n
  BY <1>5
<1>11. Lists(shown)
  <2>1. \A v \in 1..n : shown[v] \in Range(shown)
    BY <1>10 DEF Range
  <2>2. shown = [v \in 1..n |-> shown[v]]
    BY <1>5
  <2>3. shown \in Seq(Range(shown))
    BY <2>1, <2>2
  <2>4. \A x \in Range(shown) : \E v \in 1..n : x = shown[v]
    BY <1>10 DEF Range
  <2> QED
    BY <1>9, <2>3, <2>4 DEF Lists, Text
<1>12. PICK o : Lined(shown, D, o)
  BY <1>11, ProblemsLined
<1>13. PICK s, t : s = ItemsOf(valves) /\ t = ItemsOf(shown)
  OBVIOUS
<1>14. Spread(s, n, P, off) /\ Spread(t, n, D, o)
  BY <1>3, <1>4, <1>10, <1>12, <1>13 DEF Lined
<1>15. \A w \in 0..n : off[w] = o[w]
  <2>1. \A v \in 1..n : Len(s[v]) = Len(t[v])
    <3>1. \A v \in 1..n : s[v] = valves[v].items /\ t[v] = shown[v].items
      BY <1>4, <1>10, <1>13 DEF ItemsOf
    <3> QED
      BY <1>9, <3>1
  <2>2. n <= n
    BY <1>4
  <2> QED
    BY <1>14, <2>1, <2>2, SameSpread
<1>16. Len(D) = Len(P)
  <2>1. Len(P) = off[n] /\ Len(D) = o[n]
    BY <1>14 DEF Spread
  <2> QED
    BY <1>4, <1>15, <2>1
<1>17. ASSUME NEW b \in 1..Len(P) PROVE D[b] = ItemOf(P, first, b)
  <2>1. PICK v \in 1..n : \E i \in 1..Len(valves[v].items) : b = off[v-1] + i
    <3>1. \E v \in 1..Len(valves) : \E i \in 1..Len(valves[v].items) : b = off[v-1] + i
      BY <1>3, ItemAt
    <3> QED
      BY <1>4, <3>1
  <2>2. PICK i \in 1..Len(valves[v].items) : b = off[v-1] + i
    BY <2>1
  <2>3. off[v-1] = o[v-1]
    BY <1>4, <1>15
  <2>4. D[o[v-1]+i] = shown[v].items[i]
    <3>1. v \in 1..Len(shown) /\ i \in 1..Len(shown[v].items)
      BY <1>9, <1>10
    <3> QED
      BY <1>12, <3>1, ItemPlace
  <2>5. shown[v].items[i] = row(v, i) /\ row(v, i) = ItemOf(P, first, off[v-1] + i)
    BY <1>7, <1>9
  <2> QED
    BY <2>2, <2>3, <2>4, <2>5, Zenon
<1>18. Len(P) \in Nat /\ DOMAIN P = 1..Len(P) /\ DOMAIN D = 1..Len(P)
  <2>1. Len(P) \in Nat /\ DOMAIN P = 1..Len(P)
    BY <1>3 DEF Lined
  <2>2. DOMAIN D = 1..Len(D)
    BY <1>12 DEF Lined
  <2> QED
    BY <1>16, <2>1, <2>2
<1>19. \A v \in DOMAIN shown : shown[v].tag = valves[v].tag
  BY <1>8, <1>10
<1> QED
  BY <1>1, <1>17, <1>18, <1>19, Zenon

\* No problem throws, so that all of them are built.
LEMMA AllBuilt ==
  ASSUME NEW P, Text(P)
  PROVE  Built(P) = P /\ Cardinality(Drawn(P)) \in Nat
<1>1. PICK n \in Nat : n = Len(P) /\ P = [i \in 1..n |-> P[i]] /\ DOMAIN P = 1..n
  BY TextFunction
<1>2. PICK S : S = {k \in 0..n : \A i \in 1..k : ~Throws(P[i])}
  OBVIOUS
<1>3. \A item : ~Throws(item)
  BY Zenon DEF Throws, HasPlotData
<1>4. S = 0..n
  BY <1>2, <1>3
<1>5. Max(S) = n
  <2>1. S \in SUBSET Int /\ 0 \in S /\ IsFiniteSet(S)
    <3>1. 0 \in Int /\ n \in Int
      OBVIOUS
    <3> QED
      BY <1>4, <3>1, FS_Interval
  <2>2. Max(S) \in S /\ \A y \in S : y <= Max(S)
    BY <2>1, MaxBounds
  <2> QED
    BY <1>4, <2>2
<1>6. SubSeq(P, 1, n) = P
  <2>1. \A i \in 1..n : P[i] \in Range(P)
    BY <1>1 DEF Range
  <2>2. PICK s : s = SubSeq(P, 1, n)
    OBVIOUS
  <2>3. s \in Seq(Range(P)) /\ Len(s) = (IF 1 <= n THEN n - 1 + 1 ELSE 0) /\ \A i \in 1..(n - 1 + 1) : s[i] = P[1+i-1]
    BY <2>1, <2>2, SubSeqProperties
  <2>4. Len(s) = n /\ \A i \in 1..n : s[i] = P[i]
    BY <2>3
  <2>5. DOMAIN s = 1..n /\ s = [i \in DOMAIN s |-> s[i]]
    BY <2>3, <2>4
  <2> QED
    BY <1>1, <2>2, <2>4, <2>5
<1>7. Built(P) = P
  BY <1>1, <1>2, <1>5, <1>6, Zenon DEF Built
<1>8. IsFiniteSet(Drawn(P))
  <2>1. Drawn(P) \subseteq 1..n /\ IsFiniteSet(1..n)
    BY <1>1, FS_Interval DEF Drawn
  <2> QED
    BY <2>1, FS_Subset
<1> QED
  BY <1>7, <1>8, FS_CardinalityType

\* The plots of the problems in the list are those of the valves.
LEMMA PlotNumbers ==
  ASSUME NEW detail, ValveList(detail.valveDetails), NEW P, P = Problems(detail)
  PROVE  Lists(detail.valveDetails) /\ Text(P) /\ \A b \in 1..Len(P) : HasPlotData(P[b].plot) => Numbers(P[b].plot)
<1>1. PICK valves : valves = detail.valveDetails
  OBVIOUS
<1>2. Lists(valves)
  BY <1>1 DEF ValveList, Lists
<1>3. P = FlattenSeq(ItemsOf(valves))
  BY <1>1 DEF Problems, ItemsOf
<1>4. PICK off : Lined(valves, P, off)
  BY <1>2, <1>3, ProblemsLined
<1>5. ASSUME NEW b \in 1..Len(P), HasPlotData(P[b].plot) PROVE Numbers(P[b].plot)
  <2>1. PICK v \in 1..Len(valves) : \E i \in 1..Len(valves[v].items) : b = off[v-1] + i
    BY <1>4, ItemAt
  <2>2. PICK i \in 1..Len(valves[v].items) : b = off[v-1] + i
    BY <2>1
  <2>3. P[b] = valves[v].items[i]
    BY <1>4, <2>2, ItemPlace
  <2>4. valves[v] \in Range(valves)
    BY <1>4 DEF Lined, Range
  <2>5. valves[v].items[i] \in Range(valves[v].items)
    <3>1. Text(valves[v].items)
      BY <1>4 DEF Lined
    <3>2. DOMAIN valves[v].items = 1..Len(valves[v].items)
      BY <3>1, TextFunction
    <3> QED
      BY <3>2 DEF Range
  <2>6. HasPlotData(valves[v].items[i].plot) => Numbers(valves[v].items[i].plot)
    BY <1>1, <2>4, <2>5 DEF ValveList, Numbers
  <2> QED
    BY <1>5, <2>3, <2>6
<1> QED
  BY <1>1, <1>2, <1>4, <1>5 DEF Lined

\* A document shows every problem it was told.
LEMMA DocumentDrawn ==
  ASSUME NEW detail, ValveList(detail.valveDetails), NEW first \in Nat, 1000 <= first,
         NEW d, d = Document(detail, first)
  PROVE  AllDrawn(Items(d), d, detail)
<1>1. PICK P, f, shown, D : /\ P = Problems(detail) /\ f = first + 3 /\ shown = DetailValvesAlarm(detail, f)
                            /\ D = FlattenSeq(ItemsOf(shown))
  OBVIOUS
<1>2. d.details = shown /\ d.overviews = [k \in 1..3 |-> first + k - 1]
  BY <1>1 DEF Document, Overviews
<1>3. /\ Lists(detail.valveDetails) /\ Text(P)
      /\ \A b \in 1..Len(P) : HasPlotData(P[b].plot) => Numbers(P[b].plot)
  BY <1>1, PlotNumbers
<1>4. /\ Len(P) \in Nat /\ DOMAIN P = 1..Len(P) /\ DOMAIN D = 1..Len(P)
      /\ \A b \in 1..Len(P) : D[b] = ItemOf(P, f, b)
      /\ \A v \in DOMAIN shown : shown[v].tag = detail.valveDetails[v].tag
  BY <1>1, <1>3, ItemsShown
<1>5. PICK n \in Nat : n = Len(P) /\ DOMAIN P = 1..n /\ DOMAIN D = 1..n
  BY <1>4, Zenon
<1>6. PICK pictures : pictures = {i \in DOMAIN D : D[i].picture # None}
  BY Zenon
<1>7. [i \in DOMAIN D |-> D[i].text] = [i \in DOMAIN P |-> P[i].name]
  <2>1. \A i \in 1..n : D[i].text = P[i].name
    BY <1>4, <1>5 DEF ItemOf
  <2> QED
    BY <1>5, <2>1
<1>8. ASSUME NEW i \in pictures
      PROVE  /\ i \in 1..n /\ HasPlotData(P[i].plot) /\ Earlier(P, i) \in Nat
             /\ D[i].picture.id = f + Earlier(P, i)
             /\ \A y \in Values(D[i].picture) : D[i].picture.min <= y /\ y <= D[i].picture.max
  <2>1. i \in 1..n /\ D[i].picture # None
    BY <1>5, <1>6
  <2>2. D[i] = ItemOf(P, f, i)
    BY <1>4, <1>5, <2>1
  <2>3. HasPlotData(P[i].plot) /\ D[i].picture = AlarmChart(P[i].plot, f + Earlier(P, i))
    BY <2>1, <2>2 DEF ItemOf
  <2>4. Numbers(P[i].plot)
    BY <1>3, <1>5, <2>1, <2>3
  <2>5. /\ AlarmChart(P[i].plot, f + Earlier(P, i)).id = f + Earlier(P, i)
        /\ \A y \in Values(AlarmChart(P[i].plot, f + Earlier(P, i))) :
             /\ AlarmChart(P[i].plot, f + Earlier(P, i)).min <= y
             /\ y <= AlarmChart(P[i].plot, f + Earlier(P, i)).max
    BY <2>4, ChartHolds
  <2>6. i \in Nat
    BY <2>1
  <2>7. Earlier(P, i) \in Nat
    BY <2>6, EarlierNumber
  <2> QED
    BY <2>1, <2>3, <2>5, <2>7, Zenon
<1>9. \A x \in Range(d.overviews) : x \in Nat /\ 1000 <= x /\ x < f
  <2>1. PICK o : o = d.overviews
    OBVIOUS
  <2>2. Range(o) = {first + k - 1 : k \in 1..3}
    BY <1>2, <2>1 DEF Range
  <2> QED
    BY <1>1, <2>1, <2>2
<1>10. \A x \in TemplateIds : x \in Nat /\ x < 1000
  BY DEF TemplateIds
<1>11. Range(d.overviews) \cap TemplateIds = {}
  <2>1. ASSUME NEW x \in Range(d.overviews), x \in TemplateIds PROVE FALSE
    <3>1. x \in Nat /\ 1000 <= x /\ x < 1000
      BY <1>9, <1>10, <2>1
    <3> QED
      BY <3>1
  <2> QED
    BY <2>1
<1>12. ASSUME NEW i \in pictures PROVE D[i].picture.id \notin TemplateIds \cup Range(d.overviews)
  <2>1. PICK x : x = D[i].picture.id
    OBVIOUS
  <2>2. PICK e \in Nat : e = Earlier(P, i)
    BY <1>8
  <2>3. x = f + e
    BY <1>8, <2>1, <2>2
  <2>4. f \in Nat /\ 1000 <= f
    BY <1>1
  <2>5. x \in Nat /\ 1000 <= x /\ f <= x
    BY <2>3, <2>4
  <2>6. x \notin TemplateIds
    <3>1. ASSUME x \in TemplateIds PROVE FALSE
      <4>1. x < 1000
        BY <1>10, <3>1
      <4> QED
        BY <2>5, <4>1
    <3> QED
      BY <3>1
  <2>7. x \notin Range(d.overviews)
    <3>1. ASSUME x \in Range(d.overviews) PROVE FALSE
      <4>1. x < f
        BY <1>9, <3>1
      <4> QED
        BY <2>4, <2>5, <4>1
    <3> QED
      BY <3>1
  <2> QED
    BY <2>1, <2>6, <2>7
<1>13. ASSUME NEW i \in pictures, NEW j \in pictures, D[i].picture.id = D[j].picture.id
       PROVE  i = j
  <2>1. f + Earlier(P, i) = f + Earlier(P, j)
    BY <1>8, <1>13, Zenon
  <2>2. Earlier(P, i) \in Nat /\ Earlier(P, j) \in Nat /\ f \in Nat
    BY <1>1, <1>8
  <2>3. Earlier(P, i) = Earlier(P, j)
    BY <2>1, <2>2
  <2>4. i \in Nat \ {0} /\ j \in Nat \ {0}
    BY <1>8
  <2>5. HasPlotData(P[i].plot) /\ HasPlotData(P[j].plot)
    BY <1>8
  <2> QED
    BY <2>3, <2>4, <2>5, EarlierTells
<1>14. D = Items(d)
  BY <1>1, <1>2 DEF ItemsOf, Items
<1>15. \A i \in pictures : \A y \in Values(D[i].picture) : D[i].picture.min <= y /\ y <= D[i].picture.max
  BY <1>8
<1>16. \A v \in DOMAIN d.details : d.details[v].tag = detail.valveDetails[v].tag
  BY <1>2, <1>4
<1>17. \A i \in pictures : D[i].picture.id \notin TemplateIds \cup Range(d.overviews)
  BY <1>12
<1>18. \A i, j \in pictures : D[i].picture.id = D[j].picture.id => i = j
  BY <1>13
<1>19. AllDrawn(D, d, detail)
  <2>1. [i \in DOMAIN D |-> D[i].text] = [i \in DOMAIN Problems(detail) |-> Problems(detail)[i].name]
    BY <1>1, <1>7
  <2> QED
    BY <1>6, <1>11, <1>15, <1>16, <1>17, <1>18, <2>1, Zenon DEF AllDrawn, Values
<1> QED
  BY <1>14, <1>19, ZenonT(40)

\* No report fails for what its problems lack: each problem that was told is written under
\* its valve, with a picture whose axis holds its values and whose id is its own.
THEOREM EveryProblemDrawn == ReportSpec => []ProblemsDrawn
<1> DEFINE Inv == docPrSeq \in Nat /\ 1000 <= docPrSeq /\ ProblemsDrawn
<1>1. ReportInit => Inv
  BY DEF ReportInit, ProblemsDrawn
<1>2. Inv /\ [ReportNext]_reportVars => Inv'
  <2> SUFFICES ASSUME Inv, [ReportNext]_reportVars PROVE Inv'
    OBVIOUS
  <2>1. ASSUME NEW detail \in Details, FindReport(detail), docPrSeq < 1000 + MaxPictures
        PROVE  Inv'
    <3>1. PICK P : P = Problems(detail)
      OBVIOUS
    <3>2. ValveList(detail.valveDetails)
      BY ReportAssumption
    <3>3. Text(P)
      BY <3>1, <3>2, PlotNumbers
    <3>4. Built(P) = P /\ Cardinality(Drawn(P)) \in Nat
      BY <3>3, AllBuilt
    <3>5. told' = detail /\ doc' = Document(detail, docPrSeq) /\ docPrSeq' = docPrSeq + (3 + Cardinality(Drawn(P)))
      BY <2>1, <3>1, <3>4 DEF FindReport, Pictures, Overviews
    <3>6. docPrSeq' \in Nat /\ 1000 <= docPrSeq'
      BY <3>4, <3>5
    <3>7. docPrSeq \in 1000..(1000 + MaxPictures)
      BY <2>1, ReportAssumption
    <3>8. Failed # Document(detail, docPrSeq)
      BY <3>7, ReportAssumption
    <3>9. AllDrawn(Items(doc'), doc', detail)
      BY <3>2, <3>5, DocumentDrawn
    <3>10. ProblemsDrawn'
      BY <3>5, <3>8, <3>9 DEF ProblemsDrawn
    <3> QED
      BY <3>6, <3>10
  <2>2. ASSUME NEW detail \in Details, FindProblems(detail) PROVE Inv'
    <3>1. doc' = [problems |-> Problems(detail)] /\ docPrSeq' = docPrSeq
      BY <2>2 DEF FindProblems
    <3>2. doc' # Failed /\ "details" \notin DOMAIN doc'
      BY <3>1, ReportAssumption
    <3> QED
      BY <3>1, <3>2 DEF ProblemsDrawn, IsDocument
  <2>3. CASE ServiceFails \/ RestartServer
    BY <2>3 DEF ServiceFails, RestartServer, ProblemsDrawn
  <2>4. CASE UNCHANGED reportVars
    <3>1. docPrSeq' = docPrSeq /\ told' = told /\ doc' = doc
      BY <2>4 DEF reportVars
    <3>2. ProblemsDrawn'
      BY <3>1 DEF ProblemsDrawn, IsDocument
    <3> QED
      BY <3>1, <3>2
  <2> QED
    BY <2>1, <2>2, <2>3, <2>4 DEF ReportNext
<1> QED
  BY <1>1, <1>2, PTL DEF ReportSpec
===============================================================================
