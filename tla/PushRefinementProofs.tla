------------------------ MODULE PushRefinementProofs ------------------------
(***************************************************************************)
(* ServiceAppPush implements SyncContract, for any pushes, payloads and     *)
(* servers, from any store that names its valves once and mounts them.      *)
(*                                                                         *)
(* The argument: an open push keeps a trace, one set of written rows per    *)
(* entry, in which each is the last with one entry's device and valve added *)
(* (Puts).  What the others do meanwhile does not disturb it, for they      *)
(* write in other factories and delete nothing that it holds.  Laid over    *)
(* the committed rows and without ids, the trace is a path through the      *)
(* contract's stages, hence at COMMIT one of the contract's effects.        *)
(***************************************************************************)
EXTENDS ServiceAppPushProofs, PushRefinement, WellFoundedInduction

---------------------------------------------------------------------------
(* Induction, and the effect of a push entry by entry *)

\* A set of numbers that has 0 and the successor of each of its members has them all.
LEMMA Succession ==
  ASSUME NEW S \in SUBSET Nat, 0 \in S, \A n \in S : n + 1 \in S
  PROVE  \A n \in Nat : n \in S
<1> SUFFICES ASSUME Nat \ S # {} PROVE FALSE
  OBVIOUS
<1> DEFINE Less   == StrictSubsetOrdering(Nat)
           Starts == {0..n : n \in Nat \ S}
<1>1. IsWellFoundedOn(Less, FiniteSubsetsOf(Nat))
  BY FS_StrictSubsetOrderingWellFounded
<1>2. Starts \subseteq FiniteSubsetsOf(Nat) /\ Starts # {}
  <2>1. \A n \in Nat : 0..n \subseteq Nat /\ IsFiniteSet(0..n)
    BY FS_Interval
  <2> QED
    BY <2>1 DEF FiniteSubsetsOf
<1>3. PICK T \in Starts : \A U \in Starts : <<U, T>> \notin Less
  <2> HIDE DEF Less, Starts
  <2> QED
    BY <1>1, <1>2, WFMin
<1>4. PICK x \in Nat \ S : T = 0..x
  OBVIOUS
<1>5. x - 1 \in Nat /\ x - 1 \notin S
  <2>1. x # 0
    OBVIOUS
  <2>2. x - 1 \in Nat /\ x = (x - 1) + 1
    BY <2>1
  <2> QED
    BY <2>2
<1>6. /\ 0..(x-1) \in Starts /\ 0..(x-1) \subseteq 0..x /\ 0..x \subseteq Nat
      /\ x \in 0..x /\ x \notin 0..(x-1)
  BY <1>5
<1>7. <<0..(x-1), 0..x>> \in Less
  BY <1>6 DEF StrictSubsetOrdering
<1> QED
  BY <1>3, <1>4, <1>6, <1>7

\* The factory and the work order of a push are written first.
Start(s, p) ==
  Contract!WithWorkOrder(Contract!WithFactory(s, Payload[p].endUser, Payload[p].data),
                         Payload[p].endUser, Payload[p].serial, Payload[p].data)

OneMore(p, k, ss) ==
  UNION {Contract!WithValve(t, Payload[p].endUser, Payload[p].serial, Payload[p].valves[k]) : t \in ss}

\* The stages of a push are what their recursive definition says.
LEMMA StagesStep ==
  ASSUME NEW s, NEW p \in Push, Len(Payload[p].valves) \in Nat
  PROVE  /\ Contract!Stages(s, p)[0] = {Start(s, p)}
         /\ \A k \in 1..Len(Payload[p].valves) :
              Contract!Stages(s, p)[k] = OneMore(p, k, Contract!Stages(s, p)[k-1])
<1> DEFINE n == Len(Payload[p].valves)
           Stage(g, k) == IF k = 0 THEN {Start(s, p)} ELSE OneMore(p, k, g[k-1])
           Is(g, m) == \A k \in 0..m : g[k] = Stage(g, k)
           Reached == {m \in Nat : \E g : Is(g, m)}
<1>1. Contract!Stages(s, p) = CHOOSE g : g = [k \in 0..n |-> Stage(g, k)]
  BY DEF Contract!Stages, Start, OneMore
<1>2. 0 \in Reached
  <2> DEFINE g0 == [k \in {0} |-> {Start(s, p)}]
  <2>1. Is(g0, 0)
    OBVIOUS
  <2> QED
    BY <2>1
<1>3. ASSUME NEW m \in Reached
      PROVE  m + 1 \in Reached
  <2>1. PICK g : Is(g, m)
    OBVIOUS
  <2> DEFINE more == [k \in 0..(m+1) |-> IF k = m + 1 THEN OneMore(p, k, g[m]) ELSE g[k]]
  <2>2. more[m+1] = OneMore(p, m + 1, g[m]) /\ \A k \in 0..m : more[k] = g[k]
    OBVIOUS
  <2>3. ASSUME NEW k \in 0..(m+1)
        PROVE  more[k] = Stage(more, k)
    <3>1. CASE k = m + 1
      <4>1. k # 0 /\ k - 1 = m /\ more[k-1] = g[m]
        BY <3>1, <2>2
      <4> HIDE DEF more
      <4> QED
        BY <3>1, <2>2, <4>1
    <3>2. CASE k \in 1..m
      <4>1. k # 0 /\ k - 1 \in 0..m /\ more[k-1] = g[k-1] /\ more[k] = g[k]
        BY <3>2, <2>2
      <4> HIDE DEF more
      <4> QED
        BY <3>2, <2>1, <4>1
    <3>3. CASE k = 0
      <4>1. more[k] = g[k] /\ g[k] = Stage(g, k)
        BY <3>3, <2>1, <2>2
      <4> HIDE DEF more
      <4> QED
        BY <3>3, <4>1
    <3> QED
      BY <3>1, <3>2, <3>3
  <2>4. Is(more, m + 1)
    <3> HIDE DEF more, Stage
    <3> QED
      BY <2>3
  <2> HIDE DEF more, Is
  <2> QED
    BY <2>4
<1>4. n \in Reached
  <2> HIDE DEF Reached
  <2>1. Reached \subseteq Nat
    BY DEF Reached
  <2> QED
    BY <1>2, <1>3, <2>1, Succession
<1>5. PICK g : Is(g, n)
  BY <1>4
<1> DEFINE f == [k \in 0..n |-> g[k]]
<1>6. f = [k \in 0..n |-> Stage(f, k)]
  <2>1. ASSUME NEW k \in 0..n PROVE f[k] = Stage(f, k)
    <3>1. k # 0 => k - 1 \in 0..n
      OBVIOUS
    <3>2. f[k] = g[k] /\ (k # 0 => f[k-1] = g[k-1])
      BY <3>1
    <3> HIDE DEF f
    <3> QED
      BY <1>5, <3>2
  <2>2. f = [k \in 0..n |-> f[k]]
    OBVIOUS
  <2> HIDE DEF f, Stage
  <2> QED
    BY <2>1, <2>2
<1>7. Contract!Stages(s, p) = [k \in 0..n |-> Stage(Contract!Stages(s, p), k)]
  <2> HIDE DEF f, Stage
  <2> QED
    BY <1>1, <1>6
<1> DEFINE st == Contract!Stages(s, p)
<1>8. \A k \in 0..n : st[k] = Stage(st, k)
  <2> HIDE DEF Stage, st
  <2> QED
    BY <1>7 DEF st
<1>9. st[0] = {Start(s, p)} /\ \A k \in 1..n : st[k] = OneMore(p, k, st[k-1])
  <2> HIDE DEF st
  <2>1. 0 \in 0..n /\ \A k \in 1..n : k \in 0..n /\ k # 0
    OBVIOUS
  <2> QED
    BY <1>8, <2>1
<1> QED
  BY <1>9

---------------------------------------------------------------------------
(* The effect of one entry, and what it leaves alone *)

\* A store of the contract is a record of five tables.
Tables(t, fs, ds, vs, ws, ls) ==
  t = [factories |-> fs, devices |-> ds, valves |-> vs, workOrders |-> ws, links |-> ls]
IsStore(t) == Tables(t, t.factories, t.devices, t.valves, t.workOrders, t.links)

Serials(t, f, entry) ==
  IF entry.serialNumber # Absent THEN {entry.serialNumber}
  ELSE IF Contract!SameValve(t, f, entry) = {} THEN {Absent}
  ELSE {v.serialNumber : v \in Contract!SameValve(t, f, entry)}

Taken(t, f, entry, n) ==
  /\ n \notin Placeholder \cup {Absent}
  /\ \E v \in t.valves \ Contract!SameValve(t, f, entry) : v.factory = f /\ v.serialNumber = n

NewRow(f, d, entry, n) == [factory |-> f, device |-> d.name, tag |-> entry.tag, serialNumber |-> n]

\* What an entry of a request does to the tables of a store.
LEMMA EntryEffect ==
  ASSUME NEW t, NEW f, NEW w, NEW entry, NEW u, IsStore(t)
  PROVE  u \in Contract!WithValve(t, f, w, entry) <=>
         \E d \in Contract!Mounts(t, f, entry), n \in Serials(t, f, entry) :
            /\ ~Taken(t, f, entry, n)
            /\ Tables(u, t.factories, t.devices \cup {d},
                      (t.valves \ Contract!SameValve(t, f, entry)) \cup {NewRow(f, d, entry, n)},
                      t.workOrders, t.links \cup {<<f, entry.tag, w>>})
<1> DEFINE same == Contract!SameValve(t, f, entry)
           to(d, n) == [t EXCEPT !.devices = t.devices \cup {d},
                                 !.valves = (t.valves \ same) \cup
                                    {[factory |-> f, device |-> d.name, tag |-> entry.tag, serialNumber |-> n]},
                                 !.links = t.links \cup {<<f, entry.tag, w>>}]
<1>1. Contract!WithValve(t, f, w, entry) =
        {to(d, n) : d \in Contract!Mounts(t, f, entry),
                    n \in {m \in Serials(t, f, entry) : ~Taken(t, f, entry, m)}}
  BY DEF Contract!WithValve, Serials, Taken
<1>2. ASSUME NEW d, NEW n
      PROVE  to(d, n) = u <=>
             Tables(u, t.factories, t.devices \cup {d}, (t.valves \ same) \cup {NewRow(f, d, entry, n)},
                    t.workOrders, t.links \cup {<<f, entry.tag, w>>})
  <2> DEFINE vs == (t.valves \ same) \cup {NewRow(f, d, entry, n)}
             ls == t.links \cup {<<f, entry.tag, w>>}
             ds == t.devices \cup {d}
  <2>1. to(d, n) = [t EXCEPT !.devices = ds, !.valves = vs, !.links = ls]
    BY DEF NewRow
  <2> HIDE DEF vs, ls, ds
  <2>2. PICK fs, ds0, vs0, ws, ls0 : Tables(t, fs, ds0, vs0, ws, ls0)
    BY DEF IsStore
  <2>3. t.factories = fs /\ t.workOrders = ws
    BY <2>2 DEF Tables
  <2>4. [t EXCEPT !.devices = ds, !.valves = vs, !.links = ls] =
        [factories |-> fs, devices |-> ds, valves |-> vs, workOrders |-> ws, links |-> ls]
    <3> DEFINE t1 == [t EXCEPT !.devices = ds]
               t2 == [t1 EXCEPT !.valves = vs]
    <3>1. [t EXCEPT !.devices = ds, !.valves = vs, !.links = ls] = [t2 EXCEPT !.links = ls]
      BY <2>2 DEF Tables
    <3>2. t1 = [factories |-> fs, devices |-> ds, valves |-> vs0, workOrders |-> ws, links |-> ls0]
      BY <2>2 DEF Tables
    <3> HIDE DEF t1
    <3>3. t2 = [factories |-> fs, devices |-> ds, valves |-> vs, workOrders |-> ws, links |-> ls0]
      BY <3>2
    <3> HIDE DEF t2
    <3>4. [t2 EXCEPT !.links = ls] =
          [factories |-> fs, devices |-> ds, valves |-> vs, workOrders |-> ws, links |-> ls]
      BY <3>3
    <3> QED
      BY <3>1, <3>4
  <2> QED
    BY <2>1, <2>3, <2>4 DEF Tables, vs, ls, ds
<1> HIDE DEF to
<1>3. u \in Contract!WithValve(t, f, w, entry) <=>
        \E d \in Contract!Mounts(t, f, entry), n \in Serials(t, f, entry) :
           ~Taken(t, f, entry, n) /\ to(d, n) = u
  BY <1>1
<1> QED
  BY <1>2, <1>3

\* What is written before the entries.
LEMMA StartWrites ==
  ASSUME NEW s, IsStore(s), NEW p \in Push
  PROVE  /\ IsStore(Start(s, p))
         /\ Start(s, p).devices = s.devices /\ Start(s, p).valves = s.valves
         /\ Start(s, p).links = s.links
         /\ Start(s, p).factories = [s.factories EXCEPT ![FactoryOf(p)] = Payload[p].data]
         /\ Start(s, p).workOrders =
              [s.workOrders EXCEPT ![Payload[p].serial] =
                 [factory |-> IF s.workOrders[Payload[p].serial] = None THEN FactoryOf(p)
                              ELSE s.workOrders[Payload[p].serial].factory,
                  data |-> Payload[p].data]]
<1> DEFINE a == Contract!WithFactory(s, Payload[p].endUser, Payload[p].data)
           fs == [s.factories EXCEPT ![FactoryOf(p)] = Payload[p].data]
           row == [factory |-> IF s.workOrders[Payload[p].serial] = None THEN FactoryOf(p)
                              ELSE s.workOrders[Payload[p].serial].factory,
                   data |-> Payload[p].data]
           ws == [s.workOrders EXCEPT ![Payload[p].serial] = row]
<1>1. a = [s EXCEPT !.factories = fs]
  BY DEF Contract!WithFactory, FactoryOf
<1>2. Tables(a, fs, s.devices, s.valves, s.workOrders, s.links)
  <2> HIDE DEF fs, a
  <2> QED
    BY <1>1 DEF IsStore, Tables
<1>3. a.workOrders = s.workOrders /\ IsStore(a)
  <2> HIDE DEF fs, a
  <2> QED
    BY <1>2 DEF IsStore, Tables
<1>4. Start(s, p) = [a EXCEPT !.workOrders = ws]
  BY <1>3 DEF Start, Contract!WithWorkOrder, FactoryOf
<1>5. Tables(Start(s, p), fs, s.devices, s.valves, ws, s.links)
  <2> HIDE DEF fs, a, ws
  <2> QED
    BY <1>2, <1>4 DEF Tables
<1> HIDE DEF fs, a, ws
<1> QED
  BY <1>5 DEF IsStore, Tables, fs, ws

---------------------------------------------------------------------------
(* Rows with and without their ids *)

\* Ids and names are keys, and every valve is mounted on a device of its factory.
Named(ds, vs) ==
  /\ \A d, e \in ds : d.id = e.id => d = e
  /\ DevicesNamedOnce(ds)
  /\ \A v, w \in vs : v.id = w.id => v = w
  /\ TagsOnce(vs) /\ Mounted(ds, vs)

\* A device and a valve without their ids.
DeviceSeen(d)   == [factory |-> d.factory, name |-> d.name]
ValveSeen(ds, v) == [factory |-> v.factory, device |-> (CHOOSE d \in ds : d.id = v.device).name,
                     tag |-> v.tag, serialNumber |-> v.serialNumber]

\* What is seen of the tables.
LEMMA Seen ==
  ASSUME NEW s
  PROVE  /\ IsStore(Visible(s))
         /\ Visible(s).factories = s.factories /\ Visible(s).workOrders = s.workOrders
         /\ Visible(s).devices = {DeviceSeen(d) : d \in s.devices}
         /\ Visible(s).valves = {ValveSeen(s.devices, v) : v \in s.valves}
         /\ \A x : x \in Visible(s).links <=>
              \E v \in s.valves, l \in s.links : l[1] = v.id /\ x = <<v.factory, v.tag, l[2]>>
<1>1. IsStore(Visible(s))
  BY DEF IsStore, Tables, Visible
<1>2. /\ Visible(s).factories = s.factories /\ Visible(s).workOrders = s.workOrders
      /\ Visible(s).devices = {DeviceSeen(d) : d \in s.devices}
      /\ Visible(s).valves = {ValveSeen(s.devices, v) : v \in s.valves}
  BY DEF Visible, DeviceSeen, ValveSeen
<1>3. Visible(s).links = UNION {{<<v.factory, v.tag, l[2]>> : l \in {k \in s.links : k[1] = v.id}} :
                                v \in s.valves}
  BY DEF Visible
<1> QED
  BY <1>1, <1>2, <1>3

\* The name of the device that a valve is on.
LEMMA NameSeen ==
  ASSUME NEW ds, NEW v, NEW d \in ds, d.id = v.device,
         \A x, y \in ds : x.id = y.id => x = y
  PROVE  ValveSeen(ds, v) =
           [factory |-> v.factory, device |-> d.name, tag |-> v.tag, serialNumber |-> v.serialNumber]
<1>1. (CHOOSE x \in ds : x.id = v.device) = d
  OBVIOUS
<1> QED
  BY <1>1 DEF ValveSeen

\* Stores that tell their rows apart and have no link without its valve.
Sound(s) == Named(s.devices, s.valves) /\ \A l \in s.links : \E v \in s.valves : v.id = l[1]

\* With ids: entry mounts a valve of f on the device d, which it may have created,
\* as row, which replaces the valve of that tag or is new.
Enters(sa, sb, f, w, entry, d, row) ==
  /\ d.factory = f /\ entry.unit \in {Absent, d.name}
  /\ \/ d \in sa.devices /\ sb.devices = sa.devices
     \/ /\ entry.unit # Absent /\ sb.devices = sa.devices \cup {d}
        /\ \A x \in sa.devices : ~(x.factory = f /\ x.name = entry.unit)
  /\ row.factory = f /\ row.tag = entry.tag /\ row.device = d.id
  /\ sb.valves = Overlay(sa.valves, {row})
  /\ sb.links = sa.links \cup {<<row.id, w>>}
  /\ ~Collides(sa.valves, row)
  /\ \/ \E old \in sa.valves :
          /\ old.id = row.id /\ old.factory = f /\ old.tag = entry.tag
          /\ row.serialNumber = IF entry.serialNumber = Absent THEN old.serialNumber
                                ELSE entry.serialNumber
     \/ /\ row.serialNumber = entry.serialNumber
        /\ \A v \in sa.valves : ~(v.factory = f /\ v.tag = entry.tag) /\ v.id # row.id
  /\ sb.factories = sa.factories /\ sb.workOrders = sa.workOrders

\* Without ids that is an entry of the contract.
LEMMA EntryVisible ==
  ASSUME NEW sa, NEW sb, NEW f, NEW w, NEW entry, NEW d, NEW row,
         Sound(sa), Sound(sb), Enters(sa, sb, f, w, entry, d, row)
  PROVE  Visible(sb) \in Contract!WithValve(Visible(sa), f, w, entry)
<1> DEFINE t    == Visible(sa)
           u    == Visible(sb)
           same == Contract!SameValve(t, f, entry)
           n    == row.serialNumber
           olds == {v \in sa.valves : v.factory = f /\ v.tag = entry.tag}
<1>1. d \in sb.devices /\ sa.devices \subseteq sb.devices /\ sb.devices \subseteq sa.devices \cup {d}
  BY DEF Enters
<1>2. same = {ValveSeen(sa.devices, v) : v \in olds}
  BY Seen DEF Contract!SameValve, ValveSeen
<1>3. \A v \in sa.valves : ValveSeen(sb.devices, v) = ValveSeen(sa.devices, v)
  <2> SUFFICES ASSUME NEW v \in sa.valves
               PROVE  ValveSeen(sb.devices, v) = ValveSeen(sa.devices, v)
    OBVIOUS
  <2>1. PICK x \in sa.devices : x.id = v.device
    BY DEF Sound, Named, Mounted
  <2> QED
    BY <2>1, <1>1, NameSeen DEF Sound, Named
<1>4. DeviceSeen(d) \in Contract!Mounts(t, f, entry)
  <2> DEFINE fitting == {x \in t.devices : x.factory = f /\ entry.unit \in {Absent, x.name}}
  <2>1. CASE d \in sa.devices
    <3>1. DeviceSeen(d) \in fitting
      BY <2>1, Seen DEF DeviceSeen, Enters
    <3> QED
      BY <3>1 DEF Contract!Mounts
  <2>2. CASE /\ entry.unit # Absent
             /\ \A x \in sa.devices : ~(x.factory = f /\ x.name = entry.unit)
    <3>1. fitting = {}
      BY <2>2, Seen DEF DeviceSeen
    <3>2. DeviceSeen(d) = [factory |-> f, name |-> entry.unit]
      BY <2>2 DEF DeviceSeen, Enters
    <3> QED
      BY <2>2, <3>1, <3>2 DEF Contract!Mounts
  <2> QED
    BY <2>1, <2>2 DEF Enters
<1>5. olds = {} \/ \E old \in olds :
        /\ old.id = row.id /\ olds = {old}
        /\ n = IF entry.serialNumber = Absent THEN old.serialNumber ELSE entry.serialNumber
  BY DEF Enters, Sound, Named, TagsOnce
<1>6. olds = {} => n = entry.serialNumber /\ \A v \in sa.valves : v.id # row.id
  BY DEF Enters
<1>7. n \in Serials(t, f, entry)
  <2>1. CASE olds = {}
    BY <2>1, <1>2, <1>6 DEF Serials
  <2>2. ASSUME NEW old \in olds, olds = {old},
               n = IF entry.serialNumber = Absent THEN old.serialNumber ELSE entry.serialNumber
        PROVE  n \in Serials(t, f, entry)
    <3>1. ValveSeen(sa.devices, old) \in same /\ ValveSeen(sa.devices, old).serialNumber = old.serialNumber
      BY <1>2 DEF ValveSeen
    <3> QED
      BY <2>2, <3>1 DEF Serials
  <2> QED
    BY <1>5, <2>1, <2>2
<1>8. \A v \in sa.valves : v.id # row.id <=> v \notin olds
  BY <1>5, <1>6 DEF Sound, Named
<1>9. t.valves \ same = {ValveSeen(sa.devices, v) : v \in sa.valves \ olds}
  <2>1. \A v \in sa.valves : /\ ValveSeen(sa.devices, v).factory = v.factory
                             /\ ValveSeen(sa.devices, v).tag = v.tag
    BY DEF ValveSeen
  <2> QED
    BY <1>2, <2>1, Seen
<1>10. ~Taken(t, f, entry, n)
  <2> SUFFICES ASSUME n \notin Placeholder \cup {Absent},
                      NEW v \in sa.valves \ olds,
                      ValveSeen(sa.devices, v).factory = f, ValveSeen(sa.devices, v).serialNumber = n
               PROVE  FALSE
    BY <1>9 DEF Taken
  <2>1. v.factory = f /\ v.serialNumber = n /\ v.id # row.id
    BY <1>8 DEF ValveSeen
  <2> QED
    BY <2>1 DEF Enters, Collides
<1>11. u.devices = t.devices \cup {DeviceSeen(d)}
  BY <1>1, Seen DEF Enters
<1>12. u.valves = (t.valves \ same) \cup {NewRow(f, DeviceSeen(d), entry, n)}
  <2>1. sb.valves = (sa.valves \ olds) \cup {row}
    BY <1>8 DEF Enters, Overlay
  <2>2. ValveSeen(sb.devices, row) = NewRow(f, DeviceSeen(d), entry, n)
    BY <1>1, NameSeen DEF Enters, Sound, Named, NewRow, DeviceSeen
  <2>3. u.valves = {ValveSeen(sb.devices, v) : v \in sa.valves \ olds} \cup {ValveSeen(sb.devices, row)}
    BY <2>1, Seen
  <2>4. {ValveSeen(sb.devices, v) : v \in sa.valves \ olds} =
        {ValveSeen(sa.devices, v) : v \in sa.valves \ olds}
    BY <1>3
  <2> QED
    BY <1>9, <2>2, <2>3, <2>4
<1>13. u.links = t.links \cup {<<f, entry.tag, w>>}
  <2>1. sb.valves = (sa.valves \ olds) \cup {row} /\ row.factory = f /\ row.tag = entry.tag
        /\ sb.links = sa.links \cup {<<row.id, w>>}
    BY <1>8 DEF Enters, Overlay
  <2>2. ASSUME NEW x \in u.links PROVE x \in t.links \cup {<<f, entry.tag, w>>}
    <3>1. PICK v \in sb.valves, l \in sb.links : l[1] = v.id /\ x = <<v.factory, v.tag, l[2]>>
      BY Seen
    <3>2. CASE l = <<row.id, w>>
      <4>1. v = row
        BY <3>1, <3>2, <2>1, <1>8
      <4> QED
        BY <3>1, <3>2, <4>1, <2>1
    <3>3. CASE l \in sa.links /\ v \in sa.valves
      BY <3>1, <3>3, Seen
    <3>4. CASE l \in sa.links /\ v = row
      <4>1. PICK y \in sa.valves : y.id = l[1]
        BY <3>4 DEF Sound
      <4>2. y \in olds
        BY <4>1, <3>1, <3>4, <1>8
      <4>3. x = <<y.factory, y.tag, l[2]>>
        BY <4>2, <3>1, <3>4, <2>1
      <4> QED
        BY <4>1, <4>3, <3>4, Seen
    <3> QED
      BY <2>1, <3>2, <3>3, <3>4
  <2>3. ASSUME NEW x \in t.links PROVE x \in u.links
    <3>1. PICK v \in sa.valves, l \in sa.links : l[1] = v.id /\ x = <<v.factory, v.tag, l[2]>>
      BY Seen
    <3>2. CASE v \in olds
      <4>1. row \in sb.valves /\ l \in sb.links /\ l[1] = row.id /\ x = <<row.factory, row.tag, l[2]>>
        BY <3>1, <3>2, <2>1, <1>8
      <4> QED
        BY <4>1, Seen
    <3>3. CASE v \notin olds
      <4>1. v \in sb.valves /\ l \in sb.links
        BY <3>3, <2>1
      <4> QED
        BY <3>1, <4>1, Seen
    <3> QED
      BY <3>2, <3>3
  <2>4. <<f, entry.tag, w>> \in u.links
    <3> DEFINE l == <<row.id, w>>
    <3>1. row \in sb.valves /\ l \in sb.links /\ l[1] = row.id
          /\ <<f, entry.tag, w>> = <<row.factory, row.tag, l[2]>>
      BY <2>1
    <3> HIDE DEF l
    <3> QED
      BY <3>1, Seen
  <2> QED
    BY <2>2, <2>3, <2>4
<1>14. Tables(u, t.factories, t.devices \cup {DeviceSeen(d)},
              (t.valves \ same) \cup {NewRow(f, DeviceSeen(d), entry, n)},
              t.workOrders, t.links \cup {<<f, entry.tag, w>>})
  <2>1. u.factories = t.factories /\ u.workOrders = t.workOrders /\ IsStore(u)
    BY Seen DEF Enters
  <2> HIDE DEF u, t, same, n
  <2> QED
    BY <2>1, <1>11, <1>12, <1>13 DEF IsStore
<1>15. IsStore(t)
  BY Seen
<1> HIDE DEF u, t, n
<1> QED
  BY <1>4, <1>7, <1>10, <1>14, <1>15, EntryEffect DEF u, t

---------------------------------------------------------------------------
(* The trace of a push: what it has written, entry by entry *)

\* What an open push has written, without a device that no valve is mounted on yet.
Blank      == [devices |-> {}, valves |-> {}, links |-> {}]
Written(p) == [devices |-> {d \in tx[p].devices : d.id \in tx[p].keyShare},
               valves |-> tx[p].valves, links |-> tx[p].links]

\* The store if p committed now with the rows of c.
Merged(p, c) ==
  [factories  |-> [factories EXCEPT ![FactoryOf(p)] = Payload[p].data],
   devices    |-> devices \cup c.devices,
   valves     |-> Overlay(valves, c.valves),
   workOrders |-> [workOrders EXCEPT ![Payload[p].serial] = tx[p].workOrder],
   links      |-> links \cup c.links]

\* The rows of c are p's, locked, and told apart from those of the tables.
Placed(p, c) ==
  /\ c.devices \subseteq tx[p].devices
  /\ \A v \in c.valves : /\ v.factory = FactoryOf(p) /\ v.device \in tx[p].keyShare
                         /\ \E d \in devices \cup c.devices : d.id = v.device /\ d.factory = v.factory
                         /\ \E w \in tx[p].valves : w.id = v.id
  /\ \A v, w \in c.valves : v.id = w.id => v = w
  /\ \A v \in Overlay(valves, c.valves), w \in c.valves :
       v.factory = w.factory /\ v.tag = w.tag => v = w
  /\ \A l \in c.links : \E v \in c.valves : v.id = l[1]

\* A row of the valve table.
IsValve(v) == v = [id |-> v.id, factory |-> v.factory, device |-> v.device, tag |-> v.tag,
                   serialNumber |-> v.serialNumber]

\* From a to b the entry put row on the device d, both of them now locked.
Puts(p, a, b, entry, d, row) ==
  /\ d.factory = FactoryOf(p) /\ entry.unit \in {Absent, d.name} /\ d.id \in tx[p].keyShare
  /\ \/ d \in devices \cup a.devices /\ b.devices = a.devices
     \/ /\ entry.unit # Absent /\ b.devices = a.devices \cup {d}
        /\ \A x \in devices \cup a.devices : ~(x.factory = FactoryOf(p) /\ x.name = entry.unit)
  /\ IsValve(row) /\ row.factory = FactoryOf(p) /\ row.tag = entry.tag /\ row.device = d.id
  /\ \E w \in tx[p].valves : w.id = row.id
  /\ b.valves = Overlay(a.valves, {row})
  /\ b.links = a.links \cup {<<row.id, Payload[p].serial>>}
  /\ ~Collides(Overlay(valves, a.valves), row)
  /\ \/ \E old \in Overlay(valves, a.valves) :
          /\ old.id = row.id /\ old.factory = FactoryOf(p) /\ old.tag = entry.tag
          /\ row.serialNumber = IF entry.serialNumber = Absent THEN old.serialNumber
                                ELSE entry.serialNumber
     \/ /\ row.serialNumber = entry.serialNumber
        /\ \A v \in Overlay(valves, a.valves) :
             ~(v.factory = FactoryOf(p) /\ v.tag = entry.tag) /\ v.id # row.id

\* h[k] is what p had written after its first k entries: still a run of the
\* contract's entries from the tables as they are now.
Trace(p, h, m) ==
  /\ h[0] = Blank /\ h[m] = Written(p)
  /\ \A k \in 0..m : Placed(p, h[k])
  /\ \A k \in 1..m : \E d, row : Puts(p, h[k-1], h[k], Payload[p].valves[k], d, row)

Traced(p) ==
  HoldsOrder(p) => \E h, m : m \in Nat /\ cursor[p].index = m + 1 /\ Trace(p, h, m)

\* A step that adds no row of p's factory, removes none that p has locked, and
\* takes nothing from what p has written.
RowsStay(p) ==
  /\ \A d \in devices' : d.factory = FactoryOf(p) => d \in devices
  /\ \A d \in devices : d.id \in tx[p].keyShare => d \in devices'
  /\ \A v \in valves' : v.factory = FactoryOf(p) => v \in valves
  /\ \A v \in valves, w \in tx[p].valves : v.id = w.id => v \in valves'
  /\ \A v \in valves', w \in tx[p].valves : v.id = w.id => v \in valves
  /\ tx[p].devices \subseteq tx'[p].devices /\ tx[p].keyShare \subseteq tx'[p].keyShare
  /\ \A v \in tx[p].valves : \E w \in tx'[p].valves : w.id = v.id

\* It keeps what p has written in its place.
LEMMA PlacedStays ==
  ASSUME NEW p \in Push, NEW c, Placed(p, c), RowsStay(p)
  PROVE  Placed(p, c)'
<1>1. FactoryOf(p)' = FactoryOf(p)
  BY DEF FactoryOf
<1>2. c.devices \subseteq tx'[p].devices
  BY DEF Placed, RowsStay
<1>3. ASSUME NEW v \in c.valves
      PROVE  /\ v.factory = FactoryOf(p) /\ v.device \in tx'[p].keyShare
             /\ \E d \in devices' \cup c.devices : d.id = v.device /\ d.factory = v.factory
             /\ \E w \in tx'[p].valves : w.id = v.id
  <2>1. PICK d \in devices \cup c.devices : d.id = v.device /\ d.factory = v.factory
    BY DEF Placed
  <2>2. d \in devices' \cup c.devices
    BY <2>1 DEF Placed, RowsStay
  <2> QED
    BY <2>1, <2>2 DEF Placed, RowsStay
<1>4. \A v \in Overlay(valves', c.valves), w \in c.valves :
        v.factory = w.factory /\ v.tag = w.tag => v = w
  BY DEF Placed, RowsStay, Overlay
<1> QED
  BY <1>1, <1>2, <1>3, <1>4 DEF Placed

\* And each entry that p has written would still be written the same way.
LEMMA PutsStays ==
  ASSUME NEW p \in Push, NEW a, NEW b, NEW entry, NEW d, NEW row,
         Placed(p, a), Puts(p, a, b, entry, d, row), RowsStay(p)
  PROVE  Puts(p, a, b, entry, d, row)'
<1>0. FactoryOf(p)' = FactoryOf(p)
  BY DEF FactoryOf
<1>1. \A v \in Overlay(valves', a.valves) :
        v.factory = FactoryOf(p) \/ v.id = row.id => v \in Overlay(valves, a.valves)
  BY DEF Puts, RowsStay, Overlay
<1>2. \A v \in Overlay(valves, a.valves) : v.id = row.id => v \in Overlay(valves', a.valves)
  BY DEF Puts, RowsStay, Overlay
<1>3. d.factory = FactoryOf(p) /\ entry.unit \in {Absent, d.name} /\ d.id \in tx'[p].keyShare
  BY DEF Puts, RowsStay
<1>4. \/ d \in devices' \cup a.devices /\ b.devices = a.devices
      \/ /\ entry.unit # Absent /\ b.devices = a.devices \cup {d}
         /\ \A x \in devices' \cup a.devices : ~(x.factory = FactoryOf(p) /\ x.name = entry.unit)
  BY DEF Puts, RowsStay
<1>5. /\ IsValve(row) /\ row.factory = FactoryOf(p) /\ row.tag = entry.tag /\ row.device = d.id
      /\ b.valves = Overlay(a.valves, {row})
      /\ b.links = a.links \cup {<<row.id, Payload[p].serial>>}
  BY DEF Puts
<1>6. \E w \in tx'[p].valves : w.id = row.id
  BY DEF Puts, RowsStay
<1>7. ~Collides(Overlay(valves', a.valves), row)
  BY <1>1, <1>5 DEF Puts, Collides
<1>8. \/ \E old \in Overlay(valves', a.valves) :
           /\ old.id = row.id /\ old.factory = FactoryOf(p) /\ old.tag = entry.tag
           /\ row.serialNumber = IF entry.serialNumber = Absent THEN old.serialNumber
                                 ELSE entry.serialNumber
      \/ /\ row.serialNumber = entry.serialNumber
         /\ \A v \in Overlay(valves', a.valves) :
              ~(v.factory = FactoryOf(p) /\ v.tag = entry.tag) /\ v.id # row.id
  BY <1>1, <1>2 DEF Puts
<1>9. Collides(Overlay(valves, a.valves), row)' = Collides(Overlay(valves', a.valves), row)
  BY DEF Collides, Overlay
<1> QED
  BY <1>0, <1>3, <1>4, <1>5, <1>6, <1>7, <1>8 DEF Puts, Collides, Overlay

\* So its trace stays one, but for its last element.
LEMMA TraceStays ==
  ASSUME NEW p \in Push, NEW h, NEW m \in Nat, Trace(p, h, m), RowsStay(p)
  PROVE  /\ \A k \in 0..m : Placed(p, h[k])'
         /\ \A k \in 1..m : \E d, row : Puts(p, h[k-1], h[k], Payload[p].valves[k], d, row)'
<1>1. \A k \in 0..m : Placed(p, h[k])'
  BY PlacedStays DEF Trace
<1>2. ASSUME NEW k \in 1..m
      PROVE  \E d, row : Puts(p, h[k-1], h[k], Payload[p].valves[k], d, row)'
  <2>1. PICK d, row : Puts(p, h[k-1], h[k], Payload[p].valves[k], d, row)
    BY DEF Trace
  <2>2. Placed(p, h[k-1])
    BY DEF Trace
  <2> QED
    BY <2>1, <2>2, PutsStays
<1> QED
  BY <1>1, <1>2

\* The entries of a trace are entries of stores that tell their rows apart.
LEMMA PutsEnters ==
  ASSUME NEW p \in Push, NEW a, NEW b, NEW entry, NEW d, NEW row,
         Puts(p, a, b, entry, d, row)
  PROVE  Enters(Merged(p, a), Merged(p, b), FactoryOf(p), Payload[p].serial, entry, d, row)
<1>1. /\ Merged(p, a).devices = devices \cup a.devices /\ Merged(p, b).devices = devices \cup b.devices
      /\ Merged(p, a).valves = Overlay(valves, a.valves) /\ Merged(p, b).valves = Overlay(valves, b.valves)
      /\ Merged(p, a).links = links \cup a.links /\ Merged(p, b).links = links \cup b.links
      /\ Merged(p, a).factories = Merged(p, b).factories
      /\ Merged(p, a).workOrders = Merged(p, b).workOrders
  BY DEF Merged
<1>2. Overlay(valves, b.valves) = Overlay(Overlay(valves, a.valves), {row})
  BY DEF Puts, Overlay
<1>3. devices \cup b.devices = devices \cup a.devices \/ b.devices = a.devices \cup {d}
  BY DEF Puts
<1>4. links \cup b.links = (links \cup a.links) \cup {<<row.id, Payload[p].serial>>}
  BY DEF Puts
<1>5. \/ d \in devices \cup a.devices /\ devices \cup b.devices = devices \cup a.devices
      \/ /\ entry.unit # Absent /\ devices \cup b.devices = (devices \cup a.devices) \cup {d}
         /\ \A x \in devices \cup a.devices : ~(x.factory = FactoryOf(p) /\ x.name = entry.unit)
  BY DEF Puts
<1> QED
  BY <1>1, <1>2, <1>4, <1>5 DEF Puts, Enters

---------------------------------------------------------------------------
(* The inductive invariant of an open push *)

\* The tables say by factory and tag, or by factory and name, which row is meant.
RowsNamed == TagsOnce(valves) /\ Mounted(devices, valves)

\* The id is a key of the devices, the uncommitted ones among them.
DeviceKeys ==
  /\ \A d \in devices : d.id < seq.device
  /\ \A d, e \in devices : d.id = e.id => d = e
  /\ \A p \in Push : \A d \in tx[p].devices :
       /\ d.id < seq.device /\ \A e \in devices : e.id # d.id
       /\ \A q \in Push : \A e \in tx[q].devices : e.id = d.id => p = q /\ d = e

\* The device that a push has found for its entry, or created, fits the entry.
Fits(p, d) == d.factory = FactoryOf(p) /\ Entry(p).unit \in {Absent, d.name}

DeviceFound(p) ==
  pc[p] \in {"findValve", "writeValve"} =>
     /\ cursor[p].device < seq.device
     /\ \A d \in devices : d.id = cursor[p].device => Fits(p, d)
     /\ \A q \in Push : \A d \in tx[q].devices : d.id = cursor[p].device => Fits(p, d)

\* A device without a valve is the one the push has created for its next valve.
NewDeviceNext(p) ==
  \A d \in tx[p].devices : d.id \notin tx[p].keyShare =>
     /\ pc[p] \in {"findValve", "writeValve"}
     /\ d.id = cursor[p].device /\ Entry(p).unit = d.name

\* The devices that a push holds FOR KEY SHARE are there.
KeysHeld(p) == \A i \in tx[p].keyShare : \E d \in ViewDevices(p) : d.id = i

\* A push that has not written its work order has written nothing else.
Begins(p) ==
  pc[p] = "upsertWorkOrder" =>
     tx[p].devices = {} /\ tx[p].valves = {} /\ tx[p].links = {} /\ tx[p].keyShare = {}

\* It commits after its last entry, with its own version of the work order.
Ends(p) ==
  /\ HoldsOrder(p) => tx[p].workOrder.data = Payload[p].data
  /\ pc[p] = "commit" => cursor[p].index = Len(Payload[p].valves) + 1

InLane(p) == DeviceFound(p) /\ NewDeviceNext(p) /\ KeysHeld(p) /\ Begins(p) /\ Ends(p) /\ Traced(p)

\* What the refinement needs beside PushInv and OrderInv.
StageInv == RowsNamed /\ DeviceKeys /\ \A p \in Push : InLane(p)

\* A push that holds nothing is in order.
LEMMA LaneLeft ==
  ASSUME NEW p \in Push, tx[p] = NoTx, pc[p] \notin LockedSteps
  PROVE  InLane(p)
<1>1. NoTx.devices = {} /\ NoTx.keyShare = {}
  BY DEF NoTx
<1>2. pc[p] \notin {"findValve", "writeValve", "upsertWorkOrder", "commit"} /\ ~HoldsOrder(p)
  BY DEF LockedSteps, TxSteps, HoldsOrder
<1> QED
  BY <1>1, <1>2 DEF InLane, DeviceFound, NewDeviceNext, KeysHeld, Begins, Ends, Traced

\* The same in the next state.
LEMMA LaneLeftNext ==
  ASSUME NEW p \in Push, tx'[p] = NoTx, pc'[p] \notin LockedSteps
  PROVE  InLane(p)'
<1>1. NoTx.devices = {} /\ NoTx.keyShare = {}
  BY DEF NoTx
<1>2. pc'[p] \notin {"findValve", "writeValve", "upsertWorkOrder", "commit"} /\ ~HoldsOrder(p)'
  BY DEF LockedSteps, TxSteps, HoldsOrder
<1> QED
  BY <1>1, <1>2 DEF InLane, DeviceFound, NewDeviceNext, KeysHeld, Begins, Ends, Traced

\* Devices that appear are new, or were another push's.
DevicesOrdered ==
  /\ seq'.device \in Nat /\ seq.device <= seq'.device
  /\ \A d \in devices' : \/ d \in devices \/ \E q \in Push : d \in tx[q].devices
  /\ \A q \in Push : \A d \in tx'[q].devices : d \in tx[q].devices \/ d.id = seq.device

\* A step that leaves what p has written in its place leaves its trace.
LEMMA TracedStays ==
  ASSUME NEW p \in Push, Traced(p), RowsStay(p), HoldsOrder(p)' => HoldsOrder(p),
         Written(p)' = Written(p), cursor'[p].index = cursor[p].index
  PROVE  Traced(p)'
<1> SUFFICES ASSUME HoldsOrder(p)
             PROVE  \E h, m : m \in Nat /\ cursor'[p].index = m + 1 /\ Trace(p, h, m)'
  BY DEF Traced
<1>1. PICK h, m : m \in Nat /\ cursor[p].index = m + 1 /\ Trace(p, h, m)
  BY DEF Traced
<1>2. /\ \A k \in 0..m : Placed(p, h[k])'
      /\ \A k \in 1..m : \E d, row : Puts(p, h[k-1], h[k], Payload[p].valves[k], d, row)'
  BY <1>1, TraceStays
<1>3. Trace(p, h, m)'
  BY <1>1, <1>2 DEF Trace
<1> QED
  BY <1>1, <1>3

\* A step of others, or of an administrator, leaves a push in order.
LEMMA LaneStays ==
  ASSUME NEW p \in Push, PushTypeOK, InLane(p), DevicesOrdered, RowsStay(p),
         tx'[p] = tx[p], pc'[p] = pc[p], cursor'[p] = cursor[p]
  PROVE  InLane(p)'
<1>0. cursor[p] \in [index : Nat, device : Nat, valve : Nat] /\ seq.device \in Nat
  BY DEF PushTypeOK, StoreTypeOK
<1>1. /\ Entry(p)' = Entry(p) /\ FactoryOf(p)' = FactoryOf(p) /\ (HoldsOrder(p)' <=> HoldsOrder(p))
      /\ \A d : Fits(p, d)' <=> Fits(p, d)
  BY DEF Entry, FactoryOf, HoldsOrder, Fits
<1>2. DeviceFound(p)'
  BY <1>0, <1>1 DEF InLane, DeviceFound, DevicesOrdered
<1>3. NewDeviceNext(p)' /\ Begins(p)' /\ Ends(p)'
  BY <1>1 DEF InLane, NewDeviceNext, Begins, Ends
<1>4. KeysHeld(p)'
  BY DEF InLane, KeysHeld, ViewDevices, RowsStay
<1>5. Traced(p)'
  <2>1. Written(p)' = Written(p)
    BY DEF Written
  <2> QED
    BY <1>1, <2>1, TracedStays DEF InLane
<1> QED
  BY <1>2, <1>3, <1>4, <1>5 DEF InLane

---------------------------------------------------------------------------
(* The steps of a push before it writes valves *)

\* A step of p that changes no table and takes back nothing of its transaction
\* leaves the rows of all pushes where they are.
LEMMA OwnStepStays ==
  ASSUME NEW p \in Push, UNCHANGED <<devices, valves>>,
         tx[p].devices \subseteq tx'[p].devices, tx[p].keyShare \subseteq tx'[p].keyShare,
         \A v \in tx[p].valves : \E w \in tx'[p].valves : w.id = v.id
  PROVE  RowsStay(p)
BY DEF RowsStay

\* The found device is the only one of its id.
LEMMA FindDeviceLane ==
  ASSUME NEW p \in Push, PushTypeOK, DeviceKeys, InLane(p), FindDevice(p)
  PROVE  InLane(p)'
<1>0. /\ pc[p] = "findDevice" /\ UNCHANGED storeVars
      /\ cursor \in [Push -> [index : Nat, device : Nat, valve : Nat]] /\ pc \in [Push -> Steps]
  BY DEF FindDevice, PushTypeOK
<1>1. UNCHANGED <<devices, valves, seq, tx>>
  BY <1>0 DEF storeVars, tables
<1>2. HoldsOrder(p) /\ FactoryOf(p)' = FactoryOf(p)
  BY <1>0 DEF HoldsOrder, LockedSteps, TxSteps, FactoryOf
<1>3. \A d \in tx[p].devices : d.id \in tx[p].keyShare
  BY <1>0 DEF InLane, NewDeviceNext
<1>4. /\ cursor'[p].index = cursor[p].index
      /\ \/ pc'[p] = "createDevice"
         \/ pc'[p] = "findValve" /\ \E d \in NamedDevices(p) : cursor'[p].device = d.id
  BY <1>0 DEF FindDevice, Goto
<1>5. Entry(p)' = Entry(p)
  BY <1>4 DEF Entry
<1>6. DeviceFound(p)'
  <2> SUFFICES ASSUME NEW d \in NamedDevices(p), cursor'[p].device = d.id
               PROVE  /\ d.id < seq.device
                      /\ \A e \in devices : e.id = d.id => Fits(p, e)'
                      /\ \A q \in Push : \A e \in tx[q].devices : e.id = d.id => Fits(p, e)'
    BY <1>1, <1>4 DEF DeviceFound
  <2>1. d \in devices \/ d \in tx[p].devices
    BY DEF NamedDevices, ViewDevices
  <2>2. Fits(p, d)'
    BY <1>2, <1>5 DEF NamedDevices, Fits
  <2>3. /\ \A e \in devices : e.id = d.id => e = d
        /\ \A q \in Push : \A e \in tx[q].devices : e.id = d.id => e = d
    BY <2>1 DEF DeviceKeys
  <2> QED
    BY <2>1, <2>2, <2>3 DEF DeviceKeys
<1>7. NewDeviceNext(p)' /\ KeysHeld(p)'
  BY <1>1, <1>3 DEF NewDeviceNext, KeysHeld, ViewDevices, InLane
<1>8. Begins(p)' /\ Ends(p)'
  BY <1>1, <1>2, <1>4 DEF Begins, Ends, InLane
<1>9. Traced(p)'
  BY <1>1, <1>2, <1>4, OwnStepStays, TracedStays DEF InLane, Written
<1> QED
  BY <1>6, <1>7, <1>8, <1>9 DEF InLane

\* The device created has an id that no device has had, and no valve yet.
LEMMA CreateDeviceLane ==
  ASSUME NEW p \in Push, PushTypeOK, DeviceKeys, InLane(p), CreateDevice(p)
  PROVE  InLane(p)' /\ RowsStay(p)
<1> PICK row : row = [id |-> seq.device, factory |-> FactoryOf(p), name |-> Entry(p).unit]
  OBVIOUS
<1>0. /\ tx \in [Push -> Tx] /\ pc \in [Push -> Steps]
      /\ cursor \in [Push -> [index : Nat, device : Nat, valve : Nat]]
      /\ seq \in [device : Nat \ {0}, valve : Nat \ {0}]
  BY DEF PushTypeOK, StoreTypeOK
<1>1. /\ pc[p] = "createDevice" /\ pc'[p] = "findValve"
      /\ cursor'[p].index = cursor[p].index /\ cursor'[p].device = seq.device
      /\ seq'.device = seq.device + 1 /\ UNCHANGED <<devices, valves>>
  BY <1>0 DEF CreateDevice, Goto, tables
<1>2. /\ tx'[p].devices = tx[p].devices \cup {row} /\ tx'[p].keyShare = tx[p].keyShare
      /\ tx'[p].valves = tx[p].valves /\ tx'[p].links = tx[p].links
      /\ tx'[p].workOrder = tx[p].workOrder
      /\ \A q \in Push \ {p} : tx'[q] = tx[q]
  <2>1. tx' = [tx EXCEPT ![p] = [tx[p] EXCEPT !.devices = tx[p].devices \cup {row}]]
    BY DEF CreateDevice
  <2> QED
    BY <1>0, <2>1 DEF Tx
<1>3. HoldsOrder(p) /\ FactoryOf(p)' = FactoryOf(p) /\ Entry(p)' = Entry(p)
  BY <1>1 DEF HoldsOrder, LockedSteps, TxSteps, FactoryOf, Entry
<1>4. row.id = seq.device /\ Fits(p, row)' /\ row.name = Entry(p).unit
  BY <1>3 DEF Fits
<1>5. \A d \in tx[p].devices : d.id \in tx[p].keyShare
  BY <1>1 DEF InLane, NewDeviceNext
<1>6. DeviceFound(p)'
  <2>1. cursor'[p].device < seq'.device
    BY <1>0, <1>1
  <2>2. \A d \in devices : d.id # seq.device
    BY <1>0 DEF DeviceKeys
  <2>3. \A q \in Push : \A d \in tx[q].devices : d.id # seq.device
    BY <1>0 DEF DeviceKeys
  <2>4. \A q \in Push : \A d \in tx'[q].devices : d = row \/ d \in tx[q].devices
    BY <1>2
  <2> QED
    BY <2>1, <2>2, <2>3, <2>4, <1>1, <1>4 DEF DeviceFound
<1>7. NewDeviceNext(p)' /\ KeysHeld(p)'
  BY <1>1, <1>2, <1>3, <1>4, <1>5 DEF NewDeviceNext, KeysHeld, ViewDevices, InLane
<1>8. Begins(p)' /\ Ends(p)'
  BY <1>1, <1>2, <1>3 DEF Begins, Ends, InLane
<1>9. RowsStay(p)
  BY <1>1, <1>2, OwnStepStays
<1>10. Written(p)' = Written(p)
  <2>1. seq.device \notin tx[p].keyShare
    <3> SUFFICES ASSUME seq.device \in tx[p].keyShare PROVE FALSE
      OBVIOUS
    <3>1. PICK d \in ViewDevices(p) : d.id = seq.device
      BY DEF InLane, KeysHeld
    <3> QED
      BY <1>0, <3>1 DEF ViewDevices, DeviceKeys
  <2>2. {d \in tx'[p].devices : d.id \in tx'[p].keyShare} = {d \in tx[p].devices : d.id \in tx[p].keyShare}
    BY <1>2, <1>4, <2>1
  <2> QED
    BY <1>2, <2>2 DEF Written
<1>11. Traced(p)'
  BY <1>1, <1>3, <1>9, <1>10, TracedStays DEF InLane
<1> QED
  BY <1>6, <1>7, <1>8, <1>9, <1>11 DEF InLane

\* Looking for a valve changes nothing else.
LEMMA FindValveLane ==
  ASSUME NEW p \in Push, PushTypeOK, InLane(p), FindValve(p)
  PROVE  InLane(p)'
<1>0. /\ pc[p] = "findValve" /\ UNCHANGED storeVars
      /\ cursor \in [Push -> [index : Nat, device : Nat, valve : Nat]] /\ pc \in [Push -> Steps]
  BY DEF FindValve, PushTypeOK
<1>1. UNCHANGED <<devices, valves, seq, tx>>
  BY <1>0 DEF storeVars, tables
<1>2. pc'[p] = "writeValve" /\ cursor'[p].index = cursor[p].index /\ cursor'[p].device = cursor[p].device
  BY <1>0 DEF FindValve, Goto
<1>3. /\ HoldsOrder(p) /\ Entry(p)' = Entry(p) /\ \A d : Fits(p, d)' <=> Fits(p, d)
  BY <1>0, <1>2 DEF HoldsOrder, LockedSteps, TxSteps, FactoryOf, Entry, Fits
<1>4. DeviceFound(p)' /\ NewDeviceNext(p)'
  BY <1>0, <1>1, <1>2, <1>3 DEF InLane, DeviceFound, NewDeviceNext
<1>5. KeysHeld(p)' /\ Begins(p)' /\ Ends(p)'
  BY <1>1, <1>2, <1>3 DEF InLane, KeysHeld, ViewDevices, Begins, Ends
<1>6. Traced(p)'
  BY <1>1, <1>2, <1>3, OwnStepStays, TracedStays DEF InLane, Written
<1> QED
  BY <1>4, <1>5, <1>6 DEF InLane

\* The factory is the first thing a push writes.
LEMMA UpsertFactoryLane ==
  ASSUME NEW p \in Push, PushTypeOK, LocksHeld, UpsertFactory(p)
  PROVE  InLane(p)'
<1>1. tx[p] = NoTx /\ pc'[p] = "upsertWorkOrder"
  BY DEF UpsertFactory, Goto, PushTypeOK, LocksHeld, LockedSteps, TxSteps
<1>2. tx' = [tx EXCEPT ![p] = [tx[p] EXCEPT !.factory = FactoryOf(p)]]
  BY DEF UpsertFactory
<1>3. tx'[p].devices = {} /\ tx'[p].valves = {} /\ tx'[p].links = {} /\ tx'[p].keyShare = {}
  BY <1>1, <1>2 DEF PushTypeOK, StoreTypeOK, NoTx
<1> QED
  BY <1>1, <1>3 DEF InLane, DeviceFound, NewDeviceNext, KeysHeld, Begins, Ends, Traced,
                    HoldsOrder, LockedSteps, TxSteps

\* The trace begins when the work order has been written.
LEMMA UpsertWorkOrderLane ==
  ASSUME NEW p \in Push, PushTypeOK, InLane(p), UpsertWorkOrder(p)
  PROVE  InLane(p)'
<1>0. /\ tx \in [Push -> Tx] /\ pc \in [Push -> Steps] /\ cursor \in [Push -> [index : Nat, device : Nat, valve : Nat]]
      /\ pc[p] = "upsertWorkOrder"
  BY DEF PushTypeOK, StoreTypeOK, UpsertWorkOrder
<1>1. /\ tx[p].devices = {} /\ tx[p].valves = {} /\ tx[p].links = {} /\ tx[p].keyShare = {}
  BY <1>0 DEF InLane, Begins
<1>2. tx' = [tx EXCEPT ![p] = [tx[p] EXCEPT !.serial = Payload[p].serial,
                                            !.workOrder = OrderRow(p)]]
  BY DEF UpsertWorkOrder
<1>3. /\ tx'[p].devices = {} /\ tx'[p].valves = {} /\ tx'[p].links = {} /\ tx'[p].keyShare = {}
      /\ tx'[p].workOrder = OrderRow(p)
  BY <1>0, <1>1, <1>2 DEF Tx
<1>4. /\ Loop(p, 1) /\ UNCHANGED <<devices, valves>>
  BY DEF UpsertWorkOrder, tables
<1>5. /\ cursor'[p].index = 1
      /\ pc'[p] = IF 1 <= Len(Payload[p].valves) THEN "findDevice" ELSE "commit"
  BY <1>0, <1>4 DEF Loop, Goto, NoCursor
<1>6. /\ pc'[p] \in {"findDevice", "commit"}
      /\ pc'[p] = "commit" => cursor'[p].index = Len(Payload[p].valves) + 1
  BY <1>5, RequestTypes
<1>7. DeviceFound(p)' /\ NewDeviceNext(p)' /\ KeysHeld(p)' /\ Begins(p)' /\ Ends(p)'
  BY <1>3, <1>6 DEF DeviceFound, NewDeviceNext, KeysHeld, Begins, Ends, OrderRow
<1>8. Traced(p)'
  <2> DEFINE h == [k \in {0} |-> Blank]
  <2>1. h[0] = Blank /\ Written(p)' = Blank
    BY <1>3 DEF Written, Blank
  <2>2. Placed(p, Blank)'
    BY DEF Placed, Blank
  <2>3. 0..0 = {0} /\ 1..0 = {}
    OBVIOUS
  <2>4. Trace(p, h, 0)'
    <3> HIDE DEF h
    <3> QED
      BY <2>1, <2>2, <2>3 DEF Trace
  <2>5. 0 \in Nat /\ cursor'[p].index = 0 + 1
    BY <1>5
  <2> QED
    BY <2>4, <2>5 DEF Traced
<1> QED
  BY <1>7, <1>8 DEF InLane

---------------------------------------------------------------------------
(* The step that writes a valve extends the trace *)

\* A push sees one valve under a tag.
LEMMA ViewTagsOnce ==
  ASSUME NEW p \in Push, TagsOnce(valves), Placed(p, Written(p))
  PROVE  TagsOnce(ViewValves(p))
BY DEF TagsOnce, Placed, Written, ViewValves, Overlay

\* What the write of a valve changes: row is written and its device locked.
Writes(p, row) ==
  /\ row \in NewRows(p) /\ Writable(p, row)
  /\ tx'[p].valves = Overlay(tx[p].valves, {row})
  /\ tx'[p].links = tx[p].links \cup {<<row.id, Payload[p].serial>>}
  /\ tx'[p].keyShare = tx[p].keyShare \cup {row.device}
  /\ tx'[p].devices = tx[p].devices /\ tx'[p].workOrder = tx[p].workOrder
  /\ cursor'[p].index = cursor[p].index + 1
  /\ pc'[p] = IF cursor'[p].index <= Len(Payload[p].valves) THEN "findDevice" ELSE "commit"
  /\ UNCHANGED <<devices, valves>>

\* What WriteValve does to the rows and the cursor of the push.
LEMMA WriteWrites ==
  ASSUME NEW p \in Push, PushTypeOK, WriteValve(p)
  PROVE  \E row : Writes(p, row)
<1>0. /\ tx \in [Push -> Tx] /\ pc \in [Push -> Steps] /\ cursor \in [Push -> [index : Nat, device : Nat, valve : Nat]]
  BY DEF PushTypeOK, StoreTypeOK
<1>1. PICK row \in NewRows(p) :
        /\ Writable(p, row)
        /\ tx' = [tx EXCEPT ![p] = [tx[p] EXCEPT
                    !.valves = Overlay(tx[p].valves, {row}),
                    !.links = tx[p].links \cup {<<row.id, Payload[p].serial>>},
                    !.keyShare = tx[p].keyShare \cup {row.device}]]
  BY ZenonT(60) DEF WriteValve
<1>2. /\ tx'[p].valves = Overlay(tx[p].valves, {row})
      /\ tx'[p].links = tx[p].links \cup {<<row.id, Payload[p].serial>>}
      /\ tx'[p].keyShare = tx[p].keyShare \cup {row.device}
      /\ tx'[p].devices = tx[p].devices /\ tx'[p].workOrder = tx[p].workOrder
  BY <1>0, <1>1 DEF Tx
<1>3. Loop(p, cursor[p].index + 1) /\ UNCHANGED <<devices, valves>>
  BY DEF WriteValve, tables
<1>4. /\ cursor'[p].index = cursor[p].index + 1
      /\ pc'[p] = IF cursor'[p].index <= Len(Payload[p].valves) THEN "findDevice" ELSE "commit"
  BY <1>0, <1>3 DEF Loop, Goto, NoCursor
<1> QED
  BY <1>1, <1>2, <1>3, <1>4 DEF Writes

\* The device that the valve is mounted on, before and after.
LEMMA WriteDevice ==
  ASSUME NEW p \in Push, NEW row, PushTypeOK, CursorInLoop, ViewNamedOnce, DeviceKeys, InLane(p),
         pc[p] = "writeValve", Writes(p, row)
  PROVE  \E d \in ViewDevices(p) :
           /\ d.id = row.device /\ Fits(p, d)
           /\ \/ d \in devices \cup Written(p).devices /\ Written(p)'.devices = Written(p).devices
              \/ /\ Entry(p).unit # Absent /\ Written(p)'.devices = Written(p).devices \cup {d}
                 /\ \A x \in devices \cup Written(p).devices :
                      ~(x.factory = FactoryOf(p) /\ x.name = Entry(p).unit)
<1>1. PICK d \in ViewDevices(p) : d.id = row.device
  BY DEF Writes, Writable
<1>2. row.device = cursor[p].device
  BY DEF Writes, NewRows
<1>3. Fits(p, d) /\ d \in Device
  BY <1>1, <1>2, ViewTypes DEF InLane, DeviceFound, ViewDevices, PushTypeOK
<1>4. /\ Written(p).devices = {x \in tx[p].devices : x.id \in tx[p].keyShare}
      /\ Written(p)'.devices = {x \in tx[p].devices : x.id \in tx[p].keyShare \cup {row.device}}
  BY DEF Writes, Written
<1>5. \A x \in tx[p].devices : x.id = d.id => x = d
  BY <1>1 DEF DeviceKeys, ViewDevices
<1>6. CASE d \in devices
  <2>1. \A x \in tx[p].devices : x.id # d.id
    BY <1>6 DEF DeviceKeys
  <2>2. Written(p)'.devices = Written(p).devices
    BY <1>1, <1>4, <2>1
  <2> QED
    BY <1>1, <1>3, <1>6, <2>2
<1>7. CASE d \in tx[p].devices /\ d.id \in tx[p].keyShare
  <2>1. Written(p)'.devices = Written(p).devices /\ d \in Written(p).devices
    BY <1>1, <1>4, <1>7
  <2> QED
    BY <1>1, <1>3, <2>1
<1>8. CASE d \in tx[p].devices /\ d.id \notin tx[p].keyShare
  <2>1. Entry(p).unit = d.name /\ d.name # Absent
    BY <1>3, <1>8, InitialStoresAssumption DEF InLane, NewDeviceNext, Device
  <2>2. Written(p)'.devices = Written(p).devices \cup {d}
    BY <1>1, <1>4, <1>5, <1>8
  <2>3. ASSUME NEW x \in devices \cup Written(p).devices,
               x.factory = FactoryOf(p), x.name = Entry(p).unit
        PROVE  FALSE
    <3>1. x \in ViewDevices(p)
      BY <1>4 DEF ViewDevices
    <3>2. x = d
      BY <1>3, <2>1, <2>3, <3>1 DEF ViewNamedOnce, DevicesNamedOnce, Fits
    <3> QED
      BY <1>4, <1>8, <3>2 DEF DeviceKeys
  <2> QED
    BY <1>1, <1>3, <2>1, <2>2, <2>3
<1> QED
  BY <1>1, <1>6, <1>7, <1>8 DEF ViewDevices

\* The row of the valve, before and after.
LEMMA WriteRow ==
  ASSUME NEW p \in Push, NEW row, PushTypeOK, CursorInLoop, IdentityKept, FoundFits,
         pc[p] = "writeValve", Writes(p, row)
  PROVE  /\ IsValve(row) /\ row.factory = FactoryOf(p) /\ row.tag = Entry(p).tag
         /\ \/ \E old \in ViewValves(p) :
                 /\ old.id = row.id /\ old.factory = FactoryOf(p) /\ old.tag = Entry(p).tag
                 /\ row.serialNumber = IF Entry(p).serialNumber = Absent THEN old.serialNumber
                                       ELSE Entry(p).serialNumber
            \/ /\ row.serialNumber = Entry(p).serialNumber
               /\ \A v \in ViewValves(p) :
                    ~(v.factory = FactoryOf(p) /\ v.tag = Entry(p).tag) /\ v.id # row.id
<1>1. \A v \in ViewValves(p) : v \in Versions
  BY AllVersions DEF ViewValves, Overlay
<1>2. CASE Updates(p)
  <2>1. PICK old \in ViewValves(p) :
          /\ old.id = cursor[p].valve
          /\ row = [id |-> old.id, factory |-> FactoryOf(p), device |-> cursor[p].device,
                    tag |-> Entry(p).tag, serialNumber |-> NewSerial(p, old)]
    BY <1>2 DEF Writes, NewRows, OldRows
  <2>2. old.factory = FactoryOf(p) /\ old.tag = Entry(p).tag
    BY <1>1, <1>2, <2>1 DEF FoundFits
  <2> QED
    BY <2>1, <2>2 DEF NewSerial, IsValve
<1>3. CASE ~Updates(p)
  <2>1. row = [id |-> seq.valve, factory |-> FactoryOf(p), device |-> cursor[p].device,
               tag |-> Entry(p).tag, serialNumber |-> Entry(p).serialNumber]
    BY <1>3 DEF Writes, NewRows
  <2>2. TaggedValves(p) = {}
    BY <1>3 DEF FoundFits
  <2>3. \A v \in ViewValves(p) : v.id # seq.valve
    <3>1. ViewValves(p) \subseteq Valve /\ seq.valve \in Nat
      BY ViewTypes DEF PushTypeOK, StoreTypeOK
    <3> QED
      BY <1>1, <3>1 DEF IdentityKept, Valve
  <2> QED
    BY <2>1, <2>2, <2>3 DEF TaggedValves, IsValve
<1> QED
  BY <1>2, <1>3

\* So what the push has written stays in its place, with one entry more.
LEMMA WritePlaces ==
  ASSUME NEW p \in Push, NEW row, NEW a, NEW b, NEW entry,
         a = Written(p), b = Written(p)', entry = Entry(p),
         PushTypeOK, CursorInLoop, ViewNamedOnce, TagsOnce(valves),
         IdentityKept, KeysUnique, FoundFits, DeviceKeys, InLane(p), pc[p] = "writeValve",
         Placed(p, a), Writes(p, row)
  PROVE  RowsStay(p) /\ Placed(p, b)' /\ \E d : Puts(p, a, b, entry, d, row)'
<1>0. FactoryOf(p)' = FactoryOf(p) /\ UNCHANGED <<devices, valves>>
  BY DEF FactoryOf, Writes
<1>1. a.valves = tx[p].valves /\ a.links = tx[p].links /\ a.devices \subseteq tx[p].devices
  BY DEF Written
<1>2. b.valves = tx'[p].valves /\ b.links = tx'[p].links /\ b.devices \subseteq tx'[p].devices
  BY DEF Written
<1>3. /\ tx'[p].valves = Overlay(tx[p].valves, {row})
      /\ tx'[p].links = tx[p].links \cup {<<row.id, Payload[p].serial>>}
      /\ tx'[p].keyShare = tx[p].keyShare \cup {row.device} /\ tx'[p].devices = tx[p].devices
  BY DEF Writes
<1>4. RowsStay(p)
  <2>1. \A v \in tx[p].valves : \E w \in tx'[p].valves : w.id = v.id
    BY <1>3 DEF Overlay
  <2> QED
    BY <1>0, <1>3, <2>1, OwnStepStays
<1>5. PICK d \in ViewDevices(p) :
        /\ d.id = row.device /\ Fits(p, d)
        /\ \/ d \in devices \cup a.devices /\ b.devices = a.devices
           \/ /\ entry.unit # Absent /\ b.devices = a.devices \cup {d}
              /\ \A x \in devices \cup a.devices :
                   ~(x.factory = FactoryOf(p) /\ x.name = entry.unit)
  BY WriteDevice
<1>6. /\ IsValve(row) /\ row.factory = FactoryOf(p) /\ row.tag = entry.tag
      /\ \/ \E old \in ViewValves(p) :
              /\ old.id = row.id /\ old.factory = FactoryOf(p) /\ old.tag = entry.tag
              /\ row.serialNumber = IF entry.serialNumber = Absent THEN old.serialNumber
                                    ELSE entry.serialNumber
         \/ /\ row.serialNumber = entry.serialNumber
            /\ \A v \in ViewValves(p) :
                 ~(v.factory = FactoryOf(p) /\ v.tag = entry.tag) /\ v.id # row.id
  BY WriteRow
<1>7. ViewValves(p) = Overlay(valves, a.valves) /\ ~Collides(Overlay(valves, a.valves), row)
  BY <1>1 DEF ViewValves, Writes, Writable
<1>8. row \in tx'[p].valves
  BY <1>3 DEF Overlay
<1>9. d.factory = FactoryOf(p) /\ entry.unit \in {Absent, d.name} /\ d.id \in tx'[p].keyShare
  BY <1>3, <1>5 DEF Fits
<1>10. Puts(p, a, b, entry, d, row)'
  <2>1. b.valves = Overlay(a.valves, {row}) /\ b.links = a.links \cup {<<row.id, Payload[p].serial>>}
    BY <1>1, <1>2, <1>3
  <2>2. /\ ~Collides(Overlay(valves', a.valves), row)
        /\ \/ \E old \in Overlay(valves', a.valves) :
                /\ old.id = row.id /\ old.factory = FactoryOf(p) /\ old.tag = entry.tag
                /\ row.serialNumber = IF entry.serialNumber = Absent THEN old.serialNumber
                                      ELSE entry.serialNumber
           \/ /\ row.serialNumber = entry.serialNumber
              /\ \A v \in Overlay(valves', a.valves) :
                   ~(v.factory = FactoryOf(p) /\ v.tag = entry.tag) /\ v.id # row.id
    BY <1>0, <1>6, <1>7
  <2> QED
    BY <1>0, <1>5, <1>6, <1>8, <1>9, <2>1, <2>2 DEF Puts, Collides, Overlay
<1>11. TagsOnce(ViewValves(p))
  BY ViewTagsOnce
<1>12. Placed(p, b)'
  <2>1. a.devices \subseteq b.devices /\ d \in devices' \cup b.devices
    BY <1>0, <1>5
  <2>2. b.valves = Overlay(a.valves, {row})
    BY <1>1, <1>2, <1>3
  <2>3. ASSUME NEW v \in b.valves
        PROVE  /\ v.factory = FactoryOf(p) /\ v.device \in tx'[p].keyShare
               /\ \E e \in devices' \cup b.devices : e.id = v.device /\ e.factory = v.factory
               /\ \E w \in tx'[p].valves : w.id = v.id
    <3>1. CASE v = row
      BY <3>1, <1>5, <1>6, <1>8, <1>9, <2>1
    <3>2. CASE v \in a.valves
      <4>1. /\ v.factory = FactoryOf(p) /\ v.device \in tx[p].keyShare
            /\ \E e \in devices \cup a.devices : e.id = v.device /\ e.factory = v.factory
        BY <3>2 DEF Placed
      <4> QED
        BY <1>0, <1>2, <1>3, <2>1, <4>1
    <3> QED
      BY <2>2, <3>1, <3>2 DEF Overlay
  <2>4. \A v, w \in b.valves : v.id = w.id => v = w
    BY <2>2 DEF Placed, Overlay
  <2>5. ASSUME NEW v \in Overlay(valves', b.valves), NEW w \in b.valves,
               v.factory = w.factory, v.tag = w.tag
        PROVE  v = w
    <3>1. \A x \in Overlay(valves', b.valves) : x = row \/ (x \in ViewValves(p) /\ x.id # row.id)
      BY <1>0, <1>7, <2>2 DEF Overlay
    <3>2. w \in Overlay(valves', b.valves)
      BY DEF Overlay
    <3>3. \A x \in ViewValves(p) : x.factory = row.factory /\ x.tag = row.tag => x.id = row.id
      BY <1>6, <1>11 DEF TagsOnce
    <3> QED
      BY <2>5, <3>1, <3>2, <3>3, <1>11 DEF TagsOnce
  <2>6. \A l \in b.links : \E v \in b.valves : v.id = l[1]
    BY <1>1, <1>2, <1>3, <2>2 DEF Placed, Overlay
  <2> QED
    BY <1>0, <1>2, <2>3, <2>4, <2>5, <2>6 DEF Placed, Overlay
<1> QED
  BY <1>4, <1>10, <1>12

\* And the trace is one longer.
LEMMA WriteValveLane ==
  ASSUME NEW p \in Push, PushTypeOK, CursorInLoop, ViewNamedOnce, TagsOnce(valves),
         IdentityKept, KeysUnique, FoundFits, DeviceKeys, InLane(p), WriteValve(p)
  PROVE  InLane(p)'
<1>0. pc[p] = "writeValve" /\ cursor[p].index \in 1..Len(Payload[p].valves) /\ HoldsOrder(p)
  BY DEF WriteValve, CursorInLoop, LoopSteps, HoldsOrder, LockedSteps, TxSteps
<1>1. PICK row : Writes(p, row)
  BY WriteWrites
<1>2. PICK h, m : m \in Nat /\ cursor[p].index = m + 1 /\ Trace(p, h, m)
  BY <1>0 DEF InLane, Traced
<1>3. PICK a, b, entry : a = Written(p) /\ b = Written(p)' /\ entry = Entry(p)
  OBVIOUS
<1>4. Placed(p, a) /\ h[m] = a
  BY <1>2, <1>3 DEF Trace
<1>5. RowsStay(p) /\ Placed(p, b)' /\ \E d : Puts(p, a, b, entry, d, row)'
  BY <1>0, <1>1, <1>3, <1>4, WritePlaces
<1>6. entry = Payload[p].valves[m+1] /\ m + 1 <= Len(Payload[p].valves)
  BY <1>0, <1>2, <1>3 DEF Entry
<1>7. Traced(p)'
  <2> DEFINE g == [k \in 0..(m+1) |-> IF k = m + 1 THEN b ELSE h[k]]
  <2>1. g[m+1] = b /\ \A k \in 0..m : g[k] = h[k]
    BY <1>2
  <2> HIDE DEF g
  <2>2. /\ \A k \in 0..m : Placed(p, h[k])'
        /\ \A k \in 1..m : \E d, r : Puts(p, h[k-1], h[k], Payload[p].valves[k], d, r)'
    BY <1>2, <1>5, TraceStays
  <2>3. \A k \in 0..(m+1) : Placed(p, g[k])'
    <3> SUFFICES ASSUME NEW k \in 0..(m+1) PROVE Placed(p, g[k])'
      OBVIOUS
    <3>1. k = m + 1 \/ k \in 0..m
      BY <1>2
    <3> QED
      BY <3>1, <1>5, <2>1, <2>2
  <2>4. \A k \in 1..(m+1) : \E d, r : Puts(p, g[k-1], g[k], Payload[p].valves[k], d, r)'
    <3> SUFFICES ASSUME NEW k \in 1..(m+1)
                 PROVE  \E d, r : Puts(p, g[k-1], g[k], Payload[p].valves[k], d, r)'
      OBVIOUS
    <3>1. CASE k = m + 1
      <4>1. g[k-1] = a /\ g[k] = b /\ Payload[p].valves[k] = entry
        BY <3>1, <1>2, <1>4, <1>6, <2>1
      <4> QED
        BY <4>1, <1>5
    <3>2. CASE k \in 1..m
      <4>1. g[k-1] = h[k-1] /\ g[k] = h[k]
        BY <3>2, <1>2, <2>1
      <4> QED
        BY <3>2, <4>1, <2>2
    <3> QED
      BY <3>1, <3>2, <1>2
  <2>5. g[0] = Blank /\ g[m+1] = Written(p)'
    BY <1>2, <1>3, <2>1 DEF Trace
  <2>6. Trace(p, g, m + 1)'
    BY <2>3, <2>4, <2>5 DEF Trace
  <2>7. m + 1 \in Nat /\ cursor'[p].index = (m + 1) + 1
    BY <1>1, <1>2 DEF Writes
  <2> QED
    BY <2>6, <2>7 DEF Traced
<1>8. /\ pc'[p] \in {"findDevice", "commit"}
      /\ pc'[p] = "commit" => cursor'[p].index = Len(Payload[p].valves) + 1
  BY <1>0, <1>1, RequestTypes DEF Writes
<1>9. DeviceFound(p)' /\ Begins(p)' /\ Ends(p)'
  BY <1>0, <1>1, <1>8 DEF DeviceFound, Begins, Ends, InLane, Writes
<1>10. row.device = cursor[p].device /\ \E d \in ViewDevices(p) : d.id = row.device
  BY <1>1 DEF Writes, NewRows, Writable
<1>11. NewDeviceNext(p)' /\ KeysHeld(p)'
  BY <1>1, <1>10 DEF NewDeviceNext, KeysHeld, InLane, Writes, ViewDevices
<1> QED
  BY <1>7, <1>9, <1>11 DEF InLane

---------------------------------------------------------------------------
(* The other pushes, and the ids *)

\* A step of p alone that changes no device and no valve of the tables.
OwnStep(p) ==
  /\ UNCHANGED <<devices, valves>>
  /\ \A q \in Push \ {p} : tx'[q] = tx[q] /\ pc'[q] = pc[q] /\ cursor'[q] = cursor[q]

\* Every step of a push but its commit is one.
LEMMA AdvanceOwn ==
  ASSUME NEW p \in Push, PushTypeOK, Receive(p) \/ Advance(p), ~Commit(p)
  PROVE  OwnStep(p) /\ (~CreateDevice(p) => seq'.device = seq.device)
<1>0. /\ tx \in [Push -> Tx] /\ pc \in [Push -> Steps] /\ cursor \in [Push -> [index : Nat, device : Nat, valve : Nat]]
      /\ seq \in [device : Nat \ {0}, valve : Nat \ {0}]
  BY DEF PushTypeOK, StoreTypeOK
<1>1. CASE UpsertWorkOrder(p)
  BY <1>0, <1>1 DEF UpsertWorkOrder, Loop, Goto, OwnStep, tables
<1>2. CASE WriteValve(p)
  BY <1>0, <1>2 DEF WriteValve, Loop, Goto, OwnStep, tables
<1>3. CASE ~UpsertWorkOrder(p) /\ ~WriteValve(p)
  <2>1. \A q \in Push \ {p} : tx'[q] = tx[q] /\ pc'[q] = pc[q] /\ cursor'[q] = cursor[q]
    BY <1>3, AdvanceQuiet DEF Quiet
  <2>2. UNCHANGED <<devices, valves>> /\ (~CreateDevice(p) => seq'.device = seq.device)
    BY <1>3 DEF Receive, Advance, UpsertFactory, FindDevice, CreateDevice, RefuseDevice, FindValve,
         RefuseValve, RecordSuccess, RecordFailure, Record, RollBack, storeVars, tables
  <2> QED
    BY <2>1, <2>2 DEF OwnStep
<1> QED
  BY <1>1, <1>2, <1>3

\* It leaves the others in order.
LEMMA OthersLane ==
  ASSUME NEW p \in Push, PushTypeOK, OwnStep(p), DevicesOrdered, \A q \in Push : InLane(q), InLane(p)'
  PROVE  \A q \in Push : InLane(q)'
<1> SUFFICES ASSUME NEW q \in Push \ {p} PROVE InLane(q)'
  OBVIOUS
<1>1. tx'[q] = tx[q] /\ pc'[q] = pc[q] /\ cursor'[q] = cursor[q]
  BY DEF OwnStep
<1>2. RowsStay(q)
  BY <1>1, OwnStepStays DEF OwnStep
<1> QED
  BY <1>1, <1>2, LaneStays

\* Without a new device the keys stay keys.
LEMMA KeysStay ==
  ASSUME PushTypeOK, DeviceKeys, AddsNoDevice, seq'.device = seq.device
  PROVE  DeviceKeys' /\ DevicesOrdered
<1>1. seq.device \in Nat
  BY DEF PushTypeOK, StoreTypeOK
<1>2. DevicesOrdered
  BY <1>1 DEF DevicesOrdered, AddsNoDevice
<1>3. DeviceKeys'
  BY DEF DeviceKeys, AddsNoDevice
<1> QED
  BY <1>2, <1>3

\* With one, too: its id comes from the sequence.
LEMMA NewKey ==
  ASSUME NEW p \in Push, PushTypeOK, DeviceKeys, CreateDevice(p)
  PROVE  DeviceKeys' /\ DevicesOrdered
<1> PICK row : row = [id |-> seq.device, factory |-> FactoryOf(p), name |-> Entry(p).unit]
  OBVIOUS
<1>0. tx \in [Push -> Tx] /\ seq \in [device : Nat \ {0}, valve : Nat \ {0}]
  BY DEF PushTypeOK, StoreTypeOK
<1>1. tx' = [tx EXCEPT ![p] = [tx[p] EXCEPT !.devices = tx[p].devices \cup {row}]]
  BY DEF CreateDevice
<1>2. /\ tx'[p].devices = tx[p].devices \cup {row} /\ \A q \in Push \ {p} : tx'[q] = tx[q]
      /\ devices' = devices /\ seq'.device = seq.device + 1 /\ row.id = seq.device
  BY <1>0, <1>1 DEF Tx, CreateDevice, tables
<1>3. seq.device \in Nat /\ seq'.device \in Nat /\ seq.device < seq'.device
  BY <1>0, <1>2
<1>4. \A q \in Push : tx[q].devices \subseteq Device
  BY <1>0 DEF Tx
<1>5. \A q \in Push : \A d \in tx[q].devices : d.id \in Nat /\ d.id < seq.device
  BY <1>4 DEF Device, DeviceKeys
<1>6. \A d \in devices : d.id \in Nat /\ d.id < seq.device
  BY DEF PushTypeOK, StoreTypeOK, Device, DeviceKeys
<1>7. \A q \in Push : \A d \in tx'[q].devices : d \in tx[q].devices \/ (q = p /\ d = row)
  BY <1>2
<1>8. DevicesOrdered
  BY <1>2, <1>3, <1>7 DEF DevicesOrdered
<1>9. DeviceKeys'
  <2>1. /\ \A d \in devices' : d.id < seq'.device
        /\ \A d, e \in devices' : d.id = e.id => d = e
    BY <1>2, <1>3, <1>6 DEF DeviceKeys
  <2>2. ASSUME NEW r \in Push, NEW d \in tx'[r].devices
        PROVE  /\ d.id < seq'.device /\ \A e \in devices' : e.id # d.id
               /\ \A q \in Push : \A e \in tx'[q].devices : e.id = d.id => r = q /\ d = e
    <3>1. CASE d \in tx[r].devices
      <4>1. d.id # row.id /\ d.id < seq'.device
        BY <3>1, <1>2, <1>3, <1>5
      <4> QED
        BY <3>1, <4>1, <1>2, <1>7 DEF DeviceKeys
    <3>2. CASE r = p /\ d = row
      <4>1. \A q \in Push : \A e \in tx[q].devices : e.id # d.id
        BY <3>2, <1>2, <1>3, <1>5
      <4>2. \A e \in devices : e.id # d.id
        BY <3>2, <1>2, <1>3, <1>6
      <4> QED
        BY <3>2, <4>1, <4>2, <1>2, <1>3, <1>7
    <3> QED
      BY <1>7, <3>1, <3>2
  <2> QED
    BY <2>1, <2>2 DEF DeviceKeys
<1> QED
  BY <1>8, <1>9

\* A rollback is a step of its own.
LEMMA RollBackStage ==
  ASSUME NEW p \in Push, PushTypeOK, StageInv, RollBack(p)
  PROVE  StageInv'
<1>1. /\ tx'[p] = NoTx /\ pc'[p] = "recordFailure" /\ OwnStep(p) /\ seq' = seq
  BY DEF RollBack, Goto, OwnStep, PushTypeOK, StoreTypeOK, tables
<1>2. InLane(p)'
  BY <1>1, LaneLeftNext DEF LockedSteps, TxSteps
<1>3. DeviceKeys' /\ DevicesOrdered
  BY <1>1, RollBackDevices, KeysStay DEF StageInv
<1>4. \A q \in Push : InLane(q)'
  BY <1>1, <1>2, <1>3, OthersLane DEF StageInv
<1>5. RowsNamed'
  BY <1>1 DEF StageInv, RowsNamed, OwnStep, TagsOnce, Mounted
<1> QED
  BY <1>3, <1>4, <1>5 DEF StageInv

\* The other steps of a push.
LEMMA AdvanceStage ==
  ASSUME NEW p \in Push, PushInv, OrderInv, StageInv, Receive(p) \/ Advance(p), ~Commit(p)
  PROVE  StageInv'
<1>0. /\ PushTypeOK /\ CursorInLoop /\ LocksHeld /\ ViewNamedOnce
      /\ IdentityKept /\ KeysUnique /\ FoundFits
  BY DEF PushInv, OrderInv
<1>1. TagsOnce(valves) /\ DeviceKeys /\ InLane(p)
  BY DEF StageInv, RowsNamed
<1>2. CASE RefuseDevice(p) \/ RefuseValve(p)
  BY <1>0, <1>2, RollBackStage DEF RefuseDevice, RefuseValve
<1>3. CASE ~RefuseDevice(p) /\ ~RefuseValve(p)
  <2>1. OwnStep(p) /\ (~CreateDevice(p) => seq'.device = seq.device)
    BY <1>0, AdvanceOwn
  <2>2. DeviceKeys' /\ DevicesOrdered
    <3>1. CASE CreateDevice(p)
      BY <3>1, <1>0, <1>1, NewKey
    <3>2. CASE ~CreateDevice(p)
      BY <3>2, <1>0, <1>1, <2>1, OtherStepsAddNoDevice, KeysStay
    <3> QED
      BY <3>1, <3>2
  <2>3. InLane(p)'
    <3>1. CASE Receive(p) \/ RecordSuccess(p) \/ RecordFailure(p)
      <4>1. tx' = tx /\ pc[p] \notin LockedSteps /\ pc'[p] \notin LockedSteps
        BY <1>0, <3>1 DEF Receive, RecordSuccess, RecordFailure, Record, Goto, storeVars,
             PushTypeOK, LockedSteps, TxSteps
      <4> QED
        BY <4>1, <1>0, LaneLeftNext DEF LocksHeld
    <3>2. CASE UpsertFactory(p) \/ UpsertWorkOrder(p) \/ FindDevice(p)
      BY <3>2, <1>0, <1>1, UpsertFactoryLane, UpsertWorkOrderLane, FindDeviceLane
    <3>3. CASE CreateDevice(p) \/ FindValve(p) \/ WriteValve(p)
      BY <3>3, <1>0, <1>1, CreateDeviceLane, FindValveLane, WriteValveLane
    <3> QED
      BY <1>3, <3>1, <3>2, <3>3 DEF Advance
  <2>4. \A q \in Push : InLane(q)'
    BY <1>0, <2>1, <2>2, <2>3, OthersLane DEF StageInv
  <2>5. RowsNamed'
    BY <2>1 DEF StageInv, RowsNamed, OwnStep, TagsOnce, Mounted
  <2> QED
    BY <2>2, <2>4, <2>5 DEF StageInv
<1> QED
  BY <1>2, <1>3

---------------------------------------------------------------------------
(* Commits, deletes and crashes keep the invariant *)

\* A commit changes rows of one factory only, which no other push works in.
LEMMA CommitRowsStay ==
  ASSUME NEW p \in Push, NEW q \in Push \ {p}, PushInv, OrderInv, Commits(p), pc[q] \in LockedSteps
  PROVE  RowsStay(q)
<1>0. PushTypeOK /\ LocksHeld /\ OneWriterPerFactory /\ OwnDevices /\ OwnWrites /\ IdentityKept
  BY DEF PushInv, OrderInv
<1>1. tx'[q] = tx[q] /\ FactoryOf(q) # FactoryOf(p)
  BY <1>0, CommitsAlone
<1>2. devices' = devices \cup tx[p].devices /\ valves' = Overlay(valves, tx[p].valves)
  BY DEF Commits, Publish, ViewDevices, ViewValves
<1>3. /\ \A d \in tx[p].devices : d.factory # FactoryOf(q)
      /\ \A v \in tx[p].valves : v.factory # FactoryOf(q)
      /\ \A w \in tx[q].valves : w.factory = FactoryOf(q)
  BY <1>0, <1>1 DEF OwnDevices, OwnWrites
<1>4. \A v \in tx[p].valves, w \in tx[q].valves : v.id # w.id
  BY <1>0, <1>3, AllVersions DEF IdentityKept
<1> QED
  BY <1>1, <1>2, <1>3, <1>4 DEF RowsStay, Overlay

\* A commit keeps the invariant: its rows become the committed ones, and the others
\* work in other factories.
LEMMA CommitStage ==
  ASSUME NEW p \in Push, PushInv, OrderInv, StageInv, Commits(p)
  PROVE  StageInv'
<1>0. /\ PushTypeOK /\ LocksHeld /\ OneWriterPerFactory
      /\ RowsNamed /\ DeviceKeys /\ \A q \in Push : InLane(q)
  BY DEF PushInv, StageInv
<1>1. /\ tx'[p] = NoTx /\ pc'[p] \notin LockedSteps /\ cursor' = cursor /\ seq' = seq
      /\ \A q \in Push \ {p} : tx'[q] = tx[q] /\ pc'[q] = pc[q]
  BY <1>0, CommitsAlone
<1>2. devices' = devices \cup tx[p].devices /\ valves' = Overlay(valves, tx[p].valves)
  BY DEF Commits, Publish, ViewDevices, ViewValves
<1>3. NoTx.devices = {} /\ seq.device \in Nat
  BY <1>0 DEF NoTx, PushTypeOK, StoreTypeOK
<1>4. DeviceKeys' /\ DevicesOrdered
  <2>1. /\ \A d \in devices' : d.id < seq'.device
        /\ \A d, e \in devices' : d.id = e.id => d = e
    BY <1>0, <1>1, <1>2 DEF DeviceKeys
  <2>2. ASSUME NEW q \in Push, NEW d \in tx'[q].devices
        PROVE  /\ d.id < seq'.device /\ \A e \in devices' : e.id # d.id
               /\ \A r \in Push : \A e \in tx'[r].devices : e.id = d.id => q = r /\ d = e
    <3>1. q # p /\ d \in tx[q].devices
      BY <1>1, <1>3
    <3> QED
      BY <3>1, <1>0, <1>1, <1>2, <1>3 DEF DeviceKeys
  <2>3. DevicesOrdered
    BY <1>1, <1>2, <1>3 DEF DevicesOrdered
  <2> QED
    BY <2>1, <2>2, <2>3 DEF DeviceKeys
<1>5. ASSUME NEW q \in Push
      PROVE  InLane(q)'
  <2>1. CASE q = p
    BY <2>1, <1>1, LaneLeftNext
  <2>2. CASE q # p /\ pc[q] \in LockedSteps
    BY <2>2, <1>0, <1>1, <1>4, CommitRowsStay, LaneStays
  <2>3. CASE q # p /\ pc[q] \notin LockedSteps
    BY <2>3, <1>0, <1>1, LaneLeftNext DEF LocksHeld
  <2> QED
    BY <2>1, <2>2, <2>3
<1>6. Placed(p, Written(p))
  <2>1. PICK h, m : m \in Nat /\ Trace(p, h, m)
    BY <1>0 DEF InLane, Traced, Commits, HoldsOrder, LockedSteps, TxSteps
  <2> QED
    BY <2>1 DEF Trace
<1>7. RowsNamed'
  <2>1. TagsOnce(valves')
    BY <1>0, <1>2, <1>6, ViewTagsOnce DEF RowsNamed, ViewValves
  <2>2. Mounted(devices', valves')
    <3>1. \A v \in tx[p].valves : \E d \in devices' : d.id = v.device /\ d.factory = v.factory
      BY <1>2, <1>6 DEF Placed, Written
    <3>2. \A v \in valves : \E d \in devices' : d.id = v.device /\ d.factory = v.factory
      BY <1>0, <1>2 DEF RowsNamed, Mounted
    <3> QED
      BY <1>2, <3>1, <3>2 DEF Mounted, Overlay
  <2> QED
    BY <2>1, <2>2 DEF RowsNamed
<1> QED
  BY <1>4, <1>5, <1>7 DEF StageInv

\* A delete takes a device only with its valves, and no row that is locked.
LEMMA RemoveRows ==
  ASSUME PushTypeOK, AdminRemove, RowsNamed
  PROVE  /\ UNCHANGED <<tx, seq>>
         /\ devices' \subseteq devices /\ valves' \subseteq valves
         /\ Mounted(devices', valves')
         /\ \A d \in devices : DeviceKeyShared(d) => d \in devices'
         /\ \A v \in valves : ValveLocked(v) => v \in valves'
<1>1. CASE \E gone \in OneOrAll(valves) : RemoveValves(gone)
  BY <1>1 DEF RemoveValves, DeleteValves, RowsNamed, Mounted
<1>2. CASE \E gone \in OneOrAll(devices) : RemoveDevices(gone)
  <2>1. PICK gone \in OneOrAll(devices) : RemoveDevices(gone)
    BY <1>2
  <2> DEFINE mounted == {v \in valves : \E d \in gone : v.device = d.id}
  <2>2. /\ \A d \in gone : ~DeviceKeyShared(d)
        /\ \A v \in mounted : ~ValveLocked(v)
        /\ devices' = devices \ gone /\ valves' = valves \ mounted /\ UNCHANGED <<tx, seq>>
    BY <2>1 DEF RemoveDevices, DeleteValves
  <2> QED
    BY <2>2 DEF RowsNamed, Mounted
<1>3. CASE \E gone \in SUBSET Factory : RemoveFactories(gone)
  <2>1. PICK gone \in SUBSET Factory : RemoveFactories(gone)
    BY <1>3
  <2> DEFINE built == {d \in devices : d.factory \in gone}
             owned == {v \in valves : v.factory \in gone \/ \E d \in built : v.device = d.id}
  <2>2. /\ \A d \in built : ~DeviceKeyShared(d)
        /\ \A v \in owned : ~ValveLocked(v)
        /\ devices' = devices \ built /\ valves' = valves \ owned /\ UNCHANGED <<tx, seq>>
    BY <2>1 DEF RemoveFactories
  <2> QED
    BY <2>2 DEF RowsNamed, Mounted
<1> QED
  BY <1>1, <1>2, <1>3 DEF AdminRemove

\* The administrators' deletes keep it: they wait for every row a push relies on.
LEMMA RemoveStage ==
  ASSUME PushTypeOK, StageInv, AdminRemove, UNCHANGED pushVars
  PROVE  StageInv'
<1>0. RowsNamed /\ DeviceKeys /\ (\A q \in Push : InLane(q)) /\ UNCHANGED <<pc, cursor>>
  BY DEF StageInv, pushVars
<1>1. /\ UNCHANGED <<tx, seq>>
      /\ devices' \subseteq devices /\ valves' \subseteq valves
      /\ Mounted(devices', valves')
      /\ \A d \in devices : DeviceKeyShared(d) => d \in devices'
      /\ \A v \in valves : ValveLocked(v) => v \in valves'
  BY <1>0, RemoveRows
<1>2. AddsNoDevice
  BY <1>0, <1>1 DEF AddsNoDevice
<1>3. DeviceKeys' /\ DevicesOrdered
  BY <1>0, <1>1, <1>2, KeysStay
<1>4. RowsNamed'
  BY <1>0, <1>1 DEF RowsNamed, TagsOnce
<1>5. ASSUME NEW q \in Push PROVE InLane(q)'
  <2>1. RowsStay(q)
    BY <1>1 DEF RowsStay, DeviceKeyShared, ValveLocked
  <2> QED
    BY <2>1, <1>0, <1>1, <1>3, LaneStays
<1> QED
  BY <1>3, <1>4, <1>5 DEF StageInv

\* A server that stops takes its pushes along, and disturbs no other.
LEMMA CrashStage ==
  ASSUME NEW h \in Host, PushTypeOK, StageInv, Crash(h)
  PROVE  StageInv'
<1>0. RowsNamed /\ DeviceKeys /\ \A q \in Push : InLane(q)
  BY DEF StageInv
<1>1. /\ UNCHANGED <<devices, valves, seq, cursor>>
      /\ \A q \in Push : \/ tx'[q] = NoTx /\ pc'[q] = "lost"
                         \/ tx'[q] = tx[q] /\ pc'[q] = pc[q]
  BY DEF Crash, tables
<1>2. AddsNoDevice
  BY <1>1 DEF AddsNoDevice, NoTx
<1>3. DeviceKeys' /\ DevicesOrdered
  BY <1>0, <1>1, <1>2, KeysStay
<1>4. ASSUME NEW q \in Push PROVE InLane(q)'
  <2>1. CASE tx'[q] = NoTx /\ pc'[q] = "lost"
    BY <2>1, LaneLeftNext DEF LockedSteps, TxSteps
  <2>2. CASE tx'[q] = tx[q] /\ pc'[q] = pc[q]
    BY <2>2, <1>0, <1>1, <1>3, OwnStepStays, LaneStays
  <2> QED
    BY <1>1, <2>1, <2>2
<1>5. RowsNamed'
  BY <1>0, <1>1 DEF RowsNamed, TagsOnce, Mounted
<1> QED
  BY <1>3, <1>4, <1>5 DEF StageInv

\* It holds at first.
LEMMA StageInitially == StoresNamed /\ PushInit => StageInv
<1> SUFFICES ASSUME StoresNamed, PushInit PROVE StageInv
  OBVIOUS
<1>1. PICK s \in InitialStores : valves = s.valves /\ devices = s.devices /\ seq = s.seq
  BY DEF PushInit, StoreInit
<1>2. \A p \in Push : tx[p] = NoTx /\ pc[p] = "idle"
  BY DEF PushInit, StoreInit
<1>3. RowsNamed
  BY <1>1 DEF StoresNamed, RowsNamed
<1>4. DeviceKeys
  BY <1>1, <1>2, InitialStoresAssumption DEF DeviceKeys, NoTx
<1>5. \A p \in Push : InLane(p)
  BY <1>2, LaneLeft DEF LockedSteps, TxSteps
<1> QED
  BY <1>3, <1>4, <1>5 DEF StageInv

\* Where the store starts with one valve under each tag of a factory, and with each
\* valve on a device of its factory, it stays so, and every open push has written
\* what the contract's entries would write.
THEOREM StageInvariant == StoresNamed => (PushSpec => []StageInv)
<1> SUFFICES ASSUME StoresNamed PROVE PushSpec => []StageInv
  OBVIOUS
<1>1. PushInit => StageInv
  BY StageInitially
<1>2. PushInv /\ OrderInv /\ StageInv /\ [PushNext]_vars => StageInv'
  <2> SUFFICES ASSUME PushInv, OrderInv, StageInv, [PushNext]_vars PROVE StageInv'
    OBVIOUS
  <2>1. PushTypeOK
    BY DEF PushInv
  <2>2. ASSUME NEW p \in Push, Receive(p) \/ Advance(p) \/ Abort(p) \/ LoseCommitAck(p)
        PROVE  StageInv'
    <3>1. CASE Commit(p) \/ LoseCommitAck(p)
      BY <3>1, CommitStage DEF Commit, LoseCommitAck, Commits
    <3>2. CASE (Receive(p) \/ Advance(p)) /\ ~Commit(p)
      BY <3>2, AdvanceStage
    <3>3. CASE Abort(p)
      BY <3>3, <2>1, RollBackStage DEF Abort
    <3> QED
      BY <2>2, <3>1, <3>2, <3>3
  <2>3. CASE UNCHANGED vars
    <3>1. UNCHANGED <<devices, valves, seq, tx, pc, cursor>>
      BY <2>3 DEF vars, storeVars, tables, pushVars
    <3>2. AddsNoDevice
      BY <3>1 DEF AddsNoDevice
    <3>3. DeviceKeys' /\ DevicesOrdered
      BY <2>1, <3>1, <3>2, KeysStay DEF StageInv
    <3>4. \A q \in Push : InLane(q)'
      BY <2>1, <3>1, <3>3, OwnStepStays, LaneStays DEF StageInv
    <3>5. RowsNamed'
      BY <3>1 DEF StageInv, RowsNamed, TagsOnce, Mounted
    <3> QED
      BY <3>3, <3>4, <3>5 DEF StageInv
  <2> QED
    BY <2>1, <2>2, <2>3, RemoveStage, CrashStage DEF PushNext, Fault
<1> QED
  BY <1>1, <1>2, PushInvariant, OrderInvariant, PTL DEF PushSpec

---------------------------------------------------------------------------
(* A commit applies the push *)

\* What p has written lies soundly over the tables.
LEMMA PlacedSound ==
  ASSUME NEW p \in Push, NEW c, KeysUnique, LinksThere, ViewNamedOnce, DeviceKeys, RowsNamed,
         Placed(p, c)
  PROVE  Sound(Merged(p, c))
<1>1. /\ Merged(p, c).devices = devices \cup c.devices
      /\ Merged(p, c).valves = Overlay(valves, c.valves)
      /\ Merged(p, c).links = links \cup c.links
  BY DEF Merged
<1>2. devices \cup c.devices \subseteq ViewDevices(p)
  BY DEF Placed, ViewDevices
<1>3. \A d, e \in devices \cup c.devices : d.id = e.id => d = e
  BY <1>2 DEF DeviceKeys, ViewDevices
<1>4. DevicesNamedOnce(devices \cup c.devices)
  BY <1>2 DEF ViewNamedOnce, DevicesNamedOnce
<1>5. \A v, w \in Overlay(valves, c.valves) : v.id = w.id => v = w
  BY DEF KeysUnique, Placed, Overlay
<1>6. TagsOnce(Overlay(valves, c.valves))
  BY DEF RowsNamed, TagsOnce, Placed, Overlay
<1>7. Mounted(devices \cup c.devices, Overlay(valves, c.valves))
  BY DEF RowsNamed, Mounted, Placed, Overlay
<1>8. \A l \in links \cup c.links : \E v \in Overlay(valves, c.valves) : v.id = l[1]
  <2>1. ASSUME NEW l \in links PROVE \E v \in Overlay(valves, c.valves) : v.id = l[1]
    <3>1. PICK v \in valves : v.id = l[1]
      BY DEF LinksThere
    <3>2. v \in Overlay(valves, c.valves) \/ \E w \in c.valves : w.id = v.id
      BY DEF Overlay
    <3> QED
      BY <3>1, <3>2 DEF Overlay
  <2>2. ASSUME NEW l \in c.links PROVE \E v \in Overlay(valves, c.valves) : v.id = l[1]
    BY DEF Placed, Overlay
  <2> QED
    BY <2>1, <2>2
<1> QED
  BY <1>1, <1>3, <1>4, <1>5, <1>6, <1>7, <1>8 DEF Sound, Named

\* What is seen of a store is seen in its tables.
LEMMA SameSeen ==
  ASSUME NEW s, NEW r, s.factories = r.factories, s.devices = r.devices, s.valves = r.valves,
         s.workOrders = r.workOrders, s.links = r.links
  PROVE  Visible(s) = Visible(r)
BY DEF Visible

\* Two stores of the contract are equal if their tables are.
LEMMA SameTables ==
  ASSUME NEW t, NEW u, IsStore(t), IsStore(u), t.factories = u.factories, t.devices = u.devices,
         t.valves = u.valves, t.workOrders = u.workOrders, t.links = u.links
  PROVE  t = u
<1> PICK fs, ds, vs, ws, ls : /\ fs = t.factories /\ ds = t.devices /\ vs = t.valves
                              /\ ws = t.workOrders /\ ls = t.links
  OBVIOUS
<1>1. Tables(t, fs, ds, vs, ws, ls) /\ Tables(u, fs, ds, vs, ws, ls)
  BY DEF IsStore
<1> QED
  BY <1>1 DEF Tables

\* What p has written before its first entry is what the contract writes first.
LEMMA StartSeen ==
  ASSUME NEW p \in Push, PushTypeOK, LocksHeld, OrderHeld, HoldsOrder(p),
         tx[p].workOrder.data = Payload[p].data
  PROVE  Visible(Merged(p, Blank)) = Start(Visible(Committed), p)
<1> PICK t, u, r, c : /\ t = Start(Visible(Committed), p) /\ u = Visible(Merged(p, Blank))
                      /\ r = Merged(p, Blank) /\ c = Committed
  OBVIOUS
<1>1. /\ r.devices = devices /\ r.valves = valves /\ r.links = links
      /\ r.factories = [factories EXCEPT ![FactoryOf(p)] = Payload[p].data]
      /\ r.workOrders = [workOrders EXCEPT ![Payload[p].serial] = tx[p].workOrder]
  BY DEF Merged, Blank, Overlay
<1>2. /\ c.devices = devices /\ c.valves = valves /\ c.links = links
      /\ c.factories = factories /\ c.workOrders = workOrders
  BY DEF Committed
<1>3. /\ IsStore(u) /\ IsStore(Visible(c))
      /\ u.devices = Visible(c).devices /\ u.valves = Visible(c).valves
      /\ u.factories = r.factories /\ u.workOrders = r.workOrders
      /\ Visible(c).factories = factories /\ Visible(c).workOrders = workOrders
  <2>1. u = Visible(r)
    OBVIOUS
  <2>2. r.devices = c.devices /\ r.valves = c.valves
    BY <1>1, <1>2
  <2>3. IsStore(u) /\ IsStore(Visible(c))
        /\ u.factories = r.factories /\ u.workOrders = r.workOrders
        /\ Visible(c).factories = factories /\ Visible(c).workOrders = workOrders
    BY <1>2, <2>1, Seen
  <2>4. u.devices = Visible(c).devices /\ u.valves = Visible(c).valves
    BY <2>1, <2>2 DEF Visible
  <2> QED
    BY <2>3, <2>4
<1>4. u.links = Visible(c).links
  BY <1>1, <1>2 DEF Visible
<1>5. tx[p].workOrder = [factory |-> IF workOrders[Payload[p].serial] = None THEN FactoryOf(p)
                                     ELSE workOrders[Payload[p].serial].factory,
                         data |-> Payload[p].data]
  <2>1. tx[p].workOrder \in WorkOrder /\ tx[p].serial # None
    BY RequestTypes, InitialStoresAssumption DEF LocksHeld, OrderHeld, HoldsOrder
  <2>2. tx[p].workOrder.factory = IF workOrders[Payload[p].serial] = None THEN FactoryOf(p)
                                  ELSE workOrders[Payload[p].serial].factory
    BY <2>1 DEF OrderHeld
  <2> QED
    BY <2>1, <2>2 DEF WorkOrder
<1>6. /\ IsStore(t) /\ t.devices = Visible(c).devices /\ t.valves = Visible(c).valves
      /\ t.links = Visible(c).links
      /\ t.factories = [factories EXCEPT ![FactoryOf(p)] = Payload[p].data]
      /\ t.workOrders = [workOrders EXCEPT ![Payload[p].serial] = tx[p].workOrder]
  BY <1>3, <1>5, StartWrites
<1>7. u = t
  BY <1>1, <1>3, <1>4, <1>6, SameTables
<1> QED
  BY <1>7

\* By induction over its entries, p has written what the contract would have by now.
LEMMA TraceStages ==
  ASSUME NEW p \in Push, PushInv, OrderInv, StageInv, HoldsOrder(p),
         NEW h, NEW m \in Nat, m <= Len(Payload[p].valves), Trace(p, h, m)
  PROVE  Visible(Merged(p, Written(p))) \in Contract!Stages(Visible(Committed), p)[m]
<1> DEFINE Staged(k) == Visible(Merged(p, h[k])) \in Contract!Stages(Visible(Committed), p)[k]
           S == {k \in Nat : k <= m => Staged(k)}
<1>0. /\ PushTypeOK /\ LocksHeld /\ OrderHeld /\ KeysUnique /\ LinksThere /\ ViewNamedOnce
      /\ DeviceKeys /\ RowsNamed /\ tx[p].workOrder.data = Payload[p].data
      /\ Len(Payload[p].valves) \in Nat
  BY RequestTypes DEF PushInv, OrderInv, StageInv, InLane, Ends
<1>1. 0 \in S
  <2>1. Visible(Merged(p, h[0])) = Start(Visible(Committed), p)
    BY <1>0, StartSeen DEF Trace
  <2>2. Staged(0)
    BY <1>0, <2>1, StagesStep
  <2> QED
    BY <2>2
<1>2. ASSUME NEW k \in S PROVE k + 1 \in S
  <2> SUFFICES ASSUME k + 1 <= m PROVE Staged(k + 1)
    OBVIOUS
  <2>1. k \in Nat /\ k + 1 \in 1..m /\ k \in 0..m /\ k + 1 \in 0..m /\ (k + 1) - 1 = k
        /\ k + 1 \in 1..Len(Payload[p].valves)
    BY <1>0
  <2>2. Staged(k)
    BY <2>1
  <2>3. PICK d, row : Puts(p, h[k], h[k+1], Payload[p].valves[k+1], d, row)
    <3>1. \E d, row : Puts(p, h[(k+1)-1], h[k+1], Payload[p].valves[k+1], d, row)
      BY <2>1 DEF Trace
    <3> QED
      BY <2>1, <3>1
  <2>4. Sound(Merged(p, h[k])) /\ Sound(Merged(p, h[k+1]))
    <3>1. Placed(p, h[k]) /\ Placed(p, h[k+1])
      BY <2>1 DEF Trace
    <3> QED
      BY <1>0, <3>1, PlacedSound
  <2>5. Visible(Merged(p, h[k+1])) \in
          Contract!WithValve(Visible(Merged(p, h[k])), FactoryOf(p), Payload[p].serial, Payload[p].valves[k+1])
    BY <2>3, <2>4, PutsEnters, EntryVisible
  <2>6. Visible(Merged(p, h[k+1])) \in OneMore(p, k + 1, Contract!Stages(Visible(Committed), p)[k])
    BY <2>2, <2>5 DEF OneMore, FactoryOf
  <2>7. Contract!Stages(Visible(Committed), p)[k+1] =
          OneMore(p, k + 1, Contract!Stages(Visible(Committed), p)[k])
    BY <1>0, <2>1, StagesStep
  <2> QED
    BY <2>6, <2>7
<1>3. m \in S
  <2>1. S \subseteq Nat
    OBVIOUS
  <2> HIDE DEF S
  <2> QED
    BY <1>1, <1>2, <2>1, Succession
<1>4. Staged(m)
  BY <1>3
<1> QED
  BY <1>4 DEF Trace

\* The tables after its commit are what it has written laid over those before.
LEMMA CommitTables ==
  ASSUME NEW p \in Push, InLane(p), Commits(p)
  PROVE  /\ factories' = Merged(p, Written(p)).factories
         /\ devices' = Merged(p, Written(p)).devices
         /\ valves' = Merged(p, Written(p)).valves
         /\ workOrders' = Merged(p, Written(p)).workOrders
         /\ links' = Merged(p, Written(p)).links
<1>1. Written(p).devices = tx[p].devices
  BY DEF Commits, Written, InLane, NewDeviceNext
<1>2. /\ Written(p).valves = tx[p].valves /\ Written(p).links = tx[p].links
  BY DEF Written
<1> QED
  BY <1>1, <1>2 DEF Commits, Publish, ViewDevices, ViewValves, Merged

\* So its commit is the push taking effect as a whole.
LEMMA CommitApplies ==
  ASSUME NEW p \in Push, PushInv, OrderInv, StageInv, Commits(p)
  PROVE  Contract!Apply(p)
<1>0. /\ PushTypeOK /\ OutcomeInOrder /\ InLane(p) /\ pc[p] = "commit" /\ HoldsOrder(p)
  BY DEF PushInv, StageInv, Commits, HoldsOrder, LockedSteps, TxSteps
<1>1. cursor[p].index = Len(Payload[p].valves) + 1 /\ Len(Payload[p].valves) \in Nat
  BY <1>0, RequestTypes DEF InLane, Ends
<1>2. PICK h, m : m \in Nat /\ cursor[p].index = m + 1 /\ Trace(p, h, m)
  BY <1>0 DEF InLane, Traced
<1>3. m = Len(Payload[p].valves)
  BY <1>1, <1>2
<1>4. Visible(Merged(p, Written(p))) \in Contract!Effects(Visible(Committed), p)
  BY <1>0, <1>2, <1>3, TraceStages DEF Contract!Effects
<1>5. Visible(Committed)' = Visible(Merged(p, Written(p)))
  <2> PICK c, r : c = Committed' /\ r = Merged(p, Written(p))
    OBVIOUS
  <2>1. /\ c.factories = factories' /\ c.devices = devices' /\ c.valves = valves'
        /\ c.workOrders = workOrders' /\ c.links = links'
    BY DEF Committed
  <2>2. /\ c.factories = r.factories /\ c.devices = r.devices /\ c.valves = r.valves
        /\ c.workOrders = r.workOrders /\ c.links = r.links
    BY <1>0, <2>1, CommitTables
  <2>3. Visible(c) = Visible(r)
    BY <2>2, SameSeen
  <2> QED
    BY <2>3
<1>6. Outcome[p] = None /\ Outcome' = [Outcome EXCEPT ![p] = "applied"]
  <2>1. p \notin committed /\ committed' = committed \cup {p}
        /\ \A q \in Push \ {p} : pc'[q] = pc[q]
    BY <1>0 DEF OutcomeInOrder, TxSteps, Commits, Publish, Goto, PushTypeOK
  <2>2. Outcome[p] = None
    BY <1>0, <2>1 DEF Outcome
  <2>3. Outcome' = [q \in Push |-> IF q = p THEN "applied" ELSE Outcome[q]]
    BY <2>1 DEF Outcome
  <2> QED
    BY <2>2, <2>3 DEF Outcome
<1> QED
  BY <1>4, <1>5, <1>6 DEF Contract!Apply

---------------------------------------------------------------------------
(* Steps that reject a push, and steps that nobody sees *)

\* Steps that leave the tables alone leave what is seen of them.
LEMMA SeenStays ==
  ASSUME UNCHANGED tables
  PROVE  Visible(Committed)' = Visible(Committed)
<1> PICK c, d : c = Committed /\ d = Committed'
  OBVIOUS
<1>1. c = d
  BY DEF Committed, tables
<1> QED
  BY <1>1

\* A push that ends without committing is rejected.
LEMMA RollBackRejects ==
  ASSUME NEW p \in Push, PushTypeOK, OutcomeInOrder, pc[p] \in TxSteps, RollBack(p)
  PROVE  Contract!Reject({p})
<1>1. /\ UNCHANGED <<tables, committed>> /\ pc'[p] = "recordFailure"
      /\ \A q \in Push \ {p} : pc'[q] = pc[q]
  BY DEF RollBack, Goto, PushTypeOK
<1>2. p \notin committed
  BY DEF OutcomeInOrder
<1>3. Outcome[p] = None
  BY <1>2 DEF Outcome, TxSteps
<1>4. Outcome' = [q \in Push |-> IF q \in {p} THEN "rejected" ELSE Outcome[q]]
  BY <1>1, <1>2 DEF Outcome
<1>5. Visible(Committed)' = Visible(Committed)
  BY <1>1, SeenStays
<1> QED
  BY <1>3, <1>4, <1>5 DEF Contract!Reject

\* A server that stops rejects the pushes whose transactions were open.
LEMMA CrashRejects ==
  ASSUME NEW h \in Host, PushTypeOK, OutcomeInOrder, Crash(h)
  PROVE  Contract!Reject({p \in Push : HostOf[p] = h /\ pc[p] \in TxSteps})
<1> DEFINE hit == {p \in Push : HostOf[p] = h /\ Running(p)}
           ps  == {p \in Push : HostOf[p] = h /\ pc[p] \in TxSteps}
<1>1. /\ UNCHANGED <<tables, committed>>
      /\ pc' = [p \in Push |-> IF p \in hit THEN "lost" ELSE pc[p]]
  BY DEF Crash
<1>2. ASSUME NEW p \in ps PROVE Outcome[p] = None /\ p \in hit /\ p \notin committed
  BY DEF OutcomeInOrder, Outcome, Running, TxSteps
<1>3. ASSUME NEW p \in hit, p \notin ps
      PROVE  p \in committed \/ pc[p] = "recordFailure"
  <2>1. pc[p] \in {"recordSuccess", "recordFailure"}
    BY <1>3 DEF Running, PushTypeOK, Steps
  <2> QED
    BY <2>1 DEF OutcomeInOrder
<1>4. ASSUME NEW p \in Push
      PROVE  Outcome'[p] = IF p \in ps THEN "rejected" ELSE Outcome[p]
  <2>1. Outcome'[p] = IF p \in committed THEN "applied"
                      ELSE IF pc'[p] \in {"recordFailure", "answered", "lost"} THEN "rejected"
                      ELSE None
    BY <1>1 DEF Outcome
  <2>2. pc'[p] = IF p \in hit THEN "lost" ELSE pc[p]
    BY <1>1
  <2>3. Outcome[p] = IF p \in committed THEN "applied"
                     ELSE IF pc[p] \in {"recordFailure", "answered", "lost"} THEN "rejected"
                     ELSE None
    BY DEF Outcome
  <2> HIDE DEF hit, ps
  <2>4. CASE p \in ps
    BY <2>1, <2>2, <2>4, <1>2
  <2>5. CASE p \notin ps /\ p \in hit
    BY <2>1, <2>2, <2>3, <2>5, <1>3
  <2>6. CASE p \notin ps /\ p \notin hit
    BY <2>1, <2>2, <2>3, <2>6
  <2> QED
    BY <2>4, <2>5, <2>6
<1>5. Outcome' = [p \in Push |-> IF p \in ps THEN "rejected" ELSE Outcome[p]]
  <2>1. Outcome' = [p \in Push |-> Outcome'[p]]
    BY DEF Outcome
  <2> HIDE DEF ps
  <2> QED
    BY <1>4, <2>1
<1>6. Visible(Committed)' = Visible(Committed)
  BY <1>1, SeenStays
<1> QED
  BY <1>2, <1>5, <1>6 DEF Contract!Reject

\* The other steps of a push before its commit, and those after its transaction,
\* are not seen.
LEMMA AdvanceUnseen ==
  ASSUME NEW p \in Push, PushTypeOK, OutcomeInOrder, Receive(p) \/ Advance(p),
         ~Commit(p), ~RefuseDevice(p), ~RefuseValve(p)
  PROVE  UNCHANGED <<Visible(Committed), Outcome>>
<1>1. UNCHANGED <<tables, committed>>
  <2>1. CASE Receive(p) \/ FindDevice(p) \/ FindValve(p) \/ RecordSuccess(p) \/ RecordFailure(p)
    BY <2>1 DEF Receive, FindDevice, FindValve, RecordSuccess, RecordFailure, Record, storeVars, tables
  <2>2. CASE UpsertFactory(p) \/ UpsertWorkOrder(p) \/ CreateDevice(p) \/ WriteValve(p)
    BY <2>2 DEF UpsertFactory, UpsertWorkOrder, CreateDevice, WriteValve
  <2> QED
    BY <2>1, <2>2 DEF Advance
<1>2. \A q \in Push \ {p} : pc'[q] = pc[q]
  BY AdvanceOwn DEF OwnStep
<1>3. CASE RecordSuccess(p) \/ RecordFailure(p)
  <2>1. pc[p] \in {"recordSuccess", "recordFailure"} /\ pc'[p] = "answered"
    BY <1>3 DEF RecordSuccess, RecordFailure, Record, Goto, PushTypeOK
  <2>2. pc[p] = "recordSuccess" => p \in committed
    BY DEF OutcomeInOrder
  <2>3. Outcome' = Outcome
    BY <1>1, <1>2, <2>1, <2>2 DEF Outcome
  <2> QED
    BY <1>1, <2>3, SeenStays
<1>4. CASE ~RecordSuccess(p) /\ ~RecordFailure(p)
  <2>1. pc[p] \in TxSteps \cup {"idle"} /\ pc'[p] \in TxSteps
    <3>1. CASE Receive(p) \/ UpsertFactory(p)
      BY <3>1 DEF Receive, UpsertFactory, Goto, PushTypeOK, TxSteps
    <3>2. CASE UpsertWorkOrder(p) \/ WriteValve(p)
      <4>1. pc[p] \in {"upsertWorkOrder", "writeValve"} /\ \E i : Loop(p, i)
        BY <3>2 DEF UpsertWorkOrder, WriteValve
      <4>2. pc'[p] \in {"findDevice", "commit"}
        BY <4>1 DEF Loop, Goto, PushTypeOK
      <4> QED
        BY <4>1, <4>2 DEF TxSteps
    <3>3. CASE FindDevice(p)
      BY <3>3 DEF FindDevice, Goto, PushTypeOK, TxSteps
    <3>4. CASE CreateDevice(p) \/ FindValve(p)
      BY <3>4 DEF CreateDevice, FindValve, Goto, PushTypeOK, TxSteps
    <3> QED
      BY <1>4, <3>1, <3>2, <3>3, <3>4 DEF Advance
  <2>2. Outcome' = Outcome
    BY <1>1, <1>2, <2>1 DEF Outcome, TxSteps
  <2> QED
    BY <1>1, <2>2, SeenStays
<1> QED
  BY <1>3, <1>4

---------------------------------------------------------------------------
(* Deletes: the rows that go, with and without their ids *)

\* b is a without the valves in gone, their links and those of the orders.
Drops(a, b, gone, orders) ==
  /\ b.devices \subseteq a.devices /\ gone \subseteq a.valves /\ b.valves = a.valves \ gone
  /\ b.links = {l \in a.links : l[2] \notin orders /\ \A v \in gone : l[1] # v.id}

\* The rows of a set of valves, or of devices, without their ids.
ValvesLost(ds, gone, lost) == \A x : x \in lost <=> \E v \in gone : x = ValveSeen(ds, v)
DevicesLost(gone, lost)    == \A x : x \in lost <=> \E d \in gone : x = DeviceSeen(d)

\* The links of u are those of t, but for the valves in gone and for the orders.
LinksDropped(t, u, gone, orders) ==
  \A l : l \in u.links <=>
     l \in t.links /\ l[3] \notin orders /\ \A v \in gone : <<l[1], l[2]>> # <<v.factory, v.tag>>

\* Dropping rows is the same without their ids.
LEMMA DropsSeen ==
  ASSUME NEW a, NEW b, NEW gone, NEW orders, NEW lost, Sound(a), Mounted(b.devices, b.valves),
         Drops(a, b, gone, orders), ValvesLost(a.devices, gone, lost)
  PROVE  /\ Visible(b).valves = Visible(a).valves \ lost
         /\ LinksDropped(Visible(a), Visible(b), lost, orders)
<1> DEFINE Kept(l) == /\ l \in Visible(a).links /\ l[3] \notin orders
                      /\ \A v \in lost : <<l[1], l[2]>> # <<v.factory, v.tag>>
<1>0. \A x : x \in lost <=> \E v \in gone : x = ValveSeen(a.devices, v)
  BY DEF ValvesLost
<1>1. \A v \in a.valves : /\ ValveSeen(a.devices, v).factory = v.factory
                          /\ ValveSeen(a.devices, v).tag = v.tag
  BY DEF ValveSeen
<1>2. \A v, w \in a.valves : v.factory = w.factory /\ v.tag = w.tag => v = w
  BY DEF Sound, Named, TagsOnce
<1>3. \A v \in b.valves : ValveSeen(b.devices, v) = ValveSeen(a.devices, v)
  <2> SUFFICES ASSUME NEW v \in b.valves
               PROVE  ValveSeen(b.devices, v) = ValveSeen(a.devices, v)
    OBVIOUS
  <2>1. PICK d \in b.devices : d.id = v.device
    BY DEF Mounted
  <2>2. d \in a.devices /\ \A x, y \in a.devices : x.id = y.id => x = y
    BY <2>1 DEF Drops, Sound, Named
  <2>3. \A x, y \in b.devices : x.id = y.id => x = y
    BY <2>2 DEF Drops
  <2> QED
    BY <2>1, <2>2, <2>3, NameSeen
<1>4. Visible(b).valves = Visible(a).valves \ lost
  <2>1. Visible(b).valves = {ValveSeen(a.devices, v) : v \in b.valves}
    BY <1>3, Seen
  <2>2. Visible(a).valves = {ValveSeen(a.devices, v) : v \in a.valves}
    BY Seen
  <2>3. b.valves = a.valves \ gone /\ gone \subseteq a.valves
    BY DEF Drops
  <2> QED
    BY <1>0, <1>1, <1>2, <2>1, <2>2, <2>3
<1>5. ASSUME NEW x \in Visible(b).links PROVE Kept(x)
  <2>1. PICK v \in b.valves, l \in b.links : l[1] = v.id /\ x = <<v.factory, v.tag, l[2]>>
    BY Seen
  <2>2. v \in a.valves /\ v \notin gone /\ l \in a.links /\ l[2] \notin orders
    BY <2>1 DEF Drops
  <2>3. x \in Visible(a).links
    BY <2>1, <2>2, Seen
  <2>4. x[1] = v.factory /\ x[2] = v.tag /\ x[3] = l[2]
    BY <2>1
  <2>5. \A w \in gone : ~(w.factory = v.factory /\ w.tag = v.tag)
    BY <2>2, <1>2 DEF Drops
  <2>6. \A w \in lost : <<x[1], x[2]>> # <<w.factory, w.tag>>
    BY <2>4, <2>5, <1>0, <1>1 DEF Drops
  <2> QED
    BY <2>2, <2>3, <2>4, <2>6
<1>6. ASSUME NEW x, Kept(x) PROVE x \in Visible(b).links
  <2>1. PICK v \in a.valves, l \in a.links : l[1] = v.id /\ x = <<v.factory, v.tag, l[2]>>
    BY <1>6, Seen
  <2>2. x[1] = v.factory /\ x[2] = v.tag /\ x[3] = l[2]
    BY <2>1
  <2>3. v \notin gone
    <3> SUFFICES ASSUME v \in gone PROVE FALSE
      OBVIOUS
    <3>1. ValveSeen(a.devices, v) \in lost
      BY <1>0
    <3> QED
      BY <3>1, <2>1, <2>2, <1>1, <1>6
  <2>4. \A w \in gone : l[1] # w.id
    BY <2>1, <2>3 DEF Drops, Sound, Named
  <2>5. v \in b.valves /\ l \in b.links
    BY <2>1, <2>2, <2>3, <2>4, <1>6 DEF Drops
  <2> QED
    BY <2>1, <2>5, Seen
<1>7. LinksDropped(Visible(a), Visible(b), lost, orders)
  BY <1>5, <1>6 DEF LinksDropped
<1> QED
  BY <1>4, <1>7

\* The contract's deletes, field by field.
LEMMA WithoutSeen ==
  ASSUME NEW t, NEW u, NEW gone, NEW orders, IsStore(t), IsStore(u),
         u.factories = t.factories, u.devices = t.devices, u.workOrders = t.workOrders,
         u.valves = t.valves \ gone, LinksDropped(t, u, gone, orders)
  PROVE  u = Contract!Without(t, gone, orders)
<1> DEFINE vs == t.valves \ gone
           ls == {l \in t.links : l[3] \notin orders /\
                                  \A v \in gone : <<l[1], l[2]>> # <<v.factory, v.tag>>}
           t1 == [t EXCEPT !.valves = vs]
           t2 == [t1 EXCEPT !.links = ls]
<1>1. Contract!Without(t, gone, orders) = [t EXCEPT !.valves = vs, !.links = ls]
  BY DEF Contract!Without
<1>0. u.links = ls
  BY DEF LinksDropped
<1> HIDE DEF vs, ls
<1>2. [t EXCEPT !.valves = vs, !.links = ls] = t2
  BY DEF IsStore, Tables
<1>3. Tables(t1, t.factories, t.devices, vs, t.workOrders, t.links)
  BY DEF IsStore, Tables
<1> HIDE DEF t1
<1>4. Tables(t2, t.factories, t.devices, vs, t.workOrders, ls)
  BY <1>3 DEF Tables
<1> HIDE DEF t2
<1>5. Tables(u, t.factories, t.devices, vs, t.workOrders, ls)
  BY <1>0 DEF IsStore, vs
<1> QED
  BY <1>1, <1>2, <1>4, <1>5 DEF Tables

---------------------------------------------------------------------------
(* Deletes of valves and of devices *)

\* The tables tell their rows apart.
LEMMA CommittedSound ==
  ASSUME PushInv, OrderInv, StageInv
  PROVE  Sound(Committed)
<1> PICK c : c = Committed
  OBVIOUS
<1>1. c.devices = devices /\ c.valves = valves /\ c.links = links
  BY DEF Committed
<1>2. KeysUnique /\ LinksThere /\ DeviceUnique /\ DeviceKeys /\ RowsNamed
  BY DEF PushInv, OrderInv, StageInv
<1>3. Named(devices, valves) /\ \A l \in links : \E v \in valves : v.id = l[1]
  BY <1>2 DEF Named, KeysUnique, LinksThere, DeviceUnique, DeviceKeys, RowsNamed
<1>4. Sound(c)
  BY <1>1, <1>3 DEF Sound
<1> QED
  BY <1>4

\* The valves on some devices.
MountedOn(vs, ds, mounted) == \A v : v \in mounted <=> v \in vs /\ \E d \in ds : v.device = d.id

\* The contract's name for them, and for what stays of the devices.
OnLost(t, lostD, lost) ==
  \A x : x \in lost <=> /\ x \in t.valves
                       /\ \E d \in lostD : x.factory = d.factory /\ x.device = d.name
DevicesKept(t, ds, lostD) == \A x : x \in t.devices \ lostD <=> \E d \in ds : x = DeviceSeen(d)

\* The valves on devices that go are, without ids, those that the contract drops with them.
LEMMA MountedSeen ==
  ASSUME NEW a, Sound(a), NEW gone \in SUBSET a.devices, NEW mounted, NEW lostD, NEW lost,
         MountedOn(a.valves, gone, mounted),
         DevicesLost(gone, lostD), ValvesLost(a.devices, mounted, lost)
  PROVE  OnLost(Visible(a), lostD, lost) /\ DevicesKept(Visible(a), a.devices \ gone, lostD)
<1>0. /\ \A x : x \in lostD <=> \E d \in gone : x = DeviceSeen(d)
      /\ \A x : x \in lost <=> \E v \in a.valves : /\ \E d \in gone : v.device = d.id
                                                    /\ x = ValveSeen(a.devices, v)
  BY DEF DevicesLost, ValvesLost, MountedOn
<1>1. \A d, e \in a.devices : /\ d.id = e.id => d = e
                              /\ d.factory = e.factory /\ d.name = e.name => d = e
  BY DEF Sound, Named, DevicesNamedOnce
<1>2. \A d : DeviceSeen(d).factory = d.factory /\ DeviceSeen(d).name = d.name
  BY DEF DeviceSeen
<1>3. \A x : x \in Visible(a).devices \ lostD <=> \E d \in a.devices \ gone : x = DeviceSeen(d)
  BY <1>0, <1>1, <1>2, Seen
<1>4. ASSUME NEW v \in a.valves
      PROVE  (\E d \in lostD : /\ ValveSeen(a.devices, v).factory = d.factory
                               /\ ValveSeen(a.devices, v).device = d.name)
             <=> \E d \in gone : v.device = d.id
  <2>1. PICK x \in a.devices : x.id = v.device /\ x.factory = v.factory
    BY DEF Sound, Named, Mounted
  <2>2. ValveSeen(a.devices, v).factory = x.factory /\ ValveSeen(a.devices, v).device = x.name
    BY <1>1, <2>1, NameSeen
  <2>3. \A d \in gone : x.factory = d.factory /\ x.name = d.name <=> v.device = d.id
    BY <1>1, <2>1
  <2> QED
    BY <1>0, <1>2, <2>2, <2>3
<1>5. Visible(a).valves = {ValveSeen(a.devices, v) : v \in a.valves}
  BY Seen
<1>6. \A x : x \in lost <=> /\ x \in Visible(a).valves
                           /\ \E d \in lostD : x.factory = d.factory /\ x.device = d.name
  BY <1>0, <1>4, <1>5
<1> QED
  BY <1>3, <1>6 DEF OnLost, DevicesKept

\* A delete of valves is one of the contract.
LEMMA RemoveValvesSeen ==
  ASSUME PushTypeOK, Sound(Committed), RowsNamed, AdminRemove, NEW gone \in SUBSET valves, RemoveValves(gone)
  PROVE  Contract!DropValves
<1> PICK a, b : a = Committed /\ b = Committed'
  OBVIOUS
<1>1. /\ a.factories = factories /\ a.devices = devices /\ a.valves = valves
      /\ a.workOrders = workOrders /\ a.links = links
      /\ b.factories = factories' /\ b.devices = devices' /\ b.valves = valves'
      /\ b.workOrders = workOrders' /\ b.links = links'
  BY DEF Committed
<1>2. Drops(a, b, gone, {}) /\ b.factories = a.factories /\ b.workOrders = a.workOrders
      /\ b.devices = a.devices
  BY <1>1 DEF Drops, RemoveValves, DeleteValves
<1>3. Mounted(b.devices, b.valves)
  BY <1>1, RemoveRows
<1> PICK lost : ValvesLost(a.devices, gone, lost)
  <2>1. ValvesLost(a.devices, gone, {ValveSeen(a.devices, v) : v \in gone})
    BY DEF ValvesLost
  <2> QED
    BY <2>1
<1>4. /\ Visible(b).valves = Visible(a).valves \ lost
      /\ LinksDropped(Visible(a), Visible(b), lost, {})
  BY <1>2, <1>3, DropsSeen
<1>5. /\ IsStore(Visible(a)) /\ IsStore(Visible(b))
      /\ Visible(b).factories = Visible(a).factories /\ Visible(b).workOrders = Visible(a).workOrders
      /\ Visible(b).devices = Visible(a).devices
  BY <1>2, Seen
<1>6. lost \in SUBSET Visible(a).valves
  BY <1>1, Seen DEF ValvesLost
<1>7. Visible(b) = Contract!Without(Visible(a), lost, {})
  BY <1>4, <1>5, WithoutSeen
<1>8. Visible(Committed)' = Visible(b) /\ Visible(Committed) = Visible(a)
  OBVIOUS
<1> QED
  BY <1>6, <1>7, <1>8 DEF Contract!DropValves

\* The contract's store without some devices.
LEMMA DevicesTaken ==
  ASSUME NEW s, NEW ds, NEW t, IsStore(s), t = [s EXCEPT !.devices = ds]
  PROVE  Tables(t, s.factories, ds, s.valves, s.workOrders, s.links)
BY DEF IsStore, Tables

\* u is t without some devices and their valves, as the contract has it.
DropsDevices(t, u) ==
  \E lostD \in SUBSET t.devices :
     u = Contract!Without([t EXCEPT !.devices = @ \ lostD],
                          {v \in t.valves : \E d \in lostD :
                             v.factory = d.factory /\ v.device = d.name}, {})

\* A store without some devices and their valves is what the contract makes of it.
LEMMA DropDevicesSeen ==
  ASSUME NEW a, NEW b, NEW gone \in SUBSET a.devices, NEW mounted, Sound(a),
         Mounted(b.devices, b.valves), Drops(a, b, mounted, {}),
         MountedOn(a.valves, gone, mounted),
         b.factories = a.factories, b.workOrders = a.workOrders, b.devices = a.devices \ gone
  PROVE  DropsDevices(Visible(a), Visible(b))
<1>1. PICK lostD, lost : DevicesLost(gone, lostD) /\ ValvesLost(a.devices, mounted, lost)
  <2>1. /\ DevicesLost(gone, {DeviceSeen(d) : d \in gone})
        /\ ValvesLost(a.devices, mounted, {ValveSeen(a.devices, v) : v \in mounted})
    BY DEF DevicesLost, ValvesLost
  <2> QED
    BY <2>1
<1>2. OnLost(Visible(a), lostD, lost) /\ DevicesKept(Visible(a), a.devices \ gone, lostD)
  BY <1>1, MountedSeen
<1>3. Visible(b).valves = Visible(a).valves \ lost /\ LinksDropped(Visible(a), Visible(b), lost, {})
  BY <1>1, DropsSeen
<1>4. lostD \in SUBSET Visible(a).devices
  BY <1>1, Seen DEF DevicesLost
<1>5. Visible(b).devices = Visible(a).devices \ lostD
  <2>1. Visible(b).devices = {DeviceSeen(d) : d \in b.devices}
    BY Seen
  <2> QED
    BY <1>2, <2>1 DEF DevicesKept
<1>6. /\ IsStore(Visible(a)) /\ IsStore(Visible(b))
      /\ Visible(b).factories = Visible(a).factories /\ Visible(b).workOrders = Visible(a).workOrders
  BY Seen
<1> PICK s : s = Visible(a)
  OBVIOUS
<1> PICK ds : ds = s.devices \ lostD
  OBVIOUS
<1> PICK t : t = [s EXCEPT !.devices = ds]
  OBVIOUS
<1>7. Tables(t, s.factories, ds, s.valves, s.workOrders, s.links)
  BY <1>6, DevicesTaken
<1>10. t = [s EXCEPT !.devices = @ \ lostD]
  OBVIOUS
<1>8. /\ IsStore(t) /\ t.factories = s.factories /\ t.devices = s.devices \ lostD
      /\ t.valves = s.valves /\ t.workOrders = s.workOrders /\ t.links = s.links
  BY <1>7 DEF IsStore, Tables
<1>9. Visible(b) = Contract!Without(t, lost, {})
  <2> PICK u, orders : u = Visible(b) /\ orders = {}
    OBVIOUS
  <2>1. /\ u.factories = t.factories /\ u.devices = t.devices
        /\ u.workOrders = t.workOrders /\ u.valves = t.valves \ lost
        /\ LinksDropped(t, u, lost, orders)
    BY <1>3, <1>5, <1>6, <1>8 DEF LinksDropped
  <2>2. IsStore(u)
    BY <1>6
  <2>3. u = Contract!Without(t, lost, orders)
    BY ONLY <1>8, <2>1, <2>2, WithoutSeen
  <2> QED
    BY <2>3
<1>11. lost = {v \in s.valves : \E d \in lostD : v.factory = d.factory /\ v.device = d.name}
  BY <1>2 DEF OnLost
<1> QED
  BY <1>4, <1>9, <1>10, <1>11 DEF DropsDevices

---------------------------------------------------------------------------
(* Deletes with all that goes along *)

\* A delete of devices, which takes their valves along, is one of the contract.
LEMMA RemoveDevicesSeen ==
  ASSUME PushTypeOK, Sound(Committed), RowsNamed, AdminRemove,
         NEW gone \in SUBSET devices, RemoveDevices(gone)
  PROVE  Contract!DropDevices
<1> PICK a, b : a = Committed /\ b = Committed'
  OBVIOUS
<1> PICK mounted : mounted = {v \in valves : \E d \in gone : v.device = d.id}
  OBVIOUS
<1>1. /\ a.factories = factories /\ a.devices = devices /\ a.valves = valves
      /\ a.workOrders = workOrders /\ a.links = links
      /\ b.factories = factories' /\ b.devices = devices' /\ b.valves = valves'
      /\ b.workOrders = workOrders' /\ b.links = links'
  BY DEF Committed
<1>2. Drops(a, b, mounted, {}) /\ b.factories = a.factories /\ b.workOrders = a.workOrders
      /\ b.devices = a.devices \ gone
  BY <1>1 DEF Drops, RemoveDevices, DeleteValves
<1>3. Mounted(b.devices, b.valves)
  BY <1>1, RemoveRows
<1>4. MountedOn(a.valves, gone, mounted) /\ gone \in SUBSET a.devices /\ Sound(a)
  BY <1>1 DEF MountedOn
<1>5. DropsDevices(Visible(a), Visible(b))
  BY <1>2, <1>3, <1>4, DropDevicesSeen
<1>6. Visible(Committed)' = Visible(b) /\ Visible(Committed) = Visible(a)
  OBVIOUS
<1> QED
  BY <1>5, <1>6 DEF DropsDevices, Contract!DropDevices

\* The contract's store without some factories, their devices and their orders.
LEMMA PlantTaken ==
  ASSUME NEW s, NEW fs, NEW ds, NEW ws, NEW t, IsStore(s),
         t = [s EXCEPT !.factories = fs, !.devices = ds, !.workOrders = ws]
  PROVE  Tables(t, fs, ds, s.valves, ws, s.links)
<1> DEFINE t1 == [s EXCEPT !.factories = fs]
           t2 == [t1 EXCEPT !.devices = ds]
           t3 == [t2 EXCEPT !.workOrders = ws]
<1>1. t = t3
  BY DEF IsStore, Tables
<1>2. Tables(t1, fs, s.devices, s.valves, s.workOrders, s.links)
  BY DEF IsStore, Tables
<1> HIDE DEF t1
<1>3. Tables(t2, fs, ds, s.valves, s.workOrders, s.links)
  BY <1>2 DEF Tables
<1> HIDE DEF t2
<1>4. Tables(t3, fs, ds, s.valves, ws, s.links)
  BY <1>3 DEF Tables
<1> QED
  BY <1>1, <1>4

\* The devices and the valves that go with some factories.
Family(a, gone, built, owned) ==
  /\ built = {d \in a.devices : d.factory \in gone}
  /\ owned = {v \in a.valves : v.factory \in gone \/ \E d \in built : v.device = d.id}

\* The contract's name for these valves, and for the devices that stay.
OwnedBy(t, gone, lost)       == \A v : v \in lost <=> v \in t.valves /\ v.factory \in gone
DevicesOutside(t, gone, ds) ==
  \A x : x \in t.devices /\ x.factory \notin gone <=> \E d \in ds : x = DeviceSeen(d)

\* The rows that go with some factories, as the contract names them: no valve is
\* lost only because its device is.
LEMMA PlantSeen ==
  ASSUME NEW a, NEW gone, NEW built, NEW owned, NEW lost, Sound(a),
         Family(a, gone, built, owned), OwnedBy(Visible(a), gone, lost)
  PROVE  ValvesLost(a.devices, owned, lost) /\ DevicesOutside(Visible(a), gone, a.devices \ built)
<1>0. /\ built = {d \in a.devices : d.factory \in gone}
      /\ owned = {v \in a.valves : v.factory \in gone \/ \E d \in built : v.device = d.id}
  BY DEF Family
<1>1. \A v \in a.valves : v \in owned <=> v.factory \in gone
  <2> SUFFICES ASSUME NEW v \in a.valves PROVE v \in owned <=> v.factory \in gone
    OBVIOUS
  <2>1. PICK x \in a.devices : x.id = v.device /\ x.factory = v.factory
    BY DEF Sound, Named, Mounted
  <2>2. \A d \in a.devices : d.id = v.device => d = x
    BY <2>1 DEF Sound, Named
  <2> QED
    BY <1>0, <2>1, <2>2
<1>2. \A v : ValveSeen(a.devices, v).factory = v.factory
  BY DEF ValveSeen
<1>3. \A x : x \in lost <=> \E v \in owned : x = ValveSeen(a.devices, v)
  BY <1>0, <1>1, <1>2, Seen DEF OwnedBy
<1>4. \A d : DeviceSeen(d).factory = d.factory
  BY DEF DeviceSeen
<1>5. Visible(a).devices = {DeviceSeen(d) : d \in a.devices}
  BY Seen
<1>6. \A x : x \in Visible(a).devices /\ x.factory \notin gone
            <=> \E d \in a.devices \ built : x = DeviceSeen(d)
  BY <1>0, <1>4, <1>5, SMTT(30)
<1> QED
  BY <1>3, <1>6 DEF ValvesLost, DevicesOutside

\* A delete of factories, with all that is theirs, is one of the contract.
LEMMA RemoveFactoriesSeen ==
  ASSUME PushTypeOK, Sound(Committed), RowsNamed, AdminRemove,
         NEW gone \in SUBSET Factory, RemoveFactories(gone)
  PROVE  Contract!DropFactories
<1> PICK a, b : a = Committed /\ b = Committed'
  OBVIOUS
<1> PICK built : built = {d \in devices : d.factory \in gone}
  OBVIOUS
<1> PICK owned : owned = {v \in valves : v.factory \in gone \/ \E d \in built : v.device = d.id}
  OBVIOUS
<1> PICK orders : orders = {w \in WorkOrderNo : workOrders[w] # None /\ workOrders[w].factory \in gone}
  OBVIOUS
<1> PICK fs : fs = [f \in Factory |-> IF f \in gone THEN None ELSE factories[f]]
  OBVIOUS
<1> PICK ws : ws = [w \in WorkOrderNo |-> IF w \in orders THEN None ELSE workOrders[w]]
  OBVIOUS
<1>1. /\ a.factories = factories /\ a.devices = devices /\ a.valves = valves
      /\ a.workOrders = workOrders /\ a.links = links
      /\ b.factories = factories' /\ b.devices = devices' /\ b.valves = valves'
      /\ b.workOrders = workOrders' /\ b.links = links'
  BY DEF Committed
<1>0. Sound(a)
  OBVIOUS
<1>2. Drops(a, b, owned, orders) /\ b.factories = fs /\ b.workOrders = ws
      /\ b.devices = a.devices \ built
  BY <1>1 DEF Drops, RemoveFactories
<1>3. Mounted(b.devices, b.valves)
  BY <1>1, RemoveRows
<1>15. PICK s, u : s = Visible(a) /\ u = Visible(b)
  OBVIOUS
<1> USE <1>15
<1> PICK lost : lost = {v \in s.valves : v.factory \in gone}
  OBVIOUS
<1> PICK ds : ds = {d \in s.devices : d.factory \notin gone}
  OBVIOUS
<1> PICK t : t = [s EXCEPT !.factories = fs, !.devices = ds, !.workOrders = ws]
  OBVIOUS
<1>4. /\ IsStore(s) /\ IsStore(u) /\ u.factories = b.factories /\ u.workOrders = b.workOrders
      /\ s.factories = factories /\ s.workOrders = workOrders
      /\ u.devices = {DeviceSeen(d) : d \in b.devices}
  BY <1>1, Seen
<1>5. ValvesLost(a.devices, owned, lost) /\ {DeviceSeen(d) : d \in a.devices \ built} = ds
  <2>1. Family(a, gone, built, owned)
    BY <1>1 DEF Family
  <2>2. OwnedBy(Visible(a), gone, lost)
    BY DEF OwnedBy
  <2>3. ValvesLost(a.devices, owned, lost) /\ DevicesOutside(Visible(a), gone, a.devices \ built)
    BY ONLY <1>0, <2>1, <2>2, PlantSeen
  <2> QED
    BY <2>3 DEF DevicesOutside
<1>6. u.valves = s.valves \ lost /\ LinksDropped(s, u, lost, orders)
  BY ONLY <1>0, <1>2, <1>3, <1>5, <1>15, DropsSeen
<1>7. Tables(t, fs, ds, s.valves, ws, s.links)
  BY <1>4, PlantTaken
<1>8. /\ IsStore(t) /\ t.factories = fs /\ t.devices = ds
      /\ t.valves = s.valves /\ t.workOrders = ws /\ t.links = s.links
  BY <1>7 DEF IsStore, Tables
<1>9. /\ u.factories = t.factories /\ u.devices = t.devices
      /\ u.workOrders = t.workOrders /\ u.valves = t.valves \ lost
      /\ LinksDropped(t, u, lost, orders) /\ IsStore(u)
  BY <1>2, <1>4, <1>5, <1>6, <1>8 DEF LinksDropped
<1>10. u = Contract!Without(t, lost, orders)
  BY ONLY <1>8, <1>9, WithoutSeen
<1>11. Visible(Committed)' = u /\ Visible(Committed) = s
  OBVIOUS
<1>12. orders = {w \in WorkOrderNo : s.workOrders[w] # None /\ s.workOrders[w].factory \in gone}
  BY <1>4
<1>13. t = [s EXCEPT !.factories = [f \in Factory |-> IF f \in gone THEN None ELSE @[f]],
                     !.devices = {d \in @ : d.factory \notin gone},
                     !.workOrders = [w \in WorkOrderNo |-> IF w \in orders THEN None ELSE @[w]]]
  BY <1>4
<1>14. u = Contract!Without(
             [s EXCEPT !.factories = [f \in Factory |-> IF f \in gone THEN None ELSE @[f]],
                       !.devices = {d \in @ : d.factory \notin gone},
                       !.workOrders = [w \in WorkOrderNo |-> IF w \in orders THEN None ELSE @[w]]],
             {v \in s.valves : v.factory \in gone}, orders)
  BY <1>10, <1>13
<1> QED
  BY <1>11, <1>12, <1>14 DEF Contract!DropFactories

---------------------------------------------------------------------------
(* The refinement *)

\* The contract starts from what is seen of the initial store, with no outcome.
LEMMA InitSeen == PushInit => Contract!ContractInit
<1> SUFFICES ASSUME PushInit PROVE Contract!ContractInit
  OBVIOUS
<1>1. PICK s \in InitialStores : /\ factories = s.factories /\ devices = s.devices
                                 /\ valves = s.valves /\ workOrders = s.workOrders
                                 /\ links = s.links
  BY DEF PushInit, StoreInit
<1>2. Visible(Committed) = Visible(s)
  <2> PICK c : c = Committed
    OBVIOUS
  <2>1. /\ c.factories = s.factories /\ c.devices = s.devices /\ c.valves = s.valves
        /\ c.workOrders = s.workOrders /\ c.links = s.links
    BY <1>1 DEF Committed
  <2> QED
    BY <2>1, SameSeen
<1>3. Outcome = [p \in Push |-> None]
  <2>1. committed = {} /\ \A p \in Push : pc[p] = "idle"
    BY DEF PushInit
  <2> QED
    BY <2>1 DEF Outcome
<1> QED
  BY <1>1, <1>2, <1>3 DEF Contract!ContractInit

\* An administrators' delete is one of the contract, and no push's outcome.
LEMMA RemoveSeen ==
  ASSUME PushInv, OrderInv, StageInv, AdminRemove, UNCHANGED pushVars
  PROVE  /\ Contract!DropValves \/ Contract!DropDevices \/ Contract!DropFactories
         /\ UNCHANGED Outcome
<1>1. Sound(Committed) /\ PushTypeOK /\ RowsNamed
  BY CommittedSound DEF PushInv, StageInv
<1>2. UNCHANGED Outcome
  BY DEF pushVars, Outcome
<1>3. CASE \E gone \in OneOrAll(valves) : RemoveValves(gone)
  BY <1>1, <1>2, <1>3, RemoveValvesSeen DEF OneOrAll
<1>4. CASE \E gone \in OneOrAll(devices) : RemoveDevices(gone)
  BY <1>1, <1>2, <1>4, RemoveDevicesSeen DEF OneOrAll
<1>5. CASE \E gone \in SUBSET Factory : RemoveFactories(gone)
  BY <1>1, <1>2, <1>5, RemoveFactoriesSeen
<1> QED
  BY <1>3, <1>4, <1>5 DEF AdminRemove

\* Every step of the pushes and the administrators is one of the contract, or
\* nothing that it sees.
LEMMA StepSeen ==
  ASSUME PushInv, OrderInv, StageInv, [PushNext]_vars
  PROVE  [Contract!ContractNext]_(Contract!contractVars)
<1>1. PushTypeOK /\ OutcomeInOrder
  BY DEF PushInv
<1>2. ASSUME NEW p \in Push, Receive(p) \/ Advance(p) \/ Abort(p) \/ LoseCommitAck(p)
      PROVE  [Contract!ContractNext]_(Contract!contractVars)
  <2>1. CASE Commit(p) \/ LoseCommitAck(p)
    <3>1. Contract!Apply(p)
      BY <2>1, CommitApplies DEF Commit, LoseCommitAck, Commits
    <3> QED
      BY <3>1 DEF Contract!ContractNext
  <2>2. CASE RefuseDevice(p) \/ RefuseValve(p) \/ Abort(p)
    <3>1. pc[p] \in TxSteps /\ RollBack(p)
      BY <2>2 DEF RefuseDevice, RefuseValve, Abort, TxSteps
    <3>2. Contract!Reject({p})
      BY <1>1, <3>1, RollBackRejects
    <3> QED
      BY <3>2 DEF Contract!ContractNext
  <2>3. CASE (Receive(p) \/ Advance(p)) /\ ~Commit(p) /\ ~RefuseDevice(p) /\ ~RefuseValve(p)
    BY <1>1, <2>3, AdvanceUnseen DEF Contract!contractVars
  <2> QED
    BY <1>2, <2>1, <2>2, <2>3
<1>3. ASSUME NEW h \in Host, Crash(h)
      PROVE  [Contract!ContractNext]_(Contract!contractVars)
  <2>1. Contract!Reject({p \in Push : HostOf[p] = h /\ pc[p] \in TxSteps})
    BY <1>1, <1>3, CrashRejects
  <2> QED
    BY <2>1 DEF Contract!ContractNext
<1>4. CASE AdminRemove /\ UNCHANGED pushVars
  BY <1>4, RemoveSeen DEF Contract!ContractNext
<1>5. CASE UNCHANGED vars
  <2>1. UNCHANGED <<tables, pc, committed>>
    BY <1>5 DEF vars, storeVars, tables, pushVars
  <2>2. Visible(Committed)' = Visible(Committed)
    BY <2>1, SeenStays
  <2>3. UNCHANGED Outcome
    BY <2>1 DEF Outcome
  <2> QED
    BY <2>2, <2>3 DEF Contract!contractVars
<1> QED
  BY <1>2, <1>3, <1>4, <1>5 DEF PushNext, Fault

\* ServiceAppPush implements the contract.
THEOREM PushesImplementContract == StoresNamed => (PushSpec => ImplementsContract)
<1> SUFFICES ASSUME StoresNamed PROVE PushSpec => ImplementsContract
  OBVIOUS
<1>1. PushInit => Contract!ContractInit
  BY InitSeen
<1>2. PushInv /\ OrderInv /\ StageInv /\ [PushNext]_vars
        => [Contract!ContractNext]_(Contract!contractVars)
  BY StepSeen
<1>3. PushSpec => []StageInv
  BY StageInvariant
<1> QED
  BY <1>1, <1>2, <1>3, PushInvariant, OrderInvariant, PTL
     DEF PushSpec, ImplementsContract, Contract!ContractSpec

---------------------------------------------------------------------------
(* A push that is repeated *)

\* The store s says what an entry of p says.
Served(s, p, entry) ==
  \E v \in s.valves :
    /\ v.factory = FactoryOf(p) /\ v.tag = entry.tag
    /\ entry.serialNumber \in {Absent, v.serialNumber}
    /\ <<v.id, Payload[p].serial>> \in s.links
    /\ \E d \in s.devices : d.id = v.device /\ d.factory = FactoryOf(p) /\ d.name = entry.unit

\* Writing an entry that names its unit makes the store say it.
LEMMA EntryServes ==
  ASSUME NEW p \in Push, NEW sa, NEW sb, NEW entry, NEW d, NEW row, entry.unit # Absent,
         Enters(sa, sb, FactoryOf(p), Payload[p].serial, entry, d, row)
  PROVE  Served(sb, p, entry)
<1>1. row \in sb.valves /\ <<row.id, Payload[p].serial>> \in sb.links /\ d \in sb.devices
  BY DEF Enters, Overlay
<1>2. entry.serialNumber \in {Absent, row.serialNumber} /\ d.name = entry.unit
  BY DEF Enters
<1> QED
  BY <1>1, <1>2 DEF Enters, Served

\* The next entry, of another tag, leaves it so.
LEMMA EntrySpares ==
  ASSUME NEW p \in Push, NEW sa, NEW sb, NEW entry, NEW other, NEW d, NEW row,
         Sound(sa), other.tag # entry.tag, Served(sa, p, other),
         Enters(sa, sb, FactoryOf(p), Payload[p].serial, entry, d, row)
  PROVE  Served(sb, p, other)
<1>1. PICK v \in sa.valves :
        /\ v.factory = FactoryOf(p) /\ v.tag = other.tag
        /\ other.serialNumber \in {Absent, v.serialNumber}
        /\ <<v.id, Payload[p].serial>> \in sa.links
        /\ \E e \in sa.devices : e.id = v.device /\ e.factory = FactoryOf(p) /\ e.name = other.unit
  BY DEF Served
<1>2. v.id # row.id
  BY <1>1 DEF Enters, Sound, Named
<1>3. v \in sb.valves /\ sa.links \subseteq sb.links /\ sa.devices \subseteq sb.devices
  BY <1>2 DEF Enters, Overlay
<1> QED
  BY <1>1, <1>3 DEF Served

\* All valves of s are such rows.
ValveRows(s) == \A v \in s.valves : IsValve(v)

\* Two stores with the same devices, valves and links.
SameRows(s, t) == s.devices = t.devices /\ s.valves = t.valves /\ s.links = t.links

\* Writing an entry that the store says already changes no row: the valve of its tag
\* and the device of its name are the only ones.
LEMMA EntryRepeats ==
  ASSUME NEW p \in Push, NEW sa, NEW sb, NEW entry, NEW d, NEW row, entry.unit # Absent,
         Sound(sa), IsValve(row), ValveRows(sa), Served(sa, p, entry),
         Enters(sa, sb, FactoryOf(p), Payload[p].serial, entry, d, row)
  PROVE  SameRows(sb, sa)
<1>1. PICK v \in sa.valves :
        /\ v.factory = FactoryOf(p) /\ v.tag = entry.tag
        /\ entry.serialNumber \in {Absent, v.serialNumber}
        /\ <<v.id, Payload[p].serial>> \in sa.links
        /\ \E e \in sa.devices : e.id = v.device /\ e.factory = FactoryOf(p) /\ e.name = entry.unit
  BY DEF Served
<1>2. PICK e \in sa.devices : e.id = v.device /\ e.factory = FactoryOf(p) /\ e.name = entry.unit
  BY <1>1
<1>3. d = e /\ sb.devices = sa.devices
  BY <1>2 DEF Enters, Sound, Named, DevicesNamedOnce
<1>4. PICK old \in sa.valves :
        /\ old.id = row.id /\ old.factory = FactoryOf(p) /\ old.tag = entry.tag
        /\ row.serialNumber = IF entry.serialNumber = Absent THEN old.serialNumber
                              ELSE entry.serialNumber
  BY <1>1 DEF Enters
<1>5. old = v
  BY <1>1, <1>4 DEF Sound, Named, TagsOnce
<1>6. /\ row.id = v.id /\ row.factory = v.factory /\ row.device = v.device /\ row.tag = v.tag
      /\ row.serialNumber = v.serialNumber
  BY <1>1, <1>2, <1>3, <1>4, <1>5 DEF Enters
<1>7. row = v
  BY <1>6 DEF IsValve, ValveRows
<1>8. sb.valves = sa.valves
  BY <1>7 DEF Enters, Overlay, Sound, Named
<1>9. sb.links = sa.links
  BY <1>1, <1>6 DEF Enters
<1> QED
  BY <1>3, <1>8, <1>9 DEF SameRows

\* What holds of the trace of a push at every entry of it.
LEMMA TraceEntry ==
  ASSUME NEW p \in Push, PushInv, OrderInv, StageInv, Plain(p),
         NEW h, NEW m \in Nat, m <= Len(Payload[p].valves), Trace(p, h, m),
         NEW k \in Nat, k + 1 <= m
  PROVE  /\ k + 1 \in DOMAIN Payload[p].valves /\ Payload[p].valves[k+1].unit # Absent
         /\ Sound(Merged(p, h[k]))
         /\ \E d, row : /\ IsValve(row)
                        /\ Enters(Merged(p, h[k]), Merged(p, h[k+1]), FactoryOf(p),
                                  Payload[p].serial, Payload[p].valves[k+1], d, row)
<1>1. /\ k \in 0..m /\ k + 1 \in 1..m /\ (k + 1) - 1 = k
      /\ k + 1 \in DOMAIN Payload[p].valves
  BY RequestTypes
<1>2. Payload[p].valves[k+1].unit # Absent
  BY <1>1 DEF Plain
<1>3. Sound(Merged(p, h[k]))
  BY <1>1, PlacedSound DEF Trace, PushInv, OrderInv, StageInv
<1>4. \E d, row : Puts(p, h[(k+1)-1], h[k+1], Payload[p].valves[k+1], d, row)
  BY <1>1 DEF Trace
<1>5. PICK d, row : Puts(p, h[k], h[k+1], Payload[p].valves[k+1], d, row)
  BY <1>1, <1>4
<1>6. IsValve(row)
  BY <1>5 DEF Puts
<1> QED
  BY <1>1, <1>2, <1>3, <1>5, <1>6, PutsEnters

\* A push has written all its entries so far.
LEMMA TraceServes ==
  ASSUME NEW p \in Push, PushInv, OrderInv, StageInv, Plain(p),
         NEW h, NEW m \in Nat, m <= Len(Payload[p].valves), Trace(p, h, m)
  PROVE  \A i \in 1..m : Served(Merged(p, Written(p)), p, Payload[p].valves[i])
<1> DEFINE All(k) == \A i \in 1..k : Served(Merged(p, h[k]), p, Payload[p].valves[i])
           S == {k \in Nat : k <= m => All(k)}
<1>1. 0 \in S
  OBVIOUS
<1>2. ASSUME NEW k \in S PROVE k + 1 \in S
  <2> SUFFICES ASSUME k + 1 <= m PROVE All(k + 1)
    OBVIOUS
  <2>1. k \in Nat /\ All(k)
    OBVIOUS
  <2>2. /\ k + 1 \in DOMAIN Payload[p].valves /\ Payload[p].valves[k+1].unit # Absent
        /\ Sound(Merged(p, h[k]))
    BY <2>1, TraceEntry
  <2>3. PICK d, row : Enters(Merged(p, h[k]), Merged(p, h[k+1]), FactoryOf(p),
                             Payload[p].serial, Payload[p].valves[k+1], d, row)
    BY <2>1, TraceEntry
  <2>4. Served(Merged(p, h[k+1]), p, Payload[p].valves[k+1])
    BY <2>2, <2>3, EntryServes
  <2>5. ASSUME NEW i \in 1..k
        PROVE  Served(Merged(p, h[k+1]), p, Payload[p].valves[i])
    <3>1. i \in DOMAIN Payload[p].valves /\ i # k + 1
      BY <2>1, RequestTypes
    <3>2. Payload[p].valves[i].tag # Payload[p].valves[k+1].tag
      BY <2>2, <3>1 DEF Plain
    <3> QED
      BY <2>1, <2>2, <2>3, <3>2, EntrySpares
  <2> QED
    BY <2>1, <2>4, <2>5
<1>3. m \in S
  <2>1. S \subseteq Nat
    OBVIOUS
  <2> HIDE DEF S
  <2> QED
    BY <1>1, <1>2, <2>1, Succession
<1>4. All(m)
  BY <1>3
<1> QED
  BY <1>4 DEF Trace

\* What it has written is what was there, if the tables said so already.
LEMMA TraceRepeats ==
  ASSUME NEW p \in Push, PushInv, OrderInv, StageInv, Plain(p), Applied(p),
         NEW h, NEW m \in Nat, m <= Len(Payload[p].valves), Trace(p, h, m)
  PROVE  /\ Merged(p, Written(p)).devices = devices /\ Merged(p, Written(p)).valves = valves
         /\ Merged(p, Written(p)).links = links
<1> DEFINE Same(k) == /\ Merged(p, h[k]).devices = devices /\ Merged(p, h[k]).valves = valves
                      /\ Merged(p, h[k]).links = links
           S == {k \in Nat : k <= m => Same(k)}
<1>0. \A v \in valves : IsValve(v)
  BY DEF PushInv, PushTypeOK, StoreTypeOK, Valve, IsValve
<1>1. 0 \in S
  BY DEF Trace, Merged, Blank, Overlay
<1>2. ASSUME NEW k \in S PROVE k + 1 \in S
  <2> SUFFICES ASSUME k + 1 <= m PROVE Same(k + 1)
    OBVIOUS
  <2>1. k \in Nat /\ Same(k)
    OBVIOUS
  <2>2. /\ k + 1 \in DOMAIN Payload[p].valves /\ Payload[p].valves[k+1].unit # Absent
        /\ Sound(Merged(p, h[k]))
    BY <2>1, TraceEntry
  <2>3. PICK d, row : /\ IsValve(row)
                      /\ Enters(Merged(p, h[k]), Merged(p, h[k+1]), FactoryOf(p),
                                Payload[p].serial, Payload[p].valves[k+1], d, row)
    BY <2>1, TraceEntry
  <2>4. \E v \in valves : Serves(p, Payload[p].valves[k+1], v)
    BY <2>2 DEF Applied
  <2>5. Served(Merged(p, h[k]), p, Payload[p].valves[k+1])
    BY <2>1, <2>4 DEF Served, Serves
  <2>6. ValveRows(Merged(p, h[k]))
    BY <1>0, <2>1 DEF ValveRows
  <2>7. /\ Merged(p, h[k+1]).devices = Merged(p, h[k]).devices
        /\ Merged(p, h[k+1]).valves = Merged(p, h[k]).valves
        /\ Merged(p, h[k+1]).links = Merged(p, h[k]).links
    <3> PICK sa, sb, entry : /\ sa = Merged(p, h[k]) /\ sb = Merged(p, h[k+1])
                             /\ entry = Payload[p].valves[k+1]
      OBVIOUS
    <3>1. entry.unit # Absent /\ Sound(sa) /\ Served(sa, p, entry)
      BY <2>2, <2>5
    <3>2. IsValve(row) /\ ValveRows(sa)
      BY <2>3, <2>6
    <3>3. Enters(sa, sb, FactoryOf(p), Payload[p].serial, entry, d, row)
      BY <2>3
    <3>4. SameRows(sb, sa)
      BY <3>1, <3>2, <3>3, EntryRepeats
    <3> QED
      BY <3>4 DEF SameRows
  <2> QED
    BY <2>1, <2>7
<1>3. m \in S
  <2>1. S \subseteq Nat
    OBVIOUS
  <2> HIDE DEF S
  <2> QED
    BY <1>1, <1>2, <2>1, Succession
<1>4. Same(m)
  BY <1>3
<1> QED
  BY <1>4 DEF Trace

\* The commit of a push, the first or a repeated one.
LEMMA CommitRetried ==
  ASSUME NEW p \in Push, PushInv, OrderInv, StageInv, Plain(p), Commits(p)
  PROVE  Applied(p)' /\ (Applied(p) => UNCHANGED tables)
<1>0. PushTypeOK /\ LocksHeld /\ OrderHeld /\ InLane(p) /\ pc[p] = "commit" /\ HoldsOrder(p)
  BY DEF PushInv, OrderInv, StageInv, Commits, HoldsOrder, LockedSteps, TxSteps
<1>1. PICK h, m : m \in Nat /\ cursor[p].index = m + 1 /\ Trace(p, h, m)
  BY <1>0 DEF InLane, Traced
<1>2. m = Len(Payload[p].valves) /\ DOMAIN Payload[p].valves = 1..m
  BY <1>0, <1>1, RequestTypes DEF InLane, Ends
<1>3. /\ factories' = [factories EXCEPT ![FactoryOf(p)] = Payload[p].data]
      /\ workOrders' = [workOrders EXCEPT ![Payload[p].serial] = tx[p].workOrder]
  BY DEF Commits, Publish
<1>4. /\ devices' = Merged(p, Written(p)).devices /\ valves' = Merged(p, Written(p)).valves
      /\ links' = Merged(p, Written(p)).links
  BY <1>0, CommitTables
<1>5. /\ tx[p].workOrder \in WorkOrder /\ tx[p].workOrder.data = Payload[p].data
      /\ tx[p].workOrder # None /\ tx[p].serial # None
  BY <1>0, RequestTypes, InitialStoresAssumption DEF LocksHeld, OrderHeld, HoldsOrder, InLane, Ends
<1>6. /\ factories \in [Factory -> Data \cup {None}] /\ FactoryOf(p) \in Factory
      /\ workOrders \in [WorkOrderNo -> WorkOrder \cup {None}] /\ Payload[p].serial \in WorkOrderNo
  BY <1>0, RequestTypes DEF PushTypeOK, StoreTypeOK
<1>7. Applied(p)'
  <2>1. \A i \in 1..m : Served(Merged(p, Written(p)), p, Payload[p].valves[i])
    BY <1>1, <1>2, TraceServes
  <2>2. ASSUME NEW i \in 1..m
        PROVE  \E v \in valves' : Serves(p, Payload[p].valves[i], v)'
    <3>1. PICK v \in valves' :
            /\ v.factory = FactoryOf(p) /\ v.tag = Payload[p].valves[i].tag
            /\ Payload[p].valves[i].serialNumber \in {Absent, v.serialNumber}
            /\ <<v.id, Payload[p].serial>> \in links'
            /\ \E d \in devices' : /\ d.id = v.device /\ d.factory = FactoryOf(p)
                                   /\ d.name = Payload[p].valves[i].unit
      BY <1>4, <2>1 DEF Served
    <3> QED
      BY <3>1 DEF Serves, FactoryOf
  <2>3. factories'[FactoryOf(p)] = Payload[p].data /\ workOrders'[Payload[p].serial] = tx[p].workOrder
    BY <1>3, <1>6
  <2> QED
    BY <1>2, <1>5, <2>2, <2>3 DEF Applied, FactoryOf
<1>8. ASSUME Applied(p)
      PROVE  UNCHANGED tables
  <2>1. UNCHANGED <<devices, valves, links>>
    BY <1>1, <1>2, <1>4, <1>8, TraceRepeats
  <2>2. factories' = factories
    BY <1>3, <1>6, <1>8 DEF Applied
  <2>3. workOrders[Payload[p].serial] = tx[p].workOrder
    <3>1. workOrders[Payload[p].serial] \in WorkOrder
      BY <1>6, <1>8 DEF Applied
    <3>2. workOrders[Payload[p].serial].data = tx[p].workOrder.data
      BY <1>5, <1>8 DEF Applied
    <3>3. workOrders[Payload[p].serial].factory = tx[p].workOrder.factory
      BY <1>0, <1>5, <1>8 DEF OrderHeld, Applied
    <3> QED
      BY <1>5, <3>1, <3>2, <3>3 DEF WorkOrder
  <2>4. workOrders' = workOrders
    BY <1>3, <1>6, <2>3
  <2> QED
    BY <2>1, <2>2, <2>4 DEF tables
<1> QED
  BY <1>7, <1>8

\* Where the tables tell their rows apart, the commit of a push whose entries name
\* their units leaves them as the push says, and changes no row if they already are
\* so: a request whose answer was lost may be sent again.
THEOREM RetriesChangeNothing == StoresNamed => (PushSpec => RetryIsIdempotent)
<1> SUFFICES ASSUME StoresNamed PROVE PushSpec => RetryIsIdempotent
  OBVIOUS
<1> DEFINE Repeats == \A p \in committed' \ committed : Plain(p) =>
                        /\ Applied(p)'
                        /\ Applied(p) /\ TagsClear(p) => UNCHANGED tables
<1>1. PushInv /\ OrderInv /\ StageInv /\ [PushNext]_vars => [Repeats]_vars
  <2> SUFFICES ASSUME PushInv, OrderInv, StageInv, [PushNext]_vars,
                      NEW p \in committed' \ committed, Plain(p)
               PROVE  Applied(p)' /\ (Applied(p) /\ TagsClear(p) => UNCHANGED tables)
    OBVIOUS
  <2>1. p \in Push /\ Commits(p)
    BY NewlyCommitted
  <2> QED
    BY <2>1, CommitRetried
<1>2. PushSpec => []StageInv
  BY StageInvariant
<1> QED
  BY <1>1, <1>2, PushInvariant, OrderInvariant, PTL DEF PushSpec, RetryIsIdempotent
=============================================================================
