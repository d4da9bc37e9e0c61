--------------------------- MODULE MigrateProofs ----------------------------
(* Theorems about Migrate, for every set of configurations and plans: the   *)
(* type invariant, that merging policies changes no verdict, that renamed   *)
(* words fit the target version, that what is lost is told, and that        *)
(* interfaces keep their bridge and have a VDOM.                            *)
EXTENDS Migrate, RecursionTheorems

-----------------------------------------------------------------------------
(* The stages up to the version scan, up to the interface mapping, from the *)
(* destination's ports on and from the zones on.                            *)
ToVersion == {"mode", "vdommap", "hw", "ssl", "version"}
ToPortmap == ToVersion \cup {"device", "identity", "portmap"}
FromZones == {"zones", "sdwan", "dedup", "audit", "done"}
FromDevice == {"device", "identity", "portmap"} \cup FromZones

(* What is known of every tree on the way.                                  *)
TreeShape(t) ==
  /\ DOMAIN t = TreeFields /\ t.multi \in BOOLEAN
  /\ t.multi \/ DOMAIN t.bodies = {"root"}
  /\ \A i \in t.ifaces : DOMAIN i = IfaceFields
  /\ \A w \in t.words : DOMAIN w = {"word", "spelling"}
  /\ \A v \in DOMAIN t.bodies : HasTables(t.bodies[v])
ShapeInv ==
  /\ IsCase(job)
  /\ stage \in ToSet(Stages) \cup {"refused"}
  /\ TreeShape(tree)
  /\ stage = "mode" => tree = job.tree

(* The findings are about areas.                                            *)
Areas == {"device", "portmap", "ssl", "version", "same-zone", "conflict", "zones", "sdwan"}
ToldInv == \A x \in told : x[1] \in Areas

(* Words are those of the source, and then those of the target.             *)
WordsKnown ==
  /\ job.header # None /\ StatedFits
  /\ Plan.target # None /\ Plan.target.patch # None
Fitting(words, d) ==
  \A w \in words, r \in Rules :
    r.kind = "renamed" /\ r.word = w.word => w.spelling = Spelling(r, d)
WordsInv ==
  /\ stage \in ToVersion => tree.words = job.tree.words
  /\ stage \in FromDevice /\ WordsKnown => Fitting(tree.words, Plan.target)

(* Every interface is in a VDOM, and there is a bridge of the ports each    *)
(* hardware switch had: in the two places where the source keeps them, then *)
(* in one, then under the new names.                                        *)
OwnedTree(t) ==
  t.multi => /\ \A i \in t.ifaces : i.vdom \in DOMAIN t.bodies \ {None}
             /\ t.mgmt \in DOMAIN t.bodies \cup {None}
HardSwitches == {i \in job.tree.ifaces : i.type = "hard-switch"}
BridgedPorts(i) == i.members \cup SwitchPorts(job.tree, i.name)
AsBefore(t) ==
  /\ t.switches = job.tree.switches
  /\ \A i \in job.tree.ifaces : \E j \in t.ifaces :
       i.name = j.name /\ i.type = j.type /\ i.members = j.members /\ i.port = j.port
Bridged(t) ==
  \A i \in HardSwitches : \E j \in t.ifaces : j.port = i.port /\ BridgedPorts(i) \subseteq j.members
BridgedAnew(t) ==
  \A i \in HardSwitches : \E j \in t.ifaces :
    j.port = i.port /\ RenameAll(Plan.portmap, BridgedPorts(i)) \subseteq j.members
PlaceInv ==
  /\ OwnedTree(tree)
  /\ stage \in {"mode", "vdommap", "hw"} /\ ~Plan.scopeOnly => AsBefore(tree)
  /\ stage \in ToPortmap \ {"mode", "vdommap", "hw"} /\ ~Plan.scopeOnly /\ Plan.hw => Bridged(tree)
  /\ stage \in FromZones /\ ~Plan.scopeOnly /\ Plan.hw => BridgedAnew(tree)

(* The ports the destination lacks are told before they are renamed.        *)
BundlesListed(t) == \A i \in t.ifaces : i.type = "aggregate" => i.members \subseteq IfaceNames(t)
AllTold(names) == \A n \in names : n \in Plan.device \/ <<"device", n>> \in told
PortsInv ==
  /\ stage \in ToPortmap => BundlesListed(tree)
  /\ stage \in {"identity", "portmap"} /\ Plan.device # None =>
       AllTold(RenameAll(Plan.portmap, PhysicalNames(tree)))
  /\ stage \in FromZones /\ Plan.device # None => AllTold(PhysicalNames(tree))

(* A VDOM of the source keeps its SSL-VPN and tunnels until they are        *)
(* converted; then its splits are on the tunnel, told, or the exception.    *)
SameTunnels(b, c) == b.ssl = c.ssl /\ b.tunnels = c.tunnels
SplitKept(b, now, known) ==
  b.ssl # None => \A i \in TunnelPortals(b.ssl) : \A d \in b.ssl.portals[i].split :
    \/ \E q \in now.tunnels : q.name = TunnelName /\ d \in q.split
    \/ <<"ssl", d>> \in known
    \/ d \in SplitOf(b.ssl) /\ \E q \in b.tunnels : q.name = TunnelName
SplitInv ==
  \A v \in DOMAIN job.tree.bodies :
    LET b == job.tree.bodies[v]
    IN  /\ stage = "vdommap" => /\ ModeNow(v) \in DOMAIN tree.bodies
                                /\ SameTunnels(tree.bodies[ModeNow(v)], b)
        /\ stage \in {"hw", "ssl"} => /\ VdomNow(v) \in DOMAIN tree.bodies
                                      /\ SameTunnels(tree.bodies[VdomNow(v)], b)
        /\ stage \in {"version"} \cup FromDevice =>
             /\ VdomNow(v) \in DOMAIN tree.bodies
             /\ Plan.ssl => SplitKept(b, tree.bodies[VdomNow(v)], told)

MigrateInv == ShapeInv /\ ToldInv /\ WordsInv /\ PlaceInv /\ PortsInv /\ SplitInv

-----------------------------------------------------------------------------
(* The transforms, one by one.                                              *)

(* The stages follow each other.                                            *)
LEMMA StageOrder ==
  /\ After("mode") = "vdommap" /\ After("vdommap") = "hw" /\ After("hw") = "ssl"
  /\ After("ssl") = "version" /\ After("version") = "device" /\ After("device") = "identity"
  /\ After("identity") = "portmap" /\ After("portmap") = "zones" /\ After("zones") = "sdwan"
  /\ After("sdwan") = "dedup" /\ After("dedup") = "audit" /\ After("audit") = "done"
<1>1. DOMAIN Stages = 1 .. 13
  BY DEF Stages
<1>2. /\ Stages[1] = "mode" /\ Stages[2] = "vdommap" /\ Stages[3] = "hw"
      /\ Stages[4] = "ssl" /\ Stages[5] = "version" /\ Stages[6] = "device"
      /\ Stages[7] = "identity" /\ Stages[8] = "portmap" /\ Stages[9] = "zones"
      /\ Stages[10] = "sdwan" /\ Stages[11] = "dedup" /\ Stages[12] = "audit"
      /\ Stages[13] = "done"
  BY DEF Stages
<1>3. \A k \in 1 .. 13 : \A j \in 1 .. 13 : Stages[k] = Stages[j] => k = j
  BY <1>2
<1>4. \A k \in 1 .. 12 : After(Stages[k]) = Stages[k + 1]
  <2> SUFFICES ASSUME NEW k \in 1 .. 12 PROVE After(Stages[k]) = Stages[k + 1]
    OBVIOUS
  <2>1. (CHOOSE i \in DOMAIN Stages : Stages[i] = Stages[k]) = k
    BY <1>1, <1>3
  <2>2. After(Stages[k]) = Stages[1 + k]
    BY <2>1, Zenon DEF After
  <2> QED BY <2>2
<1> QED BY <1>2, <1>4

(* What a step on an interface or a body leaves alone, it leaves alone: the *)
(* frame of a transform that turns bodies into bodies.                      *)
OnlyBodies(t, u) ==
  /\ DOMAIN u = TreeFields /\ DOMAIN u.bodies = DOMAIN t.bodies
  /\ u.multi = t.multi /\ u.mgmt = t.mgmt /\ u.ifaces = t.ifaces /\ u.words = t.words

-----------------------------------------------------------------------------
(* Tables: what mapping, filtering and numbering leaves of them.            *)

(* A function over 1 .. n is a sequence of its values.                      *)
LEMMA IsSequence ==
  ASSUME NEW n \in Nat, NEW X, NEW r, r = [i \in 1 .. n |-> r[i]], \A i \in 1 .. n : r[i] \in X
  PROVE  /\ r \in Seq(X) /\ Len(r) = n /\ DOMAIN r = 1 .. n
         /\ ToSet(r) = {r[i] : i \in 1 .. n}
<1>1. r \in [1 .. n -> X]
  OBVIOUS
<1>2. r \in Seq(X) /\ DOMAIN r = 1 .. n
  BY <1>1
<1>3. Len(r) = n
  BY <1>1, <1>2
<1> QED BY <1>2, <1>3 DEF ToSet

(* The entries of a sequence.                                               *)
LEMMA SequenceEntries ==
  ASSUME NEW s, s \in Seq(ToSet(s))
  PROVE  /\ Len(s) \in Nat /\ DOMAIN s = 1 .. Len(s) /\ s = [i \in 1 .. Len(s) |-> s[i]]
         /\ \A i \in DOMAIN s : s[i] \in ToSet(s)
         /\ \A e \in ToSet(s) : \E i \in DOMAIN s : s[i] = e
<1> DEFINE n == Len(s)
           X == ToSet(s)
<1>1. s \in Seq(X)
  OBVIOUS
<1> HIDE DEF X
<1>2. n \in Nat /\ DOMAIN s = 1 .. n /\ s = [i \in 1 .. n |-> s[i]] /\ \A i \in 1 .. n : s[i] \in X
  BY <1>1
<1>3. \A e \in ToSet(s) : \E i \in DOMAIN s : s[i] = e
  BY DEF ToSet
<1> QED BY <1>2, <1>3 DEF X

(* An entry for each entry is a sequence of the new entries.                *)
LEMMA MappedSequence ==
  ASSUME NEW s, s \in Seq(ToSet(s)), NEW r, r = [i \in DOMAIN s |-> r[i]]
  PROVE  /\ r \in Seq(ToSet(r)) /\ DOMAIN r = DOMAIN s /\ Len(r) = Len(s)
         /\ \A e \in ToSet(r) : \E i \in DOMAIN s : e = r[i] /\ s[i] \in ToSet(s)
         /\ \A i \in DOMAIN s : r[i] \in ToSet(r)
<1> DEFINE n == Len(s)
<1>1. n \in Nat /\ DOMAIN s = 1 .. n /\ \A i \in 1 .. n : s[i] \in ToSet(s)
  BY SequenceEntries
<1>2. r = [i \in 1 .. n |-> r[i]]
  BY <1>1
<1> HIDE DEF n
<1>3. DOMAIN r = 1 .. n
  BY <1>2
<1>4. \A i \in 1 .. n : r[i] \in ToSet(r)
  BY <1>3 DEF ToSet
<1>5. r \in Seq(ToSet(r)) /\ Len(r) = n
  BY <1>1, <1>2, <1>4, IsSequence
<1>6. \A e \in ToSet(r) : \E i \in 1 .. n : e = r[i]
  BY <1>3 DEF ToSet
<1> QED BY <1>1, <1>3, <1>4, <1>5, <1>6 DEF n

(* An entry for each entry, with its id, is a table.                        *)
LEMMA MappedTable ==
  ASSUME NEW fields, NEW s, IsTable(s, fields), NEW r, r = [i \in DOMAIN s |-> r[i]],
         \A i \in DOMAIN s : DOMAIN r[i] = fields /\ r[i].id = s[i].id
  PROVE  IsTable(r, fields) /\ (Distinct(s) => Distinct(r))
<1>1. /\ r \in Seq(ToSet(r)) /\ DOMAIN r = DOMAIN s
      /\ \A e \in ToSet(r) : \E i \in DOMAIN s : e = r[i] /\ s[i] \in ToSet(s)
  BY MappedSequence DEF IsTable
<1>2. \A e \in ToSet(r) : DOMAIN e = fields /\ e.id \in Nat
  BY <1>1 DEF IsTable
<1> QED BY <1>1, <1>2 DEF IsTable, Distinct

(* A sequence of entries of a table is a table.                             *)
LEMMA PartOfTable ==
  ASSUME NEW fields, NEW s, IsTable(s, fields), NEW r \in Seq(ToSet(s))
  PROVE  IsTable(r, fields) /\ ToSet(r) \subseteq ToSet(s)
<1> DEFINE X == ToSet(s)
           n == Len(r)
<1>1. n \in Nat /\ r = [i \in 1 .. n |-> r[i]] /\ \A i \in 1 .. n : r[i] \in X
  <2> HIDE DEF X
  <2> QED BY DEF X
<1>2. DOMAIN r = 1 .. n
  BY <1>1
<1> HIDE DEF X, n
<1>3. \A i \in 1 .. n : r[i] \in ToSet(r)
  BY <1>2 DEF ToSet
<1>4. r \in Seq(ToSet(r))
  BY <1>1, <1>3, IsSequence
<1>5. ToSet(r) \subseteq X
  BY <1>1, <1>2 DEF ToSet
<1> QED BY <1>4, <1>5 DEF IsTable, X

(* Among is a loop over s.                                                  *)
AmongStep(X, S) ==
  [sx \in Seq(X) \X X |-> IF sx[2] \in S THEN Append(sx[1], sx[2]) ELSE sx[1]]

(* AmongUpTo goes on entry by entry.                                        *)
LEMMA AmongIsLoop ==
  ASSUME NEW X, NEW s \in Seq(X), NEW S
  PROVE  /\ AmongUpTo(s, S) \in [0 .. Len(s) -> Seq(X)] /\ AmongUpTo(s, S)[0] = <<>>
         /\ \A k \in 1 .. Len(s) : AmongUpTo(s, S)[k] =
              IF s[k] \in S THEN Append(AmongUpTo(s, S)[k - 1], s[k]) ELSE AmongUpTo(s, S)[k - 1]
<1> DEFINE n == Len(s)
           step == AmongStep(X, S)
           next(kept, x) == IF x \in S THEN Append(kept, x) ELSE kept
           Rec(f) == f = [k \in 0 .. n |-> IF k = 0 THEN <<>> ELSE next(f[k - 1], s[k])]
<1>0. \A kept \in Seq(X), x \in X : step[<<kept, x>>] = next(kept, x) /\ next(kept, x) \in Seq(X)
  BY DEF AmongStep
<1>1. n \in Nat /\ <<>> \in Seq(X)
  OBVIOUS
<1>2. PICK f \in [0 .. n -> Seq(X)] : IsLoopTo(f, <<>>, step, s, n)
  <2>1. IsStep(step, Seq(X), X)
    <3> HIDE DEF next
    <3>1. step = [sx \in Seq(X) \X X |-> next(sx[1], sx[2])]
      BY DEF AmongStep, next
    <3>2. \A sx \in Seq(X) \X X : next(sx[1], sx[2]) \in Seq(X)
      BY <1>0
    <3> HIDE DEF step
    <3> QED BY <3>1, <3>2 DEF IsStep
  <2> HIDE DEF step
  <2>2. ASSUME NEW Y, Y = Seq(X), NEW base \in Y
        PROVE  \E f \in [0 .. Len(s) -> Y] : IsLoopTo(f, base, step, s, Len(s))
    BY <2>1, <2>2, LoopExists
  <2> QED BY <1>1, <2>2
<1> HIDE DEF step, next
<1>3. \A k \in 1 .. n : k - 1 \in 0 .. n /\ s[k] \in X
  BY <1>1
<1>4. Rec(f)
  <2>1. ASSUME NEW k \in 0 .. n PROVE f[k] = IF k = 0 THEN <<>> ELSE next(f[k - 1], s[k])
    <3>1. CASE k = 0
      BY <1>2, <3>1 DEF IsLoopTo
    <3>2. CASE k # 0
      <4>1. k \in 1 .. n
        BY <1>1, <3>2
      <4>2. f[k - 1] \in Seq(X) /\ s[k] \in X
        BY <1>3, <4>1
      <4>3. f[k] = step[<<f[k - 1], s[k]>>]
        BY <1>2, <4>1 DEF IsLoopTo
      <4> QED BY <1>0, <3>2, <4>2, <4>3
    <3> QED BY <3>1, <3>2
  <2>2. f = [k \in 0 .. n |-> f[k]]
    BY <1>2
  <2> QED BY <2>1, <2>2
<1>5. AmongUpTo(s, S) = CHOOSE g : Rec(g)
  BY DEF AmongUpTo, next
<1>6. Rec(AmongUpTo(s, S))
  <2> HIDE DEF Rec
  <2> QED BY <1>4, <1>5
<1> DEFINE g == AmongUpTo(s, S)
<1>7. \A k \in 1 .. n : g[k] = next(g[k - 1], s[k])
  BY <1>1, <1>6
<1>8. g[0] = <<>> /\ g = [k \in 0 .. n |-> g[k]]
  BY <1>1, <1>6
<1> HIDE DEF Rec, g
<1>9. 0 .. n \subseteq {k \in 0 .. n : g[k] \in Seq(X)}
  <2> DEFINE T == {k \in 0 .. n : g[k] \in Seq(X)}
  <2>1. 0 \in T
    BY <1>1, <1>8
  <2>2. ASSUME NEW k \in 0 .. n, k \in T, k # n PROVE k + 1 \in T
    <3>1. k + 1 \in 1 .. n /\ (k + 1) - 1 = k /\ k + 1 \in 0 .. n
      BY <1>1, <2>2
    <3>2. g[k] \in Seq(X) /\ s[k + 1] \in X
      BY <1>3, <2>2, <3>1
    <3>3. g[k + 1] = next(g[k], s[k + 1])
      BY <1>7, <3>1
    <3>4. g[k + 1] \in Seq(X)
      BY <1>0, <3>2, <3>3
    <3> QED BY <3>1, <3>4
  <2> HIDE DEF T
  <2>3. 0 .. n \subseteq T
    BY <1>1, <2>1, <2>2, IntervalInduction
  <2> QED BY <2>3 DEF T
<1> QED BY <1>7, <1>8, <1>9 DEF g, next

(* What Among keeps: the entries of S, and their ids apart.                 *)
LEMMA AmongKeeps ==
  ASSUME NEW s, s \in Seq(ToSet(s)), NEW S
  PROVE  /\ Among(s, S) \in Seq(ToSet(s))
         /\ \A e : e \in ToSet(Among(s, S)) <=> e \in ToSet(s) /\ e \in S
         /\ Distinct(s) => Distinct(Among(s, S))
<1> DEFINE n == Len(s)
           X == ToSet(s)
           f == AmongUpTo(s, S)
           Firsts(k) == {s[i] : i \in 1 .. k}
           Good(k) == /\ \A e : e \in ToSet(f[k]) <=> e \in Firsts(k) /\ e \in S
                      /\ Distinct(s) => Distinct(f[k])
           T == {k \in 0 .. n : Good(k)}
<1>1. /\ n \in Nat /\ \A i \in 1 .. n : s[i] \in X /\ DOMAIN s = 1 .. n
      /\ X = Firsts(n)
  <2>1. n \in Nat /\ DOMAIN s = 1 .. n /\ \A i \in 1 .. n : s[i] \in X
    BY SequenceEntries
  <2> QED BY <2>1 DEF ToSet
<1>2. /\ f \in [0 .. n -> Seq(X)] /\ f[0] = <<>>
      /\ \A k \in 1 .. n : f[k] = IF s[k] \in S THEN Append(f[k - 1], s[k]) ELSE f[k - 1]
  <2> HIDE DEF X
  <2> QED BY AmongIsLoop DEF X
<1> HIDE DEF f, X
<1>3. 0 \in T
  <2>1. ToSet(<<>>) = {} /\ Distinct(<<>>)
    BY DEF ToSet, Distinct
  <2> QED BY <1>1, <1>2, <2>1
<1>4. ASSUME NEW k \in 0 .. n, k \in T, k # n PROVE k + 1 \in T
  <2>1. k + 1 \in 1 .. n /\ (k + 1) - 1 = k /\ k + 1 \in 0 .. n /\ k \in Nat
    BY <1>1, <1>4
  <2> DEFINE p == s[k + 1]
             kept == f[k]
             now == f[k + 1]
  <2>2. kept \in Seq(X) /\ now = IF p \in S THEN Append(kept, p) ELSE kept
    BY <1>2, <2>1
  <2>3. \A e : e \in Firsts(k + 1) <=> e \in Firsts(k) \/ e = p
    BY <2>1
  <2>4. /\ \A e : e \in ToSet(kept) <=> e \in Firsts(k) /\ e \in S
        /\ Distinct(s) => Distinct(kept)
    <3>1. Good(k)
      <4> HIDE DEF Good
      <4> QED BY <1>4
    <3> QED BY <3>1 DEF kept
  <2>5. p \in X
    BY <1>1, <2>1
  <2> HIDE DEF p, kept, now
  <2>6. CASE p \notin S
    <3>1. /\ \A e : e \in ToSet(now) <=> e \in Firsts(k + 1) /\ e \in S
          /\ Distinct(s) => Distinct(now)
      <4> HIDE DEF Firsts
      <4> QED BY <2>2, <2>3, <2>4, <2>6
    <3> QED BY <2>1, <3>1 DEF now
  <2>7. CASE p \in S
    <3>1. now = Append(kept, p)
      BY <2>2, <2>7
    <3> DEFINE m == Len(kept)
    <3>2. /\ m \in Nat /\ DOMAIN now = 1 .. m + 1 /\ now[m + 1] = p
          /\ DOMAIN kept = 1 .. m /\ \A i \in 1 .. m : now[i] = kept[i]
      BY <2>2, <2>5, <3>1
    <3> HIDE DEF m
    <3>3. \A e : e \in ToSet(now) <=> e \in ToSet(kept) \/ e = p
      BY <3>2 DEF ToSet
    <3>4. \A e : e \in ToSet(now) <=> e \in Firsts(k + 1) /\ e \in S
      <4> HIDE DEF Firsts
      <4> QED BY <2>3, <2>4, <2>7, <3>3
    <3>5. ASSUME Distinct(s) PROVE Distinct(now)
      <4>1. Distinct(kept)
        BY <2>4, <3>5
      <4>2. ASSUME NEW i \in 1 .. m, kept[i].id = p.id PROVE FALSE
        <5>1. kept[i] \in Firsts(k)
          BY <2>4, <3>2 DEF ToSet
        <5>2. PICK j \in 1 .. k : kept[i] = s[j]
          BY <5>1
        <5>3. j \in 1 .. n /\ s[j].id = s[k + 1].id
          BY <2>1, <4>2, <5>2 DEF p
        <5>4. j = k + 1
          BY <1>1, <2>1, <3>5, <5>3 DEF Distinct
        <5> QED BY <2>1, <5>2, <5>4
      <4>3. ASSUME NEW i \in 1 .. m + 1, NEW j \in 1 .. m + 1, now[i].id = now[j].id PROVE i = j
        <5>1. CASE i \in 1 .. m /\ j \in 1 .. m
          BY <3>2, <4>1, <4>3, <5>1 DEF Distinct
        <5>2. CASE i = m + 1 /\ j \in 1 .. m
          BY <3>2, <4>2, <4>3, <5>2
        <5>3. CASE i \in 1 .. m /\ j = m + 1
          BY <3>2, <4>2, <4>3, <5>3
        <5>4. CASE i = m + 1 /\ j = m + 1
          BY <5>4
        <5> QED BY <3>2, <5>1, <5>2, <5>3, <5>4
      <4> QED BY <3>2, <4>3 DEF Distinct
    <3> QED BY <2>1, <3>4, <3>5 DEF now
  <2> QED BY <2>6, <2>7
<1>5. 0 .. n \subseteq T
  <2> HIDE DEF T, n
  <2> QED BY <1>1, <1>3, <1>4, IntervalInduction
<1>6. n \in T
  <2> HIDE DEF T, n
  <2>1. n \in 0 .. n
    BY <1>1
  <2> QED BY <1>5, <2>1
<1>7. Among(s, S) = f[n]
  BY DEF Among, f
<1>8. f[n] \in Seq(X)
  BY <1>1, <1>2
<1>9. /\ \A e : e \in ToSet(f[n]) <=> e \in X /\ e \in S
      /\ Distinct(s) => Distinct(f[n])
  <2>1. Good(n)
    <3> HIDE DEF Good
    <3> QED BY <1>6
  <2> HIDE DEF Firsts
  <2> QED BY <1>1, <2>1
<1> HIDE DEF T
<1> QED BY <1>9, <1>1, <1>6, <1>7, <1>8 DEF X

(* Two sequences, one behind the other.                                     *)
LEMMA JoinedSequence ==
  ASSUME NEW s, s \in Seq(ToSet(s)), NEW r, r \in Seq(ToSet(r))
  PROVE  /\ s \o r \in Seq(ToSet(s \o r))
         /\ \A e : e \in ToSet(s \o r) <=> e \in ToSet(s) \/ e \in ToSet(r)
         /\ DOMAIN (s \o r) = 1 .. Len(s) + Len(r)
         /\ \A i \in 1 .. Len(s) : (s \o r)[i] = s[i]
         /\ \A i \in 1 .. Len(r) : (s \o r)[Len(s) + i] = r[i]
         /\ \A i \in 1 .. Len(s) + Len(r) : i \in 1 .. Len(s) \/ i - Len(s) \in 1 .. Len(r)
<1> DEFINE n == Len(s)
           m == Len(r)
           u == s \o r
           Z == ToSet(s) \cup ToSet(r)
<1>1. n \in Nat /\ m \in Nat /\ DOMAIN s = 1 .. n /\ DOMAIN r = 1 .. m
  BY SequenceEntries
<1>2. /\ u = [i \in 1 .. n + m |-> u[i]]
      /\ \A i \in 1 .. n + m : u[i] = IF i <= n THEN s[i] ELSE r[i - n]
  <2>1. s \in Seq(Z) /\ r \in Seq(Z)
    <3>1. s = [i \in 1 .. n |-> s[i]] /\ \A i \in 1 .. n : s[i] \in Z
      BY SequenceEntries
    <3>2. r = [i \in 1 .. m |-> r[i]] /\ \A i \in 1 .. m : r[i] \in Z
      BY SequenceEntries
    <3> HIDE DEF n, m, Z
    <3> QED BY <1>1, <3>1, <3>2, IsSequence
  <2> HIDE DEF Z
  <2>2. u \in Seq(Z) /\ Len(u) = n + m
    BY <2>1
  <2>3. DOMAIN u = 1 .. n + m /\ u = [i \in DOMAIN u |-> u[i]]
    <3> HIDE DEF u
    <3> QED BY <2>2
  <2>4. \A i \in 1 .. n + m : u[i] = IF i <= n THEN s[i] ELSE r[i - n]
    BY <1>1, <2>1
  <2> QED BY <2>3, <2>4
<1> HIDE DEF n, m, u
<1>3. /\ DOMAIN u = 1 .. n + m
      /\ \A i \in 1 .. n : u[i] = s[i]
      /\ \A i \in 1 .. m : u[n + i] = r[i]
      /\ \A i \in 1 .. n + m : i \in 1 .. n \/ i - n \in 1 .. m
  <2>1. ASSUME NEW i \in 1 .. m PROVE u[n + i] = r[i]
    <3>1. n + i \in 1 .. n + m /\ ~(n + i <= n) /\ (n + i) - n = i
      BY <1>1
    <3> QED BY <1>2, <3>1
  <2>2. ASSUME NEW i \in 1 .. n PROVE u[i] = s[i]
    <3>1. i \in 1 .. n + m /\ i <= n
      BY <1>1
    <3> QED BY <1>2, <3>1
  <2>3. \A i \in 1 .. n + m : i \in 1 .. n \/ i - n \in 1 .. m
    BY <1>1
  <2> QED BY <1>2, <2>1, <2>2, <2>3
<1>4. \A e : e \in ToSet(u) <=> e \in ToSet(s) \/ e \in ToSet(r)
  <2>1. ASSUME NEW e \in ToSet(u) PROVE e \in ToSet(s) \/ e \in ToSet(r)
    <3>1. PICK i \in 1 .. n + m : e = u[i]
      BY <1>3 DEF ToSet
    <3>2. CASE i \in 1 .. n
      BY <1>1, <1>3, <3>1, <3>2 DEF ToSet
    <3>3. CASE i - n \in 1 .. m
      <4>1. n + (i - n) = i
        BY <1>1
      <4> QED BY <1>1, <1>3, <3>1, <3>3, <4>1 DEF ToSet
    <3> QED BY <1>3, <3>2, <3>3
  <2>2. ASSUME NEW e \in ToSet(s) PROVE e \in ToSet(u)
    <3>1. PICK i \in 1 .. n : e = s[i]
      BY <1>1 DEF ToSet
    <3>2. i \in 1 .. n + m /\ e = u[i]
      BY <1>1, <1>3, <3>1
    <3> QED BY <1>3, <3>2 DEF ToSet
  <2>3. ASSUME NEW e \in ToSet(r) PROVE e \in ToSet(u)
    <3>1. PICK i \in 1 .. m : e = r[i]
      BY <1>1 DEF ToSet
    <3>2. n + i \in 1 .. n + m /\ e = u[n + i]
      BY <1>1, <1>3, <3>1
    <3> QED BY <1>3, <3>2 DEF ToSet
  <2> QED BY <2>1, <2>2, <2>3
<1>5. u \in Seq(ToSet(u))
  <2>1. \A i \in 1 .. n + m : u[i] \in ToSet(u)
    BY <1>3 DEF ToSet
  <2>2. n + m \in Nat /\ u = [i \in 1 .. n + m |-> u[i]]
    BY <1>1, <1>2
  <2> QED BY <2>1, <2>2, IsSequence
<1> QED BY <1>3, <1>4, <1>5 DEF u, n, m

(* The next id is greater than every id of the table.                       *)
LEMMA NextIdIsNew ==
  ASSUME NEW s, s \in Seq(ToSet(s)), \A e \in ToSet(s) : e.id \in Nat
  PROVE  NextId(s) \in Nat /\ \A i \in DOMAIN s : s[i].id < NextId(s)
<1> DEFINE n == Len(s)
           ids == {0} \cup {s[i].id : i \in DOMAIN s}
           T == {k \in 0 .. n : \E a \in ids : \A i \in 1 .. k : s[i].id <= a}
<1>1. n \in Nat /\ DOMAIN s = 1 .. n /\ \A i \in 1 .. n : s[i].id \in Nat
  BY SequenceEntries
<1>2. ids \subseteq Nat /\ 0 \in ids
  BY <1>1
<1>3. 0 \in T
  BY <1>1
<1>4. ASSUME NEW k \in 0 .. n, k \in T, k # n PROVE k + 1 \in T
  <2>1. PICK a \in ids : \A i \in 1 .. k : s[i].id <= a
    BY <1>4
  <2>2. k + 1 \in 1 .. n /\ k + 1 \in 0 .. n /\ k \in Nat /\ a \in Nat
    <3> HIDE DEF ids, T, n
    <3> QED BY <1>1, <1>2, <1>4
  <2>3. CASE s[k + 1].id <= a
    <3>1. \A i \in 1 .. k + 1 : s[i].id <= a
      BY <2>1, <2>2, <2>3
    <3> HIDE DEF ids
    <3> QED BY <2>2, <3>1
  <2>4. CASE ~(s[k + 1].id <= a)
    <3>1. s[k + 1].id \in ids /\ s[k + 1].id \in Nat
      BY <1>1, <2>2
    <3>2. \A i \in 1 .. k + 1 : s[i].id <= s[k + 1].id
      <4> SUFFICES ASSUME NEW i \in 1 .. k + 1 PROVE s[i].id <= s[k + 1].id
        OBVIOUS
      <4>1. CASE i = k + 1
        BY <3>1, <4>1
      <4>2. CASE i # k + 1
        <5>1. i \in 1 .. k /\ s[i].id \in Nat
          BY <1>1, <2>2, <4>2
        <5> QED BY <2>1, <2>2, <2>4, <3>1, <5>1
      <4> QED BY <4>1, <4>2
    <3> HIDE DEF ids
    <3> QED BY <2>2, <3>1, <3>2
  <2> QED BY <2>3, <2>4
<1>5. 0 .. n \subseteq T
  <2> HIDE DEF T, n
  <2> QED BY <1>1, <1>3, <1>4, IntervalInduction
<1>6. PICK a \in ids : \A b \in ids : a >= b
  <2>1. n \in T
    <3> HIDE DEF T, n
    <3>1. n \in 0 .. n
      BY <1>1
    <3> QED BY <1>5, <3>1
  <2>2. PICK a \in ids : \A i \in 1 .. n : s[i].id <= a
    BY <2>1
  <2>3. \A b \in ids : a >= b
    BY <1>1, <1>2, <2>2
  <2> QED BY <2>3
<1>7. Max(ids) = a /\ a \in Nat
  <2>1. \A x \in ids : (\A y \in ids : x >= y) => x = a
    BY <1>2, <1>6
  <2> HIDE DEF ids
  <2>2. Max(ids) \in ids /\ \A y \in ids : Max(ids) >= y
    BY <1>6 DEF Max
  <2> QED BY <1>2, <1>6, <2>1, <2>2
<1>8. NextId(s) = a + 1
  BY <1>7 DEF NextId
<1>9. \A i \in DOMAIN s : s[i].id \in ids /\ s[i].id \in Nat
  BY <1>1
<1> HIDE DEF ids
<1> QED BY <1>6, <1>7, <1>8, <1>9

(* New entries, numbered on: a table of the old entries and the new ones.   *)
LEMMA NumberedTable ==
  ASSUME NEW fields, "id" \in fields, NEW s, IsTable(s, fields),
         NEW es, es \in Seq(ToSet(es)), \A e \in ToSet(es) : DOMAIN e = fields
  PROVE  /\ IsTable(Numbered(s, es), fields)
         /\ Distinct(s) => Distinct(Numbered(s, es))
         /\ \A e \in ToSet(s) : e \in ToSet(Numbered(s, es))
         /\ \A e \in ToSet(Numbered(s, es)) :
              e \in ToSet(s) \/ \E f \in ToSet(es) : \A x \in fields \ {"id"} : e[x] = f[x]
         /\ \A f \in ToSet(es) : \E e \in ToSet(Numbered(s, es)) :
              \A x \in fields \ {"id"} : e[x] = f[x]
<1> DEFINE new == [i \in DOMAIN es |-> [es[i] EXCEPT !.id = NextId(s) + i - 1]]
           u == Numbered(s, es)
           n == Len(s)
           m == Len(es)
<1>1. /\ NextId(s) \in Nat /\ \A i \in DOMAIN s : s[i].id < NextId(s)
      /\ n \in Nat /\ DOMAIN s = 1 .. n /\ m \in Nat /\ DOMAIN es = 1 .. m
      /\ \A i \in DOMAIN s : s[i] \in ToSet(s)
      /\ \A i \in DOMAIN es : es[i] \in ToSet(es)
      /\ \A e \in ToSet(es) : \E i \in DOMAIN es : es[i] = e
  BY NextIdIsNew, SequenceEntries DEF IsTable
<1>2. \A i \in DOMAIN es :
        /\ DOMAIN new[i] = fields /\ new[i].id = NextId(s) + i - 1
        /\ \A x \in fields \ {"id"} : new[i][x] = es[i][x]
  BY <1>1
<1>3. new = [i \in DOMAIN es |-> new[i]]
  OBVIOUS
<1>4. u = s \o new
  BY DEF Numbered
<1> HIDE DEF new, u, n, m
<1>5. /\ new \in Seq(ToSet(new)) /\ Len(new) = m
      /\ \A e \in ToSet(new) : \E i \in DOMAIN es : e = new[i] /\ es[i] \in ToSet(es)
      /\ \A i \in DOMAIN es : new[i] \in ToSet(new)
  BY <1>3, MappedSequence DEF m
<1>6. /\ u \in Seq(ToSet(u)) /\ \A e : e \in ToSet(u) <=> e \in ToSet(s) \/ e \in ToSet(new)
      /\ DOMAIN u = 1 .. n + m
      /\ \A i \in 1 .. n : u[i] = s[i]
      /\ \A i \in 1 .. m : u[n + i] = new[i]
      /\ \A i \in 1 .. n + m : i \in 1 .. n \/ i - n \in 1 .. m
  BY <1>4, <1>5, JoinedSequence DEF IsTable, n
<1>7. \A e \in ToSet(new) : DOMAIN e = fields /\ e.id \in Nat
  <2>1. \A i \in DOMAIN es : new[i].id \in Nat
    BY <1>1, <1>2
  <2> QED BY <1>2, <1>5, <2>1
<1>8. IsTable(u, fields)
  <2>1. \A e \in ToSet(u) : DOMAIN e = fields /\ e.id \in Nat
    BY <1>6, <1>7, Zenon DEF IsTable
  <2> QED BY <1>6, <2>1 DEF IsTable
<1>12. \A i \in 1 .. n + m : \/ i \in 1 .. n /\ u[i].id < NextId(s) /\ u[i].id \in Nat
                           \/ \E k \in 1 .. m : i = n + k /\ u[i].id = NextId(s) + k - 1
  <2> SUFFICES ASSUME NEW i \in 1 .. n + m, i \notin 1 .. n
               PROVE  \E k \in 1 .. m : i = n + k /\ u[i].id = NextId(s) + k - 1
    BY <1>1, <1>6 DEF IsTable
  <2>1. PICK k \in 1 .. m : k = i - n
    BY <1>6
  <2>2. i = n + k
    BY <1>1, <2>1
  <2>3. u[i] = new[k] /\ k \in DOMAIN es
    BY <1>1, <1>6, <2>2
  <2> QED BY <1>2, <2>2, <2>3
<1>9. ASSUME Distinct(s) PROVE Distinct(u)
  <2>1. ASSUME NEW i \in 1 .. n + m, NEW j \in 1 .. n + m, u[i].id = u[j].id PROVE i = j
    <3>1. CASE i \in 1 .. n /\ j \in 1 .. n
      BY <1>1, <1>6, <1>9, <2>1, <3>1 DEF Distinct
    <3>2. CASE \E k \in 1 .. m : i = n + k /\ u[i].id = NextId(s) + k - 1
      <4>1. PICK k \in 1 .. m : i = n + k /\ u[i].id = NextId(s) + k - 1
        BY <3>2
      <4> QED BY <1>1, <1>12, <2>1, <4>1
    <3>3. CASE \E k \in 1 .. m : j = n + k /\ u[j].id = NextId(s) + k - 1
      <4>1. PICK k \in 1 .. m : j = n + k /\ u[j].id = NextId(s) + k - 1
        BY <3>3
      <4>2. u[i].id = NextId(s) + k - 1 /\ ~(u[i].id < NextId(s))
        BY <1>1, <2>1, <4>1
      <4>3. PICK l \in 1 .. m : i = n + l /\ u[i].id = NextId(s) + l - 1
        BY <1>12, <4>2
      <4> QED BY <1>1, <4>1, <4>2, <4>3
    <3> QED BY <1>12, <3>1, <3>2, <3>3
  <2> QED BY <1>6, <2>1 DEF Distinct
<1>10. \A e \in ToSet(u) :
         e \in ToSet(s) \/ \E f \in ToSet(es) : \A x \in fields \ {"id"} : e[x] = f[x]
  BY <1>2, <1>5, <1>6
<1>11. \A f \in ToSet(es) : \E e \in ToSet(u) : \A x \in fields \ {"id"} : e[x] = f[x]
  BY <1>1, <1>2, <1>5, <1>6
<1> QED BY <1>6, <1>8, <1>9, <1>10, <1>11 DEF u

(* A finite set in some order.                                              *)
LEMMA SetInOrder ==
  ASSUME NEW S, IsFiniteSet(S)
  PROVE  SetToSeq(S) \in Seq(ToSet(SetToSeq(S))) /\ ToSet(SetToSeq(S)) = S
<1> DEFINE n == Cardinality(S)
           r == SetToSeq(S)
<1>1. n \in Nat
  BY FS_CardinalityType
<1>2. PICK f : f \in Bijection(1 .. n, S)
  BY FS_CardinalityType, Zenon DEF ExistsBijection
<1>3. f \in [1 .. n -> S] /\ IsInjective(f)
  BY <1>2 DEF Bijection, Injection, IsInjective
<1>4. r \in [1 .. n -> S] /\ IsInjective(r)
  BY <1>3 DEF SetToSeq
<1>5. r = [i \in 1 .. n |-> r[i]] /\ DOMAIN r = 1 .. n /\ \A i \in 1 .. n : r[i] \in S
  BY <1>4
<1>6. r \in Seq(ToSet(r))
  <2>1. \A i \in 1 .. n : r[i] \in ToSet(r)
    BY <1>5 DEF ToSet
  <2> HIDE DEF r
  <2> QED BY <1>1, <1>5, <2>1, IsSequence
<1>7. ToSet(r) \subseteq S
  BY <1>5 DEF ToSet
<1>8. S \subseteq ToSet(r)
  <2>1. r \in Injection(1 .. n, S)
    BY <1>4 DEF Injection, IsInjective
  <2>2. IsFiniteSet(1 .. n) /\ Cardinality(1 .. n) = n
    BY <1>1, FS_Interval
  <2>3. r \in Surjection(1 .. n, S)
    BY <2>1, <2>2, FS_Injection
  <2> QED BY <1>5, <2>3 DEF Surjection, ToSet
<1> QED BY <1>6, <1>7, <1>8

(* Sequences one behind the other are a sequence of their entries.          *)
LEMMA FlatSequence ==
  ASSUME NEW X, NEW ss \in Seq(Seq(X))
  PROVE  /\ FlattenSeq(ss) \in Seq(X)
         /\ \A i \in DOMAIN ss : ToSet(ss[i]) \subseteq ToSet(FlattenSeq(ss))
<1> DEFINE n == Len(ss)
           Y == Seq(X)
           step == [sx \in Y \X Y |-> sx[1] \o sx[2]]
           Rec(f) == f = [i \in 1 .. n |-> IF i = 1 THEN ss[i] ELSE f[i - 1] \o ss[i]]
<1>1. n \in Nat /\ \A i \in 1 .. n : ss[i] \in Y
  OBVIOUS
<1>2. CASE n = 0
  <2>1. FlattenSeq(ss) = ss
    BY <1>2 DEF FlattenSeq
  <2>2. ss \in Seq(X) /\ DOMAIN ss = {}
    BY <1>2
  <2> HIDE DEF n, Rec, step, Y
  <2> QED BY <2>1, <2>2
<1>3. CASE n # 0
  <2>1. IsStep(step, Y, Y) /\ <<>> \in Y
    <3>1. \A s \in Y, r \in Y : s \o r \in Y
      OBVIOUS
    <3>2. <<>> \in Y
      OBVIOUS
    <3> HIDE DEF Y
    <3>3. \A sx \in Y \X Y : sx[1] \o sx[2] \in Y
      BY <3>1
    <3> QED BY <3>2, <3>3 DEF IsStep
  <2>2. \A s, r \in Y : step[<<s, r>>] = s \o r
    <3> HIDE DEF Y
    <3> QED OBVIOUS
  <2>3. \A r \in Y : <<>> \o r = r
    OBVIOUS
  <2> HIDE DEF step, Y
  <2>4. PICK g \in [0 .. n -> Y] : IsLoopTo(g, <<>>, step, ss, n)
    <3>1. ss \in Seq(Y)
      BY DEF Y
    <3>2. ASSUME NEW base \in Y
          PROVE  \E g \in [0 .. Len(ss) -> Y] : IsLoopTo(g, base, step, ss, Len(ss))
      BY <2>1, <3>1, LoopExists
    <3> QED BY <2>1, <3>2
  <2> DEFINE f == [i \in 1 .. n |-> g[i]]
  <2>5. Rec(f)
    <3>1. ASSUME NEW i \in 1 .. n PROVE g[i] = IF i = 1 THEN ss[i] ELSE f[i - 1] \o ss[i]
      <4>1. g[i - 1] \in Y /\ ss[i] \in Y
        <5>1. i - 1 \in 0 .. n
          BY <1>1
        <5> QED BY <1>1, <5>1
      <4>2. g[i] = g[i - 1] \o ss[i]
        BY <2>2, <2>4, <4>1 DEF IsLoopTo
      <4>3. CASE i = 1
        <5>1. g[i - 1] = <<>>
          BY <2>4, <4>3 DEF IsLoopTo
        <5>2. g[i] = ss[i]
          BY <2>3, <4>1, <4>2, <5>1
        <5> QED BY <4>3, <5>2
      <4>4. CASE i # 1
        <5>1. i - 1 \in 1 .. n
          BY <1>1, <4>4
        <5> QED BY <4>2, <4>4, <5>1
      <4> QED BY <4>3, <4>4
    <3> QED BY <3>1
  <2> DEFINE h == CHOOSE k : Rec(k)
  <2>6. FlattenSeq(ss) = h[n]
    BY <1>3 DEF FlattenSeq
  <2>7. Rec(h)
    <3> HIDE DEF Rec, f
    <3> QED BY <2>5
  <2>8. \A i \in 1 .. n : h[i] = IF i = 1 THEN ss[i] ELSE h[i - 1] \o ss[i]
    <3> HIDE DEF h
    <3> QED BY <2>7
  <2> HIDE DEF Rec, f, h
  <2>9. \A s, r \in Y : s \o r \in Y
    BY DEF Y
  <2>13. \A s, r \in Y : ToSet(s) \cup ToSet(r) \subseteq ToSet(s \o r)
    <3> SUFFICES ASSUME NEW s \in Seq(X), NEW r \in Seq(X)
                 PROVE  ToSet(s) \cup ToSet(r) \subseteq ToSet(s \o r)
      BY DEF Y
    <3>1. /\ Len(s) \in Nat /\ Len(r) \in Nat /\ DOMAIN s = 1 .. Len(s) /\ DOMAIN r = 1 .. Len(r)
          /\ DOMAIN (s \o r) = 1 .. Len(s) + Len(r)
          /\ \A i \in 1 .. Len(s) : (s \o r)[i] = s[i]
          /\ \A i \in 1 .. Len(r) : (s \o r)[Len(s) + i] = r[i]
      OBVIOUS
    <3>2. \A i \in 1 .. Len(s) : i \in 1 .. Len(s) + Len(r)
      BY <3>1
    <3>3. \A i \in 1 .. Len(r) : Len(s) + i \in 1 .. Len(s) + Len(r)
      BY <3>1
    <3>4. \A e \in ToSet(s) : e \in ToSet(s \o r)
      BY <3>1, <3>2 DEF ToSet
    <3>5. \A e \in ToSet(r) : e \in ToSet(s \o r)
      BY <3>1, <3>3 DEF ToSet
    <3> QED BY <3>4, <3>5
  <2> DEFINE Has(k) == \A i \in 1 .. k : ToSet(ss[i]) \subseteq ToSet(h[k])
             T == {k \in 0 .. n : k # 0 => h[k] \in Y /\ Has(k)}
  <2>10. 0 \in T
    BY <1>1
  <2>11. ASSUME NEW k \in 0 .. n, k \in T, k # n PROVE k + 1 \in T
    <3>1. k + 1 \in 1 .. n /\ k + 1 \in 0 .. n /\ (k + 1) - 1 = k
      BY <1>1, <2>11
    <3>2. CASE k = 0
      BY <1>1, <2>8, <3>1, <3>2
    <3>3. CASE k # 0
      <4>1. h[k] \in Y /\ Has(k)
        BY <2>11, <3>3
      <4>2. h[k + 1] = h[k] \o ss[k + 1]
        <5>1. k + 1 # 1
          BY <3>1, <3>3
        <5>2. h[k + 1] = h[(k + 1) - 1] \o ss[k + 1]
          BY <2>8, <3>1, <5>1
        <5> QED BY <3>1, <5>2
      <4>3. /\ ToSet(h[k]) \subseteq ToSet(h[k + 1])
            /\ ToSet(ss[k + 1]) \subseteq ToSet(h[k + 1])
        BY <1>1, <2>13, <3>1, <4>1, <4>2
      <4>4. \A i \in 1 .. k + 1 : i \in 1 .. k \/ i = k + 1
        BY <1>1
      <4>5. Has(k + 1)
        BY <4>1, <4>3, <4>4
      <4> QED BY <1>1, <2>9, <3>1, <4>1, <4>2, <4>5
    <3> QED BY <3>2, <3>3
  <2>12. n \in T
    <3> HIDE DEF T, n
    <3>1. 0 .. n \subseteq T
      BY <1>1, <2>10, <2>11, IntervalInduction
    <3>2. n \in 0 .. n
      BY <1>1
    <3> QED BY <3>1, <3>2
  <2>14. DOMAIN ss = 1 .. n
    OBVIOUS
  <2> QED BY <1>3, <2>6, <2>12, <2>14 DEF Y
<1> QED BY <1>2, <1>3

-----------------------------------------------------------------------------
(* What each transform makes of a body.                                     *)

(* The policies of b under other interface names.                           *)
Repointed(b, u, m) ==
  /\ DOMAIN u.policies = DOMAIN b.policies
  /\ \A i \in DOMAIN b.policies :
       /\ u.policies[i].src = RenameAll(m, b.policies[i].src)
       /\ u.policies[i].dst = RenameAll(m, b.policies[i].dst)
       /\ u.policies[i].addr = b.policies[i].addr /\ u.policies[i].act = b.policies[i].act
       /\ u.policies[i].rest = b.policies[i].rest /\ u.policies[i].id = b.policies[i].id

PolicyFields == {"id", "name", "src", "dst", "addr", "act", "rest"}
PolicyWith(p, src, dst) == [p EXCEPT !.src = src, !.dst = dst]

(* A policy on other interfaces is the same otherwise.                      *)
LEMMA PolicyFrame ==
  ASSUME NEW p, DOMAIN p = PolicyFields, NEW src, NEW dst, NEW q, q = PolicyWith(p, src, dst)
  PROVE  /\ DOMAIN q = PolicyFields /\ q.src = src /\ q.dst = dst
         /\ q.id = p.id /\ q.addr = p.addr /\ q.act = p.act /\ q.rest = p.rest
BY DEF PolicyWith, PolicyFields

(* Policies mapped one by one are a table of repointed policies.            *)
LEMMA RepointedTable ==
  ASSUME NEW s, IsTable(s, PolicyFields), NEW m, NEW r, r = [i \in DOMAIN s |-> r[i]],
         \A i \in DOMAIN s :
           r[i] = PolicyWith(s[i], RenameAll(m, s[i].src), RenameAll(m, s[i].dst))
  PROVE  /\ IsTable(r, PolicyFields) /\ (Distinct(s) => Distinct(r))
         /\ DOMAIN r = DOMAIN s
         /\ \A i \in DOMAIN s :
              /\ r[i].src = RenameAll(m, s[i].src) /\ r[i].dst = RenameAll(m, s[i].dst)
              /\ r[i].addr = s[i].addr /\ r[i].act = s[i].act
              /\ r[i].rest = s[i].rest /\ r[i].id = s[i].id
<1>1. \A i \in DOMAIN s : DOMAIN s[i] = PolicyFields
  BY SequenceEntries DEF IsTable
<1>3. DOMAIN r = DOMAIN s
  OBVIOUS
<1>4. \A i \in DOMAIN s :
        /\ DOMAIN r[i] = PolicyFields /\ r[i].id = s[i].id
        /\ r[i].src = RenameAll(m, s[i].src) /\ r[i].dst = RenameAll(m, s[i].dst)
        /\ r[i].addr = s[i].addr /\ r[i].act = s[i].act /\ r[i].rest = s[i].rest
  BY <1>1, PolicyFrame
<1> QED BY <1>3, <1>4, MappedTable

(* rewrite_policy_refs                                                      *)
LEMMA PoliciesRewritten ==
  ASSUME NEW b, HasTables(b), NEW m, NEW u, u = RewritePolicyRefs(b, m)
  PROVE  /\ HasTables(u) /\ Repointed(b, u, m) /\ (IdsUnique(b) => IdsUnique(u))
         /\ u.zones = b.zones /\ u.sd = b.sd /\ u.addrs = b.addrs /\ u.routes = b.routes
         /\ u.others = b.others /\ u.ssl = b.ssl /\ u.tunnels = b.tunnels
<1> DEFINE r == [i \in DOMAIN b.policies |->
                   PolicyWith(b.policies[i], RenameAll(m, b.policies[i].src),
                              RenameAll(m, b.policies[i].dst))]
<1>1. u = [b EXCEPT !.policies = r]
  BY DEF RewritePolicyRefs, MapSeq, PolicyWith
<1>2. IsTable(b.policies, PolicyFields)
  BY DEF HasTables, PolicyFields
<1>3. /\ IsTable(r, PolicyFields) /\ (Distinct(b.policies) => Distinct(r))
      /\ DOMAIN r = DOMAIN b.policies
      /\ \A i \in DOMAIN b.policies :
           /\ r[i].src = RenameAll(m, b.policies[i].src)
           /\ r[i].dst = RenameAll(m, b.policies[i].dst)
           /\ r[i].addr = b.policies[i].addr /\ r[i].act = b.policies[i].act
           /\ r[i].rest = b.policies[i].rest /\ r[i].id = b.policies[i].id
  <2>1. /\ r = [i \in DOMAIN b.policies |-> r[i]]
        /\ \A i \in DOMAIN b.policies :
             r[i] = PolicyWith(b.policies[i], RenameAll(m, b.policies[i].src),
                               RenameAll(m, b.policies[i].dst))
    OBVIOUS
  <2> DEFINE s == b.policies
  <2> HIDE DEF r, s
  <2> QED BY <1>2, <2>1, RepointedTable DEF s
<1> HIDE DEF r
<1>4. /\ DOMAIN u = BodyFields /\ u.policies = r
      /\ u.zones = b.zones /\ u.sd = b.sd /\ u.addrs = b.addrs /\ u.routes = b.routes
      /\ u.others = b.others /\ u.ssl = b.ssl /\ u.tunnels = b.tunnels
  BY <1>1 DEF HasTables, BodyFields
<1>5. HasTables(u)
  BY <1>3, <1>4 DEF HasTables, PolicyFields
<1>6. Repointed(b, u, m)
  BY <1>3, <1>4 DEF Repointed
<1>7. IdsUnique(b) => IdsUnique(u)
  BY <1>3, <1>4 DEF IdsUnique
<1> QED BY <1>4, <1>5, <1>6, <1>7

(* Addresses bound elsewhere.                                               *)
BoundAnew(b, u, m) ==
  \A a \in u.addrs : \E c \in b.addrs : a.name = c.name /\ a.bound = Rename(m, c.bound)

(* apply_zones within a VDOM                                                *)
LEMMA ZonesBodyShape ==
  ASSUME NEW b, HasTables(b), NEW specs, NEW u, u = ZonesBody(b, specs)
  PROVE  /\ HasTables(u) /\ Repointed(b, u, SpecMap(specs)) /\ BoundAnew(b, u, SpecMap(specs))
         /\ IdsUnique(b) => IdsUnique(u)
         /\ u.zones = UpsertZones(b.zones, specs)
         /\ u.sd = b.sd /\ u.routes = b.routes
         /\ u.others = b.others /\ u.ssl = b.ssl /\ u.tunnels = b.tunnels
<1> DEFINE m == SpecMap(specs)
           zones == UpsertZones(b.zones, specs)
           c == [b EXCEPT !.zones = zones]
           d == RewritePolicyRefs(c, m)
           addrs == {[a EXCEPT !.bound = Rename(m, @)] : a \in b.addrs}
<1>1. \A z \in zones : DOMAIN z = {"name", "members", "intra"}
  BY DEF UpsertZones, HasTables
<1> HIDE DEF zones
<1>2. /\ HasTables(c) /\ c.zones = zones /\ c.policies = b.policies /\ c.addrs = b.addrs
      /\ c.sd = b.sd /\ c.routes = b.routes
      /\ c.others = b.others /\ c.ssl = b.ssl /\ c.tunnels = b.tunnels
  BY <1>1 DEF HasTables, BodyFields
<1> HIDE DEF c, m
<1>3. /\ HasTables(d) /\ Repointed(c, d, m) /\ (IdsUnique(c) => IdsUnique(d))
      /\ d.zones = c.zones /\ d.sd = c.sd /\ d.addrs = c.addrs /\ d.routes = c.routes
      /\ d.others = c.others /\ d.ssl = c.ssl /\ d.tunnels = c.tunnels
  BY <1>2, PoliciesRewritten
<1> HIDE DEF d
<1>4. \A a \in addrs : /\ DOMAIN a = {"name", "bound"}
                       /\ \E e \in b.addrs : a.name = e.name /\ a.bound = Rename(m, e.bound)
  BY DEF HasTables
<1>5. u = [d EXCEPT !.addrs = addrs]
  <2>1. u = RebindAddresses(d, m)
    BY Zenon DEF ZonesBody, d, c, m, zones
  <2> QED BY <1>2, <1>3, <2>1 DEF RebindAddresses
<1> HIDE DEF addrs
<1>6. /\ DOMAIN u = BodyFields /\ u.addrs = addrs /\ u.policies = d.policies
      /\ u.zones = d.zones /\ u.sd = d.sd /\ u.routes = d.routes
      /\ u.others = d.others /\ u.ssl = d.ssl /\ u.tunnels = d.tunnels
  BY <1>3, <1>5 DEF HasTables, BodyFields
<1>7. HasTables(u)
  BY <1>3, <1>4, <1>6 DEF HasTables
<1>8. Repointed(b, u, m)
  BY <1>2, <1>3, <1>6 DEF Repointed
<1>9. IdsUnique(b) => IdsUnique(u)
  BY <1>2, <1>3, <1>6 DEF IdsUnique
<1>10. BoundAnew(b, u, m)
  BY <1>4, <1>6 DEF BoundAnew
<1> QED BY <1>2, <1>3, <1>6, <1>7, <1>8, <1>9, <1>10 DEF zones, m

-----------------------------------------------------------------------------
(* What apply_sdwan makes of a body.                                        *)

SpecFields == {"name", "members", "check", "rule", "prefer", "vdom"}
MemberFields == {"id", "ifc", "zone", "gw"}
RouteFields == {"id", "kind", "dst", "dev", "zone", "gw", "dist"}
RuleFields == {"id", "mode", "dst", "ids", "check"}

(* The entries of a sequence are finitely many.                             *)
LEMMA FiniteEntries ==
  ASSUME NEW s, s \in Seq(ToSet(s))
  PROVE  IsFiniteSet(ToSet(s))
<1> DEFINE n == Len(s)
           f == [i \in 1 .. n |-> s[i]]
<1>1. n \in Nat /\ DOMAIN s = 1 .. n
  BY SequenceEntries
<1>2. ToSet(s) = {s[i] : i \in 1 .. n}
  BY <1>1 DEF ToSet
<1>3. f \in Surjection(1 .. n, ToSet(s))
  BY <1>2 DEF Surjection
<1>4. IsFiniteSet(1 .. n)
  BY <1>1, FS_Interval
<1> QED BY <1>3, <1>4, FS_Surjection

(* The members that join are members of a spec, in its zone.                *)
LEMMA JoiningMembers ==
  ASSUME NEW b, NEW spec, ListOf(spec.members, {"ifc", "gw"})
  PROVE  /\ Joining(b, spec) \in Seq(ToSet(Joining(b, spec)))
         /\ \A e \in ToSet(Joining(b, spec)) :
              DOMAIN e = MemberFields /\ e.ifc \in Members(spec) /\ e.zone = spec.name
         /\ \A n \in Members(spec) : \E e \in ToSet(Joining(b, spec)) :
              e.ifc = n /\ e.zone = spec.name
<1> DEFINE s == spec.members
           new(m) == [id |-> None, ifc |-> m.ifc, zone |-> spec.name,
                      gw |-> IF m.gw # None THEN m.gw ELSE GatewayOf(b, m.ifc)]
           r == [i \in DOMAIN s |-> new(s[i])]
<1>1. Joining(b, spec) = r
  BY DEF Joining, MapSeq
<1>2. \A i \in DOMAIN s : r[i] = new(s[i])
  OBVIOUS
<1>3. /\ r \in Seq(ToSet(r)) /\ \A i \in DOMAIN s : r[i] \in ToSet(r)
      /\ \A e \in ToSet(r) : \E i \in DOMAIN s : e = r[i] /\ s[i] \in ToSet(s)
  <2>1. r = [i \in DOMAIN s |-> r[i]]
    OBVIOUS
  <2>2. s \in Seq(ToSet(s))
    BY DEF ListOf
  <2> HIDE DEF r, s
  <2> QED BY <2>1, <2>2, MappedSequence
<1>4. \A x \in ToSet(s) : DOMAIN new(x) = MemberFields /\ new(x).ifc = x.ifc /\ new(x).zone = spec.name
  BY DEF MemberFields
<1>5. \A x \in ToSet(s) : \E i \in DOMAIN s : s[i] = x
  BY DEF ToSet
<1> HIDE DEF r, new
<1>6. \A n \in Members(spec) : \E e \in ToSet(r) : e.ifc = n /\ e.zone = spec.name
  BY <1>2, <1>3, <1>4, <1>5 DEF Members
<1> QED BY <1>1, <1>2, <1>3, <1>4, <1>6 DEF Members

(* apply_sdwan: the members are the old ones and those of the specs, under  *)
(* ids of their own.                                                        *)
LEMMA AddedMembers ==
  ASSUME NEW b, HasTables(b), NEW specs, ListOf(specs, SpecFields),
         \A s \in ToSet(specs) : ListOf(s.members, {"ifc", "gw"})
  PROVE  /\ IsTable(AddMembers(b, specs), MemberFields)
         /\ Distinct(b.sd.members) => Distinct(AddMembers(b, specs))
         /\ \A e \in ToSet(AddMembers(b, specs)) :
              \/ e \in ToSet(b.sd.members)
              \/ \E s \in ToSet(specs) : e.ifc \in Members(s) /\ e.zone = s.name
         /\ ToSet(b.sd.members) \subseteq ToSet(AddMembers(b, specs))
         /\ \A s \in ToSet(specs) : \A n \in Members(s) : \E e \in ToSet(AddMembers(b, specs)) :
              e.ifc = n /\ e.zone = s.name
<1> DEFINE ss == [i \in DOMAIN specs |-> Joining(b, specs[i])]
           X == UNION {ToSet(Joining(b, s)) : s \in ToSet(specs)}
           es == FlattenSeq(ss)
           n == Len(specs)
<1>0. AddMembers(b, specs) = Numbered(b.sd.members, es)
  BY DEF AddMembers, MapSeq
<1>1. n \in Nat /\ DOMAIN specs = 1 .. n /\ \A i \in 1 .. n : specs[i] \in ToSet(specs)
  BY SequenceEntries DEF ListOf
<1>2. \A s \in ToSet(specs) : Joining(b, s) \in Seq(X)
  <2>1. TAKE s \in ToSet(specs)
  <2>2. Joining(b, s) \in Seq(ToSet(Joining(b, s)))
    BY JoiningMembers
  <2>3. ToSet(Joining(b, s)) \subseteq X
    BY Zenon
  <2> HIDE DEF X
  <2> DEFINE Y == ToSet(Joining(b, s))
             r == Joining(b, s)
  <2>4. r \in Seq(Y) /\ Y \subseteq X
    BY <2>2, <2>3
  <2> HIDE DEF Y, r
  <2>5. r \in Seq(X)
    BY <2>4
  <2> QED BY <2>5 DEF r
<1>3. ss \in Seq(Seq(X))
  <2>1. \A i \in 1 .. n : Joining(b, specs[i]) \in Seq(X)
    BY <1>1, <1>2
  <2>2. ss = [i \in 1 .. n |-> Joining(b, specs[i])]
    BY <1>1
  <2> HIDE DEF ss, X, n
  <2> QED BY <1>1, <2>1, <2>2
<1>4. es \in Seq(X) /\ \A i \in DOMAIN ss : ToSet(ss[i]) \subseteq ToSet(es)
  BY <1>3, FlatSequence
<1>5. es \in Seq(ToSet(es)) /\ \A e \in ToSet(es) : e \in X
  <2> HIDE DEF X, es
  <2> QED BY <1>4 DEF ToSet
<1>6. \A e \in X : DOMAIN e = MemberFields
                   /\ \E s \in ToSet(specs) : e.ifc \in Members(s) /\ e.zone = s.name
  <2>1. TAKE e \in X
  <2>2. PICK s \in ToSet(specs) : e \in ToSet(Joining(b, s))
    BY Zenon
  <2>3. DOMAIN e = MemberFields /\ e.ifc \in Members(s) /\ e.zone = s.name
    BY <2>2, JoiningMembers
  <2> QED BY <2>3
<1>12. \A s \in ToSet(specs) : \A k \in Members(s) : \E f \in ToSet(es) : f.ifc = k /\ f.zone = s.name
  <2>1. TAKE s \in ToSet(specs)
  <2> TAKE k \in Members(s)
  <2>2. PICK i \in DOMAIN specs : s = specs[i]
    BY DEF ToSet
  <2>3. PICK f \in ToSet(Joining(b, s)) : f.ifc = k /\ f.zone = s.name
    BY JoiningMembers
  <2>4. ss[i] = Joining(b, s) /\ i \in DOMAIN ss
    BY <2>2
  <2> HIDE DEF ss, es, X
  <2>5. f \in ToSet(es)
    BY <1>4, <2>3, <2>4
  <2> QED BY <2>3, <2>5
<1> HIDE DEF es, X, ss
<1>7. IsTable(b.sd.members, MemberFields) /\ "id" \in MemberFields
  BY DEF HasTables, MemberFields
<1>8. /\ IsTable(Numbered(b.sd.members, es), MemberFields)
      /\ Distinct(b.sd.members) => Distinct(Numbered(b.sd.members, es))
      /\ \A e \in ToSet(Numbered(b.sd.members, es)) :
           e \in ToSet(b.sd.members)
             \/ \E f \in ToSet(es) : \A x \in MemberFields \ {"id"} : e[x] = f[x]
      /\ \A e \in ToSet(b.sd.members) : e \in ToSet(Numbered(b.sd.members, es))
      /\ \A f \in ToSet(es) : \E e \in ToSet(Numbered(b.sd.members, es)) :
           \A x \in MemberFields \ {"id"} : e[x] = f[x]
  BY <1>5, <1>6, <1>7, NumberedTable
<1>9. "ifc" \in MemberFields \ {"id"} /\ "zone" \in MemberFields \ {"id"}
  BY DEF MemberFields
<1>10. ASSUME NEW e, NEW f \in ToSet(es), \A x \in MemberFields \ {"id"} : e[x] = f[x]
       PROVE  \E s \in ToSet(specs) : e.ifc \in Members(s) /\ e.zone = s.name
  <2>1. e.ifc = f.ifc /\ e.zone = f.zone
    BY <1>9, <1>10
  <2> QED BY <1>5, <1>6, <2>1
<1>11. \A e \in ToSet(Numbered(b.sd.members, es)) :
         e \in ToSet(b.sd.members) \/ \E s \in ToSet(specs) : e.ifc \in Members(s) /\ e.zone = s.name
  BY <1>8, <1>10
<1>13. ASSUME NEW s \in ToSet(specs), NEW k \in Members(s)
       PROVE  \E e \in ToSet(Numbered(b.sd.members, es)) : e.ifc = k /\ e.zone = s.name
  <2>1. PICK f \in ToSet(es) : f.ifc = k /\ f.zone = s.name
    BY <1>12
  <2>2. PICK e \in ToSet(Numbered(b.sd.members, es)) : \A x \in MemberFields \ {"id"} : e[x] = f[x]
    BY <1>8, <2>1
  <2>3. e.ifc = f.ifc /\ e.zone = f.zone
    BY <1>9, <2>2
  <2> QED BY <2>1, <2>2, <2>3
<1> QED BY <1>0, <1>8, <1>11, <1>13

(* Every zone that lost a default gets one route of its own.                *)
LEMMA ReplacedDefaults ==
  ASSUME NEW b, HasTables(b), NEW zoneOf
  PROVE  /\ IsTable(ReplaceDefaults(b, zoneOf), RouteFields)
         /\ Distinct(b.routes) => Distinct(ReplaceDefaults(b, zoneOf))
         /\ \A e \in ToSet(ReplaceDefaults(b, zoneOf)) :
              \/ e \in ToSet(b.routes) /\ e \notin MemberRoutes(b, DOMAIN zoneOf)
              \/ /\ e.kind = "default" /\ e.dst = None /\ e.dev = None /\ e.gw = None
                 /\ e.zone \in LostDefaults(b, zoneOf)
         /\ \A e \in ToSet(b.routes) \ MemberRoutes(b, DOMAIN zoneOf) :
              e \in ToSet(ReplaceDefaults(b, zoneOf))
         /\ \A z \in LostDefaults(b, zoneOf) : \E e \in ToSet(ReplaceDefaults(b, zoneOf)) :
              e.kind = "default" /\ e.zone = z
<1> DEFINE dists(z) == {r.dist : r \in {d \in MemberDefaults(b, DOMAIN zoneOf) : zoneOf[d.dev] = z}} \ {None}
           dist(z) == IF Cardinality(dists(z)) = 1 THEN CHOOSE d \in dists(z) : TRUE ELSE None
           lost == LostDefaults(b, zoneOf)
           stays == StayingRoutes(b, DOMAIN zoneOf)
           zs == SetToSeq(lost)
           new(z) == ZoneRoute("default", None, z, dist(z))
           es == [i \in DOMAIN zs |-> new(zs[i])]
<1>0. ReplaceDefaults(b, zoneOf) = Numbered(stays, es)
  BY DEF ReplaceDefaults, MapSeq
<1>1. IsTable(b.routes, RouteFields) /\ b.routes \in Seq(ToSet(b.routes))
  BY DEF HasTables, RouteFields, IsTable
<1>2. /\ stays \in Seq(ToSet(b.routes))
      /\ \A e : e \in ToSet(stays) <=>
               e \in ToSet(b.routes) /\ e \notin MemberRoutes(b, DOMAIN zoneOf)
      /\ Distinct(b.routes) => Distinct(stays)
  BY <1>1, AmongKeeps DEF StayingRoutes
<1>3. IsTable(stays, RouteFields)
  BY <1>1, <1>2, PartOfTable
<1>4. IsFiniteSet(lost)
  <2> DEFINE D == MemberDefaults(b, DOMAIN zoneOf)
             f == [r \in D |-> zoneOf[r.dev]]
  <2>1. D \in SUBSET ToSet(b.routes)
    BY DEF MemberDefaults, MemberRoutes
  <2>2. IsFiniteSet(D)
    BY <1>1, <2>1, FiniteEntries, FS_Subset
  <2>3. lost = {zoneOf[r.dev] : r \in D}
    BY DEF LostDefaults
  <2>4. f \in Surjection(D, lost)
    BY <2>3, Zenon DEF Surjection
  <2> QED BY <2>2, <2>4, FS_Surjection
<1>5. zs \in Seq(ToSet(zs)) /\ ToSet(zs) = lost
  BY <1>4, SetInOrder
<1>6. /\ es \in Seq(ToSet(es)) /\ DOMAIN es = DOMAIN zs
      /\ \A e \in ToSet(es) : \E i \in DOMAIN zs : e = es[i] /\ zs[i] \in ToSet(zs)
      /\ \A i \in DOMAIN zs : es[i] \in ToSet(es)
  <2>1. es = [i \in DOMAIN zs |-> es[i]]
    OBVIOUS
  <2> HIDE DEF es, zs
  <2> QED BY <1>5, <2>1, MappedSequence
<1>7. \A i \in DOMAIN zs : es[i] = new(zs[i])
  OBVIOUS
<1>8. \A z : /\ DOMAIN new(z) = RouteFields /\ new(z).kind = "default" /\ new(z).dst = None
             /\ new(z).dev = None /\ new(z).gw = None /\ new(z).zone = z
  BY DEF RouteFields, ZoneRoute
<1> HIDE DEF es, zs, new, stays, lost, dist, dists
<1>9. \A e \in ToSet(es) : /\ DOMAIN e = RouteFields
                           /\ e.kind = "default" /\ e.dst = None /\ e.dev = None
                           /\ e.gw = None /\ e.zone \in lost
  BY <1>5, <1>6, <1>7, <1>8
<1>10. \A z \in lost : \E e \in ToSet(es) : e.zone = z
  <2>1. TAKE z \in lost
  <2>2. PICK i \in DOMAIN zs : zs[i] = z
    BY <1>5, SequenceEntries
  <2> QED BY <1>6, <1>7, <1>8, <2>2
<1> DEFINE u == Numbered(stays, es)
<1>11. "id" \in RouteFields /\ {"kind", "dst", "dev", "gw", "zone"} \subseteq RouteFields \ {"id"}
  BY DEF RouteFields
<1>12. /\ IsTable(u, RouteFields)
       /\ Distinct(stays) => Distinct(u)
       /\ \A e \in ToSet(stays) : e \in ToSet(u)
       /\ \A e \in ToSet(u) :
            e \in ToSet(stays) \/ \E f \in ToSet(es) : \A x \in RouteFields \ {"id"} : e[x] = f[x]
       /\ \A f \in ToSet(es) : \E e \in ToSet(u) : \A x \in RouteFields \ {"id"} : e[x] = f[x]
  BY <1>3, <1>6, <1>9, <1>11, NumberedTable
<1> HIDE DEF u
<1>13. \A e, f : (\A x \in RouteFields \ {"id"} : e[x] = f[x]) =>
          e.kind = f.kind /\ e.dst = f.dst /\ e.dev = f.dev /\ e.gw = f.gw /\ e.zone = f.zone
  BY <1>11
<1>14. \A e \in ToSet(u) :
          \/ e \in ToSet(stays)
          \/ /\ e.kind = "default" /\ e.dst = None /\ e.dev = None /\ e.gw = None
             /\ e.zone \in lost
  <2>1. TAKE e \in ToSet(u)
  <2>2. SUFFICES ASSUME NEW f \in ToSet(es), \A x \in RouteFields \ {"id"} : e[x] = f[x]
                 PROVE  /\ e.kind = "default" /\ e.dst = None /\ e.dev = None /\ e.gw = None
                        /\ e.zone \in lost
    BY <1>12
  <2> QED BY <1>9, <1>13, <2>2
<1>15. \A z \in lost : \E e \in ToSet(u) : e.kind = "default" /\ e.zone = z
  <2>1. TAKE z \in lost
  <2>2. PICK f \in ToSet(es) : f.zone = z
    BY <1>10
  <2>3. PICK e \in ToSet(u) : \A x \in RouteFields \ {"id"} : e[x] = f[x]
    BY <1>12
  <2> QED BY <1>9, <1>13, <2>2, <2>3
<1>16. ReplaceDefaults(b, zoneOf) = u
  BY <1>0 DEF u
<1>17. \A e \in ToSet(b.routes) \ MemberRoutes(b, DOMAIN zoneOf) : e \in ToSet(u)
  BY <1>2, <1>12
<1> QED BY <1>2, <1>12, <1>14, <1>15, <1>16, <1>17 DEF lost

(* A pinned prefix becomes a route through the zone of its member.          *)
LEMMA PinnedRoutes ==
  ASSUME NEW routes, IsTable(routes, RouteFields), NEW pins, pins \in Seq(ToSet(pins)), NEW zoneOf,
         \A r \in ToSet(pins) : r.dev \in DOMAIN zoneOf
  PROVE  /\ IsTable(PinRoutes(routes, pins, zoneOf), RouteFields)
         /\ Distinct(routes) => Distinct(PinRoutes(routes, pins, zoneOf))
         /\ \A e \in ToSet(PinRoutes(routes, pins, zoneOf)) :
              \/ e \in ToSet(routes)
              \/ \E r \in ToSet(pins) :
                   /\ e.kind = r.kind /\ e.dst = r.dst /\ e.dev = None /\ e.zone = zoneOf[r.dev]
         /\ \A e \in ToSet(routes) : e \in ToSet(PinRoutes(routes, pins, zoneOf))
<1> DEFINE new(r) == ZoneRoute(r.kind, r.dst, zoneOf[r.dev], None)
           es == [i \in DOMAIN pins |-> new(pins[i])]
           u == Numbered(routes, es)
<1>0. PinRoutes(routes, pins, zoneOf) = u
  BY DEF PinRoutes, MapSeq
<1>1. /\ es \in Seq(ToSet(es))
      /\ \A e \in ToSet(es) : \E i \in DOMAIN pins : e = es[i] /\ pins[i] \in ToSet(pins)
  <2>1. es = [i \in DOMAIN pins |-> es[i]]
    OBVIOUS
  <2> HIDE DEF es
  <2> QED BY <2>1, MappedSequence
<1>2. \A i \in DOMAIN pins : es[i] = new(pins[i])
  OBVIOUS
<1>3. \A r : /\ DOMAIN new(r) = RouteFields /\ new(r).kind = r.kind /\ new(r).dst = r.dst
             /\ new(r).dev = None /\ new(r).zone = zoneOf[r.dev]
  BY DEF RouteFields, ZoneRoute
<1> HIDE DEF es, new
<1>4. \A e \in ToSet(es) :
        /\ DOMAIN e = RouteFields
        /\ \E r \in ToSet(pins) :
             e.kind = r.kind /\ e.dst = r.dst /\ e.dev = None /\ e.zone = zoneOf[r.dev]
  BY <1>1, <1>2, <1>3
<1>5. "id" \in RouteFields /\ {"kind", "dst", "dev", "zone"} \subseteq RouteFields \ {"id"}
  BY DEF RouteFields
<1>6. /\ IsTable(u, RouteFields)
      /\ Distinct(routes) => Distinct(u)
      /\ \A e \in ToSet(routes) : e \in ToSet(u)
      /\ \A e \in ToSet(u) :
           e \in ToSet(routes) \/ \E f \in ToSet(es) : \A x \in RouteFields \ {"id"} : e[x] = f[x]
  BY <1>1, <1>4, <1>5, NumberedTable
<1> HIDE DEF u
<1>7. \A e, f : (\A x \in RouteFields \ {"id"} : e[x] = f[x]) =>
         e.kind = f.kind /\ e.dst = f.dst /\ e.dev = f.dev /\ e.zone = f.zone
  BY <1>5
<1>8. ASSUME NEW e \in ToSet(u), e \notin ToSet(routes)
      PROVE  \E r \in ToSet(pins) :
               e.kind = r.kind /\ e.dst = r.dst /\ e.dev = None /\ e.zone = zoneOf[r.dev]
  <2>1. PICK f \in ToSet(es) : \A x \in RouteFields \ {"id"} : e[x] = f[x]
    BY <1>6, <1>8
  <2>2. e.kind = f.kind /\ e.dst = f.dst /\ e.dev = f.dev /\ e.zone = f.zone
    BY <1>7, <2>1
  <2>3. PICK r \in ToSet(pins) :
          f.kind = r.kind /\ f.dst = r.dst /\ f.dev = None /\ f.zone = zoneOf[r.dev]
    BY <1>4
  <2> QED BY <2>2, <2>3
<1> QED BY <1>0, <1>6, <1>8

(* Entries of the same fields, made one by one.                             *)
LEMMA MadeEntries ==
  ASSUME NEW s, s \in Seq(ToSet(s)), NEW fields, NEW r, r = [i \in DOMAIN s |-> r[i]],
         \A i \in DOMAIN s : DOMAIN r[i] = fields
  PROVE  r \in Seq(ToSet(r)) /\ \A e \in ToSet(r) : DOMAIN e = fields
<1>1. r \in Seq(ToSet(r)) /\ \A e \in ToSet(r) : \E i \in DOMAIN s : e = r[i] /\ s[i] \in ToSet(s)
  BY MappedSequence
<1> QED BY <1>1

(* The rules of pinned prefixes, and then those of the specs.               *)
LEMMA NewSection ==
  ASSUME NEW b, IsTable(b.sd.rules, RuleFields), NEW pins, pins \in Seq(ToSet(pins)),
         NEW specs, specs \in Seq(ToSet(specs)), NEW sd, sd = SdwanSection(b, specs, pins)
  PROVE  /\ DOMAIN sd = {"on", "zones", "members", "checks", "rules"}
         /\ sd.zones = b.sd.zones \cup {s.name : s \in ToSet(specs)}
         /\ sd.members = AddMembers(b, specs)
         /\ IsTable(sd.rules, RuleFields) /\ (Distinct(b.sd.rules) => Distinct(sd.rules))
<1> DEFINE members == AddMembers(b, specs)
           rules == b.sd.rules
           ps == [i \in DOMAIN pins |-> Pin(members, pins[i])]
           ws == WithRule(specs)
           ss == [i \in DOMAIN ws |-> Steer(members, ws[i])]
           es == ps \o ss
           checks == FoldLeft(LAMBDA cs, s : AddCheck(cs, s, members), b.sd.checks, specs)
<1>0. sd = [on |-> TRUE, zones |-> b.sd.zones \cup {s.name : s \in ToSet(specs)},
            members |-> members, checks |-> checks, rules |-> Numbered(rules, es)]
  BY DEF SdwanSection, MapSeq
<1> HIDE DEF members, checks
<1>1. \A r : DOMAIN Pin(members, r) = RuleFields
  BY DEF Pin, ServiceRule, RuleFields
<1>2. \A s : DOMAIN Steer(members, s) = RuleFields
  <2>1. \A mode, dst, ids, check : DOMAIN ServiceRule(mode, dst, ids, check) = RuleFields
    BY DEF ServiceRule, RuleFields
  <2> QED BY <2>1 DEF Steer
<1>3. ps \in Seq(ToSet(ps)) /\ \A e \in ToSet(ps) : DOMAIN e = RuleFields
  <2>1. ps = [i \in DOMAIN pins |-> ps[i]] /\ \A i \in DOMAIN pins : DOMAIN ps[i] = RuleFields
    BY <1>1
  <2> HIDE DEF ps
  <2> QED BY <2>1, MadeEntries, Zenon
<1>4. ws \in Seq(ToSet(specs))
  BY AmongKeeps DEF WithRule
<1>5. ws \in Seq(ToSet(ws))
  <2> HIDE DEF ws
  <2> QED BY <1>4 DEF ToSet
<1>6. ss \in Seq(ToSet(ss)) /\ \A e \in ToSet(ss) : DOMAIN e = RuleFields
  <2>1. ss = [i \in DOMAIN ws |-> ss[i]] /\ \A i \in DOMAIN ws : DOMAIN ss[i] = RuleFields
    BY <1>2
  <2> HIDE DEF ss, ws
  <2> QED BY <1>5, <2>1, MadeEntries, Zenon
<1>7. es \in Seq(ToSet(es)) /\ \A e \in ToSet(es) : DOMAIN e = RuleFields
  <2> HIDE DEF ps, ss
  <2>1. es \in Seq(ToSet(es)) /\ \A e : e \in ToSet(es) <=> e \in ToSet(ps) \/ e \in ToSet(ss)
    BY <1>3, <1>6, JoinedSequence
  <2> QED BY <1>3, <1>6, <2>1
<1> HIDE DEF es
<1>9. "id" \in RuleFields
  BY DEF RuleFields
<1>10. IsTable(Numbered(rules, es), RuleFields) /\ (Distinct(rules) => Distinct(Numbered(rules, es)))
  BY <1>7, <1>9, NumberedTable
<1> QED BY <1>0, <1>10 DEF members

(* Who joins the SD-WAN zones of specs, and what they are called.           *)
LEMMA SdwanMapOf ==
  ASSUME NEW specs
  PROVE  /\ DOMAIN SdwanMap(specs) = UNION {Members(s) : s \in ToSet(specs)}
         /\ \A n \in DOMAIN SdwanMap(specs) :
              \E s \in ToSet(specs) : n \in Members(s) /\ SdwanMap(specs)[n] = s.name
<1> DEFINE M == UNION {Members(s) : s \in ToSet(specs)}
<1>1. \A n \in M : \E s \in ToSet(specs) : n \in Members(s)
  BY Zenon
<1>2. DOMAIN SdwanMap(specs) = M
  BY Zenon DEF SdwanMap
<1>3. \A n \in M : SdwanMap(specs)[n] = (CHOOSE s \in ToSet(specs) : n \in Members(s)).name
  BY Zenon DEF SdwanMap
<1> HIDE DEF M
<1>4. ASSUME NEW n \in M
      PROVE  \E s \in ToSet(specs) : n \in Members(s) /\ SdwanMap(specs)[n] = s.name
  <2> DEFINE s == CHOOSE s \in ToSet(specs) : n \in Members(s)
  <2>1. s \in ToSet(specs) /\ n \in Members(s)
    BY <1>1, Zenon
  <2>2. SdwanMap(specs)[n] = s.name
    BY <1>3
  <2> QED BY <2>1, <2>2
<1> QED BY <1>2, <1>4 DEF M

(* apply_sdwan within a VDOM                                                *)
LEMMA SdwanBodyShape ==
  ASSUME NEW b, HasTables(b), NEW specs, ListOf(specs, SpecFields),
         \A s \in ToSet(specs) : ListOf(s.members, {"ifc", "gw"}),
         NEW u, u = SdwanBody(b, specs)
  PROVE  /\ HasTables(u) /\ Repointed(b, u, SdwanMap(specs))
         /\ IdsUnique(b) => IdsUnique(u)
         /\ u.zones = b.zones /\ u.others = b.others /\ u.ssl = b.ssl /\ u.tunnels = b.tunnels
         /\ u.sd.zones = b.sd.zones \cup {s.name : s \in ToSet(specs)}
         /\ \A m \in ToSet(u.sd.members) :
              \/ m \in ToSet(b.sd.members)
              \/ \E s \in ToSet(specs) : m.ifc \in Members(s) /\ m.zone = s.name
         /\ ToSet(b.sd.members) \subseteq ToSet(u.sd.members)
         /\ \A s \in ToSet(specs) : \A n \in Members(s) : \E m \in ToSet(u.sd.members) :
              m.ifc = n /\ m.zone = s.name
         /\ \A a \in u.addrs : a \in b.addrs \/ a.bound = None
         /\ \A r \in ToSet(u.routes) :
              \/ r \in ToSet(b.routes) /\ r \notin MemberRoutes(b, DOMAIN SdwanMap(specs))
              \/ r.dev = None /\ r.zone \in {s.name : s \in ToSet(specs)}
<1> DEFINE m == SdwanMap(specs)
           pins == Specifics(b, DOMAIN m)
           sd == SdwanSection(b, specs, pins)
           addrs == PinAddresses(b.addrs, pins)
           rest == ReplaceDefaults(b, m)
           routes == PinRoutes(rest, pins, m)
           c == [b EXCEPT !.sd = sd, !.addrs = addrs, !.routes = routes]
<1>1. u = RewritePolicyRefs(c, m)
  BY Zenon DEF SdwanBody
<1>2. IsTable(b.routes, RouteFields) /\ IsTable(b.sd.rules, RuleFields)
      /\ b.routes \in Seq(ToSet(b.routes))
  BY DEF HasTables, RouteFields, RuleFields, IsTable
<1>3. /\ pins \in Seq(ToSet(b.routes))
      /\ \A r \in ToSet(pins) : r \in ToSet(b.routes) /\ r.dev \in DOMAIN m
  <2>1. /\ pins \in Seq(ToSet(b.routes))
        /\ \A r : r \in ToSet(pins) <=> r \in ToSet(b.routes)
               /\ r \in MemberRoutes(b, DOMAIN m) \ MemberDefaults(b, DOMAIN m)
    BY <1>2, AmongKeeps DEF Specifics
  <2> QED BY <2>1 DEF MemberRoutes
<1>4. pins \in Seq(ToSet(pins))
  <2> HIDE DEF pins
  <2> QED BY <1>3 DEF ToSet
<1> HIDE DEF m, pins
<1>5. /\ DOMAIN sd = {"on", "zones", "members", "checks", "rules"}
      /\ sd.zones = b.sd.zones \cup {s.name : s \in ToSet(specs)}
      /\ sd.members = AddMembers(b, specs)
      /\ IsTable(sd.rules, RuleFields) /\ (Distinct(b.sd.rules) => Distinct(sd.rules))
  <2>1. specs \in Seq(ToSet(specs))
    BY DEF ListOf
  <2> HIDE DEF sd
  <2> QED BY <1>2, <1>4, <2>1, NewSection DEF sd
<1>6. /\ IsTable(sd.members, MemberFields)
      /\ Distinct(b.sd.members) => Distinct(sd.members)
      /\ \A e \in ToSet(sd.members) :
           e \in ToSet(b.sd.members) \/ \E s \in ToSet(specs) : e.ifc \in Members(s) /\ e.zone = s.name
      /\ ToSet(b.sd.members) \subseteq ToSet(sd.members)
      /\ \A s \in ToSet(specs) : \A n \in Members(s) : \E e \in ToSet(sd.members) :
           e.ifc = n /\ e.zone = s.name
  BY <1>5, AddedMembers
<1>7. \A a \in addrs : DOMAIN a = {"name", "bound"} /\ (a \in b.addrs \/ a.bound = None)
  BY DEF PinAddresses, HasTables
<1>8. /\ IsTable(rest, RouteFields) /\ (Distinct(b.routes) => Distinct(rest))
      /\ \A e \in ToSet(rest) :
           \/ e \in ToSet(b.routes) /\ e \notin MemberRoutes(b, DOMAIN m)
           \/ e.dev = None /\ e.zone \in LostDefaults(b, m)
  BY ReplacedDefaults
<1> HIDE DEF rest
<1>9. /\ IsTable(routes, RouteFields) /\ (Distinct(rest) => Distinct(routes))
      /\ \A e \in ToSet(routes) :
           e \in ToSet(rest) \/ \E r \in ToSet(pins) : e.dev = None /\ e.zone = m[r.dev]
  BY <1>3, <1>4, <1>8, PinnedRoutes
<1>10. \A n \in DOMAIN m : m[n] \in {s.name : s \in ToSet(specs)}
  BY SdwanMapOf DEF m
<1>11. \A z \in LostDefaults(b, m) : z \in {s.name : s \in ToSet(specs)}
  BY <1>10 DEF LostDefaults, MemberDefaults, MemberRoutes
<1> HIDE DEF sd, addrs, routes
<1>12. /\ DOMAIN c = BodyFields /\ c.sd = sd /\ c.addrs = addrs /\ c.routes = routes
       /\ c.zones = b.zones /\ c.policies = b.policies
       /\ c.others = b.others /\ c.ssl = b.ssl /\ c.tunnels = b.tunnels
  BY DEF HasTables, BodyFields
<1> HIDE DEF c
<1>13. HasTables(c)
  BY <1>5, <1>6, <1>7, <1>9, <1>12 DEF HasTables, MemberFields, RouteFields, RuleFields
<1>14. /\ HasTables(u) /\ Repointed(c, u, m) /\ (IdsUnique(c) => IdsUnique(u))
       /\ u.zones = c.zones /\ u.sd = c.sd /\ u.addrs = c.addrs /\ u.routes = c.routes
       /\ u.others = c.others /\ u.ssl = c.ssl /\ u.tunnels = c.tunnels
  BY <1>1, <1>13, PoliciesRewritten
<1>15. Repointed(b, u, m)
  BY <1>12, <1>14 DEF Repointed
<1>16. IdsUnique(b) => IdsUnique(u)
  BY <1>5, <1>6, <1>8, <1>9, <1>12, <1>14 DEF IdsUnique
<1>17. \A r \in ToSet(u.routes) :
         \/ r \in ToSet(b.routes) /\ r \notin MemberRoutes(b, DOMAIN m)
         \/ r.dev = None /\ r.zone \in {s.name : s \in ToSet(specs)}
  <2>1. TAKE r \in ToSet(u.routes)
  <2>2. r \in ToSet(routes)
    BY <1>12, <1>14
  <2>3. CASE r \in ToSet(rest)
    BY <1>8, <1>11, <2>3
  <2>4. CASE \E q \in ToSet(pins) : r.dev = None /\ r.zone = m[q.dev]
    BY <1>3, <1>10, <2>4
  <2> QED BY <1>9, <2>2, <2>3, <2>4
<1> QED BY <1>5, <1>6, <1>7, <1>12, <1>14, <1>15, <1>16, <1>17 DEF m

(* Routes over other interfaces.                                            *)
Rerouted(f, g, m) ==
  /\ DOMAIN g = DOMAIN f
  /\ \A i \in DOMAIN f : g[i].dev = Rename(m, f[i].dev) /\ g[i].zone = f[i].zone
                         /\ g[i].kind = f[i].kind /\ g[i].dst = f[i].dst

(* A zone and a tunnel over other interfaces.                               *)
NewZone(z, m) == [z EXCEPT !.members = RenameAll(m, @)]
NewTunnel(q, m) == [q EXCEPT !.ifc = Rename(m, @)]

(* apply_tree within a body: entries change their interfaces.               *)
LEMMA RenameBodyShape ==
  ASSUME NEW b, HasTables(b), NEW m, NEW u, u = RenameBody(b, m)
  PROVE  /\ HasTables(u) /\ Repointed(b, u, m) /\ BoundAnew(b, u, m)
         /\ IdsUnique(b) => IdsUnique(u)
         /\ \A z \in u.zones : \E y \in b.zones :
              z.name = y.name /\ z.members = RenameAll(m, y.members)
         /\ \A y \in b.zones : \E z \in u.zones :
              z.name = y.name /\ z.members = RenameAll(m, y.members)
         /\ u.sd.zones = b.sd.zones
         /\ DOMAIN u.sd.members = DOMAIN b.sd.members
         /\ \A i \in DOMAIN b.sd.members :
              /\ u.sd.members[i].ifc = Rename(m, b.sd.members[i].ifc)
              /\ u.sd.members[i].zone = b.sd.members[i].zone
         /\ Rerouted(b.routes, u.routes, m)
         /\ \A o \in u.others : \E q \in b.others : o.at = q.at /\ o.ifc = Rename(m, q.ifc)
         /\ u.ssl # None => b.ssl # None /\ u.ssl.ifc = Rename(m, b.ssl.ifc)
         /\ \A q \in b.tunnels : \E r \in u.tunnels : r.name = q.name /\ r.split = q.split
         /\ \A r \in u.tunnels : \E q \in b.tunnels : r.name = q.name /\ r.ifc = Rename(m, q.ifc)
<1> DEFINE zones == {[z EXCEPT !.members = RenameAll(m, @)] : z \in b.zones}
           members == [i \in DOMAIN b.sd.members |->
                         [b.sd.members[i] EXCEPT !.ifc = Rename(m, @)]]
           sd == [b.sd EXCEPT !.members = members]
           addrs == {[a EXCEPT !.bound = Rename(m, @)] : a \in b.addrs}
           routes == [i \in DOMAIN b.routes |-> [b.routes[i] EXCEPT !.dev = Rename(m, @)]]
           policies == [i \in DOMAIN b.policies |->
                          PolicyWith(b.policies[i], RenameAll(m, b.policies[i].src),
                                     RenameAll(m, b.policies[i].dst))]
           others == {[o EXCEPT !.ifc = Rename(m, @)] : o \in b.others}
           ssl == IF b.ssl = None THEN None ELSE [b.ssl EXCEPT !.ifc = Rename(m, b.ssl.ifc)]
           tunnels == {[p EXCEPT !.ifc = Rename(m, @)] : p \in b.tunnels}
<1>1. u = [b EXCEPT !.zones = zones, !.sd = sd, !.addrs = addrs, !.routes = routes,
                    !.policies = policies, !.others = others, !.ssl = ssl, !.tunnels = tunnels]
  BY DEF RenameBody, MapSeq, PolicyWith
<1>2. /\ \A z \in zones : /\ DOMAIN z = {"name", "members", "intra"}
                            /\ \E y \in b.zones :
                                 z.name = y.name /\ z.members = RenameAll(m, y.members)
      /\ \A y \in b.zones : \E z \in zones :
           z.name = y.name /\ z.members = RenameAll(m, y.members)
  <2>1. zones = {NewZone(y, m) : y \in b.zones}
    BY DEF NewZone
  <2>2. \A y \in b.zones : DOMAIN y = {"name", "members", "intra"}
    BY DEF HasTables
  <2> HIDE DEF zones
  <2>3. \A y \in b.zones : /\ DOMAIN NewZone(y, m) = {"name", "members", "intra"}
                           /\ NewZone(y, m).name = y.name
                           /\ NewZone(y, m).members = RenameAll(m, y.members)
    BY <2>2 DEF NewZone
  <2>4. \A y \in b.zones : \E z \in zones :
          z.name = y.name /\ z.members = RenameAll(m, y.members)
    <3>1. \A y \in b.zones : NewZone(y, m) \in zones
      BY <2>1
    <3> QED BY <2>3, <3>1
  <2>5. ASSUME NEW z \in zones
        PROVE  /\ DOMAIN z = {"name", "members", "intra"}
               /\ \E y \in b.zones : z.name = y.name /\ z.members = RenameAll(m, y.members)
    <3>1. PICK y \in b.zones : z = NewZone(y, m)
      BY <2>1
    <3> QED BY <2>3, <3>1
  <2> QED BY <2>4, <2>5
<1>3. /\ IsTable(members, MemberFields) /\ (Distinct(b.sd.members) => Distinct(members))
      /\ DOMAIN members = DOMAIN b.sd.members
      /\ \A i \in DOMAIN b.sd.members : members[i].ifc = Rename(m, b.sd.members[i].ifc)
                                        /\ members[i].zone = b.sd.members[i].zone
  <2> DEFINE s == b.sd.members
  <2>1. IsTable(s, MemberFields)
    BY DEF HasTables, MemberFields
  <2>2. \A i \in DOMAIN s : DOMAIN s[i] = MemberFields
    BY <2>1, SequenceEntries DEF IsTable
  <2>3. \A i \in DOMAIN s : members[i] = [s[i] EXCEPT !.ifc = Rename(m, @)]
    OBVIOUS
  <2>4. members = [i \in DOMAIN s |-> members[i]] /\ DOMAIN members = DOMAIN s
    OBVIOUS
  <2> HIDE DEF members, s
  <2>5. \A i \in DOMAIN s :
          /\ DOMAIN members[i] = MemberFields /\ members[i].id = s[i].id
          /\ members[i].ifc = Rename(m, s[i].ifc) /\ members[i].zone = s[i].zone
    BY <2>2, <2>3 DEF MemberFields
  <2>6. IsTable(members, MemberFields) /\ (Distinct(s) => Distinct(members))
    BY <2>1, <2>4, <2>5, MappedTable
  <2> QED BY <2>4, <2>5, <2>6 DEF s
<1>4. /\ IsTable(routes, RouteFields) /\ (Distinct(b.routes) => Distinct(routes))
      /\ Rerouted(b.routes, routes, m)
  <2> DEFINE s == b.routes
  <2>1. IsTable(s, RouteFields)
    BY DEF HasTables, RouteFields
  <2>2. \A i \in DOMAIN s : DOMAIN s[i] = RouteFields
    BY <2>1, SequenceEntries DEF IsTable
  <2>3. \A i \in DOMAIN s : routes[i] = [s[i] EXCEPT !.dev = Rename(m, @)]
    OBVIOUS
  <2>4. routes = [i \in DOMAIN s |-> routes[i]] /\ DOMAIN routes = DOMAIN s
    OBVIOUS
  <2> HIDE DEF routes, s
  <2>5. \A i \in DOMAIN s :
          /\ DOMAIN routes[i] = RouteFields /\ routes[i].id = s[i].id
          /\ routes[i].dev = Rename(m, s[i].dev) /\ routes[i].zone = s[i].zone
          /\ routes[i].kind = s[i].kind /\ routes[i].dst = s[i].dst
    BY <2>2, <2>3 DEF RouteFields
  <2>6. IsTable(routes, RouteFields) /\ (Distinct(s) => Distinct(routes))
    BY <2>1, <2>4, <2>5, MappedTable
  <2> QED BY <2>4, <2>5, <2>6 DEF s, Rerouted
<1>5. IsTable(b.policies, PolicyFields)
  BY DEF HasTables, PolicyFields
<1>6. /\ IsTable(policies, PolicyFields) /\ (Distinct(b.policies) => Distinct(policies))
      /\ DOMAIN policies = DOMAIN b.policies
      /\ \A i \in DOMAIN b.policies :
           /\ policies[i].src = RenameAll(m, b.policies[i].src)
           /\ policies[i].dst = RenameAll(m, b.policies[i].dst)
           /\ policies[i].addr = b.policies[i].addr /\ policies[i].act = b.policies[i].act
           /\ policies[i].rest = b.policies[i].rest /\ policies[i].id = b.policies[i].id
  <2> DEFINE s == b.policies
  <2>2. IsTable(s, PolicyFields)
    BY <1>5
  <2>3. /\ policies = [i \in DOMAIN s |-> policies[i]]
        /\ \A i \in DOMAIN s :
             policies[i] = PolicyWith(s[i], RenameAll(m, s[i].src), RenameAll(m, s[i].dst))
    OBVIOUS
  <2> HIDE DEF policies, s
  <2>4. /\ IsTable(policies, PolicyFields) /\ (Distinct(s) => Distinct(policies))
        /\ DOMAIN policies = DOMAIN s
        /\ \A i \in DOMAIN s :
             /\ policies[i].src = RenameAll(m, s[i].src) /\ policies[i].dst = RenameAll(m, s[i].dst)
             /\ policies[i].addr = s[i].addr /\ policies[i].act = s[i].act
             /\ policies[i].rest = s[i].rest /\ policies[i].id = s[i].id
    BY <2>2, <2>3, RepointedTable
  <2> QED BY <2>4 DEF s
<1>7. \A a \in addrs : /\ DOMAIN a = {"name", "bound"}
                       /\ \E e \in b.addrs : a.name = e.name /\ a.bound = Rename(m, e.bound)
  BY DEF HasTables
<1>8. \A o \in others : /\ DOMAIN o = {"at", "ifc"}
                         /\ \E q \in b.others : o.at = q.at /\ o.ifc = Rename(m, q.ifc)
  BY DEF HasTables
<1>9. /\ \A p \in tunnels : /\ DOMAIN p = {"name", "ifc", "split", "pool"}
                             /\ \E q \in b.tunnels : p.name = q.name /\ p.ifc = Rename(m, q.ifc)
      /\ \A q \in b.tunnels : \E p \in tunnels : p.name = q.name /\ p.split = q.split
  <2>1. tunnels = {NewTunnel(q, m) : q \in b.tunnels}
    BY DEF NewTunnel
  <2>2. \A q \in b.tunnels : DOMAIN q = {"name", "ifc", "split", "pool"}
    BY DEF HasTables
  <2> HIDE DEF tunnels
  <2>3. \A q \in b.tunnels :
          /\ DOMAIN NewTunnel(q, m) = {"name", "ifc", "split", "pool"}
          /\ NewTunnel(q, m).name = q.name /\ NewTunnel(q, m).split = q.split
          /\ NewTunnel(q, m).ifc = Rename(m, q.ifc)
    BY <2>2 DEF NewTunnel
  <2>4. \A q \in b.tunnels : \E p \in tunnels : p.name = q.name /\ p.split = q.split
    <3>1. \A q \in b.tunnels : NewTunnel(q, m) \in tunnels
      BY <2>1
    <3> QED BY <2>3, <3>1
  <2>5. ASSUME NEW p \in tunnels
        PROVE  /\ DOMAIN p = {"name", "ifc", "split", "pool"}
               /\ \E q \in b.tunnels : p.name = q.name /\ p.ifc = Rename(m, q.ifc)
    <3>1. PICK q \in b.tunnels : p = NewTunnel(q, m)
      BY <2>1
    <3> QED BY <2>3, <3>1
  <2> QED BY <2>4, <2>5
<1>10. ssl # None => /\ DOMAIN ssl = {"ifc", "pools", "portals", "groups"}
                     /\ b.ssl # None /\ ssl.ifc = Rename(m, b.ssl.ifc)
  BY DEF HasTables
<1>11. /\ DOMAIN sd = DOMAIN b.sd /\ sd.zones = b.sd.zones /\ sd.members = members
       /\ sd.rules = b.sd.rules
  <2> HIDE DEF members
  <2> QED BY DEF HasTables
<1> HIDE DEF zones, members, sd, addrs, routes, policies, others, ssl, tunnels
<1>12. /\ DOMAIN u = BodyFields /\ u.zones = zones /\ u.sd = sd /\ u.addrs = addrs
       /\ u.routes = routes /\ u.policies = policies /\ u.others = others /\ u.ssl = ssl
       /\ u.tunnels = tunnels
  BY <1>1 DEF HasTables, BodyFields
<1>13. HasTables(u)
  BY <1>2, <1>3, <1>4, <1>6, <1>7, <1>8, <1>9, <1>10, <1>11, <1>12
     DEF HasTables, MemberFields, RouteFields, PolicyFields
<1>14. Repointed(b, u, m)
  BY <1>6, <1>12 DEF Repointed
<1>15. BoundAnew(b, u, m)
  BY <1>7, <1>12 DEF BoundAnew
<1>16. IdsUnique(b) => IdsUnique(u)
  BY <1>3, <1>4, <1>6, <1>11, <1>12 DEF IdsUnique
<1> QED BY <1>2, <1>3, <1>4, <1>8, <1>9, <1>10, <1>11, <1>12, <1>13, <1>14, <1>15, <1>16

(* The policies from the SSL-VPN come from the tunnel.                      *)
Redirect == [n \in {SslName} |-> TunnelName]
SameRest(p, q) == p.id = q.id /\ p.addr = q.addr /\ p.act = q.act /\ p.rest = q.rest

(* The conversion of a VDOM keeps its tunnels and adds the dial-up tunnel   *)
(* with the split, unless there is one of that name.                        *)
LEMMA SslBodyShape ==
  ASSUME NEW b, HasTables(b), NEW u, u = SslBody(b)
  PROVE  /\ HasTables(u) /\ (IdsUnique(b) => IdsUnique(u))
         /\ ~Converts(b) => u = b
         /\ b.tunnels \subseteq u.tunnels
         /\ Converts(b) =>
              /\ \/ \E q \in b.tunnels : q.name = TunnelName
                 \/ \E q \in u.tunnels : q.name = TunnelName /\ q.split = SplitOf(b.ssl)
              /\ \E q \in u.tunnels : q.name = TunnelName
              /\ \A q \in u.tunnels : q \in b.tunnels \/ (q.name = TunnelName /\ q.ifc = b.ssl.ifc)
              /\ u.zones = b.zones /\ u.sd = b.sd /\ u.addrs = b.addrs
              /\ u.routes = b.routes /\ u.others = b.others /\ u.ssl = None
              /\ DOMAIN u.policies = DOMAIN b.policies
              /\ \A i \in DOMAIN b.policies :
                   /\ u.policies[i].src = RenameAll(Redirect, b.policies[i].src)
                   /\ u.policies[i].dst = b.policies[i].dst
                   /\ SameRest(u.policies[i], b.policies[i])
<1> DEFINE new == [name |-> TunnelName, ifc |-> b.ssl.ifc,
                   split |-> SplitOf(b.ssl), pool |-> PoolOf(b.ssl)]
           policies == [i \in DOMAIN b.policies |->
             PolicyWith(b.policies[i], {IF n = SslName THEN TunnelName ELSE n : n \in b.policies[i].src},
                        b.policies[i].dst)]
           tunnels == IF \E p \in b.tunnels : p.name = TunnelName THEN b.tunnels
                      ELSE b.tunnels \cup {new}
<1>1. CASE ~Converts(b)
  BY <1>1 DEF SslBody
<1>2. CASE Converts(b)
  <2>1. u = [b EXCEPT !.tunnels = tunnels, !.policies = policies, !.ssl = None]
    <3>1. \A p : DOMAIN p = PolicyFields =>
            [p EXCEPT !.src = {IF n = SslName THEN TunnelName ELSE n : n \in @}]
              = PolicyWith(p, {IF n = SslName THEN TunnelName ELSE n : n \in p.src}, p.dst)
      BY DEF PolicyWith, PolicyFields
    <3>2. \A i \in DOMAIN b.policies : DOMAIN b.policies[i] = PolicyFields
      BY SequenceEntries DEF HasTables, IsTable, PolicyFields
    <3> DEFINE made == [i \in DOMAIN b.policies |->
                 [b.policies[i] EXCEPT !.src = {IF n = SslName THEN TunnelName ELSE n : n \in @}]]
    <3>3. made = policies
      BY <3>1, <3>2
    <3>4. u = [b EXCEPT !.tunnels = tunnels, !.policies = made, !.ssl = None]
      BY <1>2 DEF SslBody, MapSeq
    <3> QED BY <3>3, <3>4
  <2>2. /\ DOMAIN new = {"name", "ifc", "split", "pool"} /\ new.ifc = b.ssl.ifc
        /\ new.name = TunnelName /\ new.split = SplitOf(b.ssl)
    OBVIOUS
  <2>3. /\ IsTable(policies, PolicyFields) /\ (Distinct(b.policies) => Distinct(policies))
        /\ DOMAIN policies = DOMAIN b.policies
        /\ \A i \in DOMAIN b.policies :
             /\ policies[i].src = RenameAll(Redirect, b.policies[i].src)
             /\ policies[i].dst = b.policies[i].dst /\ SameRest(policies[i], b.policies[i])
    <3> DEFINE s == b.policies
    <3>1. IsTable(s, PolicyFields)
      BY DEF HasTables, PolicyFields
    <3>2. \A i \in DOMAIN s : DOMAIN s[i] = PolicyFields
      BY <3>1, SequenceEntries DEF IsTable
    <3>3. \A i \in DOMAIN s : policies[i] = PolicyWith(s[i],
                {IF n = SslName THEN TunnelName ELSE n : n \in s[i].src}, s[i].dst)
      OBVIOUS
    <3>4. policies = [i \in DOMAIN s |-> policies[i]] /\ DOMAIN policies = DOMAIN s
      OBVIOUS
    <3>5. \A S : {IF n = SslName THEN TunnelName ELSE n : n \in S} = RenameAll(Redirect, S)
      <4>1. \A n : (IF n = SslName THEN TunnelName ELSE n) = Rename(Redirect, n)
        BY DEF Rename, Redirect
      <4> QED BY <4>1 DEF RenameAll
    <3> HIDE DEF policies, s
    <3>6. \A i \in DOMAIN s :
            /\ DOMAIN policies[i] = PolicyFields /\ policies[i].id = s[i].id
            /\ policies[i].src = RenameAll(Redirect, s[i].src)
            /\ policies[i].dst = s[i].dst /\ SameRest(policies[i], s[i])
      <4>1. TAKE i \in DOMAIN s
      <4>2. DOMAIN s[i] = PolicyFields
        BY <3>2
      <4>3. policies[i] = PolicyWith(s[i], RenameAll(Redirect, s[i].src), s[i].dst)
        BY <3>3, <3>5
      <4> QED BY <4>2, <4>3, PolicyFrame DEF SameRest
    <3>7. IsTable(policies, PolicyFields) /\ (Distinct(s) => Distinct(policies))
      BY <3>1, <3>4, <3>6, MappedTable
    <3> QED BY <3>4, <3>6, <3>7 DEF s
  <2> HIDE DEF policies, new
  <2>4. /\ \A p \in tunnels : DOMAIN p = {"name", "ifc", "split", "pool"}
        /\ \A p \in tunnels : p \in b.tunnels \/ (p.name = TunnelName /\ p.ifc = b.ssl.ifc)
        /\ \E p \in tunnels : p.name = TunnelName
        /\ b.tunnels \subseteq tunnels
        /\ \/ \E q \in b.tunnels : q.name = TunnelName
           \/ \E q \in tunnels : q.name = TunnelName /\ q.split = SplitOf(b.ssl)
    BY <2>2 DEF HasTables
  <2> HIDE DEF tunnels
  <2>5. /\ DOMAIN u = BodyFields /\ u.tunnels = tunnels /\ u.policies = policies /\ u.ssl = None
        /\ u.zones = b.zones /\ u.sd = b.sd /\ u.addrs = b.addrs
        /\ u.routes = b.routes /\ u.others = b.others
    BY <2>1 DEF HasTables, BodyFields
  <2>6. HasTables(u)
    BY <2>3, <2>4, <2>5 DEF HasTables, PolicyFields
  <2>7. IdsUnique(b) => IdsUnique(u)
    BY <2>3, <2>5 DEF IdsUnique
  <2> QED BY <1>2, <2>3, <2>4, <2>5, <2>6, <2>7
<1> QED BY <1>1, <1>2

(* Merging only drops policies: the loop of dedup_policies, over the        *)
(* policies ps, as a loop of RecursionTheorems.                             *)
KeepStep(ps) ==
  [sx \in Seq(ToSet(ps)) \X ToSet(ps) |-> WithFirst(sx[1], sx[2])]

(* Each turn keeps policies of ps.                                          *)
LEMMA KeepIsStep ==
  ASSUME NEW ps
  PROVE  IsStep(KeepStep(ps), Seq(ToSet(ps)), ToSet(ps))
<1> DEFINE X == ToSet(ps)
<1>1. \A s \in Seq(X), x \in X : WithFirst(s, x) \in Seq(X)
  BY DEF WithFirst
<1> HIDE DEF X
<1>2. \A s \in Seq(X), x \in X : WithFirst(s, x) \in Seq(X) /\ <<s, x>> \in Seq(X) \X X
  BY <1>1
<1> QED BY <1>2 DEF IsStep, KeepStep, X

(* KeptUpTo is that loop.                                                   *)
LEMMA KeepingIsALoop ==
  ASSUME NEW X, NEW ps \in Seq(X), X = ToSet(ps)
  PROVE  IsLoop(KeptUpTo(ps), Seq(X), X, <<>>, KeepStep(ps), ps)
<1> DEFINE n == Len(ps)
           step == KeepStep(ps)
           Rec(f) == f = [k \in 0 .. n |-> IF k = 0 THEN <<>> ELSE WithFirst(f[k - 1], ps[k])]
<1>0. \A s \in Seq(X), x \in X : step[<<s, x>>] = WithFirst(s, x)
  BY DEF KeepStep
<1>1. n \in Nat /\ <<>> \in Seq(X)
  OBVIOUS
<1>2. PICK f \in [0 .. n -> Seq(X)] : IsLoopTo(f, <<>>, step, ps, n)
  <2>1. IsStep(step, Seq(X), X)
    BY KeepIsStep
  <2> HIDE DEF step
  <2>2. ASSUME NEW S, S = Seq(X), NEW base \in S
        PROVE  \E f \in [0 .. Len(ps) -> S] : IsLoopTo(f, base, step, ps, Len(ps))
    BY <2>1, <2>2, LoopExists
  <2> QED BY <1>1, <2>2
<1> HIDE DEF step
<1>3. \A k \in 1 .. n : k - 1 \in 0 .. n /\ ps[k] \in X
  BY <1>1
<1>4. Rec(f)
  <2>1. ASSUME NEW k \in 0 .. n PROVE f[k] = IF k = 0 THEN <<>> ELSE WithFirst(f[k - 1], ps[k])
    <3>1. CASE k = 0
      BY <1>2, <3>1 DEF IsLoopTo
    <3>2. CASE k # 0
      <4>1. k \in 1 .. n
        BY <1>1, <3>2
      <4>2. f[k - 1] \in Seq(X) /\ ps[k] \in X
        BY <1>3, <4>1
      <4>3. f[k] = step[<<f[k - 1], ps[k]>>]
        BY <1>2, <4>1 DEF IsLoopTo
      <4> QED BY <1>0, <3>2, <4>2, <4>3
    <3> QED BY <3>1, <3>2
  <2>2. f = [k \in 0 .. n |-> f[k]]
    BY <1>2
  <2> QED BY <2>1, <2>2
<1>5. KeptUpTo(ps) = CHOOSE g : Rec(g)
  BY DEF KeptUpTo
<1>6. Rec(KeptUpTo(ps))
  <2> HIDE DEF Rec
  <2> QED BY <1>4, <1>5
<1>7. \A k \in 1 .. n : KeptUpTo(ps)[k] = WithFirst(KeptUpTo(ps)[k - 1], ps[k])
  BY <1>1, <1>6
<1>8. KeptUpTo(ps)[0] = <<>>
  BY <1>1, <1>6
<1>9. KeptUpTo(ps) = [k \in 0 .. n |-> KeptUpTo(ps)[k]]
  BY <1>6
<1> HIDE DEF Rec
<1>10. \A k \in 1 .. n : KeptUpTo(ps)[k - 1] \in Seq(X) =>
         KeptUpTo(ps)[k] = step[<<KeptUpTo(ps)[k - 1], ps[k]>>]
  BY <1>0, <1>3, <1>7
<1> QED BY <1>8, <1>9, <1>10, Zenon DEF IsLoop, step, n

(* So after each turn it has kept a table of the policies.                  *)
LEMMA KeptIsTable ==
  ASSUME NEW X, NEW ps \in Seq(X), X = ToSet(ps)
  PROVE  /\ KeptUpTo(ps) \in [0 .. Len(ps) -> Seq(X)] /\ KeptUpTo(ps)[0] = <<>>
         /\ \A k \in 1 .. Len(ps) : KeptUpTo(ps)[k] = WithFirst(KeptUpTo(ps)[k - 1], ps[k])
<1> DEFINE f == KeptUpTo(ps)
<1>1. IsLoop(f, Seq(X), X, <<>>, KeepStep(ps), ps)
  BY KeepingIsALoop
<1>2. IsStep(KeepStep(ps), Seq(X), X)
  BY KeepIsStep
<1>3. f \in [0 .. Len(ps) -> Seq(X)]
  <2> HIDE DEF f
  <2>1. ASSUME NEW S, NEW base \in S, NEW step, IsStep(step, S, X), IsLoop(f, S, X, base, step, ps)
        PROVE  f \in [0 .. Len(ps) -> S]
    BY <2>1, LoopIsTheLoop
  <2>2. <<>> \in Seq(X)
    OBVIOUS
  <2> QED BY <1>1, <1>2, <2>1, <2>2, Zenon
<1>4. f[0] = <<>>
  BY <1>1, Zenon DEF IsLoop
<1>5. ASSUME NEW k \in 1 .. Len(ps) PROVE f[k] = WithFirst(f[k - 1], ps[k])
  <2>1. k - 1 \in 0 .. Len(ps) /\ ps[k] \in X
    OBVIOUS
  <2>2. f[k - 1] \in Seq(X)
    BY <1>3, <2>1
  <2>3. f[k] = KeepStep(ps)[<<f[k - 1], ps[k]>>]
    BY <1>1, <2>2, Zenon DEF IsLoop
  <2> QED BY <2>1, <2>2, <2>3 DEF KeepStep
<1> QED BY <1>3, <1>4, <1>5

(* The first of the policies M, among the first n of a table: it is s[i].   *)
FirstOf(s, n, M, i) ==
  i \in 1 .. n /\ s[i] \in M /\ \A j \in 1 .. n : j < i => s[j] \notin M
NoneOf(s, n, M) == \A i \in 1 .. n : s[i] \notin M

(* Two tables decide alike on the packets that the policies M match.        *)
SameFirst(s, m, r, n, M) ==
  \/ NoneOf(s, m, M) /\ NoneOf(r, n, M)
  \/ \E i \in 1 .. m, j \in 1 .. n : FirstOf(s, m, M, i) /\ FirstOf(r, n, M, j) /\ s[i].act = r[j].act

(* One turn: the policy that is dropped matches only what one before it     *)
(* matches as well.                                                         *)
LEMMA TurnKeepsFirst ==
  ASSUME NEW X, NEW ps \in Seq(X), NEW M,
         \A p, q \in X : Fingerprint(p) = Fingerprint(q) => (p \in M <=> q \in M),
         NEW k \in 1 .. Len(ps), NEW kept \in Seq(X),
         SameFirst(ps, k - 1, kept, Len(kept), M),
         NEW now, now = WithFirst(kept, ps[k])
  PROVE  SameFirst(ps, k, now, Len(now), M)
<1> DEFINE p == ps[k]
           n == Len(kept)
<1>0. k \in Nat /\ k - 1 \in Nat /\ n \in Nat /\ p \in X
  OBVIOUS
<1>1. CASE \E q \in ToSet(kept) : Fingerprint(q) = Fingerprint(p)
  <2>1. now = kept
    BY <1>1 DEF WithFirst
  <2>2. PICK a \in 1 .. n : kept[a] \in X /\ Fingerprint(kept[a]) = Fingerprint(p)
    BY <1>1 DEF ToSet
  <2>3. CASE NoneOf(ps, k - 1, M) /\ NoneOf(kept, n, M)
    <3>1. p \notin M
      BY <1>0, <2>2, <2>3 DEF NoneOf
    <3>2. NoneOf(ps, k, M)
      BY <1>0, <2>3, <3>1 DEF NoneOf
    <3> QED BY <2>1, <2>3, <3>2 DEF SameFirst
  <2>4. ASSUME NEW i \in 1 .. k - 1, NEW j \in 1 .. n, FirstOf(ps, k - 1, M, i),
               FirstOf(kept, n, M, j), ps[i].act = kept[j].act
        PROVE  SameFirst(ps, k, now, Len(now), M)
    <3>1. i \in 1 .. k /\ FirstOf(ps, k, M, i)
      BY <1>0, <2>4 DEF FirstOf
    <3> QED BY <2>1, <2>4, <3>1 DEF SameFirst
  <2> QED BY <2>3, <2>4 DEF SameFirst
<1>2. CASE ~ \E q \in ToSet(kept) : Fingerprint(q) = Fingerprint(p)
  <2>1. now = Append(kept, p)
    BY <1>2 DEF WithFirst
  <2>2. Len(now) = n + 1 /\ now[n + 1] = p /\ \A j \in 1 .. n : now[j] = kept[j]
    BY <1>0, <2>1
  <2> HIDE DEF n
  <2>3. CASE NoneOf(ps, k - 1, M) /\ NoneOf(kept, n, M)
    <3>1. CASE p \in M
      <4>1. FirstOf(ps, k, M, k)
        BY <1>0, <2>3, <3>1 DEF FirstOf, NoneOf
      <4>2. FirstOf(now, n + 1, M, n + 1)
        BY <1>0, <2>2, <2>3, <3>1 DEF FirstOf, NoneOf
      <4>3. k \in 1 .. k /\ n + 1 \in 1 .. n + 1
        BY <1>0
      <4> QED BY <2>2, <4>1, <4>2, <4>3 DEF SameFirst
    <3>2. CASE p \notin M
      <4>1. NoneOf(ps, k, M)
        BY <1>0, <2>3, <3>2 DEF NoneOf
      <4>2. NoneOf(now, n + 1, M)
        BY <1>0, <2>2, <2>3, <3>2 DEF NoneOf
      <4> QED BY <2>2, <4>1, <4>2 DEF SameFirst
    <3> QED BY <3>1, <3>2
  <2>4. ASSUME NEW i \in 1 .. k - 1, NEW j \in 1 .. n, FirstOf(ps, k - 1, M, i),
               FirstOf(kept, n, M, j), ps[i].act = kept[j].act
        PROVE  SameFirst(ps, k, now, Len(now), M)
    <3>1. i \in 1 .. k /\ FirstOf(ps, k, M, i)
      BY <1>0, <2>4 DEF FirstOf
    <3>2. j \in 1 .. n + 1 /\ FirstOf(now, n + 1, M, j)
      BY <1>0, <2>2, <2>4 DEF FirstOf
    <3>3. ps[i].act = now[j].act
      BY <2>2, <2>4
    <3> QED BY <2>2, <3>1, <3>2, <3>3 DEF SameFirst
  <2> QED BY <2>3, <2>4 DEF SameFirst, n
<1> QED BY <1>1, <1>2

(* So merging duplicates leaves a table that decides alike.                 *)
LEMMA MergingKeepsFirst ==
  ASSUME NEW X, NEW ps \in Seq(X), X = ToSet(ps), NEW M,
         \A p, q \in X : Fingerprint(p) = Fingerprint(q) => (p \in M <=> q \in M),
         NEW now, now = KeptUpTo(ps)[Len(ps)]
  PROVE  now \in Seq(X) /\ SameFirst(ps, Len(ps), now, Len(now), M)
<1> DEFINE n == Len(ps)
           f == KeptUpTo(ps)
           Good == {k \in 0 .. n : SameFirst(ps, k, f[k], Len(f[k]), M)}
<1>1. n \in Nat
  OBVIOUS
<1>2. /\ f \in [0 .. n -> Seq(X)] /\ f[0] = <<>>
      /\ \A k \in 1 .. n : f[k] = WithFirst(f[k - 1], ps[k])
  BY KeptIsTable
<1> HIDE DEF f
<1>3. 0 \in Good
  <2>1. NoneOf(ps, 0, M) /\ NoneOf(<<>>, Len(<<>>), M)
    BY DEF NoneOf
  <2> QED BY <1>1, <1>2, <2>1 DEF SameFirst
<1>4. ASSUME NEW k \in 0 .. n, k \in Good, k # n PROVE k + 1 \in Good
  <2>1. k + 1 \in 1 .. n /\ (k + 1) - 1 = k /\ k + 1 \in 0 .. n
    BY <1>1, <1>4
  <2>2. f[k] \in Seq(X) /\ f[k + 1] = WithFirst(f[k], ps[k + 1])
    BY <1>2, <2>1
  <2>3. SameFirst(ps, (k + 1) - 1, f[k], Len(f[k]), M)
    BY <1>4, <2>1
  <2> HIDE DEF Good, n
  <2>4. SameFirst(ps, k + 1, f[k + 1], Len(f[k + 1]), M)
    BY <2>1, <2>2, <2>3, TurnKeepsFirst DEF n
  <2> QED BY <2>1, <2>4 DEF Good
<1>5. 0 .. n \subseteq Good
  <2> HIDE DEF Good, n
  <2> QED BY <1>1, <1>3, <1>4, IntervalInduction
<1>6. n \in 0 .. n
  BY <1>1
<1>7. now = f[n]
  BY DEF f
<1> QED BY <1>2, <1>5, <1>6, <1>7

(* The least of the places where a table matches is the first one.          *)
LEMMA FirstIsMin ==
  ASSUME NEW s, NEW n \in Nat, NEW M, NEW hit, \A i : i \in hit <=> i \in 1 .. n /\ s[i] \in M
  PROVE  /\ NoneOf(s, n, M) => hit = {}
         /\ \A i \in 1 .. n : FirstOf(s, n, M, i) => hit # {} /\ Min(hit) = i
<1>1. NoneOf(s, n, M) => hit = {}
  BY DEF NoneOf
<1>2. ASSUME NEW i \in 1 .. n, FirstOf(s, n, M, i) PROVE hit # {} /\ Min(hit) = i
  <2>1. i \in hit /\ hit \subseteq 1 .. n /\ \A j \in hit : ~(j < i)
    BY <1>2 DEF FirstOf
  <2>2. \A j \in hit : i <= j
    BY <2>1
  <2>3. \A x \in hit : (\A y \in hit : x <= y) => x = i
    BY <2>1, <2>2
  <2> QED BY <2>1, <2>2, <2>3, Zenon DEF Min
<1> QED BY <1>1, <1>2

(* What is kept of a table without a double key has none.                   *)
LEMMA KeptAreDistinct ==
  ASSUME NEW X, NEW ps \in Seq(X), X = ToSet(ps), Distinct(ps)
  PROVE  Distinct(KeptUpTo(ps)[Len(ps)])
<1> DEFINE n == Len(ps)
           f == KeptUpTo(ps)
           From(k) == \A j \in 1 .. Len(f[k]) : \E i \in 1 .. k : f[k][j] = ps[i]
           Good == {k \in 0 .. n : Distinct(f[k]) /\ From(k)}
<1>1. n \in Nat /\ DOMAIN ps = 1 .. n
  OBVIOUS
<1>2. /\ f \in [0 .. n -> Seq(X)] /\ f[0] = <<>>
      /\ \A k \in 1 .. n : f[k] = WithFirst(f[k - 1], ps[k])
  BY KeptIsTable
<1> HIDE DEF f
<1>3. 0 \in Good
  BY <1>1, <1>2 DEF Distinct
<1>4. ASSUME NEW k \in 0 .. n, k \in Good, k # n PROVE k + 1 \in Good
  <2> DEFINE s == f[k]
             m == Len(s)
  <2>0. k + 1 \in 1 .. n /\ (k + 1) - 1 = k /\ k + 1 \in 0 .. n
    <3> HIDE DEF n
    <3> QED BY <1>1, <1>4
  <2>1. k + 1 \in 1 .. n /\ (k + 1) - 1 = k /\ k + 1 \in 0 .. n /\ ps[k + 1] \in X
    BY <2>0
  <2>2. s \in Seq(X) /\ f[k + 1] = WithFirst(s, ps[k + 1])
    BY <1>2, <2>1
  <2>3. f[k + 1] = s \/ f[k + 1] = Append(s, ps[k + 1])
    BY <2>2 DEF WithFirst
  <2>4. CASE f[k + 1] = s
    <3>1. \A j \in 1 .. m : \E i \in 1 .. k : s[j] = ps[i]
      BY <1>4
    <3>2. \A i \in 1 .. k : i \in 1 .. k + 1
      OBVIOUS
    <3> HIDE DEF s, m
    <3>3. \A j \in 1 .. m : \E i \in 1 .. k + 1 : s[j] = ps[i]
      BY <3>1, <3>2
    <3>4. From(k + 1)
      BY <2>4, <3>3 DEF s, m
    <3> QED BY <1>4, <2>1, <2>4, <3>4 DEF s
  <2>5. CASE f[k + 1] = Append(s, ps[k + 1])
    <3> DEFINE r == f[k + 1]
    <3>1. /\ m \in Nat /\ DOMAIN s = 1 .. m /\ DOMAIN r = 1 .. m + 1 /\ Len(r) = m + 1
          /\ r[m + 1] = ps[k + 1] /\ \A j \in 1 .. m : r[j] = s[j]
      BY <2>1, <2>2, <2>5
    <3>2. \A j \in 1 .. m : \E i \in 1 .. k : s[j] = ps[i]
      BY <1>4
    <3>3. Distinct(s)
      BY <1>4
    <3> HIDE DEF r, s, m
    <3>4. \A j \in 1 .. m : s[j].id # ps[k + 1].id
      <4>1. TAKE j \in 1 .. m
      <4>2. PICK i \in 1 .. k : s[j] = ps[i]
        BY <3>2
      <4>3. i \in 1 .. n /\ i # k + 1
        BY <1>1, <2>1
      <4> QED BY <1>1, <2>1, <4>2, <4>3 DEF Distinct
    <3>5. \A j \in 1 .. m + 1 : j = m + 1 \/ j \in 1 .. m
      BY <3>1
    <3>6. Distinct(r)
      BY <3>1, <3>3, <3>4, <3>5 DEF Distinct
    <3>7. \A j \in 1 .. m + 1 : \E i \in 1 .. k + 1 : r[j] = ps[i]
      <4>1. TAKE j \in 1 .. m + 1
      <4>2. CASE j = m + 1
        BY <2>1, <3>1, <4>2
      <4>3. CASE j \in 1 .. m
        <5>1. PICK i \in 1 .. k : s[j] = ps[i]
          BY <3>2, <4>3
        <5>2. i \in 1 .. k + 1
          OBVIOUS
        <5> QED BY <3>1, <4>3, <5>1, <5>2
      <4> QED BY <3>5, <4>2, <4>3
    <3>8. From(k + 1)
      BY <3>1, <3>7 DEF r
    <3> QED BY <2>1, <3>6, <3>8 DEF r
  <2> QED BY <2>3, <2>4, <2>5
<1>5. 0 .. n \subseteq Good
  <2> HIDE DEF Good, n
  <2> QED BY <1>1, <1>3, <1>4, IntervalInduction
<1>6. n \in 0 .. n
  BY <1>1
<1>7. Distinct(f[n])
  BY <1>5, <1>6
<1> QED BY <1>7 DEF f

(* What dedup_policies makes of a body.                                     *)
LEMMA DedupBodyShape ==
  ASSUME NEW b, HasTables(b), NEW u, u = DedupBody(b)
  PROVE  /\ HasTables(u) /\ (IdsUnique(b) => IdsUnique(u))
         /\ u.policies = KeptUpTo(b.policies)[Len(b.policies)]
         /\ ToSet(u.policies) \subseteq ToSet(b.policies)
         /\ u.zones = b.zones /\ u.sd = b.sd /\ u.addrs = b.addrs /\ u.routes = b.routes
         /\ u.others = b.others /\ u.ssl = b.ssl /\ u.tunnels = b.tunnels
<1> DEFINE ps == b.policies
           kept == KeptUpTo(ps)[Len(ps)]
<1>1. u = [b EXCEPT !.policies = kept]
  BY DEF DedupBody
<1>2. IsTable(ps, PolicyFields) /\ ps \in Seq(ToSet(ps))
  BY DEF HasTables, PolicyFields, IsTable
<1>3. kept \in Seq(ToSet(ps))
  <2>1. Len(ps) \in 0 .. Len(ps)
    BY <1>2
  <2> HIDE DEF ps
  <2> QED BY <1>2, <2>1, KeptIsTable
<1>4. Distinct(ps) => Distinct(kept)
  <2> HIDE DEF ps
  <2> QED BY <1>2, KeptAreDistinct
<1>5. IsTable(kept, PolicyFields) /\ ToSet(kept) \subseteq ToSet(ps)
  <2> HIDE DEF ps, kept
  <2> QED BY <1>2, <1>3, PartOfTable
<1> HIDE DEF kept
<1>6. /\ DOMAIN u = BodyFields /\ u.policies = kept /\ u.tunnels = b.tunnels
      /\ u.zones = b.zones /\ u.sd = b.sd /\ u.ssl = b.ssl
      /\ u.addrs = b.addrs /\ u.routes = b.routes /\ u.others = b.others
  BY <1>1 DEF HasTables, BodyFields
<1>7. HasTables(u)
  BY <1>5, <1>6 DEF HasTables, PolicyFields
<1>8. IdsUnique(b) => IdsUnique(u)
  BY <1>4, <1>6 DEF IdsUnique
<1> QED BY <1>5, <1>6, <1>7, <1>8 DEF kept

(* A table of which only the policies change means the same by its names.   *)
LEMMA SamePorts ==
  ASSUME NEW t, NEW u, NEW v, u.multi = t.multi, u.ifaces = t.ifaces,
         u.bodies[v].tunnels = t.bodies[v].tunnels, u.bodies[v].zones = t.bodies[v].zones,
         u.bodies[v].sd = t.bodies[v].sd, u.bodies[v].ssl = t.bodies[v].ssl
  PROVE  \A p, f : Matches(u, v, p, f) <=> Matches(t, v, p, f)
<1>1. \A n : IfaceVdom(u, n) = IfaceVdom(t, n)
  BY DEF IfaceVdom, IfaceNames
<1>2. InVdom(u, v) = InVdom(t, v)
  BY <1>1 DEF InVdom
<1>3. \A names : IfacePorts(u, v, names) = IfacePorts(t, v, names)
  BY <1>2, Zenon DEF IfacePorts
<1>4. Tunnels(u.bodies[v]) = Tunnels(t.bodies[v])
  BY Zenon DEF Tunnels
<1>5. \A n : MembersOf(u.bodies[v], n) = MembersOf(t.bodies[v], n)
  BY DEF MembersOf
<1>6. \A n : PortsOf(u, v, n) = PortsOf(t, v, n)
  <2> TAKE n
  <2> DEFINE ms == MembersOf(t.bodies[v], n)
             tunnels == Tunnels(t.bodies[v])
  <2>1. MembersOf(u.bodies[v], n) = ms /\ Tunnels(u.bodies[v]) = tunnels
    BY <1>4, <1>5
  <2>2. IfacePorts(u, v, ms \ tunnels) = IfacePorts(t, v, ms \ tunnels)
    BY <1>3
  <2> QED BY <1>2, <2>1, <2>2, Zenon DEF PortsOf
<1> QED BY <1>6 DEF Matches

(* Merging changes no verdict.                                              *)
LEMMA DedupKeepsVerdict ==
  ASSUME NEW t, NEW u, NEW v, NEW f, HasTables(t.bodies[v]),
         u.multi = t.multi, u.ifaces = t.ifaces, u.bodies[v] = DedupBody(t.bodies[v])
  PROVE  Verdict(u, v, f) = Verdict(t, v, f)
<1> DEFINE ps == t.bodies[v].policies
           qs == u.bodies[v].policies
           X == ToSet(ps)
           M == {p \in X : Matches(t, v, p, f)}
           hit == {i \in 1 .. Len(ps) : ps[i] \in M}
           hitNow == {i \in 1 .. Len(qs) : qs[i] \in M}
<1>1. /\ ps \in Seq(X) /\ qs = KeptUpTo(ps)[Len(ps)]
      /\ \A p : Matches(u, v, p, f) <=> Matches(t, v, p, f)
  <2>1. /\ u.bodies[v].tunnels = t.bodies[v].tunnels /\ u.bodies[v].zones = t.bodies[v].zones
        /\ u.bodies[v].sd = t.bodies[v].sd /\ u.bodies[v].ssl = t.bodies[v].ssl
        /\ qs = KeptUpTo(ps)[Len(ps)]
    BY DedupBodyShape
  <2>2. ps \in Seq(X)
    BY DEF HasTables, IsTable
  <2>3. \A p : Matches(u, v, p, f) <=> Matches(t, v, p, f)
    BY <2>1, SamePorts
  <2> QED BY <2>1, <2>2, <2>3
<1>2. \A p, q \in X : Fingerprint(p) = Fingerprint(q) => (p \in M <=> q \in M)
  <2> SUFFICES ASSUME NEW p \in X, NEW q \in X, Fingerprint(p) = Fingerprint(q)
               PROVE  Matches(t, v, p, f) <=> Matches(t, v, q, f)
    OBVIOUS
  <2>1. p.src = q.src /\ p.dst = q.dst /\ p.addr = q.addr /\ p.rest = q.rest
    BY DEF Fingerprint
  <2> QED BY <2>1, Zenon DEF Matches
<1>3. qs \in Seq(X) /\ SameFirst(ps, Len(ps), qs, Len(qs), M)
  <2> HIDE DEF ps, qs, M, X
  <2>1. X = ToSet(ps)
    BY DEF X
  <2> QED BY <1>1, <1>2, <2>1, MergingKeepsFirst
<1>4. {i \in DOMAIN ps : Matches(t, v, ps[i], f)} = hit
  <2>1. DOMAIN ps = 1 .. Len(ps) /\ \A i \in DOMAIN ps : ps[i] \in X
    BY <1>1
  <2> HIDE DEF ps, X
  <2> QED BY <2>1
<1>5. {i \in DOMAIN qs : Matches(u, v, qs[i], f)} = hitNow
  <2>1. DOMAIN qs = 1 .. Len(qs) /\ \A i \in DOMAIN qs : qs[i] \in X
    BY <1>3
  <2> HIDE DEF qs, ps, X
  <2> QED BY <1>1, <2>1
<1>6. /\ Verdict(t, v, f) = IF hit = {} THEN "deny" ELSE ps[Min(hit)].act
      /\ Verdict(u, v, f) = IF hitNow = {} THEN "deny" ELSE qs[Min(hitNow)].act
  BY <1>4, <1>5, Zenon DEF Verdict
<1>7. Len(ps) \in Nat /\ Len(qs) \in Nat
  BY <1>1, <1>3
<1> HIDE DEF ps, qs, M, X
<1>8. CASE NoneOf(ps, Len(ps), M) /\ NoneOf(qs, Len(qs), M)
  <2>1. hit = {} /\ hitNow = {}
    BY <1>8 DEF NoneOf
  <2> QED BY <1>6, <2>1
<1>9. ASSUME NEW i \in 1 .. Len(ps), NEW j \in 1 .. Len(qs), FirstOf(ps, Len(ps), M, i),
             FirstOf(qs, Len(qs), M, j), ps[i].act = qs[j].act
      PROVE  Verdict(u, v, f) = Verdict(t, v, f)
  <2>1. /\ \A k : k \in hit <=> k \in 1 .. Len(ps) /\ ps[k] \in M
        /\ \A k : k \in hitNow <=> k \in 1 .. Len(qs) /\ qs[k] \in M
    OBVIOUS
  <2> HIDE DEF hit, hitNow
  <2>2. hit # {} /\ Min(hit) = i
    BY <1>7, <1>9, <2>1, FirstIsMin
  <2>3. hitNow # {} /\ Min(hitNow) = j
    BY <1>7, <1>9, <2>1, FirstIsMin
  <2> QED BY <1>6, <1>9, <2>2, <2>3
<1> QED BY <1>3, <1>8, <1>9 DEF SameFirst

-----------------------------------------------------------------------------
(* The transforms on whole trees: what each makes of a tree, and that it    *)
(* leaves a tree.                                                           *)

(* The tree of a case.                                                      *)
LEMMA CaseTreeShape ==
  ASSUME NEW t, IsTree(t)
  PROVE  TreeShape(t)
BY DEF IsTree, IsBody, TreeShape, HasTables

(* An interface of another VDOM, and one under its new names.              *)
Moved(i, v) == [i EXCEPT !.vdom = v]
Renamed(i, m) == [i EXCEPT !.name = Rename(m, @), !.members = RenameAll(m, @),
                           !.parent = Rename(m, @)]

(* They are as they were otherwise.                                         *)
LEMMA IfaceFrame ==
  ASSUME NEW i, DOMAIN i = IfaceFields, NEW v, NEW m
  PROVE  /\ DOMAIN Moved(i, v) = IfaceFields
         /\ Moved(i, v).vdom = v /\ Moved(i, v).name = i.name /\ Moved(i, v).type = i.type
         /\ Moved(i, v).members = i.members /\ Moved(i, v).port = i.port
         /\ DOMAIN Renamed(i, m) = IfaceFields
         /\ Renamed(i, m).name = Rename(m, i.name) /\ Renamed(i, m).type = i.type
         /\ Renamed(i, m).members = RenameAll(m, i.members)
         /\ Renamed(i, m).vdom = i.vdom /\ Renamed(i, m).port = i.port
BY DEF Moved, Renamed, IfaceFields

(* to_multi_vdom                                                            *)
LEMMA MultiTree ==
  ASSUME NEW t, TreeShape(t), NEW vdom, NEW scopeOnly,
         NEW u, u = ToMultiVdom(t, vdom, scopeOnly)
  PROVE  /\ TreeShape(u) /\ u.words = t.words /\ u.mgmt = t.mgmt
         /\ t.multi => u = t
         /\ ~t.multi =>
              /\ u.multi /\ DOMAIN u.bodies = {vdom} /\ u.bodies[vdom] = t.bodies["root"]
              /\ \A j \in u.ifaces : \E i \in t.ifaces : j = Moved(i, vdom)
              /\ IF scopeOnly THEN u.ifaces = {}
                 ELSE \A i \in t.ifaces : Moved(i, vdom) \in u.ifaces
              /\ ~scopeOnly => u.switches = t.switches
<1>1. CASE t.multi
  BY <1>1 DEF ToMultiVdom
<1>2. CASE ~t.multi
  <2> DEFINE ifaces == IF scopeOnly THEN {} ELSE {[i EXCEPT !.vdom = vdom] : i \in t.ifaces}
             switches == IF scopeOnly THEN {} ELSE t.switches
             bodies == [v \in {vdom} |-> t.bodies["root"]]
  <2>0. ifaces = IF scopeOnly THEN {} ELSE {Moved(i, vdom) : i \in t.ifaces}
    BY DEF Moved
  <2>1. u = [t EXCEPT !.multi = TRUE, !.ifaces = ifaces, !.switches = switches, !.bodies = bodies]
    BY <1>2 DEF ToMultiVdom
  <2>2. /\ DOMAIN bodies = {vdom} /\ bodies[vdom] = t.bodies["root"]
        /\ HasTables(t.bodies["root"])
    BY <1>2 DEF TreeShape
  <2>3. /\ \A i \in ifaces : DOMAIN i = IfaceFields
        /\ \A j \in ifaces : \E i \in t.ifaces : j = Moved(i, vdom)
        /\ IF scopeOnly THEN ifaces = {}
           ELSE \A i \in t.ifaces : Moved(i, vdom) \in ifaces
    <3> HIDE DEF ifaces
    <3> QED BY <2>0, IfaceFrame DEF TreeShape
  <2>4. ~scopeOnly => switches = t.switches
    OBVIOUS
  <2> HIDE DEF ifaces, switches, bodies
  <2>5. /\ DOMAIN u = TreeFields /\ u.multi = TRUE /\ u.ifaces = ifaces
        /\ u.switches = switches /\ u.bodies = bodies /\ u.words = t.words /\ u.mgmt = t.mgmt
    BY <2>1 DEF TreeShape, TreeFields
  <2>6. TreeShape(u)
    BY <2>2, <2>3, <2>5 DEF TreeShape
  <2> QED BY <1>2, <2>2, <2>3, <2>4, <2>5, <2>6
<1> QED BY <1>1, <1>2 DEF TreeShape

(* to_single_vdom                                                           *)
LEMMA SingleTree ==
  ASSUME NEW t, TreeShape(t), IsFiniteSet(DOMAIN t.bodies), NEW u, u = ToSingleVdom(t)
  PROVE  /\ TreeShape(u) /\ u.words = t.words /\ u.mgmt = t.mgmt /\ u.switches = t.switches
         /\ \/ u = t
            \/ /\ t.multi /\ ~u.multi
               /\ \A i \in t.ifaces : Moved(i, None) \in u.ifaces
               /\ \A j \in u.ifaces : \E i \in t.ifaces : j = Moved(i, None)
               /\ \A v \in DOMAIN t.bodies : u.bodies["root"] = t.bodies[v]
               /\ DOMAIN u.bodies = {"root"}
<1>1. CASE ~t.multi \/ Cardinality(DOMAIN t.bodies) # 1
  BY <1>1 DEF ToSingleVdom
<1>2. CASE t.multi /\ Cardinality(DOMAIN t.bodies) = 1
  <2> DEFINE ifaces == {[i EXCEPT !.vdom = None] : i \in t.ifaces}
             bodies == [v \in {"root"} |-> t.bodies[CHOOSE w \in DOMAIN t.bodies : TRUE]]
  <2>1. u = [t EXCEPT !.multi = FALSE, !.ifaces = ifaces, !.bodies = bodies]
    BY <1>2 DEF ToSingleVdom
  <2>2. PICK w : DOMAIN t.bodies = {w}
    BY <1>2, FS_Singleton
  <2>3. DOMAIN bodies = {"root"} /\ bodies["root"] = t.bodies[w] /\ HasTables(t.bodies[w])
    BY <2>2 DEF TreeShape
  <2>0. ifaces = {Moved(i, None) : i \in t.ifaces}
    BY DEF Moved
  <2> HIDE DEF ifaces
  <2>4. /\ \A i \in ifaces : DOMAIN i = IfaceFields
        /\ \A i \in t.ifaces : Moved(i, None) \in ifaces
        /\ \A j \in ifaces : \E i \in t.ifaces : j = Moved(i, None)
    BY <2>0, IfaceFrame DEF TreeShape
  <2> HIDE DEF bodies
  <2>5. /\ DOMAIN u = TreeFields /\ u.multi = FALSE /\ u.ifaces = ifaces /\ u.bodies = bodies
        /\ u.switches = t.switches /\ u.words = t.words /\ u.mgmt = t.mgmt
    BY <2>1 DEF TreeShape, TreeFields
  <2>6. TreeShape(u)
    BY <2>3, <2>4, <2>5 DEF TreeShape
  <2>7. \A v \in DOMAIN t.bodies : u.bodies["root"] = t.bodies[v]
    BY <2>2, <2>3, <2>5
  <2> QED BY <1>2, <2>3, <2>4, <2>5, <2>6, <2>7
<1> QED BY <1>1, <1>2 DEF TreeShape

(* rename_vdoms: a valid map renames no two VDOMs of the tree alike.        *)
LEMMA VdomsStayApart ==
  ASSUME NEW t, NEW m, VdomMapValid(t, m), NEW p, p = VdomPairs(m),
         NEW v \in DOMAIN t.bodies, NEW w \in DOMAIN t.bodies, Rename(p, v) = Rename(p, w)
  PROVE  v = w
<1>1. CASE DOMAIN p = {}
  BY <1>1 DEF Rename
<1>2. CASE DOMAIN p # {}
  <2>1. Range(p) \cap DOMAIN t.bodies \subseteq DOMAIN p /\ IsInjective(p)
    BY <1>2 DEF VdomMapValid
  <2>2. CASE v \in DOMAIN p /\ w \in DOMAIN p
    BY <2>1, <2>2 DEF Rename, IsInjective
  <2>3. CASE v \notin DOMAIN p /\ w \notin DOMAIN p
    BY <2>3 DEF Rename
  <2>4. CASE v \in DOMAIN p /\ w \notin DOMAIN p
    BY <2>1, <2>4 DEF Rename, Range
  <2>5. CASE v \notin DOMAIN p /\ w \in DOMAIN p
    BY <2>1, <2>5 DEF Rename, Range
  <2> QED BY <2>2, <2>3, <2>4, <2>5
<1> QED BY <1>1, <1>2

(* rename_vdoms: every body and interface goes with its VDOM.               *)
LEMMA RenamedVdomsTree ==
  ASSUME NEW t, TreeShape(t), NEW m, VdomMapValid(t, m), NEW p, p = VdomPairs(m),
         NEW u, u = RenameVdoms(t, m)
  PROVE  /\ TreeShape(u) /\ u.multi = t.multi /\ u.words = t.words /\ u.switches = t.switches
         /\ u.mgmt = Rename(p, t.mgmt)
         /\ \A i \in t.ifaces : Moved(i, Rename(p, i.vdom)) \in u.ifaces
         /\ \A j \in u.ifaces : \E i \in t.ifaces : j = Moved(i, Rename(p, i.vdom))
         /\ DOMAIN u.bodies = RenameAll(p, DOMAIN t.bodies)
         /\ \A v \in DOMAIN t.bodies : u.bodies[Rename(p, v)] = t.bodies[v]
<1> DEFINE ifaces == {[i EXCEPT !.vdom = Rename(p, @)] : i \in t.ifaces}
           bodies == [w \in RenameAll(p, DOMAIN t.bodies) |->
                        t.bodies[CHOOSE v \in DOMAIN t.bodies : Rename(p, v) = w]]
           mgmt == Rename(p, t.mgmt)
<1>1. u = [t EXCEPT !.mgmt = mgmt, !.ifaces = ifaces, !.bodies = bodies]
  BY DEF RenameVdoms
<1>2. ifaces = {Moved(i, Rename(p, i.vdom)) : i \in t.ifaces}
  BY DEF Moved
<1>3. \A i \in ifaces : DOMAIN i = IfaceFields
  <2> HIDE DEF ifaces
  <2> QED BY <1>2, IfaceFrame DEF TreeShape
<1>4. ASSUME NEW v \in DOMAIN t.bodies
      PROVE  Rename(p, v) \in DOMAIN bodies /\ bodies[Rename(p, v)] = t.bodies[v]
  <2>1. Rename(p, v) \in RenameAll(p, DOMAIN t.bodies)
    BY DEF RenameAll
  <2>2. \A w \in DOMAIN t.bodies : Rename(p, w) = Rename(p, v) => w = v
    BY VdomsStayApart
  <2>3. (CHOOSE w \in DOMAIN t.bodies : Rename(p, w) = Rename(p, v)) = v
    BY <2>2
  <2> QED BY <2>1, <2>3
<1>5. \A w \in DOMAIN bodies : \E v \in DOMAIN t.bodies : w = Rename(p, v)
  BY DEF RenameAll
<1>6. DOMAIN bodies = RenameAll(p, DOMAIN t.bodies)
  OBVIOUS
<1> HIDE DEF ifaces, bodies, mgmt
<1>7. /\ DOMAIN u = TreeFields /\ u.multi = t.multi /\ u.mgmt = mgmt /\ u.ifaces = ifaces
      /\ u.bodies = bodies /\ u.switches = t.switches /\ u.words = t.words
  BY <1>1 DEF TreeShape, TreeFields
<1>8. \A w \in DOMAIN u.bodies : HasTables(u.bodies[w])
  BY <1>4, <1>5, <1>7 DEF TreeShape
<1>9. u.multi \/ DOMAIN u.bodies = {"root"}
  <2> SUFFICES ASSUME ~t.multi PROVE DOMAIN u.bodies = {"root"}
    BY <1>7 DEF TreeShape
  <2>1. DOMAIN p = {} /\ DOMAIN t.bodies = {"root"}
    BY DEF VdomMapValid, TreeShape
  <2>2. RenameAll(p, DOMAIN t.bodies) = {"root"}
    BY <2>1 DEF RenameAll, Rename
  <2> QED BY <1>6, <1>7, <2>2
<1>10. TreeShape(u)
  BY <1>3, <1>7, <1>8, <1>9 DEF TreeShape
<1> QED BY <1>2, <1>4, <1>6, <1>7, <1>10 DEF mgmt

(* hwswitch.convert                                                         *)
LEMMA HwTree ==
  ASSUME NEW t, TreeShape(t), NEW u, u = HwSwitch(t)
  PROVE  /\ TreeShape(u) /\ u.multi = t.multi /\ u.words = t.words /\ u.mgmt = t.mgmt
         /\ u.bodies = t.bodies
         /\ \A i \in t.ifaces : \E j \in u.ifaces :
              /\ j.name = i.name /\ j.port = i.port /\ j.vdom = i.vdom
              /\ i.type = "hard-switch" => i.members \cup SwitchPorts(t, i.name) \subseteq j.members
         /\ \A j \in u.ifaces : \E i \in t.ifaces :
              /\ j.name = i.name /\ j.vdom = i.vdom
              /\ j.type = "aggregate" => i.type = "aggregate" /\ j.members = i.members
<1>1. CASE \A i \in t.ifaces : i.type \notin {"hard-switch", "hard-switch-vlan"}
  BY <1>1 DEF HwSwitch
<1>2. CASE ~ \A i \in t.ifaces : i.type \notin {"hard-switch", "hard-switch-vlan"}
  <2> DEFINE soft(i) == [i EXCEPT !.type = "switch", !.members = @ \cup SwitchPorts(t, i.name)]
             ifaces == {IF i.type = "hard-switch" THEN soft(i) ELSE i : i \in t.ifaces}
             switches == IF \E i \in t.ifaces : i.type = "hard-switch-vlan" THEN t.switches ELSE {}
  <2>1. u = [t EXCEPT !.ifaces = ifaces, !.switches = switches]
    BY <1>2 DEF HwSwitch
  <2>2. ASSUME NEW i \in t.ifaces
        PROVE  /\ DOMAIN soft(i) = IfaceFields /\ soft(i).type = "switch"
               /\ soft(i).name = i.name /\ soft(i).port = i.port /\ soft(i).vdom = i.vdom
               /\ soft(i).members = i.members \cup SwitchPorts(t, i.name)
    BY <2>2 DEF TreeShape, IfaceFields
  <2> HIDE DEF soft
  <2>3. \A i \in ifaces : DOMAIN i = IfaceFields
    BY <2>2 DEF TreeShape
  <2>4. \A i \in t.ifaces : \E j \in ifaces :
          /\ j.name = i.name /\ j.port = i.port /\ j.vdom = i.vdom
          /\ i.type = "hard-switch" => i.members \cup SwitchPorts(t, i.name) \subseteq j.members
    <3> SUFFICES ASSUME NEW i \in t.ifaces
                 PROVE  \E j \in ifaces :
                          /\ j.name = i.name /\ j.port = i.port /\ j.vdom = i.vdom
                          /\ i.type = "hard-switch" =>
                               i.members \cup SwitchPorts(t, i.name) \subseteq j.members
      OBVIOUS
    <3>1. CASE i.type = "hard-switch"
      BY <2>2, <3>1
    <3>2. CASE i.type # "hard-switch"
      BY <3>2
    <3> QED BY <3>1, <3>2
  <2>5. \A j \in ifaces : \E i \in t.ifaces :
          /\ j.name = i.name /\ j.vdom = i.vdom
          /\ j.type = "aggregate" => i.type = "aggregate" /\ j.members = i.members
    <3> SUFFICES ASSUME NEW i \in t.ifaces, NEW j, j = IF i.type = "hard-switch" THEN soft(i) ELSE i
                 PROVE  /\ j.name = i.name /\ j.vdom = i.vdom
                        /\ j.type = "aggregate" => i.type = "aggregate" /\ j.members = i.members
      OBVIOUS
    <3> QED BY <2>2
  <2> HIDE DEF ifaces, switches
  <2>6. /\ DOMAIN u = TreeFields /\ u.ifaces = ifaces /\ u.bodies = t.bodies
        /\ u.multi = t.multi /\ u.words = t.words /\ u.mgmt = t.mgmt
    BY <2>1 DEF TreeShape, TreeFields
  <2>7. TreeShape(u)
    BY <2>3, <2>6 DEF TreeShape
  <2> QED BY <2>4, <2>5, <2>6, <2>7
<1> QED BY <1>1, <1>2

(* A transform that only turns the bodies into others.                      *)
LEMMA BodiesTree ==
  ASSUME NEW t, TreeShape(t), NEW bodies, DOMAIN bodies = DOMAIN t.bodies,
         \A v \in DOMAIN bodies : HasTables(bodies[v]),
         NEW u, u = [t EXCEPT !.bodies = bodies]
  PROVE  TreeShape(u) /\ OnlyBodies(t, u) /\ u.bodies = bodies
<1>1. /\ DOMAIN u = TreeFields /\ u.ifaces = t.ifaces /\ u.bodies = bodies
      /\ u.multi = t.multi /\ u.words = t.words /\ u.mgmt = t.mgmt
  BY DEF TreeShape, TreeFields
<1> QED BY <1>1 DEF TreeShape, OnlyBodies

(* sslvpn.convert                                                           *)
LEMMA SslTree ==
  ASSUME NEW t, TreeShape(t), NEW u, u = SslToIpsec(t)
  PROVE  /\ TreeShape(u) /\ OnlyBodies(t, u)
         /\ \A v \in DOMAIN t.bodies : u.bodies[v] = SslBody(t.bodies[v])
<1> DEFINE bodies == [v \in DOMAIN t.bodies |-> SslBody(t.bodies[v])]
<1>1. u = [t EXCEPT !.bodies = bodies]
  BY DEF SslToIpsec
<1>2. \A v \in DOMAIN bodies : HasTables(bodies[v])
  BY SslBodyShape DEF TreeShape
<1>3. DOMAIN bodies = DOMAIN t.bodies /\ \A v \in DOMAIN t.bodies : bodies[v] = SslBody(t.bodies[v])
  OBVIOUS
<1> HIDE DEF bodies
<1> QED BY <1>1, <1>2, <1>3, BodiesTree

(* apply_tree                                                               *)
LEMMA AppliedTree ==
  ASSUME NEW t, TreeShape(t), NEW m, NEW u, u = ApplyTree(t, m)
  PROVE  /\ TreeShape(u) /\ u.multi = t.multi /\ u.words = t.words /\ u.mgmt = t.mgmt
         /\ \A i \in t.ifaces : Renamed(i, m) \in u.ifaces
         /\ \A j \in u.ifaces : \E i \in t.ifaces : j = Renamed(i, m)
         /\ DOMAIN u.bodies = DOMAIN t.bodies
         /\ \A v \in DOMAIN t.bodies : u.bodies[v] = RenameBody(t.bodies[v], m)
<1> DEFINE ifaces == {[i EXCEPT !.name = Rename(m, @), !.members = RenameAll(m, @),
                                !.parent = Rename(m, @)] : i \in t.ifaces}
           switches == {[s EXCEPT !.name = Rename(m, @), !.ports = RenameAll(m, @)] : s \in t.switches}
           bodies == [v \in DOMAIN t.bodies |-> RenameBody(t.bodies[v], m)]
<1>1. u = [t EXCEPT !.ifaces = ifaces, !.switches = switches, !.bodies = bodies]
  BY DEF ApplyTree
<1>0. ifaces = {Renamed(i, m) : i \in t.ifaces}
  BY DEF Renamed
<1>2. /\ \A i \in ifaces : DOMAIN i = IfaceFields
      /\ \A i \in t.ifaces : Renamed(i, m) \in ifaces
      /\ \A j \in ifaces : \E i \in t.ifaces : j = Renamed(i, m)
  <2> HIDE DEF ifaces
  <2> QED BY <1>0, IfaceFrame DEF TreeShape
<1>3. \A v \in DOMAIN bodies : HasTables(bodies[v])
  BY RenameBodyShape DEF TreeShape
<1>4. /\ DOMAIN bodies = DOMAIN t.bodies
      /\ \A v \in DOMAIN t.bodies : bodies[v] = RenameBody(t.bodies[v], m)
  OBVIOUS
<1> HIDE DEF ifaces, switches, bodies
<1>5. /\ DOMAIN u = TreeFields /\ u.ifaces = ifaces /\ u.bodies = bodies
      /\ u.multi = t.multi /\ u.words = t.words /\ u.mgmt = t.mgmt
  BY <1>1 DEF TreeShape, TreeFields
<1>6. TreeShape(u)
  BY <1>2, <1>3, <1>4, <1>5 DEF TreeShape
<1> QED BY <1>2, <1>4, <1>5, <1>6

(* apply_zones, apply_sdwan and dedup_policies leave the tunnels alone.     *)
SameTunnelTrees(t, u) ==
  /\ TreeShape(u) /\ OnlyBodies(t, u)
  /\ \A v \in DOMAIN t.bodies : u.bodies[v].tunnels = t.bodies[v].tunnels

(* apply_zones                                                              *)
LEMMA ZonesTree ==
  ASSUME NEW t, TreeShape(t), NEW specs, NEW u, u = ApplyZones(t, specs)
  PROVE  /\ SameTunnelTrees(t, u)
         /\ \A v \in DOMAIN t.bodies : u.bodies[v] = ZonesBody(t.bodies[v], ZoneSpecsOf(t, specs, v))
<1> DEFINE bodies == [v \in DOMAIN t.bodies |-> ZonesBody(t.bodies[v], ZoneSpecsOf(t, specs, v))]
<1>1. u = [t EXCEPT !.bodies = bodies]
  BY DEF ApplyZones
<1>2. /\ DOMAIN bodies = DOMAIN t.bodies
      /\ \A v \in DOMAIN t.bodies : bodies[v] = ZonesBody(t.bodies[v], ZoneSpecsOf(t, specs, v))
  OBVIOUS
<1> HIDE DEF bodies
<1>3. \A v \in DOMAIN bodies : HasTables(bodies[v]) /\ bodies[v].tunnels = t.bodies[v].tunnels
  BY <1>2, ZonesBodyShape DEF TreeShape
<1> QED BY <1>1, <1>2, <1>3, BodiesTree DEF SameTunnelTrees

(* A plan's SD-WAN specs.                                                   *)
SdwanSpecs(specs) ==
  ListOf(specs, SpecFields) /\ \A s \in ToSet(specs) : ListOf(s.members, {"ifc", "gw"})

(* The specs of one VDOM.                                                   *)
LEMMA SdwanSpecsIn ==
  ASSUME NEW t, NEW specs, SdwanSpecs(specs), NEW v, NEW mine, mine = SdwanSpecsOf(t, specs, v)
  PROVE  /\ SdwanSpecs(mine) /\ ToSet(mine) \subseteq ToSet(specs)
         /\ \A s : s \in ToSet(mine) <=>
                s \in ToSet(specs) /\ Scope(t, SpecVdom(t, Members(s))) = v
<1> DEFINE S == {s \in ToSet(specs) : Scope(t, SpecVdom(t, Members(s))) = v}
<1>1. specs \in Seq(ToSet(specs)) /\ mine = Among(specs, S)
  BY DEF SdwanSpecs, ListOf, SdwanSpecsOf
<1>2. /\ mine \in Seq(ToSet(specs))
      /\ \A s : s \in ToSet(mine) <=> s \in ToSet(specs) /\ s \in S
  BY <1>1, AmongKeeps
<1>3. mine \in Seq(ToSet(mine))
  BY <1>2 DEF ToSet
<1>4. \A s : s \in ToSet(mine) <=>
          s \in ToSet(specs) /\ Scope(t, SpecVdom(t, Members(s))) = v
  BY <1>2
<1> QED BY <1>3, <1>4 DEF SdwanSpecs, ListOf

(* apply_sdwan: a VDOM without specs is left alone.                         *)
SteeredBody(b, mine) == IF mine = <<>> THEN b ELSE SdwanBody(b, mine)
(* apply_sdwan, VDOM by VDOM.                                               *)
LEMMA SdwanTree ==
  ASSUME NEW t, TreeShape(t), NEW specs, SdwanSpecs(specs), NEW u, u = ApplySdwan(t, specs)
  PROVE  /\ SameTunnelTrees(t, u)
         /\ \A v \in DOMAIN t.bodies :
              u.bodies[v] = SteeredBody(t.bodies[v], SdwanSpecsOf(t, specs, v))
<1> DEFINE bodies == [v \in DOMAIN t.bodies |->
                        SteeredBody(t.bodies[v], SdwanSpecsOf(t, specs, v))]
<1>1. u = [t EXCEPT !.bodies = bodies]
  BY DEF ApplySdwan, SteeredBody
<1>2. /\ DOMAIN bodies = DOMAIN t.bodies
      /\ \A v \in DOMAIN t.bodies :
           bodies[v] = SteeredBody(t.bodies[v], SdwanSpecsOf(t, specs, v))
  OBVIOUS
<1> HIDE DEF bodies
<1>3. ASSUME NEW v \in DOMAIN bodies
      PROVE  HasTables(bodies[v]) /\ bodies[v].tunnels = t.bodies[v].tunnels
  <2> DEFINE mine == SdwanSpecsOf(t, specs, v)
  <2>1. SdwanSpecs(mine)
    BY SdwanSpecsIn
  <2>2. HasTables(t.bodies[v])
    BY <1>2 DEF TreeShape
  <2> HIDE DEF mine
  <2>3. HasTables(SdwanBody(t.bodies[v], mine)) /\ SdwanBody(t.bodies[v], mine).tunnels = t.bodies[v].tunnels
    BY <2>1, <2>2, SdwanBodyShape DEF SdwanSpecs
  <2> QED BY <1>2, <2>2, <2>3 DEF mine, SteeredBody
<1> QED BY <1>1, <1>2, <1>3, BodiesTree DEF SameTunnelTrees

(* dedup_policies                                                           *)
LEMMA DedupTree ==
  ASSUME NEW t, TreeShape(t), NEW u, u = DedupPolicies(t)
  PROVE  /\ SameTunnelTrees(t, u)
         /\ \A v \in DOMAIN t.bodies : u.bodies[v] = DedupBody(t.bodies[v])
<1> DEFINE bodies == [v \in DOMAIN t.bodies |-> DedupBody(t.bodies[v])]
<1>1. u = [t EXCEPT !.bodies = bodies]
  BY DEF DedupPolicies
<1>2. /\ DOMAIN bodies = DOMAIN t.bodies
      /\ \A v \in DOMAIN bodies : HasTables(bodies[v]) /\ bodies[v].tunnels = t.bodies[v].tunnels
      /\ \A v \in DOMAIN t.bodies : bodies[v] = DedupBody(t.bodies[v])
  BY DedupBodyShape DEF TreeShape
<1> HIDE DEF bodies
<1> QED BY <1>1, <1>2, BodiesTree DEF SameTunnelTrees

(* The version scan respells words, the identity sets the hostname.         *)
LEMMA ScannedTree ==
  ASSUME NEW t, TreeShape(t), NEW s, NEW d, NEW u, u = [t EXCEPT !.words = Scan(@, s, d)]
  PROVE  /\ TreeShape(u) /\ u.multi = t.multi /\ u.mgmt = t.mgmt /\ u.ifaces = t.ifaces
         /\ u.bodies = t.bodies /\ u.words = Scan(t.words, s, d)
<1> DEFINE words == Scan(t.words, s, d)
<1>1. \A w \in words : DOMAIN w = {"word", "spelling"}
  <2>1. \A rs, sp : \A w \in Respelled(t.words, rs, sp) : DOMAIN w = {"word", "spelling"}
    BY DEF Respelled, TreeShape
  <2> QED BY <2>1 DEF Scan, TreeShape
<1>2. u = [t EXCEPT !.words = words]
  OBVIOUS
<1> HIDE DEF words
<1>3. /\ DOMAIN u = TreeFields /\ u.words = words /\ u.multi = t.multi /\ u.mgmt = t.mgmt
      /\ u.ifaces = t.ifaces /\ u.bodies = t.bodies
  BY <1>2 DEF TreeShape, TreeFields
<1>4. TreeShape(u)
  BY <1>1, <1>3 DEF TreeShape
<1> QED BY <1>3, <1>4 DEF words

(* _apply_device_identity                                                   *)
LEMMA NamedTree ==
  ASSUME NEW t, TreeShape(t), NEW host, NEW u, u = [t EXCEPT !.host = host]
  PROVE  /\ TreeShape(u) /\ u.multi = t.multi /\ u.mgmt = t.mgmt /\ u.ifaces = t.ifaces
         /\ u.bodies = t.bodies /\ u.words = t.words
<1>1. /\ DOMAIN u = TreeFields /\ u.words = t.words /\ u.multi = t.multi /\ u.mgmt = t.mgmt
      /\ u.ifaces = t.ifaces /\ u.bodies = t.bodies
  BY DEF TreeShape, TreeFields
<1> QED BY <1>1 DEF TreeShape

-----------------------------------------------------------------------------
(* The shape of the tree and the areas of the findings.                     *)

(* The SD-WAN specs of a case.                                              *)
LEMMA CaseSpecs ==
  ASSUME NEW c, IsCase(c)
  PROVE  SdwanSpecs(c.plan.sdwan)
BY DEF IsCase, SdwanSpecs, SpecFields

(* Entries that are changed one by one keep their fields.                   *)
LEMMA MadeList ==
  ASSUME NEW fields, NEW s, ListOf(s, fields), NEW r, r = [i \in DOMAIN s |-> r[i]],
         \A i \in DOMAIN s : DOMAIN r[i] = fields
  PROVE  ListOf(r, fields)
<1>1. s \in Seq(ToSet(s))
  BY DEF ListOf
<1>2. r \in Seq(ToSet(r)) /\ \A e \in ToSet(r) : DOMAIN e = fields
  BY <1>1, MadeEntries
<1> QED BY <1>2 DEF ListOf

(* translate_members: the specs of a plan under the new names.              *)
ZoneFields == {"name", "members", "intra", "vdom"}
(* Zone specs stay zone specs, of the same zones.                           *)
LEMMA TranslatedZones ==
  ASSUME NEW olds, ListOf(olds, ZoneFields), NEW m, NEW r,
         r = [i \in DOMAIN olds |-> r[i]],
         \A i \in DOMAIN olds : r[i] = NewZone(olds[i], m)
  PROVE  /\ ListOf(r, ZoneFields) /\ DOMAIN r = DOMAIN olds
         /\ \A i \in DOMAIN olds : r[i].name = olds[i].name
<1>1. \A i \in DOMAIN olds : DOMAIN olds[i] = ZoneFields
  BY SequenceEntries DEF ListOf
<1>2. r = [i \in DOMAIN olds |-> r[i]] /\ DOMAIN r = DOMAIN olds
  OBVIOUS
<1>3. \A i \in DOMAIN olds : DOMAIN r[i] = ZoneFields /\ r[i].name = olds[i].name
  BY <1>1 DEF ZoneFields, NewZone
<1> QED BY <1>2, <1>3, MadeList

NewMembers(s, m) == [j \in DOMAIN s |-> [s[j] EXCEPT !.ifc = Rename(m, @)]]
NewSpec(z, m) == [z EXCEPT !.members = NewMembers(@, m), !.prefer = Rename(m, @)]
(* SD-WAN specs stay SD-WAN specs, of the same zones.                       *)
LEMMA TranslatedSdwan ==
  ASSUME NEW sdwan, SdwanSpecs(sdwan), NEW m, NEW r,
         r = [i \in DOMAIN sdwan |-> r[i]], \A i \in DOMAIN sdwan : r[i] = NewSpec(sdwan[i], m)
  PROVE  /\ SdwanSpecs(r) /\ DOMAIN r = DOMAIN sdwan
         /\ \A i \in DOMAIN sdwan : r[i].name = sdwan[i].name
<1> DEFINE moved(i) == NewMembers(sdwan[i].members, m)
<1>1. \A i \in DOMAIN sdwan :
        DOMAIN sdwan[i] = SpecFields /\ ListOf(sdwan[i].members, {"ifc", "gw"})
  BY SequenceEntries DEF ListOf, SdwanSpecs
<1>2. ASSUME NEW i \in DOMAIN sdwan PROVE ListOf(moved(i), {"ifc", "gw"})
  <2> DEFINE s == sdwan[i].members
             q == moved(i)
  <2>1. ListOf(s, {"ifc", "gw"})
    BY <1>1
  <2>2. \A j \in DOMAIN s : DOMAIN s[j] = {"ifc", "gw"}
    BY <2>1, SequenceEntries DEF ListOf
  <2>3. q = [j \in DOMAIN s |-> q[j]] /\ \A j \in DOMAIN s : DOMAIN q[j] = {"ifc", "gw"}
    BY <2>2 DEF NewMembers
  <2> HIDE DEF q, s
  <2>4. ListOf(q, {"ifc", "gw"})
    BY <2>1, <2>3, MadeList
  <2> QED BY <2>4 DEF q
<1>3. \A i \in DOMAIN sdwan :
        r[i] = [sdwan[i] EXCEPT !.members = moved(i), !.prefer = Rename(m, @)]
  BY DEF NewSpec
<1>4. r = [i \in DOMAIN sdwan |-> r[i]] /\ DOMAIN r = DOMAIN sdwan
  OBVIOUS
<1> HIDE DEF moved
<1>5. \A i \in DOMAIN sdwan :
        DOMAIN r[i] = SpecFields /\ r[i].name = sdwan[i].name /\ r[i].members = moved(i)
  BY <1>1, <1>3 DEF SpecFields
<1>6. ListOf(r, SpecFields)
  <2>1. ListOf(sdwan, SpecFields)
    BY DEF SdwanSpecs
  <2>2. r = [i \in DOMAIN sdwan |-> r[i]] /\ \A i \in DOMAIN sdwan : DOMAIN r[i] = SpecFields
    BY <1>5
  <2> QED BY <2>1, <2>2, MadeList
<1>7. \A e \in ToSet(r) : \E i \in DOMAIN sdwan : e = r[i]
  BY <1>4 DEF ToSet
<1>8. \A e \in ToSet(r) : ListOf(e.members, {"ifc", "gw"})
  BY <1>2, <1>5, <1>7
<1> QED BY <1>4, <1>5, <1>6, <1>8 DEF SdwanSpecs

(* Translating the members of a plan leaves a case, of the same zones.      *)
LEMMA TranslatedCase ==
  ASSUME NEW c, IsCase(c), NEW d, d = [c EXCEPT !.plan = TranslateMembers(@)]
  PROVE  /\ IsCase(d) /\ d.tree = c.tree /\ d.plan.portmap = c.plan.portmap
         /\ d.plan.ssl = c.plan.ssl /\ NewZones(d.plan) = NewZones(c.plan)
         /\ NewSdwanZones(d.plan) = NewSdwanZones(c.plan)
<1> DEFINE PlanFields == {"portmap", "vdommap", "zones", "sdwan", "mode", "vdom", "scopeOnly",
                          "hw", "ssl", "stated", "target", "identity", "device"}
           m == c.plan.portmap
           zones == [i \in DOMAIN c.plan.zones |-> NewZone(c.plan.zones[i], m)]
           sdwan == [i \in DOMAIN c.plan.sdwan |-> NewSpec(c.plan.sdwan[i], m)]
           p == TranslateMembers(c.plan)
<1>1. DOMAIN c = {"tree", "header", "plan"} /\ DOMAIN c.plan = PlanFields
  BY DEF IsCase
<1>2. p = [c.plan EXCEPT !.zones = zones, !.sdwan = sdwan]
  BY DEF TranslateMembers, MapSeq, NewZone, NewSpec, NewMembers
<1>3. /\ ListOf(zones, ZoneFields) /\ DOMAIN zones = DOMAIN c.plan.zones
      /\ \A i \in DOMAIN c.plan.zones : zones[i].name = c.plan.zones[i].name
  <2>1. ListOf(c.plan.zones, ZoneFields)
    BY DEF IsCase, ZoneFields
  <2>2. /\ zones = [i \in DOMAIN c.plan.zones |-> zones[i]] /\ DOMAIN zones = DOMAIN c.plan.zones
        /\ \A i \in DOMAIN c.plan.zones : zones[i] = NewZone(c.plan.zones[i], m)
    OBVIOUS
  <2> HIDE DEF zones, m
  <2>3. ASSUME NEW olds, olds = c.plan.zones
        PROVE  /\ ListOf(zones, ZoneFields) /\ DOMAIN zones = DOMAIN olds
               /\ \A i \in DOMAIN olds : zones[i].name = olds[i].name
    <3>1. /\ ListOf(olds, ZoneFields) /\ zones = [i \in DOMAIN olds |-> zones[i]]
          /\ \A i \in DOMAIN olds : zones[i] = NewZone(olds[i], m)
      BY <2>1, <2>2, <2>3
    <3> QED BY ONLY <3>1, TranslatedZones
  <2> QED BY <2>3
<1>4. /\ SdwanSpecs(sdwan) /\ DOMAIN sdwan = DOMAIN c.plan.sdwan
      /\ \A i \in DOMAIN sdwan : sdwan[i].name = c.plan.sdwan[i].name
  <2>1. SdwanSpecs(c.plan.sdwan)
    BY CaseSpecs
  <2>2. /\ sdwan = [i \in DOMAIN c.plan.sdwan |-> sdwan[i]] /\ DOMAIN sdwan = DOMAIN c.plan.sdwan
        /\ \A i \in DOMAIN c.plan.sdwan : sdwan[i] = NewSpec(c.plan.sdwan[i], m)
    OBVIOUS
  <2> HIDE DEF sdwan
  <2> QED BY <2>1, <2>2, TranslatedSdwan
<1> HIDE DEF zones, sdwan, p
<1>5. /\ DOMAIN p = PlanFields /\ p.vdom = c.plan.vdom /\ p.stated = c.plan.stated
      /\ p.target = c.plan.target /\ p.portmap = c.plan.portmap /\ p.ssl = c.plan.ssl
      /\ p.zones = zones /\ p.sdwan = sdwan
  BY <1>1, <1>2
<1>6. /\ DOMAIN d = {"tree", "header", "plan"} /\ d.plan = p
      /\ d.tree = c.tree /\ d.header = c.header
  BY <1>1 DEF p
<1> HIDE DEF PlanFields
<1>7. IsCase(d)
  BY <1>3, <1>4, <1>5, <1>6 DEF IsCase, PlanFields, ZoneFields, SpecFields, SdwanSpecs
<1>8. {s.name : s \in ToSet(zones)} = {s.name : s \in ToSet(c.plan.zones)}
  BY <1>3 DEF ToSet
<1>9. {s.name : s \in ToSet(sdwan)} = {s.name : s \in ToSet(c.plan.sdwan)}
  BY <1>4 DEF ToSet
<1>10. NewZones(d.plan) = NewZones(c.plan) /\ NewSdwanZones(d.plan) = NewSdwanZones(c.plan)
  BY <1>5, <1>6, <1>8, <1>9 DEF NewZones, NewSdwanZones
<1> QED BY <1>5, <1>6, <1>7, <1>10

(* No step changes the case, and the stages only go on.                     *)
LEMMA StageNames ==
  /\ \A s \in ToVersion \cup FromDevice : s \in ToSet(Stages)
  /\ \A s \in ToSet(Stages) \ {"done"} : After(s) \in ToSet(Stages) \ {"mode"}
  /\ ToSet(Stages) = {"mode", "vdommap", "hw", "ssl", "version", "device", "identity",
                      "portmap", "zones", "sdwan", "dedup", "audit", "done"}
<1>1. ToSet(Stages) = {"mode", "vdommap", "hw", "ssl", "version", "device", "identity",
                      "portmap", "zones", "sdwan", "dedup", "audit", "done"}
  <2>1. DOMAIN Stages = 1 .. 13
    BY DEF Stages
  <2>2. ToSet(Stages) = {Stages[i] : i \in 1 .. 13}
    BY <2>1 DEF ToSet
  <2> QED BY <2>2 DEF Stages
<1> QED BY <1>1, StageOrder DEF ToVersion, FromDevice, FromZones

(* A case that is about to be migrated is a tree.                           *)
LEMMA ShapeStart == Init => ShapeInv
<1> SUFFICES ASSUME Init PROVE ShapeInv
  OBVIOUS
<1>1. PICK c \in Cases : job = [c EXCEPT !.plan = TranslateMembers(@)]
  BY DEF Init
<1>2. IsCase(job)
  BY <1>1, CasesAssumption, TranslatedCase
<1>3. TreeShape(job.tree)
  BY <1>2, CaseTreeShape DEF IsCase
<1>4. "mode" \in ToSet(Stages)
  BY StageNames DEF ToVersion
<1> QED BY <1>2, <1>3, <1>4 DEF Init, ShapeInv

(* Each transform leaves a tree.                                            *)
LEMMA ShapeKept ==
  ASSUME ShapeInv, Next
  PROVE  ShapeInv'
<1> USE DEF Plan
<1>0. TreeShape(tree) /\ IsCase(job)
  BY DEF ShapeInv
<1>1. ASSUME NEW s, NEW t, s \in ToSet(Stages) \ {"done"}, TreeShape(t), Step(s, t) PROVE ShapeInv'
  <2>1. After(s) \in ToSet(Stages) /\ After(s) # "mode"
    BY <1>1, StageNames
  <2> QED BY <1>0, <1>1, <2>1 DEF ShapeInv, Step
<1>2. ASSUME NEW s, Refuse(s) PROVE ShapeInv'
  BY <1>0, <1>2 DEF ShapeInv, Refuse
<1>3. \A s \in {"mode", "vdommap", "hw", "ssl", "version", "device", "identity",
                "portmap", "zones", "sdwan", "dedup", "audit"} : s \in ToSet(Stages) \ {"done"}
  BY StageNames DEF ToVersion, FromDevice, FromZones
<1>4. CASE Mode
  <2> DEFINE t == CASE Plan.mode = "multi" -> ToMultiVdom(tree, Plan.vdom, Plan.scopeOnly)
                    [] Plan.mode = "single" -> ToSingleVdom(tree)
                    [] OTHER -> tree
  <2>1. IsFiniteSet(DOMAIN tree.bodies)
    BY <1>4 DEF Mode, Step, ShapeInv, IsCase, IsTree
  <2>2. \A vdom, scopeOnly : TreeShape(ToMultiVdom(tree, vdom, scopeOnly))
    BY <1>0, MultiTree
  <2>3. TreeShape(ToSingleVdom(tree))
    BY <1>0, <2>1, SingleTree
  <2>4. TreeShape(t)
    BY <1>0, <2>2, <2>3
  <2>5. Step("mode", t)
    BY <1>4 DEF Mode
  <2> HIDE DEF t
  <2> QED BY <1>1, <1>3, <2>4, <2>5
<1>5. CASE VdomMap
  <2>1. CASE VdomMapValid(tree, Plan.vdommap) /\ Step("vdommap", RenameVdoms(tree, Plan.vdommap))
    BY <1>0, <1>1, <1>3, <2>1, RenamedVdomsTree
  <2> QED BY <1>2, <1>5, <2>1 DEF VdomMap
<1>6. CASE Hw
  <2>1. TreeShape(IF Plan.hw THEN HwSwitch(tree) ELSE tree)
    BY <1>0, HwTree
  <2> QED BY <1>1, <1>3, <1>6, <2>1 DEF Hw
<1>7. CASE Ssl
  <2>1. TreeShape(IF Plan.ssl THEN SslToIpsec(tree) ELSE tree)
    BY <1>0, SslTree
  <2> QED BY <1>1, <1>3, <1>7, <2>1 DEF Ssl
<1>8. CASE Version
  <2>1. \A s, d : TreeShape([tree EXCEPT !.words = Scan(@, s, d)])
    BY <1>0, ScannedTree
  <2> QED BY <1>1, <1>3, <1>8, <2>1 DEF Version
<1>9. CASE Device
  BY <1>0, <1>1, <1>3, <1>9 DEF Device
<1>10. CASE Identity
  <2>1. TreeShape(IF Plan.identity = None THEN tree ELSE [tree EXCEPT !.host = Plan.identity])
    BY <1>0, NamedTree
  <2> QED BY <1>1, <1>3, <1>10, <2>1 DEF Identity
<1>11. CASE Portmap
  <2>1. TreeShape(ApplyTree(tree, Plan.portmap))
    BY <1>0, AppliedTree
  <2> QED BY <1>1, <1>3, <1>11, <2>1 DEF Portmap
<1>12. CASE Zones
  <2>1. TreeShape(ApplyZones(tree, Plan.zones))
    BY <1>0, ZonesTree DEF SameTunnelTrees
  <2> QED BY <1>1, <1>2, <1>3, <1>12, <2>1 DEF Zones
<1>13. CASE Sdwan
  <2>1. TreeShape(ApplySdwan(tree, Plan.sdwan))
    <3> DEFINE specs == Plan.sdwan
               t == ApplySdwan(tree, specs)
    <3>1. SdwanSpecs(specs) /\ t = ApplySdwan(tree, specs)
      BY <1>0, CaseSpecs
    <3> HIDE DEF specs, t
    <3>2. SameTunnelTrees(tree, t)
      BY <1>0, <3>1, SdwanTree
    <3>3. TreeShape(t)
      BY <3>2 DEF SameTunnelTrees
    <3> QED BY <3>3 DEF specs, t
  <2> QED BY <1>1, <1>2, <1>3, <1>13, <2>1 DEF Sdwan
<1>14. CASE Dedup
  <2>1. TreeShape(IF Refactors THEN DedupPolicies(tree) ELSE tree)
    BY <1>0, DedupTree DEF SameTunnelTrees
  <2> QED BY <1>1, <1>3, <1>14, <2>1 DEF Dedup
<1>15. CASE Audit
  BY <1>0, <1>1, <1>3, <1>15 DEF Audit
<1> QED BY <1>4, <1>5, <1>6, <1>7, <1>8, <1>9, <1>10, <1>11, <1>12, <1>13, <1>14, <1>15 DEF Next

(* Findings are only added, by the areas that have any.                     *)
LEMMA ToldKept ==
  ASSUME ToldInv, Next
  PROVE  ToldInv' /\ told \subseteq told'
<1>1. ASSUME NEW area \in Areas, NEW subjects, Tell(area, subjects)
      PROVE  ToldInv' /\ told \subseteq told'
  BY <1>1 DEF Tell, ToldInv
<1>2. ASSUME UNCHANGED told PROVE ToldInv' /\ told \subseteq told'
  BY <1>2 DEF ToldInv
<1>3. CASE Audit
  <2>1. PICK zoned, steered :
          told' = told \cup {<<"zones", r>> : r \in zoned} \cup {<<"sdwan", r>> : r \in steered}
    BY <1>3 DEF Audit
  <2> QED BY <2>1 DEF ToldInv, Areas
<1>4. {"ssl", "version", "device", "portmap", "same-zone", "conflict"} \subseteq Areas
  BY DEF Areas
<1>5. CASE Ssl \/ Version \/ Device \/ Portmap \/ Dedup
  <2>1. \E area \in Areas : \E subjects : Tell(area, subjects)
    BY <1>4, <1>5, Zenon DEF Ssl, Version, Device, Portmap, Dedup
  <2> QED BY <1>1, <2>1
<1>6. CASE Zones
  <2>1. (\E subjects : Tell("same-zone", subjects)) \/ UNCHANGED told
    BY <1>6, Zenon DEF Zones, Refuse
  <2> QED BY <1>1, <1>2, <1>4, <2>1
<1>7. CASE Mode \/ VdomMap \/ Hw \/ Identity \/ Sdwan
  <2>1. UNCHANGED told
    BY <1>7 DEF Mode, VdomMap, Hw, Identity, Sdwan, Refuse
  <2> QED BY <1>2, <2>1
<1> QED BY <1>3, <1>5, <1>6, <1>7 DEF Next

-----------------------------------------------------------------------------
(* The words of the target version.                                         *)

(* A version before another has no later train.                             *)
LEMMA BeforeIs ==
  ASSUME NEW v, NEW w, v.patch # None, w.patch # None
  PROVE  Before(v, w) <=> v.train < w.train \/ (v.train = w.train /\ v.patch < w.patch)
BY DEF Before, Patch

(* The rules between two versions, by their trains.                         *)
LEMMA ActiveTrains ==
  ASSUME NEW s, NEW d, s.train \in Nat, s.patch \in Nat, s.patch # None,
         d.train \in Nat, d.patch \in Nat, d.patch # None, NEW r \in Rules
  PROVE  r \in Active(s, d) <=> s.train < r.since /\ r.since <= d.train
<1> DEFINE at == [train |-> r.since, patch |-> 0]
<1>1. r.since \in Nat
  BY RulesAssumption
<1>2. at.train = r.since /\ at.patch = 0
  OBVIOUS
<1>3. r \in Active(s, d) <=> Before(s, at) /\ ~Before(d, at)
  BY DEF Active
<1> HIDE DEF at
<1>4. Patch(at) = 0 /\ Patch(s) = s.patch /\ Patch(d) = d.patch
  BY <1>2 DEF Patch
<1>5. Before(s, at) <=> s.train < r.since
  BY <1>1, <1>2, <1>4 DEF Before
<1>6. Before(d, at) <=> d.train < r.since
  BY <1>1, <1>2, <1>4 DEF Before
<1> QED BY <1>1, <1>3, <1>5, <1>6

(* One direction of the scan: the rules in rs have their words respelled.   *)
LEMMA RespelledWords ==
  ASSUME NEW words, \A w \in words : DOMAIN w = {"word", "spelling"}, NEW rs, rs \subseteq Rules,
         NEW spelling, NEW s, NEW d, Fitting(words, s),
         \A r \in Rules : IF r \in rs THEN Spelling(r, d) = spelling
                         ELSE Spelling(r, d) = Spelling(r, s)
  PROVE  Fitting(Respelled(words, rs, spelling), d)
<1> SUFFICES ASSUME NEW u \in words, NEW r \in Rules, r.kind = "renamed",
                    NEW w, r.word = w.word,
                    w = IF \E q \in rs : q.kind = "renamed" /\ q.word = u.word
                        THEN [u EXCEPT !.spelling = spelling] ELSE u
             PROVE  w.spelling = Spelling(r, d)
  BY DEF Fitting, Respelled
<1>1. w.word = u.word
  OBVIOUS
<1>2. u.spelling = Spelling(r, s)
  BY <1>1 DEF Fitting
<1>3. CASE \E q \in rs : q.kind = "renamed" /\ q.word = u.word
  <2>1. PICK q \in rs : q.kind = "renamed" /\ q.word = u.word
    BY <1>3
  <2>2. q.since = r.since
    BY <1>1, <2>1, RulesAssumption
  <2>3. Spelling(q, d) = spelling /\ Spelling(q, d) = Spelling(r, d)
    BY <2>1, <2>2 DEF Spelling
  <2>4. w.spelling = spelling
    BY <1>3
  <2> QED BY <2>3, <2>4
<1>4. CASE ~ \E q \in rs : q.kind = "renamed" /\ q.word = u.word
  <2>1. r \notin rs
    BY <1>1, <1>4
  <2> QED BY <1>2, <1>4, <2>1
<1> QED BY <1>3, <1>4

(* From the spelling of the source's version to that of the target's.       *)
LEMMA ScanFits ==
  ASSUME NEW s, NEW d, s # None, d # None, s.train \in Nat, s.patch \in Nat, s.patch # None,
         d.train \in Nat, d.patch \in Nat, d.patch # None,
         NEW words, \A w \in words : DOMAIN w = {"word", "spelling"}, Fitting(words, s)
  PROVE  Fitting(Scan(words, s, d), d)
<1>1. \A r \in Rules : r.since \in Nat
  BY RulesAssumption
<1>2. Active(s, d) \subseteq Rules /\ Active(d, s) \subseteq Rules
  BY DEF Active
<1>3. Before(s, d) <=> s.train < d.train \/ (s.train = d.train /\ s.patch < d.patch)
  BY BeforeIs
<1>4. Before(d, s) <=> d.train < s.train \/ (d.train = s.train /\ d.patch < s.patch)
  BY BeforeIs
<1>5. CASE Before(s, d)
  <2>1. Scan(words, s, d) = Respelled(words, Active(s, d), "new")
    BY <1>5 DEF Scan, Direction
  <2>2. \A r \in Rules : IF r \in Active(s, d) THEN Spelling(r, d) = "new"
                          ELSE Spelling(r, d) = Spelling(r, s)
    BY <1>1, <1>3, <1>5, ActiveTrains DEF Spelling
  <2> QED BY <1>2, <2>1, <2>2, RespelledWords
<1>6. CASE Before(d, s)
  <2>1. ~Before(s, d)
    BY <1>3, <1>4, <1>6
  <2>2. Scan(words, s, d) = Respelled(words, Active(d, s), "old")
    BY <1>6, <2>1 DEF Scan, Direction
  <2>3. \A r \in Rules : IF r \in Active(d, s) THEN Spelling(r, d) = "old"
                          ELSE Spelling(r, d) = Spelling(r, s)
    BY <1>1, <1>4, <1>6, ActiveTrains DEF Spelling
  <2> QED BY <1>2, <2>2, <2>3, RespelledWords
<1>7. CASE ~Before(s, d) /\ ~Before(d, s)
  <2>1. s.train = d.train
    BY <1>3, <1>4, <1>7
  <2>2. Scan(words, s, d) = words
    BY <1>7 DEF Scan, Direction
  <2>3. \A r \in Rules : Spelling(r, d) = Spelling(r, s)
    BY <2>1 DEF Spelling
  <2> QED BY <2>2, <2>3 DEF Fitting
<1> QED BY <1>5, <1>6, <1>7

(* What the transform after stage s leaves as it was in t.                  *)
Frame(s, t, u) ==
  /\ s # "version" => u.words = t.words
  /\ s \notin {"mode", "vdommap", "hw", "portmap"} => u.ifaces = t.ifaces
  /\ s # "mode" => u.multi = t.multi
  /\ s \notin {"mode", "vdommap"} => u.mgmt = t.mgmt /\ DOMAIN u.bodies = DOMAIN t.bodies
  /\ s = "hw" => u.bodies = t.bodies
  /\ s \notin {"mode", "vdommap", "ssl", "portmap"} =>
       \A v \in DOMAIN t.bodies : u.bodies[v].tunnels = t.bodies[v].tunnels

(* to_multi_vdom leaves the words alone.                                    *)
LEMMA MultiWords ==
  ASSUME NEW t, TreeShape(t), NEW vdom, NEW scopeOnly
  PROVE  ToMultiVdom(t, vdom, scopeOnly).words = t.words
<1> DEFINE ifaces == IF scopeOnly THEN {} ELSE {[i EXCEPT !.vdom = vdom] : i \in t.ifaces}
           switches == IF scopeOnly THEN {} ELSE t.switches
           bodies == [v \in {vdom} |-> t.bodies["root"]]
           u == [t EXCEPT !.multi = TRUE, !.ifaces = ifaces, !.switches = switches, !.bodies = bodies]
<1>1. ToMultiVdom(t, vdom, scopeOnly) = IF t.multi THEN t ELSE u
  BY DEF ToMultiVdom
<1> HIDE DEF ifaces, switches, bodies
<1>2. u.words = t.words
  BY DEF TreeShape, TreeFields
<1> HIDE DEF u
<1> QED BY <1>1, <1>2

(* apply_tree renames, and leaves the VDOMs and words alone.                *)
LEMMA AppliedFrame ==
  ASSUME NEW t, TreeShape(t), NEW m
  PROVE  Frame("portmap", t, ApplyTree(t, m))
<1> DEFINE ifaces == {[i EXCEPT !.name = Rename(m, @), !.members = RenameAll(m, @),
                                !.parent = Rename(m, @)] : i \in t.ifaces}
           switches == {[s EXCEPT !.name = Rename(m, @), !.ports = RenameAll(m, @)] : s \in t.switches}
           bodies == [v \in DOMAIN t.bodies |-> RenameBody(t.bodies[v], m)]
           u == [t EXCEPT !.ifaces = ifaces, !.switches = switches, !.bodies = bodies]
<1>1. ApplyTree(t, m) = u
  BY DEF ApplyTree
<1>2. DOMAIN bodies = DOMAIN t.bodies
  OBVIOUS
<1> HIDE DEF ifaces, switches, bodies
<1>3. u.words = t.words /\ u.multi = t.multi /\ u.mgmt = t.mgmt /\ u.bodies = bodies
  BY DEF TreeShape, TreeFields
<1> HIDE DEF u
<1>4. Frame("portmap", t, u)
  BY <1>2, <1>3 DEF Frame
<1> QED BY <1>1, <1>4

(* Every step of the pipeline is within the frame of its stage.             *)
LEMMA Frames ==
  ASSUME ShapeInv, Next
  PROVE  /\ job' = job /\ Frame(stage, tree, tree')
         /\ stage' = "refused" \/ stage' = After(stage)
<1> USE DEF Plan
<1>0. TreeShape(tree) /\ IsCase(job)
  BY DEF ShapeInv
<1>1. ASSUME NEW s, NEW t, Step(s, t), Frame(s, tree, t)
      PROVE  /\ job' = job /\ Frame(stage, tree, tree')
             /\ stage' = "refused" \/ stage' = After(stage)
  BY <1>1 DEF Step
<1>2. ASSUME NEW s, Refuse(s)
      PROVE  /\ job' = job /\ Frame(stage, tree, tree')
             /\ stage' = "refused" \/ stage' = After(stage)
  BY <1>2 DEF Refuse, Frame
<1>3. \A s : Frame(s, tree, tree)
  BY DEF Frame
<1>4. CASE Mode
  <2> DEFINE t == CASE Plan.mode = "multi" -> ToMultiVdom(tree, Plan.vdom, Plan.scopeOnly)
                    [] Plan.mode = "single" -> ToSingleVdom(tree)
                    [] OTHER -> tree
  <2>1. IsFiniteSet(DOMAIN tree.bodies)
    BY <1>4 DEF Mode, Step, ShapeInv, IsCase, IsTree
  <2>2. \A vdom, scopeOnly : ToMultiVdom(tree, vdom, scopeOnly).words = tree.words
    BY <1>0, MultiWords
  <2>3. ToSingleVdom(tree).words = tree.words
    BY <1>0, <2>1, SingleTree
  <2>4. Frame("mode", tree, t)
    BY <2>2, <2>3 DEF Frame
  <2>5. Step("mode", t)
    BY <1>4 DEF Mode
  <2> HIDE DEF t
  <2> QED BY <1>1, <2>4, <2>5
<1>5. CASE VdomMap
  <2>1. CASE VdomMapValid(tree, Plan.vdommap) /\ Step("vdommap", RenameVdoms(tree, Plan.vdommap))
    <3>1. Frame("vdommap", tree, RenameVdoms(tree, Plan.vdommap))
      BY <1>0, <2>1, RenamedVdomsTree DEF Frame
    <3> QED BY <1>1, <2>1, <3>1
  <2> QED BY <1>2, <1>5, <2>1 DEF VdomMap
<1>6. CASE Hw
  <2>1. Frame("hw", tree, HwSwitch(tree))
    BY <1>0, HwTree DEF Frame
  <2>2. Frame("hw", tree, IF Plan.hw THEN HwSwitch(tree) ELSE tree)
    BY <1>3, <2>1
  <2> QED BY <1>1, <1>6, <2>2 DEF Hw
<1>7. CASE Ssl
  <2>1. Frame("ssl", tree, SslToIpsec(tree))
    BY <1>0, SslTree DEF Frame, OnlyBodies
  <2>2. Frame("ssl", tree, IF Plan.ssl THEN SslToIpsec(tree) ELSE tree)
    BY <1>3, <2>1
  <2> QED BY <1>1, <1>7, <2>2 DEF Ssl
<1>8. CASE Version
  <2>1. \A s, d : Frame("version", tree, [tree EXCEPT !.words = Scan(@, s, d)])
    BY <1>0, ScannedTree DEF Frame
  <2> QED BY <1>1, <1>8, <2>1 DEF Version
<1>9. CASE Device
  BY <1>1, <1>3, <1>9 DEF Device
<1>10. CASE Identity
  <2>1. \A host : Frame("identity", tree, [tree EXCEPT !.host = host])
    BY <1>0, NamedTree DEF Frame
  <2>2. Frame("identity", tree, IF Plan.identity = None THEN tree
                               ELSE [tree EXCEPT !.host = Plan.identity])
    BY <1>3, <2>1
  <2> QED BY <1>1, <1>10, <2>2 DEF Identity
<1>11. CASE Portmap
  <2>1. Frame("portmap", tree, ApplyTree(tree, Plan.portmap))
    BY <1>0, AppliedFrame
  <2> QED BY <1>1, <1>11, <2>1 DEF Portmap
<1>12. ASSUME NEW s, s # "hw", NEW t, SameTunnelTrees(tree, t) PROVE Frame(s, tree, t)
  BY <1>12 DEF SameTunnelTrees, OnlyBodies, Frame
<1>13. CASE Zones
  <2>1. SameTunnelTrees(tree, ApplyZones(tree, Plan.zones))
    BY <1>0, ZonesTree
  <2> QED BY <1>1, <1>2, <1>12, <1>13, <2>1 DEF Zones
<1>14. CASE Sdwan
  <2>1. SameTunnelTrees(tree, ApplySdwan(tree, Plan.sdwan))
    BY <1>0, CaseSpecs, SdwanTree
  <2> QED BY <1>1, <1>2, <1>12, <1>14, <2>1 DEF Sdwan
<1>15. CASE Dedup
  <2>1. SameTunnelTrees(tree, DedupPolicies(tree))
    BY <1>0, DedupTree
  <2>2. Frame("dedup", tree, IF Refactors THEN DedupPolicies(tree) ELSE tree)
    BY <1>3, <1>12, <2>1
  <2> QED BY <1>1, <1>15, <2>2 DEF Dedup
<1>16. CASE Audit
  BY <1>1, <1>3, <1>16 DEF Audit
<1> QED BY <1>4, <1>5, <1>6, <1>7, <1>8, <1>9, <1>10, <1>11, <1>13, <1>14, <1>15, <1>16 DEF Next

(* Each stage belongs to its own action.                                    *)
LEMMA StageActions ==
  ASSUME Next
  PROVE  /\ stage = "mode" => Mode
         /\ stage = "vdommap" => VdomMap
         /\ stage = "hw" => Hw
         /\ stage = "ssl" => Ssl
         /\ stage = "version" => Version
         /\ stage = "device" => Device
         /\ stage = "identity" => Identity
         /\ stage = "portmap" => Portmap
         /\ stage = "dedup" => Dedup
         /\ stage = "audit" => Audit
         /\ stage \in ToSet(Stages) \ {"done"}
<1>1. /\ Mode => stage = "mode"
      /\ Hw => stage = "hw"
      /\ Ssl => stage = "ssl"
      /\ Version => stage = "version"
      /\ Device => stage = "device"
      /\ Identity => stage = "identity"
      /\ Portmap => stage = "portmap"
      /\ Dedup => stage = "dedup"
      /\ Audit => stage = "audit"
  BY DEF Mode, Hw, Ssl, Version, Device, Identity, Portmap, Dedup, Audit, Step
<1>2. /\ VdomMap => stage = "vdommap"
      /\ Zones => stage = "zones"
      /\ Sdwan => stage = "sdwan"
  BY DEF VdomMap, Zones, Sdwan, Step, Refuse
<1>3. \A s \in {"mode", "vdommap", "hw", "ssl", "version", "device", "identity",
                "portmap", "zones", "sdwan", "dedup", "audit"} : s \in ToSet(Stages) \ {"done"}
  BY StageNames DEF ToVersion, FromDevice, FromZones
<1>4. stage \in ToSet(Stages) \ {"done"}
  BY <1>1, <1>2, <1>3 DEF Next
<1>5. stage = "mode" => Mode
  BY <1>1, <1>2 DEF Next
<1>6. stage = "vdommap" => VdomMap
  BY <1>1, <1>2 DEF Next
<1>7. (stage = "hw" => Hw) /\ (stage = "ssl" => Ssl)
  BY <1>1, <1>2 DEF Next
<1>8. (stage = "version" => Version) /\ (stage = "device" => Device)
  BY <1>1, <1>2 DEF Next
<1>9. (stage = "portmap" => Portmap) /\ (stage = "dedup" => Dedup)
  BY <1>1, <1>2 DEF Next
<1>10. (stage = "identity" => Identity) /\ (stage = "audit" => Audit)
  BY <1>1, <1>2 DEF Next
<1> QED BY <1>4, <1>5, <1>6, <1>7, <1>8, <1>9, <1>10

(* So a step that is not refused ends at the stage behind the one it began. *)
LEMMA NextStage ==
  ASSUME ShapeInv, Next
  PROVE  \/ stage' = "refused" /\ stage \in {"vdommap", "zones", "sdwan"}
         \/ stage = "mode" /\ stage' = "vdommap"
         \/ stage = "vdommap" /\ stage' = "hw"
         \/ stage = "hw" /\ stage' = "ssl"
         \/ stage = "ssl" /\ stage' = "version"
         \/ stage = "version" /\ stage' = "device"
         \/ stage = "device" /\ stage' = "identity"
         \/ stage = "identity" /\ stage' = "portmap"
         \/ stage = "portmap" /\ stage' = "zones"
         \/ stage = "zones" /\ stage' = "sdwan"
         \/ stage = "sdwan" /\ stage' = "dedup"
         \/ stage = "dedup" /\ stage' = "audit"
         \/ stage = "audit" /\ stage' = "done"
<1>1. stage' = "refused" \/ stage' = After(stage)
  BY Frames
<1>2. stage \in ToSet(Stages) \ {"done"}
  BY StageActions
<1>3. stage \in {"mode", "vdommap", "hw", "ssl", "version", "device", "identity",
                 "portmap", "zones", "sdwan", "dedup", "audit"}
  BY <1>2, StageNames
<1>4. stage \notin {"vdommap", "zones", "sdwan"} => stage' = After(stage)
  BY <1>3, StageActions DEF Mode, Hw, Ssl, Version, Device, Identity, Portmap, Dedup, Audit, Step
<1> QED BY <1>1, <1>3, <1>4, StageOrder

(* The words stay the source's until the scan makes them the target's.      *)
LEMMA WordsKept ==
  ASSUME ShapeInv, WordsInv, Next
  PROVE  WordsInv'
<1> USE DEF Plan
<1>1. job' = job /\ (stage # "version" => tree'.words = tree.words)
  BY Frames DEF Frame
<1>2. WordsKnown' <=> WordsKnown
  BY <1>1 DEF WordsKnown, StatedFits
<1>3. CASE stage # "version"
  <2>1. /\ stage' \in ToVersion => stage \in ToVersion
        /\ stage' \in FromDevice => stage \in FromDevice
    BY <1>3, NextStage DEF ToVersion, FromDevice, FromZones
  <2> QED BY <1>1, <1>2, <1>3, <2>1 DEF WordsInv, Fitting
<1>4. CASE stage = "version"
  <2>1. stage' = "device" /\ stage' \notin ToVersion /\ stage \in ToVersion
    BY <1>4, NextStage DEF ToVersion
  <2>2. SUFFICES ASSUME WordsKnown PROVE Fitting(tree'.words, job.plan.target)
    BY <1>1, <1>2, <2>1 DEF WordsInv, Fitting
  <2> DEFINE s == SourceVersion(job.header, job.plan.stated)
             d == job.plan.target
  <2>3. tree' = [tree EXCEPT !.words = Scan(@, s, d)]
    BY <1>4, <2>2, StageActions DEF Version, Step, WordsKnown
  <2>4. /\ job.header # None /\ IsVersion(job.header) /\ job.header.patch # None
        /\ Fitting(job.tree.words, job.header)
        /\ d # None /\ IsVersion(d) /\ d.patch # None
        /\ job.plan.stated # None =>
             IsVersion(job.plan.stated) /\ job.plan.stated.train = job.header.train
    BY <2>2 DEF WordsKnown, StatedFits, ShapeInv, IsCase, Fitting
  <2>5. /\ s # None /\ s.train = job.header.train /\ s.train \in Nat
        /\ s.patch \in Nat /\ s.patch # None
    BY <2>4 DEF SourceVersion, IsVersion
  <2>6. Fitting(tree.words, s)
    BY <2>1, <2>4, <2>5 DEF WordsInv, Fitting, Spelling
  <2>7. \A w \in tree.words : DOMAIN w = {"word", "spelling"}
    BY DEF ShapeInv, TreeShape
  <2>8. tree'.words = Scan(tree.words, s, d)
    BY <2>3, ScannedTree DEF ShapeInv
  <2> HIDE DEF s, d
  <2>9. Fitting(Scan(tree.words, s, d), d)
    BY <2>4, <2>5, <2>6, <2>7, ScanFits DEF IsVersion
  <2> QED BY <2>8, <2>9 DEF d
<1> QED BY <1>3, <1>4

-----------------------------------------------------------------------------
(* Interfaces keep their place.                                             *)

(* Each transform that touches interfaces leaves them in a VDOM.            *)
LEMMA OwnedMulti ==
  ASSUME NEW t, TreeShape(t), OwnedTree(t), NEW vdom, vdom # None, NEW scopeOnly,
         ~t.multi => t.mgmt = None,
         NEW u, u = ToMultiVdom(t, vdom, scopeOnly)
  PROVE  OwnedTree(u)
<1>1. CASE t.multi
  BY <1>1, MultiTree
<1>2. CASE ~t.multi
  <2>1. /\ DOMAIN u.bodies = {vdom} /\ u.mgmt = None
        /\ \A j \in u.ifaces : \E i \in t.ifaces : j = Moved(i, vdom)
    BY <1>2, MultiTree
  <2>2. \A i \in u.ifaces : i.vdom = vdom
    BY <2>1, IfaceFrame DEF TreeShape
  <2> QED BY <2>1, <2>2 DEF OwnedTree
<1> QED BY <1>1, <1>2

(* to_single_vdom keeps interfaces in their VDOM, or leaves none.           *)
LEMMA OwnedSingle ==
  ASSUME NEW t, TreeShape(t), OwnedTree(t), IsFiniteSet(DOMAIN t.bodies),
         NEW u, u = ToSingleVdom(t)
  PROVE  OwnedTree(u)
<1>1. u = t \/ ~u.multi
  BY SingleTree
<1> QED BY <1>1 DEF OwnedTree

(* rename_vdoms: interfaces and management VDOM follow the bodies.          *)
LEMMA OwnedRenamed ==
  ASSUME NEW t, TreeShape(t), OwnedTree(t), NEW m, VdomMapValid(t, m),
         NEW u, u = RenameVdoms(t, m)
  PROVE  OwnedTree(u)
<1> DEFINE p == VdomPairs(m)
<1>1. /\ u.multi = t.multi /\ u.mgmt = Rename(p, t.mgmt)
      /\ \A j \in u.ifaces : \E i \in t.ifaces : j = Moved(i, Rename(p, i.vdom))
      /\ DOMAIN u.bodies = RenameAll(p, DOMAIN t.bodies)
  BY RenamedVdomsTree
<1>2. DOMAIN p \subseteq DOMAIN t.bodies /\ \A v \in DOMAIN p : p[v] # None
  <2>1. CASE DOMAIN p = {}
    BY <2>1
  <2>2. CASE DOMAIN p # {}
    <3>1. DOMAIN p \subseteq DOMAIN t.bodies /\ Range(p) \subseteq GoodNames
      BY <2>2 DEF VdomMapValid
    <3>2. \A v \in DOMAIN p : p[v] \in Range(p)
      BY DEF Range
    <3> QED BY <3>1, <3>2, GoodNamesAssumption
  <2> QED BY <2>1, <2>2
<1> HIDE DEF p
<1>3. \A v \in DOMAIN t.bodies : Rename(p, v) \in DOMAIN u.bodies
  BY <1>1 DEF RenameAll
<1>4. \A v : v # None => Rename(p, v) # None
  BY <1>2 DEF Rename
<1> SUFFICES ASSUME t.multi
             PROVE  /\ \A i \in u.ifaces : i.vdom \in DOMAIN u.bodies \ {None}
                    /\ u.mgmt \in DOMAIN u.bodies \cup {None}
  BY <1>1 DEF OwnedTree
<1>5. \A i \in u.ifaces : i.vdom \in DOMAIN u.bodies \ {None}
  <2> SUFFICES ASSUME NEW i \in t.ifaces, NEW j, j = Moved(i, Rename(p, i.vdom))
               PROVE  j.vdom \in DOMAIN u.bodies \ {None}
    BY <1>1
  <2>1. j.vdom = Rename(p, i.vdom)
    BY IfaceFrame DEF TreeShape
  <2>2. i.vdom \in DOMAIN t.bodies /\ i.vdom # None
    BY DEF OwnedTree
  <2> QED BY <1>3, <1>4, <2>1, <2>2
<1>6. u.mgmt \in DOMAIN u.bodies \cup {None}
  <2>1. t.mgmt \in DOMAIN t.bodies \cup {None}
    BY DEF OwnedTree
  <2>2. CASE t.mgmt \in DOMAIN t.bodies
    BY <1>1, <1>3, <2>2
  <2>3. CASE t.mgmt \notin DOMAIN t.bodies
    <3>1. Rename(p, t.mgmt) = t.mgmt
      BY <1>2, <2>3 DEF Rename
    <3> QED BY <1>1, <2>1, <2>3, <3>1
  <2> QED BY <2>2, <2>3
<1> QED BY <1>5, <1>6

(* hwswitch.convert does not move an interface.                             *)
LEMMA OwnedHw ==
  ASSUME NEW t, TreeShape(t), OwnedTree(t), NEW u, u = HwSwitch(t)
  PROVE  OwnedTree(u)
<1>1. /\ u.multi = t.multi /\ u.mgmt = t.mgmt /\ DOMAIN u.bodies = DOMAIN t.bodies
      /\ \A j \in u.ifaces : \E i \in t.ifaces : j.vdom = i.vdom
  BY HwTree
<1> QED BY <1>1 DEF OwnedTree

(* Neither does renaming it.                                                *)
LEMMA OwnedApplied ==
  ASSUME NEW t, TreeShape(t), OwnedTree(t), NEW m, NEW u, u = ApplyTree(t, m)
  PROVE  OwnedTree(u)
<1>1. Frame("portmap", t, u)
  BY AppliedFrame
<1>2. u.multi = t.multi /\ u.mgmt = t.mgmt /\ DOMAIN u.bodies = DOMAIN t.bodies
  BY <1>1 DEF Frame
<1>3. \A j \in u.ifaces : \E i \in t.ifaces : j = Renamed(i, m)
  BY AppliedTree
<1>4. \A j \in u.ifaces : \E i \in t.ifaces : j.vdom = i.vdom
  BY <1>3, IfaceFrame DEF TreeShape
<1> QED BY <1>2, <1>4 DEF OwnedTree

(* Moving the interfaces to other VDOMs leaves them as before, and the      *)
(* bridge stays when what a hardware switch bridged is in one place.        *)
LEMMA AsBeforeKept ==
  ASSUME NEW t, TreeShape(t), AsBefore(t), NEW u, u.switches = t.switches,
         \A i \in t.ifaces : \E v : Moved(i, v) \in u.ifaces
  PROVE  AsBefore(u)
<1> SUFFICES ASSUME NEW i \in job.tree.ifaces
             PROVE  \E j \in u.ifaces :
                      i.name = j.name /\ i.type = j.type /\ i.members = j.members /\ i.port = j.port
  BY DEF AsBefore
<1>1. PICK j \in t.ifaces :
        i.name = j.name /\ i.type = j.type /\ i.members = j.members /\ i.port = j.port
  BY DEF AsBefore
<1>2. PICK v : Moved(j, v) \in u.ifaces
  OBVIOUS
<1>3. /\ Moved(j, v).name = j.name /\ Moved(j, v).type = j.type
      /\ Moved(j, v).members = j.members /\ Moved(j, v).port = j.port
  BY IfaceFrame DEF TreeShape
<1> QED BY <1>1, <1>2, <1>3

(* to_multi_vdom only moves interfaces, unless only VDOMs are wanted.       *)
LEMMA MultiBefore ==
  ASSUME NEW t, TreeShape(t), AsBefore(t), NEW vdom, NEW scopeOnly, ~scopeOnly,
         NEW u, u = ToMultiVdom(t, vdom, scopeOnly)
  PROVE  AsBefore(u)
<1>1. CASE t.multi
  <2>1. u = t
    BY <1>1, MultiTree
  <2> QED BY <2>1
<1>2. CASE ~t.multi
  <2>1. u.switches = t.switches /\ \A i \in t.ifaces : Moved(i, vdom) \in u.ifaces
    BY <1>2, MultiTree
  <2> QED BY <2>1, AsBeforeKept
<1> QED BY <1>1, <1>2

(* hwswitch.convert joins the two places that list bridged ports.           *)
LEMMA HwBridges ==
  ASSUME NEW t, TreeShape(t), AsBefore(t), NEW u, u = HwSwitch(t)
  PROVE  Bridged(u)
<1> SUFFICES ASSUME NEW i \in job.tree.ifaces, i.type = "hard-switch"
             PROVE  \E j \in u.ifaces : j.port = i.port /\ BridgedPorts(i) \subseteq j.members
  BY DEF Bridged, HardSwitches
<1>1. PICK j \in t.ifaces :
        i.name = j.name /\ i.type = j.type /\ i.members = j.members /\ i.port = j.port
  BY DEF AsBefore
<1>2. PICK k \in u.ifaces :
        k.port = j.port /\ j.members \cup SwitchPorts(t, j.name) \subseteq k.members
  <2>1. \E k \in u.ifaces :
          /\ k.name = j.name /\ k.port = j.port /\ k.vdom = j.vdom
          /\ j.type = "hard-switch" => j.members \cup SwitchPorts(t, j.name) \subseteq k.members
    BY HwTree
  <2>2. j.type = "hard-switch"
    BY <1>1
  <2> QED BY <2>1, <2>2
<1>3. SwitchPorts(t, j.name) = SwitchPorts(job.tree, i.name)
  BY <1>1 DEF AsBefore, SwitchPorts
<1> QED BY <1>1, <1>2, <1>3 DEF BridgedPorts

(* Renaming ports renames those of a bridge with them.                      *)
LEMMA ApplyBridges ==
  ASSUME NEW t, TreeShape(t), Bridged(t), NEW u, u = ApplyTree(t, Plan.portmap)
  PROVE  BridgedAnew(u)
<1> SUFFICES ASSUME NEW i \in HardSwitches
             PROVE  \E j \in u.ifaces :
                      j.port = i.port /\ RenameAll(Plan.portmap, BridgedPorts(i)) \subseteq j.members
  BY DEF BridgedAnew
<1>1. PICK j \in t.ifaces : j.port = i.port /\ BridgedPorts(i) \subseteq j.members
  BY DEF Bridged
<1>2. Renamed(j, Plan.portmap) \in u.ifaces
  BY AppliedTree
<1>3. /\ Renamed(j, Plan.portmap).port = j.port
      /\ Renamed(j, Plan.portmap).members = RenameAll(Plan.portmap, j.members)
  BY IfaceFrame DEF TreeShape
<1>4. RenameAll(Plan.portmap, BridgedPorts(i)) \subseteq RenameAll(Plan.portmap, j.members)
  BY <1>1 DEF RenameAll
<1> QED BY <1>1, <1>2, <1>3, <1>4

(* Before the map of the VDOMs the tree is the job's: a flat one has no     *)
(* management VDOM.                                                         *)
LEMMA OwnedKept ==
  ASSUME ShapeInv, OwnedTree(tree), Next
  PROVE  OwnedTree(tree')
<1> USE DEF Plan
<1>0. TreeShape(tree)
  BY DEF ShapeInv
<1>1. CASE stage = "mode"
  <2>1. /\ IsFiniteSet(DOMAIN tree.bodies) /\ job.plan.vdom # None
        /\ ~tree.multi => tree.mgmt = None
    BY <1>1 DEF ShapeInv, IsCase, IsTree
  <2>2. OwnedTree(ToMultiVdom(tree, job.plan.vdom, job.plan.scopeOnly))
    BY <1>0, <2>1, OwnedMulti
  <2>3. OwnedTree(ToSingleVdom(tree))
    BY <1>0, <2>1, OwnedSingle
  <2>4. tree' = CASE job.plan.mode = "multi" -> ToMultiVdom(tree, job.plan.vdom, job.plan.scopeOnly)
                  [] job.plan.mode = "single" -> ToSingleVdom(tree)
                  [] OTHER -> tree
    BY <1>1, StageActions DEF Mode, Step
  <2> QED BY <2>2, <2>3, <2>4
<1>2. CASE stage = "vdommap"
  <2>1. \/ VdomMapValid(tree, job.plan.vdommap) /\ tree' = RenameVdoms(tree, job.plan.vdommap)
        \/ tree' = tree
    BY <1>2, StageActions DEF VdomMap, Step, Refuse
  <2> QED BY <1>0, <2>1, OwnedRenamed
<1>3. CASE stage = "hw"
  <2>1. tree' = IF job.plan.hw THEN HwSwitch(tree) ELSE tree
    BY <1>3, StageActions DEF Hw, Step
  <2> QED BY <1>0, <2>1, OwnedHw
<1>4. CASE stage = "portmap"
  <2>1. tree' = ApplyTree(tree, job.plan.portmap)
    BY <1>4, StageActions DEF Portmap, Step
  <2> QED BY <1>0, <2>1, OwnedApplied
<1>5. CASE stage \notin {"mode", "vdommap", "hw", "portmap"}
  <2>1. /\ tree'.ifaces = tree.ifaces /\ tree'.multi = tree.multi /\ tree'.mgmt = tree.mgmt
        /\ DOMAIN tree'.bodies = DOMAIN tree.bodies
    BY <1>5, Frames DEF Frame
  <2> QED BY <2>1 DEF OwnedTree
<1> QED BY <1>1, <1>2, <1>3, <1>4, <1>5

(* So interfaces keep their place in every step.                            *)
LEMMA PlaceKept ==
  ASSUME ShapeInv, PlaceInv, Next
  PROVE  PlaceInv'
<1> USE DEF Plan
<1>0. TreeShape(tree) /\ job' = job
  BY Frames DEF ShapeInv
<1>1. OwnedTree(tree')
  BY OwnedKept DEF PlaceInv
<1>2. CASE stage \in {"mode", "vdommap"}
  <2>1. stage' \in {"refused", "vdommap", "hw"}
    BY <1>2, NextStage
  <2>2. stage' # "refused" /\ ~job.plan.scopeOnly => AsBefore(tree')
    <3> SUFFICES ASSUME stage' # "refused", ~job.plan.scopeOnly PROVE AsBefore(tree')
      OBVIOUS
    <3>1. AsBefore(tree)
      BY <1>2 DEF PlaceInv
    <3>2. CASE stage = "mode"
      <4>1. IsFiniteSet(DOMAIN tree.bodies)
        BY <3>2 DEF ShapeInv, IsCase, IsTree
      <4>2. AsBefore(ToMultiVdom(tree, job.plan.vdom, job.plan.scopeOnly))
        BY <1>0, <3>1, MultiBefore
      <4>3. AsBefore(ToSingleVdom(tree))
        BY <1>0, <3>1, <4>1, SingleTree, AsBeforeKept
      <4>4. tree' = CASE job.plan.mode = "multi" -> ToMultiVdom(tree, job.plan.vdom, job.plan.scopeOnly)
                      [] job.plan.mode = "single" -> ToSingleVdom(tree)
                      [] OTHER -> tree
        BY <3>2, StageActions DEF Mode, Step
      <4> QED BY <3>1, <4>2, <4>3, <4>4
    <3>3. CASE stage = "vdommap"
      <4>1. VdomMapValid(tree, job.plan.vdommap) /\ tree' = RenameVdoms(tree, job.plan.vdommap)
        BY <3>3, StageActions DEF VdomMap, Step, Refuse
      <4> QED BY <1>0, <3>1, <4>1, RenamedVdomsTree, AsBeforeKept
    <3> QED BY <1>2, <3>2, <3>3
  <2> QED BY <1>0, <1>1, <2>1, <2>2 DEF PlaceInv, ToPortmap, ToVersion, FromZones, AsBefore
<1>3. CASE stage = "hw"
  <2>1. stage' = "ssl" /\ tree' = IF job.plan.hw THEN HwSwitch(tree) ELSE tree
    BY <1>3, NextStage, StageActions DEF Hw, Step
  <2>2. ~job.plan.scopeOnly /\ job.plan.hw => Bridged(tree')
    BY <1>0, <1>3, <2>1, HwBridges DEF PlaceInv
  <2> QED BY <1>0, <1>1, <2>1, <2>2
          DEF PlaceInv, ToPortmap, ToVersion, FromZones, Bridged, HardSwitches, BridgedPorts
<1>4. CASE stage = "portmap"
  <2>1. stage' = "zones" /\ tree' = ApplyTree(tree, job.plan.portmap)
    BY <1>4, NextStage, StageActions DEF Portmap, Step
  <2>2. ~job.plan.scopeOnly /\ job.plan.hw => BridgedAnew(tree')
    BY <1>0, <1>4, <2>1, ApplyBridges DEF PlaceInv, ToPortmap, ToVersion
  <2> QED BY <1>0, <1>1, <2>1, <2>2
          DEF PlaceInv, ToPortmap, ToVersion, FromZones, BridgedAnew, HardSwitches, BridgedPorts
<1>5. CASE stage \notin {"mode", "vdommap", "hw", "portmap"}
  <2>1. tree'.ifaces = tree.ifaces
    BY <1>5, Frames DEF Frame
  <2>2. /\ stage' \notin {"mode", "vdommap", "hw"}
        /\ stage' \in ToPortmap => stage \in ToPortmap
        /\ stage' \in FromZones => stage \in FromZones
    BY <1>5, NextStage DEF ToPortmap, ToVersion, FromZones
  <2>3. Bridged(tree)' <=> Bridged(tree)
    BY <1>0, <2>1 DEF Bridged, HardSwitches, BridgedPorts
  <2>4. BridgedAnew(tree)' <=> BridgedAnew(tree)
    BY <1>0, <2>1 DEF BridgedAnew, HardSwitches, BridgedPorts
  <2> QED BY <1>0, <1>1, <1>5, <2>2, <2>3, <2>4 DEF PlaceInv
<1> QED BY <1>2, <1>3, <1>4, <1>5

-----------------------------------------------------------------------------
(* The ports the destination lacks.                                         *)

(* The members of aggregates stay listed when no interface goes and none    *)
(* becomes an aggregate.                                                    *)
LEMMA BundlesKept ==
  ASSUME NEW t, BundlesListed(t), NEW u,
         \A i \in t.ifaces : \E j \in u.ifaces : j.name = i.name,
         \A j \in u.ifaces : j.type = "aggregate" =>
           \E i \in t.ifaces : i.type = "aggregate" /\ j.members = i.members
  PROVE  BundlesListed(u)
BY DEF BundlesListed, IfaceNames

(* Moving interfaces to other VDOMs is such a change.                       *)
LEMMA MovedBundles ==
  ASSUME NEW t, TreeShape(t), BundlesListed(t), NEW u,
         \A i \in t.ifaces : \E v : Moved(i, v) \in u.ifaces,
         \A j \in u.ifaces : \E i \in t.ifaces : \E v : j = Moved(i, v)
  PROVE  BundlesListed(u)
<1>1. \A i \in t.ifaces : \A v : /\ Moved(i, v).name = i.name /\ Moved(i, v).type = i.type
                             /\ Moved(i, v).members = i.members
  BY IfaceFrame DEF TreeShape
<1>2. \A i \in t.ifaces : \E j \in u.ifaces : j.name = i.name
  BY <1>1
<1>3. \A j \in u.ifaces : j.type = "aggregate" =>
        \E i \in t.ifaces : i.type = "aggregate" /\ j.members = i.members
  BY <1>1
<1> QED BY <1>2, <1>3, BundlesKept

(* So is to_multi_vdom, or it leaves no interface.                          *)
LEMMA MultiBundles ==
  ASSUME NEW t, TreeShape(t), BundlesListed(t), NEW vdom, NEW scopeOnly,
         NEW u, u = ToMultiVdom(t, vdom, scopeOnly)
  PROVE  BundlesListed(u)
<1>1. CASE t.multi
  <2>1. u = t
    BY <1>1, MultiTree
  <2> QED BY <2>1
<1>2. CASE ~t.multi
  <2>1. /\ \A j \in u.ifaces : \E i \in t.ifaces : j = Moved(i, vdom)
        /\ IF scopeOnly THEN u.ifaces = {} ELSE \A i \in t.ifaces : Moved(i, vdom) \in u.ifaces
    BY <1>2, MultiTree
  <2>2. CASE scopeOnly
    BY <2>1, <2>2 DEF BundlesListed
  <2>3. CASE ~scopeOnly
    BY <2>1, <2>3, MovedBundles
  <2> QED BY <2>2, <2>3
<1> QED BY <1>1, <1>2

(* A physical port of the renamed tree is the new name of one.              *)
LEMMA PhysicalRenamed ==
  ASSUME NEW t, TreeShape(t), BundlesListed(t), NEW m, NEW u, u = ApplyTree(t, m)
  PROVE  PhysicalNames(u) \subseteq RenameAll(m, PhysicalNames(t))
<1>1. \A j \in u.ifaces : \E i \in t.ifaces :
        /\ j.name = Rename(m, i.name) /\ j.type = i.type /\ j.members = RenameAll(m, i.members)
  <2>1. \A j \in u.ifaces : \E i \in t.ifaces : j = Renamed(i, m)
    BY AppliedTree
  <2> QED BY <2>1, IfaceFrame DEF TreeShape
<1> SUFFICES ASSUME NEW j \in u.ifaces, j.type = "physical" \/ j.name \in Bundled(u)
             PROVE  \E x \in PhysicalNames(t) : j.name = Rename(m, x)
  BY DEF PhysicalNames, RenameAll
<1>2. CASE j.type = "physical"
  BY <1>1, <1>2 DEF PhysicalNames
<1>3. CASE j.name \in Bundled(u)
  <2>1. PICK k \in u.ifaces : k.type = "aggregate" /\ j.name \in k.members
    BY <1>3 DEF Bundled
  <2>2. PICK l \in t.ifaces : l.type = "aggregate" /\ j.name \in RenameAll(m, l.members)
    BY <1>1, <2>1
  <2>3. PICK x \in l.members : j.name = Rename(m, x)
    BY <2>2 DEF RenameAll
  <2>4. x \in Bundled(t) /\ x \in IfaceNames(t)
    BY <2>2 DEF Bundled, BundlesListed
  <2>5. x \in PhysicalNames(t)
    BY <2>4 DEF PhysicalNames, IfaceNames
  <2> QED BY <2>3, <2>5
<1> QED BY <1>2, <1>3

(* The members of aggregates are listed until ports are renamed.            *)
LEMMA BundlesListedKept ==
  ASSUME ShapeInv, BundlesListed(tree), Next, stage # "portmap"
  PROVE  BundlesListed(tree')
<1> USE DEF Plan
<1>0. TreeShape(tree)
  BY DEF ShapeInv
<1>1. CASE stage = "mode"
  <2>1. IsFiniteSet(DOMAIN tree.bodies)
    BY <1>1 DEF ShapeInv, IsCase, IsTree
  <2>2. BundlesListed(ToMultiVdom(tree, job.plan.vdom, job.plan.scopeOnly))
    BY <1>0, MultiBundles
  <2>3. BundlesListed(ToSingleVdom(tree))
    BY <1>0, <2>1, SingleTree, MovedBundles
  <2>4. tree' = CASE job.plan.mode = "multi" -> ToMultiVdom(tree, job.plan.vdom, job.plan.scopeOnly)
                  [] job.plan.mode = "single" -> ToSingleVdom(tree)
                  [] OTHER -> tree
    BY <1>1, StageActions DEF Mode, Step
  <2> QED BY <2>2, <2>3, <2>4
<1>2. CASE stage = "vdommap"
  <2>1. \/ VdomMapValid(tree, job.plan.vdommap) /\ tree' = RenameVdoms(tree, job.plan.vdommap)
        \/ tree' = tree
    BY <1>2, StageActions DEF VdomMap, Step, Refuse
  <2> QED BY <1>0, <2>1, RenamedVdomsTree, MovedBundles
<1>3. CASE stage = "hw"
  <2>1. tree' = IF job.plan.hw THEN HwSwitch(tree) ELSE tree
    BY <1>3, StageActions DEF Hw, Step
  <2>2. BundlesListed(HwSwitch(tree))
    BY <1>0, HwTree, BundlesKept
  <2> QED BY <2>1, <2>2
<1>4. CASE stage \notin {"mode", "vdommap", "hw", "portmap"}
  <2>1. tree'.ifaces = tree.ifaces
    BY <1>4, Frames DEF Frame
  <2> QED BY <2>1 DEF BundlesListed, IfaceNames
<1> QED BY <1>1, <1>2, <1>3, <1>4

(* So the missing ports are told when they have their new names.            *)
LEMMA PortsKept ==
  ASSUME ShapeInv, ToldInv, PortsInv, Next
  PROVE  PortsInv'
<1> USE DEF Plan
<1>0. TreeShape(tree) /\ job' = job /\ told \subseteq told'
  BY Frames, ToldKept DEF ShapeInv
<1>1. \A names : AllTold(names) => AllTold(names)'
  BY <1>0 DEF AllTold
<1>2. stage' \in ToPortmap => BundlesListed(tree')
  <2>1. stage' \in ToPortmap => stage \in ToPortmap /\ stage # "portmap"
    BY NextStage DEF ToPortmap, ToVersion
  <2> QED BY <2>1, BundlesListedKept DEF PortsInv
<1>3. ASSUME stage \notin {"mode", "vdommap", "hw", "portmap"}
      PROVE  PhysicalNames(tree') = PhysicalNames(tree)
  <2>1. tree'.ifaces = tree.ifaces
    BY <1>3, Frames DEF Frame
  <2> QED BY <2>1 DEF PhysicalNames, Bundled
<1>4. CASE stage \in ToVersion
  <2>1. stage' \notin {"identity", "portmap"} /\ stage' \notin FromZones
    BY <1>4, NextStage DEF ToVersion, FromZones
  <2> QED BY <1>2, <2>1 DEF PortsInv, BundlesListed
<1>5. CASE stage = "device"
  <2>1. stage' = "identity"
    BY <1>5, NextStage
  <2>2. tree' = tree /\ Tell("device", IF job.plan.device = None THEN {}
          ELSE RenameAll(job.plan.portmap, PhysicalNames(tree)) \ job.plan.device)
    BY <1>5, StageActions DEF Device, Step
  <2>3. job.plan.device # None => AllTold(RenameAll(job.plan.portmap, PhysicalNames(tree)))'
    BY <1>0, <2>2 DEF Tell, AllTold
  <2> QED BY <1>0, <1>2, <2>1, <2>3 DEF PortsInv, FromZones, BundlesListed
<1>6. CASE stage = "identity"
  <2>1. stage' = "portmap"
    BY <1>6, NextStage
  <2>2. job.plan.device # None => AllTold(RenameAll(job.plan.portmap, PhysicalNames(tree)))'
    BY <1>0, <1>1, <1>3, <1>6 DEF PortsInv, AllTold
  <2> QED BY <1>0, <1>2, <2>1, <2>2 DEF PortsInv, FromZones, BundlesListed
<1>7. CASE stage = "portmap"
  <2>1. stage' = "zones" /\ tree' = ApplyTree(tree, job.plan.portmap)
    BY <1>7, NextStage, StageActions DEF Portmap, Step
  <2>2. PhysicalNames(tree') \subseteq RenameAll(job.plan.portmap, PhysicalNames(tree))
    BY <1>0, <1>7, <2>1, PhysicalRenamed DEF PortsInv, ToPortmap
  <2>3. job.plan.device # None => AllTold(PhysicalNames(tree))'
    BY <1>0, <1>7, <2>2 DEF PortsInv, AllTold
  <2> QED BY <1>0, <1>2, <2>1, <2>3 DEF PortsInv, FromZones, BundlesListed
<1>8. CASE stage \in FromZones
  <2>1. /\ stage' \notin {"identity", "portmap"}
        /\ stage' \in FromZones => stage \notin {"mode", "vdommap", "hw", "portmap"}
    BY <1>8, NextStage DEF FromZones
  <2>2. job.plan.device # None => AllTold(PhysicalNames(tree))'
    BY <1>0, <1>3, <1>8 DEF PortsInv, AllTold, FromZones
  <2> QED BY <1>0, <1>2, <2>1, <2>2 DEF PortsInv, BundlesListed
<1> QED BY <1>4, <1>5, <1>6, <1>7, <1>8, NextStage DEF ToVersion, FromZones

-----------------------------------------------------------------------------
(* The splits of the SSL-VPN portals.                                       *)

(* The split of a tunnel portal is the tunnel's, or it is left behind.      *)
LEMMA SplitsAccounted ==
  ASSUME NEW ssl, ssl.portals \in Seq(ToSet(ssl.portals)),
         NEW i \in TunnelPortals(ssl), NEW d \in ssl.portals[i].split
  PROVE  d \in SplitOf(ssl) \/ d \in LeftBehind(ssl)
<1> DEFINE ps == TunnelPortals(ssl)
           first == Min(WithSplit(ssl))
           splitFrom == {k \in WithSplit(ssl) : k = first}
<1>1. i \in WithSplit(ssl) /\ i \in DOMAIN ssl.portals /\ i \in Nat
  BY DEF WithSplit, TunnelPortals
<1>2. first = i => d \in SplitOf(ssl)
  BY <1>1 DEF SplitOf
<1>3. CASE \A j, k \in ps : j = k
  <2>1. WithSplit(ssl) = {i}
    BY <1>1, <1>3 DEF WithSplit
  <2>2. first = i
    BY <1>1, <2>1 DEF Min
  <2> QED BY <1>2, <2>2
<1>4. CASE ~ \A j, k \in ps : j = k
  <2>1. UNION {ssl.portals[k].split : k \in ps \ splitFrom} \subseteq LeftBehind(ssl)
    BY <1>4 DEF LeftBehind
  <2> HIDE DEF first
  <2>2. first # i => i \in ps \ splitFrom
    OBVIOUS
  <2> HIDE DEF ps, splitFrom
  <2> QED BY <1>2, <2>1, <2>2
<1> QED BY <1>3, <1>4

(* Converting the SSL-VPN keeps every split, tells it or is the exception.  *)
LEMMA SslKeepsSplits ==
  ASSUME NEW b, b.ssl # None => b.ssl.portals \in Seq(ToSet(b.ssl.portals)),
         NEW c, HasTables(c), SameTunnels(c, b),
         NEW known, Converts(c) => {"ssl"} \X LeftBehind(c.ssl) \subseteq known
  PROVE  SplitKept(b, SslBody(c), known)
<1> SUFFICES ASSUME b.ssl # None, NEW i \in TunnelPortals(b.ssl), NEW d \in b.ssl.portals[i].split
             PROVE  \/ \E q \in SslBody(c).tunnels : q.name = TunnelName /\ d \in q.split
                    \/ <<"ssl", d>> \in known
                    \/ d \in SplitOf(b.ssl) /\ \E q \in b.tunnels : q.name = TunnelName
  BY DEF SplitKept
<1>1. Converts(c) /\ c.ssl = b.ssl /\ c.tunnels = b.tunnels
  BY DEF Converts, SameTunnels
<1>2. d \in SplitOf(b.ssl) \/ d \in LeftBehind(b.ssl)
  BY SplitsAccounted
<1>3. \/ \E q \in c.tunnels : q.name = TunnelName
      \/ \E q \in SslBody(c).tunnels : q.name = TunnelName /\ q.split = SplitOf(c.ssl)
  BY <1>1, SslBodyShape
<1> QED BY <1>1, <1>2, <1>3

(* It stays kept while tunnels keep their name and split.                   *)
LEMMA SplitStays ==
  ASSUME NEW b, NEW c, NEW d, NEW known, NEW more, known \subseteq more, SplitKept(b, c, known),
         \A q \in c.tunnels : \E r \in d.tunnels : r.name = q.name /\ r.split = q.split
  PROVE  SplitKept(b, d, more)
<1> SUFFICES ASSUME b.ssl # None, NEW i \in TunnelPortals(b.ssl), NEW x \in b.ssl.portals[i].split
             PROVE  \/ \E q \in d.tunnels : q.name = TunnelName /\ x \in q.split
                    \/ <<"ssl", x>> \in more
                    \/ x \in SplitOf(b.ssl) /\ \E q \in b.tunnels : q.name = TunnelName
  BY DEF SplitKept
<1>1. \/ \E q \in c.tunnels : q.name = TunnelName /\ x \in q.split
      \/ <<"ssl", x>> \in known
      \/ x \in SplitOf(b.ssl) /\ \E q \in b.tunnels : q.name = TunnelName
  BY DEF SplitKept
<1> QED BY <1>1

(* Renaming the port of a tunnel keeps its name and split.                  *)
LEMMA TunnelsRenamed ==
  ASSUME NEW b, HasTables(b), NEW m
  PROVE  \A q \in b.tunnels : \E r \in RenameBody(b, m).tunnels :
           r.name = q.name /\ r.split = q.split
BY RenameBodyShape

(* A VDOM of the source after the mode, and after its renaming.             *)
LEMMA ModeSplit ==
  ASSUME ShapeInv, Next, stage = "mode", NEW v \in DOMAIN job.tree.bodies
  PROVE  ModeNow(v)' \in DOMAIN tree'.bodies /\ tree'.bodies[ModeNow(v)'] = job.tree.bodies[v]
<1> USE DEF Plan
<1>0. TreeShape(tree) /\ tree = job.tree /\ job' = job /\ IsFiniteSet(DOMAIN tree.bodies)
  BY Frames DEF ShapeInv, IsCase, IsTree
<1>1. tree' = CASE job.plan.mode = "multi" -> ToMultiVdom(tree, job.plan.vdom, job.plan.scopeOnly)
                [] job.plan.mode = "single" -> ToSingleVdom(tree)
                [] OTHER -> tree
  BY StageActions DEF Mode, Step
<1>2. ~tree.multi => v = "root"
  BY <1>0 DEF TreeShape
<1>3. ModeNow(v)' = IF job.plan.mode = "multi" /\ ~tree.multi THEN job.plan.vdom
                    ELSE IF job.plan.mode = "single" /\ ~tree'.multi THEN "root" ELSE v
  BY <1>0 DEF ModeNow
<1>4. CASE job.plan.mode = "multi"
  <2>1. tree' = ToMultiVdom(tree, job.plan.vdom, job.plan.scopeOnly)
    BY <1>1, <1>4
  <2>2. CASE tree.multi
    <3>1. tree' = tree
      BY <2>1, <2>2 DEF ToMultiVdom
    <3> QED BY <1>0, <1>3, <1>4, <2>2, <3>1
  <2>3. CASE ~tree.multi
    <3>1. /\ DOMAIN tree'.bodies = {job.plan.vdom}
          /\ tree'.bodies[job.plan.vdom] = tree.bodies["root"]
      BY <1>0, <2>1, <2>3, MultiTree
    <3> QED BY <1>0, <1>2, <1>3, <1>4, <2>3, <3>1
  <2> QED BY <2>2, <2>3
<1>5. CASE job.plan.mode = "single"
  <2>1. tree' = ToSingleVdom(tree)
    BY <1>1, <1>5
  <2>2. \/ tree' = tree
        \/ /\ ~tree'.multi /\ DOMAIN tree'.bodies = {"root"}
           /\ \A w \in DOMAIN tree.bodies : tree'.bodies["root"] = tree.bodies[w]
    BY <1>0, <2>1, SingleTree
  <2> QED BY <1>0, <1>2, <1>3, <1>5, <2>2
<1>6. CASE job.plan.mode # "multi" /\ job.plan.mode # "single"
  BY <1>0, <1>1, <1>3, <1>6
<1> QED BY <1>4, <1>5, <1>6

(* What a VDOM is called at the end is settled by the mode.                 *)
LEMMA NamesStay ==
  ASSUME ShapeInv, Next, stage # "mode", NEW v
  PROVE  ModeNow(v)' = ModeNow(v) /\ VdomNow(v)' = VdomNow(v)
<1>1. job' = job /\ tree'.multi = tree.multi
  BY Frames DEF Frame
<1>2. ModeNow(v)' = ModeNow(v)
  BY <1>1 DEF ModeNow, Plan
<1> QED BY <1>1, <1>2 DEF VdomNow, Plan

(* Behind the renaming of VDOMs each has the tunnels it had.                *)
LEMMA VdomMapSplit ==
  ASSUME ShapeInv, SplitInv, Next, stage = "vdommap", stage' = "hw",
         NEW v \in DOMAIN job.tree.bodies
  PROVE  /\ VdomNow(v)' \in DOMAIN tree'.bodies
         /\ SameTunnels(tree'.bodies[VdomNow(v)'], job.tree.bodies[v])
<1> USE DEF Plan
<1>0. TreeShape(tree)
  BY DEF ShapeInv
<1>1. /\ ModeNow(v) \in DOMAIN tree.bodies
      /\ SameTunnels(tree.bodies[ModeNow(v)], job.tree.bodies[v])
  BY DEF SplitInv
<1>2. VdomMapValid(tree, job.plan.vdommap) /\ tree' = RenameVdoms(tree, job.plan.vdommap)
  BY StageActions DEF VdomMap, Step, Refuse
<1>3. VdomNow(v)' = Rename(VdomPairs(job.plan.vdommap), ModeNow(v))
  BY NamesStay DEF VdomNow
<1>4. /\ DOMAIN tree'.bodies = RenameAll(VdomPairs(job.plan.vdommap), DOMAIN tree.bodies)
      /\ \A w \in DOMAIN tree.bodies :
           tree'.bodies[Rename(VdomPairs(job.plan.vdommap), w)] = tree.bodies[w]
  BY <1>0, <1>2, RenamedVdomsTree
<1> QED BY <1>1, <1>3, <1>4 DEF RenameAll

(* Behind the conversion each split is accounted for.                       *)
LEMMA SslSplit ==
  ASSUME ShapeInv, SplitInv, Next, stage = "ssl", NEW v \in DOMAIN job.tree.bodies
  PROVE  /\ VdomNow(v)' \in DOMAIN tree'.bodies
         /\ job.plan.ssl => SplitKept(job.tree.bodies[v], tree'.bodies[VdomNow(v)'], told')
<1> USE DEF Plan
<1> DEFINE b == job.tree.bodies[v]
           w == VdomNow(v)
           c == tree.bodies[w]
<1>0. TreeShape(tree)
  BY DEF ShapeInv
<1>1. VdomNow(v)' = w
  BY NamesStay
<1>2. w \in DOMAIN tree.bodies /\ SameTunnels(c, b)
  BY DEF SplitInv
<1>3. /\ tree' = IF job.plan.ssl THEN SslToIpsec(tree) ELSE tree
      /\ Tell("ssl", IF job.plan.ssl THEN SslTold(tree) ELSE {})
  BY StageActions DEF Ssl, Step
<1>4. b.ssl # None => b.ssl.portals \in Seq(ToSet(b.ssl.portals))
  BY DEF ShapeInv, IsCase, IsTree, IsBody
<1>5. HasTables(c)
  BY <1>0, <1>2 DEF TreeShape
<1> HIDE DEF w
<1>6. DOMAIN tree'.bodies = DOMAIN tree.bodies
  BY Frames DEF Frame
<1>7. ASSUME job.plan.ssl PROVE SplitKept(b, tree'.bodies[w], told')
  <2>1. tree' = SslToIpsec(tree) /\ told' = told \cup ({"ssl"} \X SslTold(tree))
    BY <1>3, <1>7 DEF Tell
  <2>2. tree'.bodies[w] = SslBody(c)
    BY <1>0, <1>2, <2>1, SslTree
  <2>3. Converts(c) => LeftBehind(c.ssl) \subseteq SslTold(tree)
    BY <1>2 DEF SslTold
  <2>4. Converts(c) => {"ssl"} \X LeftBehind(c.ssl) \subseteq told'
    BY <2>1, <2>3
  <2> HIDE DEF b, c
  <2>5. SplitKept(b, SslBody(c), told')
    BY <1>2, <1>4, <1>5, <2>4, SslKeepsSplits
  <2> QED BY <2>2, <2>5
<1> QED BY <1>1, <1>2, <1>6, <1>7

(* Afterwards no tunnel goes.                                               *)
LEMMA TunnelsStay ==
  ASSUME ShapeInv, Next, stage \in {"version"} \cup FromDevice, NEW w \in DOMAIN tree.bodies
  PROVE  /\ w \in DOMAIN tree'.bodies
         /\ \A q \in tree.bodies[w].tunnels : \E r \in tree'.bodies[w].tunnels :
              r.name = q.name /\ r.split = q.split
<1> USE DEF Plan
<1>0. TreeShape(tree)
  BY DEF ShapeInv
<1>1. stage \notin {"mode", "vdommap", "hw", "ssl"}
  BY DEF FromDevice, FromZones
<1>2. w \in DOMAIN tree'.bodies
  BY <1>1, Frames DEF Frame
<1>3. CASE stage = "portmap"
  <2>1. tree' = ApplyTree(tree, job.plan.portmap)
    BY <1>3, StageActions DEF Portmap, Step
  <2>2. tree'.bodies[w] = RenameBody(tree.bodies[w], job.plan.portmap)
    BY <1>0, <2>1, AppliedTree
  <2>3. HasTables(tree.bodies[w])
    BY <1>0 DEF TreeShape
  <2> QED BY <1>2, <2>2, <2>3, TunnelsRenamed
<1>4. CASE stage # "portmap"
  <2>1. tree'.bodies[w].tunnels = tree.bodies[w].tunnels
    BY <1>1, <1>4, Frames DEF Frame
  <2> QED BY <1>2, <2>1
<1> QED BY <1>3, <1>4

(* So the splits are accounted for after every step.                        *)
LEMMA SplitInvKept ==
  ASSUME ShapeInv, ToldInv, SplitInv, Next
  PROVE  SplitInv'
<1> USE DEF Plan
<1>0. job' = job /\ told \subseteq told'
  BY Frames, ToldKept
<1> SUFFICES ASSUME NEW v \in DOMAIN job.tree.bodies
             PROVE  LET b == job.tree.bodies[v]
                    IN  /\ stage' = "vdommap" =>
                             /\ ModeNow(v)' \in DOMAIN tree'.bodies
                             /\ SameTunnels(tree'.bodies[ModeNow(v)'], b)
                        /\ stage' \in {"hw", "ssl"} =>
                             /\ VdomNow(v)' \in DOMAIN tree'.bodies
                             /\ SameTunnels(tree'.bodies[VdomNow(v)'], b)
                        /\ stage' \in {"version"} \cup FromDevice =>
                             /\ VdomNow(v)' \in DOMAIN tree'.bodies
                             /\ job.plan.ssl => SplitKept(b, tree'.bodies[VdomNow(v)'], told')
  BY <1>0 DEF SplitInv, SameTunnels, SplitKept
<1>1. CASE stage = "mode"
  <2>1. stage' = "vdommap" /\ stage' \notin {"version"} \cup FromDevice
    BY <1>1, NextStage DEF FromDevice, FromZones
  <2> QED BY <1>1, <2>1, ModeSplit DEF SameTunnels
<1>2. CASE stage = "vdommap"
  <2>1. stage' \in {"refused", "hw"} /\ stage' \notin {"version"} \cup FromDevice
    BY <1>2, NextStage DEF FromDevice, FromZones
  <2> QED BY <1>2, <2>1, VdomMapSplit
<1>3. CASE stage = "hw"
  <2>1. stage' = "ssl" /\ stage' \notin {"version"} \cup FromDevice
    BY <1>3, NextStage DEF FromDevice, FromZones
  <2>2. tree'.bodies = tree.bodies
    BY <1>3, Frames DEF Frame
  <2>3. VdomNow(v)' = VdomNow(v)
    BY <1>3, NamesStay
  <2> QED BY <1>3, <2>1, <2>2, <2>3 DEF SplitInv
<1>4. CASE stage = "ssl"
  <2>1. stage' = "version"
    BY <1>4, NextStage
  <2> QED BY <1>4, <2>1, SslSplit
<1>5. CASE stage \in {"version"} \cup FromDevice
  <2>1. stage' \notin {"vdommap", "hw", "ssl"}
    BY <1>5, NextStage DEF FromDevice, FromZones
  <2>2. /\ VdomNow(v) \in DOMAIN tree.bodies
        /\ job.plan.ssl => SplitKept(job.tree.bodies[v], tree.bodies[VdomNow(v)], told)
    BY <1>5 DEF SplitInv
  <2>3. VdomNow(v)' = VdomNow(v)
    <3>1. stage # "mode"
      BY <1>5 DEF FromDevice, FromZones
    <3> QED BY <3>1, NamesStay
  <2>4. VdomNow(v) \in DOMAIN tree'.bodies
    BY <1>5, <2>2, TunnelsStay
  <2>5. job.plan.ssl => SplitKept(job.tree.bodies[v], tree'.bodies[VdomNow(v)], told')
    BY <1>0, <1>5, <2>2, TunnelsStay, SplitStays
  <2> QED BY <2>1, <2>3, <2>4, <2>5
<1> QED BY <1>1, <1>2, <1>3, <1>4, <1>5, NextStage DEF FromDevice, FromZones

-----------------------------------------------------------------------------
(* The invariant, and what it means.                                        *)

LEMMA MigrateStart == Init => MigrateInv
<1> SUFFICES ASSUME Init PROVE MigrateInv
  OBVIOUS
<1>1. ShapeInv
  BY ShapeStart
<1>2. IsCase(job) /\ tree = job.tree /\ stage = "mode" /\ told = {}
  BY <1>1 DEF Init, ShapeInv
<1>3. IsTree(tree)
  BY <1>2 DEF IsCase
<1>4. stage \in ToVersion /\ stage \in ToPortmap /\ stage \notin FromDevice /\ stage \notin FromZones
  BY <1>2 DEF ToVersion, ToPortmap, FromDevice, FromZones
<1>5. ToldInv /\ WordsInv
  BY <1>2, <1>4 DEF ToldInv, WordsInv
<1>6. OwnedTree(tree) /\ AsBefore(tree) /\ BundlesListed(tree)
  BY <1>2, <1>3 DEF IsTree, OwnedTree, AsBefore, BundlesListed
<1>7. PlaceInv /\ PortsInv
  BY <1>2, <1>4, <1>6 DEF PlaceInv, PortsInv
<1>8. SplitInv
  BY <1>2, <1>4 DEF SplitInv
<1> QED BY <1>1, <1>5, <1>7, <1>8 DEF MigrateInv

(* Every step keeps every part of the invariant.                            *)
LEMMA MigrateStep == MigrateInv /\ [Next]_vars => MigrateInv'
<1> SUFFICES ASSUME MigrateInv, [Next]_vars PROVE MigrateInv'
  OBVIOUS
<1>1. CASE Next
  <2> USE <1>1
  <2>1. ShapeInv' /\ ToldInv'
    BY ShapeKept, ToldKept DEF MigrateInv
  <2>2. WordsInv' /\ PlaceInv'
    BY WordsKept, PlaceKept DEF MigrateInv
  <2>3. PortsInv' /\ SplitInv'
    BY PortsKept, SplitInvKept DEF MigrateInv
  <2> QED BY <2>1, <2>2, <2>3 DEF MigrateInv
<1>2. CASE UNCHANGED vars
  <2> USE <1>2 DEF vars, Plan
  <2>1. ShapeInv' /\ ToldInv'
    BY DEF MigrateInv, ShapeInv, ToldInv
  <2>2. WordsInv'
    BY DEF MigrateInv, WordsInv, WordsKnown, StatedFits
  <2>3. PlaceInv'
    BY DEF MigrateInv, PlaceInv, AsBefore, Bridged, BridgedAnew, HardSwitches, BridgedPorts
  <2>4. PortsInv'
    BY DEF MigrateInv, PortsInv, AllTold
  <2>5. SplitInv'
    BY DEF MigrateInv, SplitInv, ModeNow, VdomNow
  <2> QED BY <2>1, <2>2, <2>3, <2>4, <2>5 DEF MigrateInv
<1> QED BY <1>1, <1>2

(* So it holds throughout.                                                  *)
LEMMA MigrateInvariant == Spec => []MigrateInv
BY MigrateStart, MigrateStep, PTL DEF Spec

(* The tree is flat with the one body root or has VDOMs, the stages are     *)
(* those of run_migrate, and every finding is of a known area.              *)
THEOREM MigrateTypes == Spec => []TypeOK
<1>1. MigrateInv => TypeOK
  BY DEF MigrateInv, ShapeInv, TreeShape, ToldInv, Areas, TypeOK
<1> QED BY <1>1, MigrateInvariant, PTL

(* Whatever the configuration, the rules and the versions are, upwards,     *)
(* downwards or neither: where the versions are known every renamed word is *)
(* spelled as the target version spells it (versiondelta.scan).             *)
THEOREM WordsFit == Spec => []WordsFitTarget
<1>1. MigrateInv => WordsFitTarget
  <2> SUFFICES ASSUME MigrateInv, stage = "done", WordsKnown
               PROVE  Fitting(tree.words, Plan.target)
    BY DEF WordsFitTarget, Done, WordsKnown, Fitting
  <2> QED BY DEF MigrateInv, WordsInv, FromDevice, FromZones
<1> QED BY <1>1, MigrateInvariant, PTL

(* No port of the output that the destination lacks is untold, and no split *)
(* of a tunnel portal is lost untold, but for the tunnel of that name that  *)
(* was there before (run_migrate, sslvpn.convert).                          *)
THEOREM NothingLostSilently == Spec => []LossesTold
<1>1. MigrateInv => MissingPortsTold
  BY DEF MigrateInv, PortsInv, FromZones, AllTold, MissingPortsTold, Done
<1>2. MigrateInv => SplitsKeptOrTold
  <2> SUFFICES ASSUME MigrateInv, stage = "done", Plan.ssl, NEW v \in DOMAIN job.tree.bodies
               PROVE  SplitKept(job.tree.bodies[v], tree.bodies[VdomNow(v)], told)
    BY DEF SplitsKeptOrTold, SplitKept, Done
  <2> QED BY DEF MigrateInv, SplitInv, FromDevice, FromZones
<1> QED BY <1>1, <1>2, MigrateInvariant, PTL DEF LossesTold

(* Through every change of the VDOM mode and names, the conversion of       *)
(* hardware switches and the renaming of ports, what a hardware switch      *)
(* bridged is bridged, and every interface is in a VDOM that exists.        *)
THEOREM InterfacesStay == Spec => []InterfacesKeepPlace
<1>1. MigrateInv => PortsStayBridged
  BY DEF MigrateInv, PlaceInv, FromZones, BridgedAnew, HardSwitches, BridgedPorts,
         PortsStayBridged, Lands, Done
<1>2. MigrateInv => InterfacesOwned
  <2> SUFFICES ASSUME MigrateInv, tree.multi
               PROVE  /\ \A n \in IfaceNames(tree) : IfaceVdom(tree, n) \in DOMAIN tree.bodies
                      /\ tree.mgmt \in DOMAIN tree.bodies \cup {None}
    BY DEF InterfacesOwned
  <2>1. /\ \A i \in tree.ifaces : i.vdom \in DOMAIN tree.bodies \ {None}
        /\ tree.mgmt \in DOMAIN tree.bodies \cup {None}
    BY DEF MigrateInv, PlaceInv, OwnedTree
  <2>2. ASSUME NEW n \in IfaceNames(tree) PROVE IfaceVdom(tree, n) \in DOMAIN tree.bodies
    <3> DEFINE i == CHOOSE i \in tree.ifaces : i.name = n
    <3>1. i \in tree.ifaces
      BY DEF IfaceNames
    <3> HIDE DEF i
    <3>2. IfaceVdom(tree, n) = IF i.vdom = None THEN "root" ELSE i.vdom
      BY DEF IfaceVdom, i
    <3> QED BY <2>1, <3>1, <3>2
  <2> QED BY <2>1, <2>2
<1> QED BY <1>1, <1>2, MigrateInvariant, PTL DEF InterfacesKeepPlace

(* Merging policies never changes what happens to any packet between any    *)
(* two ports, in any VDOM and for any policy table: the duplicates that go  *)
(* could never match (tree_refs.dedup_policies).                            *)
THEOREM MergingIsSafe == Spec => DedupKeepsVerdicts
<1>1. ASSUME MigrateInv, Next, stage = "dedup", NEW v \in DOMAIN tree.bodies, NEW f \in Flows
      PROVE  Verdict(tree', v, f) = Verdict(tree, v, f)
  <2>1. TreeShape(tree)
    BY <1>1 DEF MigrateInv, ShapeInv
  <2>2. tree' = IF Refactors THEN DedupPolicies(tree) ELSE tree
    BY <1>1, StageActions DEF Dedup, Step
  <2>3. CASE ~Refactors
    BY <2>2, <2>3
  <2>4. CASE Refactors
    <3>1. /\ SameTunnelTrees(tree, tree')
          /\ tree'.bodies[v] = DedupBody(tree.bodies[v])
      BY <2>1, <2>2, <2>4, DedupTree
    <3>2. tree'.multi = tree.multi /\ tree'.ifaces = tree.ifaces /\ HasTables(tree.bodies[v])
      BY <2>1, <3>1 DEF SameTunnelTrees, OnlyBodies, TreeShape
    <3> QED BY <3>1, <3>2, DedupKeepsVerdict
  <2> QED BY <2>3, <2>4
<1>2. MigrateInv /\ [Next]_vars =>
        [stage = "dedup" => \A v \in DOMAIN tree.bodies : \A f \in Flows :
           Verdict(tree', v, f) = Verdict(tree, v, f)]_vars
  BY <1>1
<1> QED BY <1>2, MigrateInvariant, PTL DEF Spec, DedupKeepsVerdicts

=============================================================================
