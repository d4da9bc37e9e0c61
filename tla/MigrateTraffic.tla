--------------------------- MODULE MigrateTraffic ---------------------------
(* What a migration does to traffic, for every set of configurations and    *)
(* plans: a packet between ports that no planned zone contains gets the     *)
(* verdict it got on the source device.                                     *)
EXTENDS MigrateCoherence

-----------------------------------------------------------------------------
(* The ports behind a name, from a body and the interfaces of its VDOM.     *)
Plugged(t, v) == {<<i.name, i.port>> : i \in {j \in t.ifaces : ~t.multi \/ j.vdom = v}}
Behind(b, plug, n, q) ==
  IF n = "any" THEN q = "remote" \/ \E x : <<x, q>> \in plug
  ELSE \/ \E x \in MembersOf(b, n) \ Tunnels(b) : <<x, q>> \in plug
       \/ q = "remote" /\ MembersOf(b, n) \cap Tunnels(b) # {}

(* Where no interface name is used twice, those are the ports of the name.  *)
LEMMA PortsAre ==
  ASSUME NEW t, OwnedTree(t), IfacesUnique(t), NEW v, NEW n, NEW q
  PROVE  q \in PortsOf(t, v, n) <=> Behind(t.bodies[v], Plugged(t, v), n, q)
<1> DEFINE mine == {j \in t.ifaces : ~t.multi \/ j.vdom = v}
           plug == Plugged(t, v)
           b == t.bodies[v]
           ms == MembersOf(b, n)
<1>1. InVdom(t, v) = mine
  BY VdomOfEntry DEF InVdom
<1>2. plug = {<<i.name, i.port>> : i \in mine}
  BY DEF Plugged
<1>3. q \in {i.port : i \in mine} <=> \E x : <<x, q>> \in plug
  <2> HIDE DEF mine, plug
  <2>1. ASSUME NEW i \in mine, q = i.port PROVE \E x : <<x, q>> \in plug
    BY <1>2, <2>1
  <2>2. ASSUME NEW x, <<x, q>> \in plug PROVE \E i \in mine : q = i.port
    BY <1>2, <2>2
  <2> QED BY <2>1, <2>2
<1>4. \A names : q \in IfacePorts(t, v, names) <=> \E x \in names : <<x, q>> \in plug
  <2> TAKE names
  <2>1. IfacePorts(t, v, names) = {i.port : i \in {j \in mine : j.name \in names}}
    BY <1>1 DEF IfacePorts
  <2> HIDE DEF mine, plug
  <2>2. ASSUME NEW i \in mine, i.name \in names, q = i.port
        PROVE  \E x \in names : <<x, q>> \in plug
    BY <1>2, <2>2
  <2>3. ASSUME NEW x \in names, <<x, q>> \in plug
        PROVE  \E i \in mine : i.name \in names /\ q = i.port
    <3>1. PICK i \in mine : <<x, q>> = <<i.name, i.port>>
      BY <1>2, <2>3
    <3> QED BY <2>3, <3>1
  <2> QED BY <2>1, <2>2, <2>3
<1>5. CASE n = "any"
  <2>1. PortsOf(t, v, n) = {i.port : i \in mine} \cup {"remote"}
    BY <1>1, <1>5 DEF PortsOf
  <2> HIDE DEF mine, plug, b
  <2> QED BY <1>3, <1>5, <2>1 DEF Behind, b, plug
<1>6. CASE n # "any"
  <2>1. PortsOf(t, v, n) = IfacePorts(t, v, ms \ Tunnels(b))
                             \cup (IF ms \cap Tunnels(b) = {} THEN {} ELSE {"remote"})
    BY <1>6 DEF PortsOf
  <2>2. q \in PortsOf(t, v, n) <=>
           \/ q \in IfacePorts(t, v, ms \ Tunnels(b))
           \/ q = "remote" /\ ms \cap Tunnels(b) # {}
    BY <2>1
  <2>3. q \in IfacePorts(t, v, ms \ Tunnels(b)) <=> \E x \in ms \ Tunnels(b) : <<x, q>> \in plug
    BY <1>4
  <2>4. Behind(b, plug, n, q) <=> \/ \E x \in ms \ Tunnels(b) : <<x, q>> \in plug
                                  \/ q = "remote" /\ ms \cap Tunnels(b) # {}
    BY <1>6 DEF Behind
  <2> QED BY <2>2, <2>3, <2>4
<1> QED BY <1>5, <1>6

-----------------------------------------------------------------------------
(* Policies under other names decide alike when the names mean the same.    *)

(* A policy under new names matches what it matched.                        *)
LEMMA MatchRenamed ==
  ASSUME NEW t, NEW v, NEW u, NEW w, NEW m, NEW f, NEW p, NEW r,
         r.src = RenameAll(m, p.src), r.dst = RenameAll(m, p.dst),
         r.addr = p.addr, r.rest = p.rest,
         \A n \in p.src \cup p.dst : \A q \in {f[1], f[2]} :
           q \in PortsOf(u, w, Rename(m, n)) <=> q \in PortsOf(t, v, n)
  PROVE  Matches(u, w, r, f) <=> Matches(t, v, p, f)
<1>1. (\E n \in r.src : f[1] \in PortsOf(u, w, n)) <=> \E n \in p.src : f[1] \in PortsOf(t, v, n)
  BY DEF RenameAll
<1>2. (\E n \in r.dst : f[2] \in PortsOf(u, w, n)) <=> \E n \in p.dst : f[2] \in PortsOf(t, v, n)
  BY DEF RenameAll
<1> QED BY <1>1, <1>2 DEF Matches

(* So the first match is the same policy.                                   *)
LEMMA VerdictRenamed ==
  ASSUME NEW t, NEW v, HasTables(t.bodies[v]), NEW u, NEW w, NEW m, NEW f,
         Repointed(t.bodies[v], u.bodies[w], m),
         \A n \in PolicyNames(t.bodies[v]) : \A q \in {f[1], f[2]} :
           q \in PortsOf(u, w, Rename(m, n)) <=> q \in PortsOf(t, v, n)
  PROVE  Verdict(u, w, f) = Verdict(t, v, f)
<1> DEFINE ps == t.bodies[v].policies
           rs == u.bodies[w].policies
           hit == {i \in DOMAIN ps : Matches(t, v, ps[i], f)}
           hitNow == {i \in DOMAIN rs : Matches(u, w, rs[i], f)}
<1>1. DOMAIN rs = DOMAIN ps /\ \A i \in DOMAIN ps : rs[i].act = ps[i].act
  BY DEF Repointed
<1>2. ASSUME NEW i \in DOMAIN ps
      PROVE  Matches(u, w, rs[i], f) <=> Matches(t, v, ps[i], f)
  <2>1. /\ rs[i].src = RenameAll(m, ps[i].src) /\ rs[i].dst = RenameAll(m, ps[i].dst)
        /\ rs[i].addr = ps[i].addr /\ rs[i].rest = ps[i].rest
    BY DEF Repointed
  <2>2. ps[i].src \cup ps[i].dst \subseteq PolicyNames(t.bodies[v])
    BY ThroughByEntry
  <2>3. \A n \in ps[i].src \cup ps[i].dst : \A q \in {f[1], f[2]} :
          q \in PortsOf(u, w, Rename(m, n)) <=> q \in PortsOf(t, v, n)
    BY <2>2
  <2> HIDE DEF ps, rs
  <2> QED BY <2>1, <2>3, MatchRenamed
<1> HIDE DEF ps, rs
<1>3. hitNow = hit
  BY <1>1, <1>2
<1>4. hit # {} => Min(hit) \in DOMAIN ps
  <2>1. DOMAIN ps \subseteq Nat
    <3>1. DOMAIN ps = 1 .. Len(ps)
      BY SequenceEntries DEF HasTables, IsTable, ps
    <3> QED BY <3>1
  <2> HIDE DEF hit
  <2>2. hit \subseteq DOMAIN ps
    BY DEF hit
  <2>3. hit # {} => \E x \in hit : \A y \in hit : x <= y
    BY <2>1, <2>2, LeastNatural
  <2>4. hit # {} => Min(hit) \in hit
    BY <2>3 DEF Min
  <2> QED BY <2>2, <2>4
<1>5. /\ Verdict(t, v, f) = IF hit = {} THEN "deny" ELSE ps[Min(hit)].act
      /\ Verdict(u, w, f) = IF hitNow = {} THEN "deny" ELSE rs[Min(hitNow)].act
  BY Zenon DEF Verdict, ps, rs
<1> HIDE DEF hit, hitNow
<1> QED BY <1>1, <1>3, <1>4, <1>5

-----------------------------------------------------------------------------
(* Body by body: what each transform leaves of the ports behind a name.     *)

(* The members of a zone joined it; any other name stands for itself.       *)
LEMMA MembersAre ==
  ASSUME NEW b, NEW n
  PROVE  /\ n \notin VdomZones(b) => MembersOf(b, n) = {n}
         /\ MembersOf(b, n) = {n} \/ MembersOf(b, n) \subseteq Joined(b)
         /\ n \in VdomZones(b) => MembersOf(b, n) \subseteq Joined(b)
<1>1. n \notin VdomZones(b) => MembersOf(b, n) = {n}
  BY DEF VdomZones, MembersOf
<1>2. n \in VdomZones(b) => MembersOf(b, n) \subseteq Joined(b)
  <2>1. CASE n \in b.sd.zones
    <3>1. MembersOf(b, n) = {m.ifc : m \in {x \in ToSet(b.sd.members) : x.zone = n}}
      BY <2>1 DEF MembersOf
    <3> QED BY <3>1 DEF Joined, SdwanPorts
  <2>2. CASE n \notin b.sd.zones /\ \E z \in b.zones : z.name = n
    <3>1. MembersOf(b, n) = UNION {z.members : z \in {y \in b.zones : y.name = n}}
      BY <2>2 DEF MembersOf
    <3> QED BY <3>1 DEF Joined
  <2> QED BY <2>1, <2>2 DEF VdomZones
<1> QED BY <1>1, <1>2

(* Of a body with the same zones and tunnels the names mean the same.       *)
LEMMA SameBehind ==
  ASSUME NEW b, NEW u, u.zones = b.zones, u.sd = b.sd, u.ssl = b.ssl, u.tunnels = b.tunnels
  PROVE  \A plug, n, q : Behind(u, plug, n, q) <=> Behind(b, plug, n, q)
<1>1. \A n : MembersOf(u, n) = MembersOf(b, n)
  BY DEF MembersOf
<1>2. Tunnels(u) = Tunnels(b)
  BY Zenon DEF Tunnels
<1> QED BY <1>1, <1>2 DEF Behind

(* The new tunnel stands for the SSL-VPN, and no other name meant either.   *)
LEMMA SslBehind ==
  ASSUME NEW b, HasTables(b), Converts(b), SslBySource(b), NEW own, BodyResolves(b, own),
         TunnelNew(b, own), NEW u, u = SslBody(b), NEW plug
  PROVE  /\ Repointed(b, u, Redirect)
         /\ \A n \in PolicyNames(b) : \A q :
              Behind(u, plug, Rename(Redirect, n), q) <=> Behind(b, plug, n, q)
<1>1. /\ u.zones = b.zones /\ u.sd = b.sd /\ u.ssl = None
      /\ b.tunnels \subseteq u.tunnels /\ \E p \in u.tunnels : p.name = TunnelName
      /\ \A p \in u.tunnels : p \in b.tunnels \/ p.name = TunnelName
      /\ DOMAIN u.policies = DOMAIN b.policies
      /\ \A i \in DOMAIN b.policies :
           /\ u.policies[i].src = RenameAll(Redirect, b.policies[i].src)
           /\ u.policies[i].dst = b.policies[i].dst
           /\ SameRest(u.policies[i], b.policies[i])
  BY SslBodyShape
<1>2. \A x : Rename(Redirect, x) = IF x = SslName THEN TunnelName ELSE x
  BY DEF Rename, Redirect
<1>3. Repointed(b, u, Redirect)
  <2>1. ASSUME NEW i \in DOMAIN b.policies
        PROVE  RenameAll(Redirect, b.policies[i].dst) = b.policies[i].dst
    <3>1. SslName \notin b.policies[i].dst
      BY EntriesAreIndexed DEF SslBySource
    <3> QED BY <1>2, <3>1 DEF RenameAll
  <2> QED BY <1>1, <2>1 DEF Repointed, SameRest
<1>4. \A n : MembersOf(u, n) = MembersOf(b, n)
  BY <1>1 DEF MembersOf
<1>5. /\ \A x : x \in Tunnels(b) <=> x \in TunnelsNamed(b) \/ x = SslName
      /\ \A x : x \in Tunnels(u) <=> x \in TunnelsNamed(b) \/ x = TunnelName
  <2>1. b.ssl # None
    BY DEF Converts
  <2>2. \A x : x \in Tunnels(b) <=> x \in TunnelsNamed(b) \/ x = SslName
    BY <2>1 DEF Tunnels, TunnelsNamed
  <2>3. Tunnels(u) = TunnelsNamed(u)
    BY <1>1 DEF Tunnels, TunnelsNamed
  <2>4. \A x : x \in TunnelsNamed(u) <=> x \in TunnelsNamed(b) \/ x = TunnelName
    BY <1>1 DEF TunnelsNamed
  <2> QED BY <2>2, <2>3, <2>4
<1>6. SslName # "any" /\ TunnelName # "any" /\ SslName # TunnelName
  BY DEF SslName, TunnelName
<1>7. MembersOf(b, SslName) = {SslName} /\ MembersOf(b, TunnelName) = {TunnelName}
  BY MembersAre DEF TunnelNew
<1>8. ASSUME NEW q
      PROVE  Behind(u, plug, TunnelName, q) <=> Behind(b, plug, SslName, q)
  <2>1. Behind(u, plug, TunnelName, q) <=> q = "remote"
    BY <1>4, <1>5, <1>6, <1>7 DEF Behind
  <2>2. Behind(b, plug, SslName, q) <=> q = "remote"
    BY <1>5, <1>6, <1>7 DEF Behind
  <2> QED BY <2>1, <2>2
<1>9. ASSUME NEW n \in PolicyNames(b), n # SslName, n # "any", NEW q
      PROVE  Behind(u, plug, n, q) <=> Behind(b, plug, n, q)
  <2> DEFINE ms == MembersOf(b, n)
  <2>1. SslName \notin ms /\ (TunnelName \in ms => TunnelName \in Tunnels(b))
    <3>1. CASE ms \subseteq Joined(b)
      BY <3>1 DEF SslBySource
    <3>2. CASE ms = {n}
      <4>1. PICK p \in ToSet(b.policies) : n \in p.src \cup p.dst
        BY DEF PolicyNames
      <4>2. n \in own \cup Tunnels(b) \cup VdomZones(b)
        BY <1>9, <4>1 DEF BodyResolves
      <4>3. n = TunnelName => n \in Tunnels(b)
        BY <4>2 DEF TunnelNew
      <4> QED BY <1>9, <3>2, <4>3
    <3> QED BY <3>1, <3>2, MembersAre
  <2> HIDE DEF ms
  <2>2. ms \ Tunnels(u) = ms \ Tunnels(b) /\ ms \cap Tunnels(u) = ms \cap Tunnels(b)
    BY <1>5, <2>1
  <2> QED BY <1>4, <1>9, <2>2 DEF Behind, ms
<1>10. \A q : Behind(u, plug, "any", q) <=> Behind(b, plug, "any", q)
  BY DEF Behind
<1> QED BY <1>2, <1>3, <1>6, <1>8, <1>9, <1>10

(* apply_tree: a renamed name has the renamed members.                      *)
LEMMA MembersRenamed ==
  ASSUME NEW b, HasTables(b), NEW m, NEW u, u = RenameBody(b, m),
         NEW known, \A x, y \in known : Rename(m, x) = Rename(m, y) => x = y,
         VdomZones(b) \subseteq known, \A z \in VdomZones(b) : Rename(m, z) = z,
         NEW n \in known
  PROVE  MembersOf(u, Rename(m, n)) = RenameAll(m, MembersOf(b, n))
<1> DEFINE k == Rename(m, n)
           s == b.sd.members
           r == u.sd.members
<1>1. /\ \A z \in u.zones : \E y \in b.zones :
           z.name = y.name /\ z.members = RenameAll(m, y.members)
      /\ \A y \in b.zones : \E z \in u.zones :
           z.name = y.name /\ z.members = RenameAll(m, y.members)
      /\ u.sd.zones = b.sd.zones
      /\ DOMAIN r = DOMAIN s
      /\ \A i \in DOMAIN s : r[i].ifc = Rename(m, s[i].ifc) /\ r[i].zone = s[i].zone
  BY RenameBodyShape
<1>2. VdomZones(u) = VdomZones(b)
  BY <1>1 DEF VdomZones
<1>3. k \in VdomZones(b) => k = n
  BY DEF VdomZones
<1>4. CASE n \notin VdomZones(b)
  <2>1. MembersOf(b, n) = {n} /\ MembersOf(u, k) = {k}
    <3>1. k \notin VdomZones(u)
      BY <1>2, <1>3, <1>4
    <3> QED BY <1>4, <3>1, MembersAre
  <2> QED BY <2>1 DEF RenameAll
<1>5. CASE n \in b.sd.zones
  <2>1. k = n
    BY <1>5 DEF VdomZones
  <2>2. MembersOf(b, n) = {x.ifc : x \in {y \in ToSet(s) : y.zone = n}}
    BY <1>5 DEF MembersOf
  <2>3. MembersOf(u, n) = {x.ifc : x \in {y \in ToSet(r) : y.zone = n}}
    BY <1>1, <1>5 DEF MembersOf
  <2>4. \A a : a \in MembersOf(b, n) <=> \E i \in DOMAIN s : s[i].zone = n /\ a = s[i].ifc
    BY <2>2, EntriesAreIndexed
  <2>5. \A a : a \in MembersOf(u, n) <=> \E i \in DOMAIN r : r[i].zone = n /\ a = r[i].ifc
    BY <2>3, EntriesAreIndexed
  <2> HIDE DEF s, r, k
  <2>6. MembersOf(u, n) = RenameAll(m, MembersOf(b, n))
    <3>1. \A a : a \in MembersOf(u, n) => a \in RenameAll(m, MembersOf(b, n))
      BY <1>1, <2>4, <2>5 DEF RenameAll
    <3>2. \A a : a \in RenameAll(m, MembersOf(b, n)) => a \in MembersOf(u, n)
      BY <1>1, <2>4, <2>5 DEF RenameAll
    <3> QED BY <3>1, <3>2
  <2> QED BY <2>1, <2>6 DEF k
<1>6. CASE n \in VdomZones(b) /\ n \notin b.sd.zones
  <2>1. k = n
    BY <1>6
  <2>2. MembersOf(b, n) = UNION {z.members : z \in {y \in b.zones : y.name = n}}
    BY <1>6 DEF MembersOf, VdomZones
  <2>3. MembersOf(u, n) = UNION {z.members : z \in {y \in u.zones : y.name = n}}
    BY <1>1, <1>2, <1>6 DEF MembersOf, VdomZones
  <2> HIDE DEF s, r, k
  <2>4. \A a : a \in MembersOf(u, n) => a \in RenameAll(m, MembersOf(b, n))
    <3>1. TAKE a
    <3>2. HAVE a \in MembersOf(u, n)
    <3>3. PICK z \in u.zones : z.name = n /\ a \in z.members
      BY <2>3, <3>2
    <3>4. PICK y \in b.zones : y.name = n /\ a \in RenameAll(m, y.members)
      BY <1>1, <3>3
    <3>5. y.members \subseteq MembersOf(b, n)
      BY <2>2, <3>4
    <3> QED BY <3>4, <3>5 DEF RenameAll
  <2>5. \A a : a \in RenameAll(m, MembersOf(b, n)) => a \in MembersOf(u, n)
    <3>1. TAKE a
    <3>2. HAVE a \in RenameAll(m, MembersOf(b, n))
    <3>3. PICK y \in b.zones : y.name = n /\ a \in RenameAll(m, y.members)
      BY <2>2, <3>2 DEF RenameAll
    <3>4. PICK z \in u.zones : z.name = n /\ a \in z.members
      BY <1>1, <3>3
    <3> QED BY <2>3, <3>4
  <2> QED BY <2>1, <2>4, <2>5 DEF k
<1> QED BY <1>4, <1>5, <1>6

(* So behind a renamed name are the same ports, of the renamed interfaces.  *)
LEMMA RenamedBehind ==
  ASSUME NEW b, HasTables(b), NEW m, NEW u, u = RenameBody(b, m), b.ssl # None => u.ssl # None,
         NEW known, NamesIn(b) \subseteq known,
         \A x, y \in known : Rename(m, x) = Rename(m, y) => x = y,
         NEW fixed, \A x \in fixed : Rename(m, x) = x,
         fixed \subseteq known, "any" \in fixed, VdomZones(b) \cup Tunnels(b) \subseteq fixed,
         NEW plug, NEW now,
         \A x, q : <<x, q>> \in plug => x \in known /\ <<Rename(m, x), q>> \in now,
         \A x, q : <<x, q>> \in now => \E y : <<y, q>> \in plug /\ x = Rename(m, y)
  PROVE  /\ Repointed(b, u, m)
         /\ \A n \in PolicyNames(b) : \A q :
              Behind(u, now, Rename(m, n), q) <=> Behind(b, plug, n, q)
<1>1. Repointed(b, u, m)
  BY RenameBodyShape
<1>2. Tunnels(u) = Tunnels(b)
  <2>1. /\ \A p \in b.tunnels : \E r \in u.tunnels : r.name = p.name
        /\ \A r \in u.tunnels : \E p \in b.tunnels : r.name = p.name
        /\ u.ssl # None => b.ssl # None
    BY RenameBodyShape
  <2>2. {p.name : p \in u.tunnels} = {p.name : p \in b.tunnels}
    BY <2>1
  <2>3. u.ssl = None <=> b.ssl = None
    BY <2>1
  <2> QED BY <2>2, <2>3 DEF Tunnels
<1>3. ASSUME NEW n \in PolicyNames(b), NEW q
      PROVE  Behind(u, now, Rename(m, n), q) <=> Behind(b, plug, n, q)
  <2> DEFINE k == Rename(m, n)
             ms == MembersOf(b, n)
             rs == MembersOf(u, k)
  <2>1. n \in known /\ (k = "any" <=> n = "any")
    <3>1. n \in known /\ "any" \in known /\ Rename(m, "any") = "any"
      BY DEF NamesIn
    <3> QED BY <3>1
  <2>2. CASE n = "any"
    BY <2>1, <2>2 DEF Behind
  <2>3. CASE n # "any"
    <3>1. rs = RenameAll(m, ms)
      BY <2>1, MembersRenamed
    <3>2. ms \subseteq known
      <4>1. ms = {n} \/ ms \subseteq Joined(b)
        BY MembersAre
      <4> QED BY <2>1, <4>1 DEF NamesIn
    <3> HIDE DEF ms, rs, k
    <3>3. \A x \in known : Rename(m, x) \in Tunnels(b) <=> x \in Tunnels(b)
      OBVIOUS
    <3>4. (rs \cap Tunnels(b) # {}) <=> (ms \cap Tunnels(b) # {})
      BY <3>1, <3>2, <3>3 DEF RenameAll
    <3>5. ASSUME NEW x \in rs \ Tunnels(b), <<x, q>> \in now
          PROVE  \E y \in ms \ Tunnels(b) : <<y, q>> \in plug
      <4>1. PICK y \in ms : x = Rename(m, y)
        BY <3>1, <3>5 DEF RenameAll
      <4>2. PICK z : <<z, q>> \in plug /\ x = Rename(m, z)
        BY <3>5
      <4>3. y = z
        BY <3>2, <4>1, <4>2
      <4> QED BY <3>2, <3>3, <3>5, <4>1, <4>2, <4>3
    <3>6. ASSUME NEW y \in ms \ Tunnels(b), <<y, q>> \in plug
          PROVE  \E x \in rs \ Tunnels(b) : <<x, q>> \in now
      <4>1. Rename(m, y) \in rs /\ <<Rename(m, y), q>> \in now
        BY <3>1, <3>6 DEF RenameAll
      <4> QED BY <3>2, <3>3, <3>6, <4>1
    <3> QED BY <1>2, <2>1, <2>3, <3>4, <3>5, <3>6 DEF Behind, ms, rs, k
  <2> QED BY <2>2, <2>3
<1> QED BY <1>1, <1>3
(* apply_zones, apply_sdwan: members give way to their zone.  Of traffic    *)
(* that no planned zone contains nothing changes.                           *)
Folded(b, u, m, names, plug) ==
  /\ Tunnels(u) = Tunnels(b)
  /\ \A n \in DOMAIN m : /\ m[n] \in names /\ n \notin VdomZones(b) /\ n # "any"
                         /\ n \in MembersOf(u, m[n])
  /\ \A n : n \notin names => MembersOf(u, n) = MembersOf(b, n)
  /\ \A n \in names : n \in VdomZones(b) => MembersOf(b, n) \subseteq MembersOf(u, n)
  /\ \A n \in names : n \notin Tunnels(b) /\ \A q : <<n, q>> \notin plug
(* So where no zone of the plan has a port, the names mean what they meant. *)
LEMMA FoldedBehind ==
  ASSUME NEW b, NEW u, NEW m, NEW names, NEW plug, Folded(b, u, m, names, plug),
         NEW q, \A n \in names : ~Behind(u, plug, n, q)
  PROVE  \A n : Behind(u, plug, Rename(m, n), q) <=> Behind(b, plug, n, q)
<1> USE DEF Folded
<1>1. ASSUME NEW n, NEW k \in names, MembersOf(b, n) \subseteq MembersOf(u, k), n # "any"
      PROVE  ~Behind(b, plug, n, q)
  <2>1. ~Behind(u, plug, k, q)
    BY <1>1
  <2> QED BY <1>1, <2>1 DEF Behind
<1>2. ASSUME NEW n \in DOMAIN m
      PROVE  Behind(u, plug, Rename(m, n), q) <=> Behind(b, plug, n, q)
  <2>1. Rename(m, n) = m[n] /\ m[n] \in names
    BY DEF Rename
  <2>2. MembersOf(b, n) \subseteq MembersOf(u, m[n]) /\ n # "any"
    BY MembersAre
  <2> QED BY <1>1, <2>1, <2>2
<1>3. ASSUME NEW n, n \notin DOMAIN m
      PROVE  Behind(u, plug, n, q) <=> Behind(b, plug, n, q)
  <2>1. CASE n = "any"
    BY <2>1 DEF Behind
  <2>2. CASE n \notin names
    BY <2>2 DEF Behind
  <2>3. CASE n \in names /\ n \in VdomZones(b) /\ n # "any"
    BY <1>1, <2>3
  <2>4. CASE n \in names /\ n \notin VdomZones(b) /\ n # "any"
    <3>1. MembersOf(b, n) = {n}
      BY <2>4, MembersAre
    <3> QED BY <2>4, <3>1 DEF Behind
  <2> QED BY <2>1, <2>2, <2>3, <2>4
<1> QED BY <1>2, <1>3 DEF Rename

(* The names of the specs, and of the zones of a body.                      *)
NamesOf(specs) == {s.name : s \in ToSet(specs)}
ZonesNamed(b) == {z.name : z \in b.zones}

(* _upsert_zone: who is in which zone afterwards.                           *)
LEMMA ZoneMembers ==
  ASSUME NEW b, HasTables(b), NEW specs, NEW u, u = ZonesBody(b, specs),
         NEW names, names = NamesOf(specs), names \cap b.sd.zones = {}
  PROVE  /\ \A n : n \notin names => MembersOf(u, n) = MembersOf(b, n)
         /\ \A n \in names : n \in VdomZones(b) => MembersOf(b, n) \subseteq MembersOf(u, n)
         /\ \A s \in ToSet(specs) : s.members \subseteq MembersOf(u, s.name)
<1> USE DEF NamesOf, ZonesNamed
<1> DEFINE fresh == names \ {z.name : z \in b.zones}
<1>1. u.zones = UpsertZones(b.zones, specs) /\ u.sd = b.sd
  BY ZonesBodyShape
<1>2. u.zones = {Extended(z, specs) : z \in b.zones} \cup {Created(n, specs) : n \in fresh}
  BY <1>1 DEF UpsertZones, Extended, Created
<1>3. \A z \in b.zones : /\ Extended(z, specs).name = z.name
                         /\ Extended(z, specs).members = z.members \cup Gains(specs, z.name)
  BY DEF Extended, HasTables
<1>4. \A n : Created(n, specs).name = n /\ Created(n, specs).members = Gains(specs, n)
  BY DEF Created
<1>5. \A n : n \notin names => Gains(specs, n) = {}
  BY DEF Gains
<1>6. \A s \in ToSet(specs) : s.members \subseteq Gains(specs, s.name) /\ s.name \in names
  BY DEF Gains
<1>7. ASSUME NEW n, n \notin b.sd.zones
      PROVE  /\ MembersOf(b, n) = IF \E z \in b.zones : z.name = n
                                  THEN UNION {z.members : z \in {y \in b.zones : y.name = n}} ELSE {n}
             /\ MembersOf(u, n) = IF \E z \in u.zones : z.name = n
                                  THEN UNION {z.members : z \in {y \in u.zones : y.name = n}} ELSE {n}
  BY <1>1, <1>7 DEF MembersOf
<1> HIDE DEF fresh
<1>8. \A n : n \notin names => n \notin fresh
  BY DEF fresh
<1>9. ASSUME NEW n, n \notin names
      PROVE  MembersOf(u, n) = MembersOf(b, n)
  <2>1. CASE n \in b.sd.zones
    BY <1>1, <2>1 DEF MembersOf
  <2>2. CASE n \notin b.sd.zones
    <3>1. \A z \in u.zones : z.name = n => \E y \in b.zones : y.name = n /\ z.members = y.members
      <4> SUFFICES ASSUME NEW z \in u.zones, z.name = n
                   PROVE  \E y \in b.zones : y.name = n /\ z.members = y.members
        OBVIOUS
      <4>1. z \notin {Created(k, specs) : k \in fresh}
        BY <1>4, <1>8, <1>9
      <4>2. PICK y \in b.zones : z = Extended(y, specs)
        BY <1>2, <4>1
      <4> QED BY <1>3, <1>5, <1>9, <4>2
    <3>2. \A y \in b.zones : y.name = n => \E z \in u.zones : z.name = n /\ z.members = y.members
      <4> SUFFICES ASSUME NEW y \in b.zones, y.name = n
                   PROVE  \E z \in u.zones : z.name = n /\ z.members = y.members
        OBVIOUS
      <4>1. Extended(y, specs) \in u.zones
        BY <1>2
      <4> QED BY <1>3, <1>5, <1>9, <4>1
    <3>3. UNION {z.members : z \in {y \in u.zones : y.name = n}}
            = UNION {z.members : z \in {y \in b.zones : y.name = n}}
      BY <3>1, <3>2
    <3>4. (\E z \in u.zones : z.name = n) <=> \E y \in b.zones : y.name = n
      BY <3>1, <3>2
    <3> QED BY <1>7, <2>2, <3>3, <3>4
  <2> QED BY <2>1, <2>2
<1>10. ASSUME NEW n \in names, n \in VdomZones(b)
       PROVE  MembersOf(b, n) \subseteq MembersOf(u, n)
  <2>1. n \notin b.sd.zones
    OBVIOUS
  <2>2. MembersOf(b, n) = UNION {z.members : z \in {y \in b.zones : y.name = n}}
    BY <1>7, <1>10, <2>1 DEF VdomZones
  <2>3. \A y \in b.zones : y.name = n => \E z \in u.zones : z.name = n /\ y.members \subseteq z.members
    <3> SUFFICES ASSUME NEW y \in b.zones, y.name = n
                 PROVE  \E z \in u.zones : z.name = n /\ y.members \subseteq z.members
      OBVIOUS
    <3>1. Extended(y, specs) \in u.zones
      BY <1>2
    <3> QED BY <1>3, <3>1
  <2>4. \A z \in u.zones : z.name = n => z.members \subseteq MembersOf(u, n)
    BY <1>7, <2>1
  <2> QED BY <2>2, <2>3, <2>4
<1>11. ASSUME NEW s \in ToSet(specs)
       PROVE  s.members \subseteq MembersOf(u, s.name)
  <2>1. s.name \notin b.sd.zones /\ s.name \in names
    BY <1>6
  <2>2. \E z \in u.zones : z.name = s.name /\ Gains(specs, s.name) \subseteq z.members
    <3>1. CASE s.name \in fresh
      BY <1>2, <1>4, <3>1
    <3>2. CASE s.name \notin fresh
      <4>1. PICK y \in b.zones : y.name = s.name
        BY <2>1, <3>2 DEF fresh
      <4>2. Extended(y, specs) \in u.zones
        BY <1>2
      <4> QED BY <1>3, <4>1, <4>2
    <3> QED BY <3>1, <3>2
  <2>3. \A z \in u.zones : z.name = s.name => z.members \subseteq MembersOf(u, s.name)
    BY <1>7, <2>1
  <2> QED BY <1>6, <2>2, <2>3
<1> QED BY <1>9, <1>10, <1>11

(* sdwan: the new members join the zone of their spec.                      *)
LEMMA SdwanMembers ==
  ASSUME NEW b, HasTables(b), NEW specs, SdwanSpecs(specs), NEW u, u = SdwanBody(b, specs),
         NEW names, names = NamesOf(specs),
         names \cap ZonesNamed(b) = {}
  PROVE  /\ \A n : n \notin names => MembersOf(u, n) = MembersOf(b, n)
         /\ \A n \in names : n \in VdomZones(b) => MembersOf(b, n) \subseteq MembersOf(u, n)
         /\ \A s \in ToSet(specs) : Members(s) \subseteq MembersOf(u, s.name)
<1> USE DEF NamesOf, ZonesNamed
<1> DEFINE old == ToSet(b.sd.members)
           new == ToSet(u.sd.members)
<1>1. /\ u.zones = b.zones /\ u.sd.zones = b.sd.zones \cup names
      /\ \A x \in new : x \in old \/ \E s \in ToSet(specs) : x.ifc \in Members(s) /\ x.zone = s.name
      /\ old \subseteq new
      /\ \A s \in ToSet(specs) : \A n \in Members(s) : \E x \in new : x.ifc = n /\ x.zone = s.name
  <2>1. /\ u.zones = b.zones /\ u.sd.zones = b.sd.zones \cup names
        /\ \A x \in ToSet(u.sd.members) :
             \/ x \in ToSet(b.sd.members)
             \/ \E s \in ToSet(specs) : x.ifc \in Members(s) /\ x.zone = s.name
    BY SdwanBodyShape DEF SdwanSpecs
  <2>2. ToSet(b.sd.members) \subseteq ToSet(u.sd.members)
    BY SdwanBodyShape DEF SdwanSpecs
  <2>3. ASSUME NEW s \in ToSet(specs), NEW n \in Members(s)
        PROVE  \E x \in ToSet(u.sd.members) : x.ifc = n /\ x.zone = s.name
    BY SdwanBodyShape DEF SdwanSpecs
  <2> QED BY <2>1, <2>2, <2>3
<1>2. \A s \in ToSet(specs) : s.name \in names
  OBVIOUS
<1>3. \A n : n \in b.sd.zones => MembersOf(b, n) = {x.ifc : x \in {y \in old : y.zone = n}}
  BY DEF MembersOf
<1>4. \A n : n \in u.sd.zones => MembersOf(u, n) = {x.ifc : x \in {y \in new : y.zone = n}}
  BY DEF MembersOf
<1> HIDE DEF old, new
<1>5. ASSUME NEW n, n \notin names
      PROVE  MembersOf(u, n) = MembersOf(b, n)
  <2>1. CASE n \in b.sd.zones
    <3>1. \A x : x \in new /\ x.zone = n <=> x \in old /\ x.zone = n
      BY <1>1, <1>2, <1>5
    <3>2. {y \in new : y.zone = n} = {y \in old : y.zone = n}
      BY <3>1
    <3> QED BY <1>1, <1>3, <1>4, <2>1, <3>2
  <2>2. CASE n \notin b.sd.zones
    <3>1. n \notin u.sd.zones
      BY <1>1, <1>5, <2>2
    <3> QED BY <1>1, <2>2, <3>1 DEF MembersOf
  <2> QED BY <2>1, <2>2
<1>6. ASSUME NEW n \in names, n \in VdomZones(b)
      PROVE  MembersOf(b, n) \subseteq MembersOf(u, n)
  <2>1. n \in b.sd.zones /\ n \in u.sd.zones
    BY <1>1, <1>6 DEF VdomZones
  <2> QED BY <1>1, <1>3, <1>4, <2>1
<1>7. ASSUME NEW s \in ToSet(specs)
      PROVE  Members(s) \subseteq MembersOf(u, s.name)
  <2>1. MembersOf(u, s.name) = {x.ifc : x \in {y \in new : y.zone = s.name}}
    BY <1>1, <1>2, <1>4
  <2> QED BY <1>1, <2>1
<1> QED BY <1>5, <1>6, <1>7

-----------------------------------------------------------------------------
(* Tree by tree.                                                            *)

(* The names of the policies of b have port q exactly if they have it in c, *)
(* under their new names.                                                   *)
MeansSame(b, plug, c, now, m, q) ==
  \A n \in PolicyNames(b) : Behind(c, now, Rename(m, n), q) <=> Behind(b, plug, n, q)

(* VDOM v of t reads in u, as w, under the names of m, and a packet f comes *)
(* from and goes to the same ports by them.                                 *)
ReadsAlike(t, v, u, w, m, f) ==
  /\ OwnedTree(t) /\ IfacesUnique(t) /\ OwnedTree(u) /\ IfacesUnique(u)
  /\ HasTables(t.bodies[v]) /\ Repointed(t.bodies[v], u.bodies[w], m)
  /\ \A q \in {f[1], f[2]} :
       MeansSame(t.bodies[v], Plugged(t, v), u.bodies[w], Plugged(u, w), m, q)

(* The names mean the same before and after, so the verdict is the same.    *)
LEMMA VerdictStays ==
  ASSUME NEW t, NEW v, NEW u, NEW w, NEW m, NEW f, ReadsAlike(t, v, u, w, m, f)
  PROVE  Verdict(u, w, f) = Verdict(t, v, f)
<1>1. \A n, q : q \in PortsOf(t, v, n) <=> Behind(t.bodies[v], Plugged(t, v), n, q)
  BY PortsAre DEF ReadsAlike
<1>2. \A n, q : q \in PortsOf(u, w, n) <=> Behind(u.bodies[w], Plugged(u, w), n, q)
  BY PortsAre DEF ReadsAlike
<1>3. \A n \in PolicyNames(t.bodies[v]) : \A q \in {f[1], f[2]} :
        q \in PortsOf(u, w, Rename(m, n)) <=> q \in PortsOf(t, v, n)
  BY <1>1, <1>2 DEF MeansSame, ReadsAlike
<1> QED BY <1>3, VerdictRenamed DEF ReadsAlike
(* A body that moves to another VDOM with its ports decides as it did.      *)
LEMMA VerdictCarried ==
  ASSUME NEW t, OwnedTree(t), IfacesUnique(t), NEW u, OwnedTree(u), IfacesUnique(u),
         NEW v, HasTables(t.bodies[v]), NEW w, u.bodies[w] = t.bodies[v],
         Plugged(u, w) = Plugged(t, v), NEW f
  PROVE  Verdict(u, w, f) = Verdict(t, v, f)
<1> DEFINE m == [x \in {} |-> x]
<1>1. \A x : Rename(m, x) = x
  BY DEF Rename
<1>2. \A S : RenameAll(m, S) = S
  BY <1>1 DEF RenameAll
<1> HIDE DEF m
<1>3. Repointed(t.bodies[v], u.bodies[w], m)
  BY <1>2 DEF Repointed
<1>4. \A q : MeansSame(t.bodies[v], Plugged(t, v), u.bodies[w], Plugged(u, w), m, q)
  BY <1>1 DEF MeansSame
<1>5. ReadsAlike(t, v, u, w, m, f)
  BY <1>3, <1>4 DEF ReadsAlike
<1> QED BY <1>5, VerdictStays
(* The ports of a VDOM stay its ports when its interfaces are rewritten one *)
(* by one and come with it.                                                 *)
LEMMA PluggedAlike ==
  ASSUME NEW t, NEW u, NEW v, NEW w,
         \A i \in t.ifaces : ~t.multi \/ i.vdom = v =>
           \E j \in u.ifaces : (~u.multi \/ j.vdom = w) /\ j.name = i.name /\ j.port = i.port,
         \A j \in u.ifaces : ~u.multi \/ j.vdom = w =>
           \E i \in t.ifaces : (~t.multi \/ i.vdom = v) /\ j.name = i.name /\ j.port = i.port
  PROVE  Plugged(u, w) = Plugged(t, v)
<1> DEFINE P == Plugged(t, v)
           R == Plugged(u, w)
<1>1. \A x : x \in P <=> \E i \in t.ifaces : (~t.multi \/ i.vdom = v) /\ x = <<i.name, i.port>>
  BY DEF Plugged
<1>2. \A x : x \in R <=> \E j \in u.ifaces : (~u.multi \/ j.vdom = w) /\ x = <<j.name, j.port>>
  BY DEF Plugged
<1> HIDE DEF P, R
<1>3. ASSUME NEW x \in P PROVE x \in R
  BY <1>1, <1>2
<1>4. ASSUME NEW x \in R PROVE x \in P
  BY <1>1, <1>2
<1> QED BY <1>3, <1>4 DEF P, R

(* What the transforms take and return: every interface in a VDOM there is, *)
(* and no name used twice.                                                  *)
Usable(t) == TreeShape(t) /\ OwnedTree(t) /\ IfacesUnique(t)

(* VDOM v of s decides in t, under the name w, all the traffic that none of *)
(* the names has a port of.                                                 *)
Clear(t, w, names, f) == \A n \in names : \A q \in {f[1], f[2]} : q \notin PortsOf(t, w, n)
VerdictsKept(s, v, t, w, names) ==
  /\ w \in DOMAIN t.bodies
  /\ \A f \in Flows : Clear(t, w, names, f) => Verdict(t, w, f) = Verdict(s, v, f)

(* It does so after a step that changes no such verdict.                    *)
LEMMA KeptThrough ==
  ASSUME NEW s, NEW v, NEW t, NEW w, NEW names, VerdictsKept(s, v, t, w, names),
         NEW u, NEW x \in DOMAIN u.bodies, NEW more,
         \A f \in Flows : Clear(u, x, more, f) =>
           Clear(t, w, names, f) /\ Verdict(u, x, f) = Verdict(t, w, f)
  PROVE  VerdictsKept(s, v, u, x, more)
BY DEF VerdictsKept

(* A VDOM that is carried with its ports.                                   *)
LEMMA KeptCarried ==
  ASSUME NEW s, NEW v, NEW t, Usable(t), NEW w \in DOMAIN t.bodies, VerdictsKept(s, v, t, w, {}),
         NEW u, Usable(u), NEW x \in DOMAIN u.bodies,
         u.bodies[x] = t.bodies[w], Plugged(u, x) = Plugged(t, w)
  PROVE  VerdictsKept(s, v, u, x, {})
<1>1. \A f : Verdict(u, x, f) = Verdict(t, w, f)
  BY VerdictCarried DEF Usable, TreeShape
<1>2. \A f : Clear(t, w, {}, f)
  BY DEF Clear
<1> QED BY <1>1, <1>2, KeptThrough

(* to_multi_vdom, to_single_vdom                                            *)
LEMMA ModeTraffic ==
  ASSUME ShapeInv, Usable(tree), Usable(tree'), Next, stage = "mode", ~Plan.scopeOnly,
         NEW v \in DOMAIN job.tree.bodies, VerdictsKept(job.tree, v, tree, v, {})
  PROVE  VerdictsKept(job.tree, v, tree', ModeNow(v)', {})
<1> USE DEF Plan
<1> DEFINE t == tree
           u == tree'
           x == ModeNow(v)'
<1>1. /\ TreeShape(t) /\ OwnedTree(t) /\ t = job.tree /\ job' = job
      /\ IsFiniteSet(DOMAIN t.bodies) /\ v \in DOMAIN t.bodies
  BY Frames DEF ShapeInv, IsCase, IsTree, Usable
<1>2. x \in DOMAIN u.bodies /\ u.bodies[x] = t.bodies[v]
  BY <1>1, ModeSplit
<1>3. u = CASE job.plan.mode = "multi" -> ToMultiVdom(t, job.plan.vdom, job.plan.scopeOnly)
            [] job.plan.mode = "single" -> ToSingleVdom(t)
            [] OTHER -> t
  BY StageActions DEF Mode, Step
<1>4. x = IF job.plan.mode = "multi" /\ ~t.multi THEN job.plan.vdom
          ELSE IF job.plan.mode = "single" /\ ~u.multi THEN "root" ELSE v
  BY <1>1 DEF ModeNow
<1>5. \A i \in t.ifaces : \A y : /\ Moved(i, y).name = i.name /\ Moved(i, y).vdom = y
                                 /\ Moved(i, y).port = i.port
  BY <1>1, IfaceFrame DEF TreeShape
<1>6. ~t.multi => v = "root"
  BY <1>1 DEF TreeShape
<1>7. Usable(t) /\ Usable(u) /\ VerdictsKept(job.tree, v, t, v, {})
  OBVIOUS
<1>8. ~job.plan.scopeOnly
  OBVIOUS
<1> HIDE DEF t, u, x
<1>9. Plugged(u, x) = Plugged(t, v)
  <2>1. CASE u = t /\ x = v
    BY <2>1
  <2>2. CASE job.plan.mode = "multi" /\ ~t.multi
    <3>1. u = ToMultiVdom(t, job.plan.vdom, job.plan.scopeOnly)
      BY <1>3, <2>2
    <3>2. /\ u.multi /\ x = job.plan.vdom
          /\ \A j \in u.ifaces : \E i \in t.ifaces : j = Moved(i, x)
          /\ \A i \in t.ifaces : Moved(i, x) \in u.ifaces
      BY <1>1, <1>4, <1>8, <2>2, <3>1, MultiTree
    <3> QED BY <1>5, <2>2, <3>2, PluggedAlike
  <2>3. CASE job.plan.mode = "single" /\ u # t
    <3>1. u = ToSingleVdom(t)
      BY <1>3, <2>3
    <3>2. /\ t.multi /\ ~u.multi
          /\ \A i \in t.ifaces : Moved(i, None) \in u.ifaces
          /\ \A j \in u.ifaces : \E i \in t.ifaces : j = Moved(i, None)
      BY <1>1, <2>3, <3>1, SingleTree
    <3>3. \A i \in t.ifaces : i.vdom = v
      <4>1. Cardinality(DOMAIN t.bodies) = 1
        BY <2>3, <3>1 DEF ToSingleVdom
      <4>2. PICK y : DOMAIN t.bodies = {y}
        BY <1>1, <4>1, FS_Singleton
      <4>3. \A i \in t.ifaces : i.vdom \in DOMAIN t.bodies
        BY <1>1, <3>2 DEF OwnedTree
      <4> QED BY <1>1, <4>2, <4>3
    <3> QED BY <1>5, <3>2, <3>3, PluggedAlike
  <2>4. CASE job.plan.mode = "multi" /\ t.multi
    <3>1. u = t
      BY <1>3, <2>4 DEF ToMultiVdom
    <3> QED BY <1>4, <2>1, <2>4, <3>1
  <2>5. CASE job.plan.mode # "multi" /\ u = t
    BY <1>4, <1>6, <2>1, <2>5
  <2>6. CASE job.plan.mode \notin {"multi", "single"}
    BY <1>3, <2>5, <2>6
  <2> QED BY <2>2, <2>3, <2>4, <2>5, <2>6
<1> QED BY <1>1, <1>2, <1>7, <1>9, KeptCarried DEF u, x

(* rename_vdoms                                                             *)
LEMMA VdomMapTraffic ==
  ASSUME ShapeInv, Usable(tree), Usable(tree'), Next, stage = "vdommap", stage' # "refused",
         NEW v, VerdictsKept(job.tree, v, tree, ModeNow(v), {})
  PROVE  VerdictsKept(job.tree, v, tree', VdomNow(v)', {})
<1> USE DEF Plan
<1> DEFINE t == tree
           u == tree'
           m == job.plan.vdommap
           p == VdomPairs(m)
           w == ModeNow(v)
           x == VdomNow(v)'
<1>1. VdomMapValid(t, m) /\ u = RenameVdoms(t, m)
  BY StageActions DEF VdomMap, Step, Refuse
<1>2. x = Rename(p, w)
  BY NamesStay DEF VdomNow
<1>3. /\ Usable(t) /\ Usable(u) /\ TreeShape(t) /\ OwnedTree(t)
      /\ w \in DOMAIN t.bodies /\ VerdictsKept(job.tree, v, t, w, {})
  BY DEF VerdictsKept, Usable
<1> HIDE DEF t, u, m, w, x
<1>4. /\ u.multi = t.multi
      /\ \A i \in t.ifaces : Moved(i, Rename(p, i.vdom)) \in u.ifaces
      /\ \A j \in u.ifaces : \E i \in t.ifaces : j = Moved(i, Rename(p, i.vdom))
      /\ DOMAIN u.bodies = RenameAll(p, DOMAIN t.bodies)
      /\ \A y \in DOMAIN t.bodies : u.bodies[Rename(p, y)] = t.bodies[y]
  BY <1>1, <1>3, RenamedVdomsTree
<1>5. \A i \in t.ifaces : \A y : /\ Moved(i, y).name = i.name /\ Moved(i, y).vdom = y
                                 /\ Moved(i, y).port = i.port
  BY <1>3, IfaceFrame DEF TreeShape
<1>6. ASSUME NEW i \in t.ifaces, t.multi
      PROVE  Rename(p, i.vdom) = x <=> i.vdom = w
  <2>1. i.vdom \in DOMAIN t.bodies
    BY <1>3, <1>6 DEF OwnedTree
  <2> QED BY <1>1, <1>2, <1>3, <2>1, VdomsStayApart
<1> HIDE DEF p
<1>7. Plugged(u, x) = Plugged(t, w)
  BY <1>4, <1>5, <1>6, PluggedAlike
<1>8. x \in DOMAIN u.bodies /\ u.bodies[x] = t.bodies[w]
  BY <1>2, <1>3, <1>4 DEF RenameAll
<1> QED BY <1>3, <1>7, <1>8, KeptCarried DEF u, x

(* hwswitch.convert: an interface keeps its port.                           *)
LEMMA HwTraffic ==
  ASSUME ShapeInv, Usable(tree), Usable(tree'), Next, stage = "hw",
         NEW v, VerdictsKept(job.tree, v, tree, VdomNow(v), {})
  PROVE  VerdictsKept(job.tree, v, tree', VdomNow(v)', {})
<1> USE DEF Plan
<1> DEFINE t == tree
           u == tree'
           w == VdomNow(v)
<1>1. u = IF job.plan.hw THEN HwSwitch(t) ELSE t
  BY StageActions DEF Hw, Step
<1>2. VdomNow(v)' = w
  BY NamesStay
<1>3. /\ Usable(t) /\ Usable(u) /\ TreeShape(t) /\ IfacesUnique(u)
      /\ w \in DOMAIN t.bodies /\ VerdictsKept(job.tree, v, t, w, {})
  BY DEF VerdictsKept, Usable
<1> HIDE DEF t, u, w
<1>4. CASE u = t
  BY <1>2, <1>3, <1>4 DEF u
<1>5. CASE u # t
  <2>1. u = HwSwitch(t)
    BY <1>1, <1>5
  <2>2. /\ u.multi = t.multi /\ u.bodies = t.bodies
        /\ \A i \in t.ifaces : \E j \in u.ifaces : j.name = i.name /\ j.port = i.port /\ j.vdom = i.vdom
        /\ \A j \in u.ifaces : \E i \in t.ifaces : j.name = i.name /\ j.vdom = i.vdom
    BY <1>3, <2>1, HwTree
  <2>3. \A j \in u.ifaces : \E i \in t.ifaces : j.name = i.name /\ j.vdom = i.vdom /\ j.port = i.port
    BY <1>3, <2>2 DEF IfacesUnique
  <2>4. Plugged(u, w) = Plugged(t, w)
    <3>1. \A i \in t.ifaces : ~t.multi \/ i.vdom = w =>
            \E j \in u.ifaces : (~u.multi \/ j.vdom = w) /\ j.name = i.name /\ j.port = i.port
      BY <2>2
    <3>2. \A j \in u.ifaces : ~u.multi \/ j.vdom = w =>
            \E i \in t.ifaces : (~t.multi \/ i.vdom = w) /\ j.name = i.name /\ j.port = i.port
      BY <2>2, <2>3
    <3> QED BY <3>1, <3>2, PluggedAlike
  <2> QED BY <1>2, <1>3, <2>2, <2>4, KeptCarried DEF u
<1> QED BY <1>4, <1>5

(* A step that changes bodies only, VDOM by VDOM: the names of a policy     *)
(* mean the same afterwards for the ports that no zone planned so far has.  *)
LEMMA KeptRepointed ==
  ASSUME NEW s, NEW v, NEW t, Usable(t), NEW w, NEW names, VerdictsKept(s, v, t, w, names),
         NEW u, Usable(u), w \in DOMAIN u.bodies,
         NEW m, Repointed(t.bodies[w], u.bodies[w], m), NEW more,
         NEW plug, plug = Plugged(t, w), NEW now, now = Plugged(u, w),
         \A q : (\A n \in more : ~Behind(u.bodies[w], now, n, q)) =>
           /\ \A n \in names : ~Behind(t.bodies[w], plug, n, q)
           /\ MeansSame(t.bodies[w], plug, u.bodies[w], now, m, q)
  PROVE  VerdictsKept(s, v, u, w, more)
<1> DEFINE b == t.bodies[w]
           c == u.bodies[w]
<1>1. /\ OwnedTree(t) /\ IfacesUnique(t) /\ OwnedTree(u) /\ IfacesUnique(u)
      /\ w \in DOMAIN t.bodies /\ HasTables(b)
  BY DEF Usable, TreeShape, VerdictsKept
<1>2. \A n, q : q \in PortsOf(t, w, n) <=> Behind(b, plug, n, q)
  BY <1>1, PortsAre
<1>3. \A n, q : q \in PortsOf(u, w, n) <=> Behind(c, now, n, q)
  BY <1>1, PortsAre
<1> SUFFICES ASSUME NEW f \in Flows, Clear(u, w, more, f)
             PROVE  Clear(t, w, names, f) /\ Verdict(u, w, f) = Verdict(t, w, f)
  BY KeptThrough
<1>4. \A q \in {f[1], f[2]} : \A n \in more : ~Behind(c, now, n, q)
  BY <1>3 DEF Clear
<1>5. \A q \in {f[1], f[2]} :
        /\ \A n \in names : ~Behind(b, plug, n, q)
        /\ MeansSame(b, plug, c, now, m, q)
  BY <1>4
<1>6. Clear(t, w, names, f)
  BY <1>2, <1>5 DEF Clear
<1>7. Verdict(u, w, f) = Verdict(t, w, f)
  <2>1. ReadsAlike(t, w, u, w, m, f)
    BY <1>1, <1>5 DEF ReadsAlike
  <2> QED BY <2>1, VerdictStays
<1> QED BY <1>6, <1>7

(* sslvpn.convert, of a body of the source.                                 *)
LEMMA SslTraffic ==
  ASSUME ShapeInv, CoherentInv, TrafficCase(job), Usable(tree), Usable(tree'), Next, stage = "ssl",
         NEW v, VerdictsKept(job.tree, v, tree, VdomNow(v), {})
  PROVE  VerdictsKept(job.tree, v, tree', VdomNow(v)', {})
<1> USE DEF Plan
<1> DEFINE t == tree
           u == tree'
           w == VdomNow(v)
           b == t.bodies[w]
<1>1. u = IF job.plan.ssl THEN SslToIpsec(t) ELSE t
  BY StageActions DEF Ssl, Step
<1>2. VdomNow(v)' = w
  BY NamesStay
<1>3. /\ Usable(t) /\ Usable(u) /\ TreeShape(t) /\ HasTables(b)
      /\ w \in DOMAIN t.bodies /\ VerdictsKept(job.tree, v, t, w, {})
  BY DEF VerdictsKept, Usable, TreeShape
<1>4. PICK y \in DOMAIN job.tree.bodies : b = job.tree.bodies[y]
  BY <1>3 DEF CoherentInv, CoherentAt, ToSsl, SourceBody
<1>5. /\ BodyResolves(b, OwnNames(job.tree, y))
      /\ job.plan.ssl /\ Converts(b) => SslBySource(b) /\ TunnelNew(b, OwnNames(job.tree, y))
  BY <1>4 DEF CoherentInv, CoherentCase, Accepted, Resolved, TrafficCase
<1> HIDE DEF t, u, w
<1>6. CASE u = t
  BY <1>2, <1>3, <1>6 DEF u
<1>7. CASE u # t
  <2>1. job.plan.ssl /\ u = SslToIpsec(t)
    BY <1>1, <1>7
  <2>2. OnlyBodies(t, u) /\ u.bodies[w] = SslBody(b) /\ w \in DOMAIN u.bodies
    BY <1>3, <2>1, SslTree DEF OnlyBodies
  <2>3. Plugged(u, w) = Plugged(t, w)
    BY <2>2 DEF OnlyBodies, Plugged
  <2>4. CASE ~Converts(b)
    <3>1. u.bodies[w] = b
      BY <1>3, <2>2, <2>4, SslBodyShape
    <3> QED BY <1>2, <1>3, <2>2, <2>3, <3>1, KeptCarried DEF u
  <2>5. CASE Converts(b)
    <3> DEFINE c == u.bodies[w]
               plug == Plugged(t, w)
               now == Plugged(u, w)
    <3>0. now = plug
      BY <2>3
    <3> HIDE DEF b, c, plug, now
    <3>1. /\ Repointed(b, c, Redirect)
          /\ \A q : MeansSame(b, plug, c, now, Redirect, q)
      BY <1>3, <1>5, <2>1, <2>2, <2>5, <3>0, SslBehind DEF c, MeansSame
    <3> QED BY <1>2, <1>3, <2>2, <3>1, KeptRepointed DEF b, c, u, plug, now
  <2> QED BY <2>4, <2>5
<1> QED BY <1>6, <1>7

(* versiondelta, hints and identity: names and policies are as they were.   *)
LEMMA QuietTree ==
  ASSUME ShapeInv, Next, stage \in {"version", "device", "identity", "audit"}
  PROVE  tree'.ifaces = tree.ifaces /\ tree'.multi = tree.multi /\ tree'.bodies = tree.bodies
<1>1. TreeShape(tree)
  BY DEF ShapeInv
<1>2. CASE stage = "version"
  <2>1. \E s, d : tree' = [tree EXCEPT !.words = Scan(@, s, d)]
    BY <1>2, StageActions DEF Version, Step
  <2> QED BY <1>1, <2>1, ScannedTree
<1>3. CASE stage \in {"device", "audit"}
  BY <1>3, StageActions DEF Device, Audit, Step
<1>4. CASE stage = "identity"
  <2>1. tree' = tree \/ tree' = [tree EXCEPT !.host = Plan.identity]
    BY <1>4, StageActions DEF Identity, Step
  <2> QED BY <1>1, <2>1, NamedTree
<1> QED BY <1>2, <1>3, <1>4

(* So they decide as they did, whatever zones are planned.                  *)
LEMMA QuietTraffic ==
  ASSUME NEW t, NEW u, u.ifaces = t.ifaces, u.multi = t.multi, u.bodies = t.bodies,
         NEW s, NEW v, NEW w, NEW names, VerdictsKept(s, v, t, w, names)
  PROVE  VerdictsKept(s, v, u, w, names)
<1>1. \A x : InVdom(u, x) = InVdom(t, x)
  BY DEF InVdom, IfaceVdom, IfaceNames
<1>2. \A x, n : PortsOf(u, x, n) = PortsOf(t, x, n)
  <2>1. \A x, ns : IfacePorts(u, x, ns) = IfacePorts(t, x, ns)
    BY <1>1 DEF IfacePorts
  <2> QED BY <1>1, <2>1 DEF PortsOf
<1>3. \A x, p, f : Matches(u, x, p, f) <=> Matches(t, x, p, f)
  BY <1>2 DEF Matches
<1>4. \A x, f : Verdict(u, x, f) = Verdict(t, x, f)
  BY <1>3, Zenon DEF Verdict
<1> QED BY <1>2, <1>4 DEF VerdictsKept, Clear

(* portmap.apply_tree                                                       *)
LEMMA PortmapTraffic ==
  ASSUME ShapeInv, CoherentInv, Usable(tree), Usable(tree'), Next, stage = "portmap",
         NEW v, VerdictsKept(job.tree, v, tree, VdomNow(v), {})
  PROVE  VerdictsKept(job.tree, v, tree', VdomNow(v)', {})
<1> USE DEF Plan
<1> DEFINE t == tree
           u == tree'
           m == job.plan.portmap
           w == VdomNow(v)
           b == t.bodies[w]
           c == u.bodies[w]
           known == Known(job.tree)
           fixed == OtherNames(job.tree)
           plug == Plugged(t, w)
           now == Plugged(u, w)
<1>1. u = ApplyTree(t, m)
  BY StageActions DEF Portmap, Step
<1>2. VdomNow(v)' = w
  BY NamesStay
<1>3. /\ Usable(t) /\ Usable(u) /\ TreeShape(t) /\ HasTables(b)
      /\ w \in DOMAIN t.bodies /\ VerdictsKept(job.tree, v, t, w, {})
  BY DEF VerdictsKept, Usable, TreeShape
<1>4. KnownBody(b) /\ IfaceNames(t) \subseteq IfaceNames(job.tree)
  BY <1>3 DEF CoherentInv, CoherentAt, ToPortmap
<1>5. /\ DOMAIN m \cap fixed = {} /\ "any" \in fixed /\ fixed \subseteq known
      /\ \A x, y \in known : Rename(m, x) = Rename(m, y) => x = y
      /\ IfaceNames(t) \subseteq known
  BY <1>4 DEF CoherentInv, CoherentCase, MapsPorts, OtherNames, Known
<1>6. /\ NamesIn(b) \subseteq known /\ VdomZones(b) \cup Tunnels(b) \subseteq fixed
  BY <1>4 DEF KnownBody
<1>7. \A x \in fixed : Rename(m, x) = x
  BY <1>5 DEF Rename
<1>8. /\ u.multi = t.multi
      /\ \A i \in t.ifaces : Renamed(i, m) \in u.ifaces
      /\ \A j \in u.ifaces : \E i \in t.ifaces : j = Renamed(i, m)
      /\ DOMAIN u.bodies = DOMAIN t.bodies /\ c = RenameBody(b, m)
  BY <1>1, <1>3, AppliedTree
<1>9. b.ssl # None => c.ssl # None
  BY <1>3, <1>4, <1>8, SslStays DEF ShapeInv
<1>10. \A i \in t.ifaces : /\ Renamed(i, m).name = Rename(m, i.name) /\ Renamed(i, m).vdom = i.vdom
                           /\ Renamed(i, m).port = i.port
  BY <1>3, IfaceFrame DEF TreeShape
<1>11. /\ \A x, q : <<x, q>> \in plug <=>
             \E i \in t.ifaces : (~t.multi \/ i.vdom = w) /\ x = i.name /\ q = i.port
       /\ \A x, q : <<x, q>> \in now <=>
             \E j \in u.ifaces : (~u.multi \/ j.vdom = w) /\ x = j.name /\ q = j.port
  BY DEF Plugged
<1> HIDE DEF t, u, m, w, b, c, known, fixed, plug, now
<1>12. \A x, q : <<x, q>> \in plug => x \in known /\ <<Rename(m, x), q>> \in now
  <2> SUFFICES ASSUME NEW i \in t.ifaces, ~t.multi \/ i.vdom = w
               PROVE  i.name \in known /\ <<Rename(m, i.name), i.port>> \in now
    BY <1>11
  <2>1. i.name \in known
    BY <1>5 DEF IfaceNames
  <2>2. Renamed(i, m) \in u.ifaces /\ (~u.multi \/ Renamed(i, m).vdom = w)
    BY <1>8, <1>10
  <2> QED BY <1>10, <1>11, <2>1, <2>2
<1>13. \A x, q : <<x, q>> \in now => \E y : <<y, q>> \in plug /\ x = Rename(m, y)
  <2> SUFFICES ASSUME NEW j \in u.ifaces, ~u.multi \/ j.vdom = w
               PROVE  \E y : <<y, j.port>> \in plug /\ j.name = Rename(m, y)
    BY <1>11
  <2>1. PICK i \in t.ifaces : j = Renamed(i, m)
    BY <1>8
  <2>2. <<i.name, i.port>> \in plug
    BY <1>8, <1>10, <1>11, <2>1
  <2> QED BY <1>10, <2>1, <2>2
<1>14. /\ Repointed(b, c, m)
       /\ \A q : MeansSame(b, plug, c, now, m, q)
  BY <1>3, <1>5, <1>6, <1>7, <1>8, <1>9, <1>12, <1>13, RenamedBehind DEF MeansSame
<1> QED BY <1>2, <1>3, <1>8, <1>14, KeptRepointed DEF u, b, c, plug, now

-----------------------------------------------------------------------------
(* Zones and SD-WAN.                                                        *)

(* The names of new zones, and those that join them, in a body.             *)
Joins(b, plug, names, joining) ==
  /\ \A n \in names : n \notin Tunnels(b) /\ \A q : <<n, q>> \notin plug
  /\ \A n \in joining : n \notin VdomZones(b) /\ n # "any"

(* apply_zones: a policy on a zone means the ports it meant, but for those  *)
(* that zones of the plan contain.                                          *)
LEMMA ZonesBehind ==
  ASSUME NEW b, HasTables(b), NEW specs, NEW u, u = ZonesBody(b, specs), NEW plug,
         NEW names, names = NamesOf(specs), names \cap b.sd.zones = {},
         Joins(b, plug, names, UNION {s.members : s \in ToSet(specs)})
  PROVE  /\ Repointed(b, u, SpecMap(specs))
         /\ \A q : (\A n \in names : ~Behind(u, plug, n, q)) => MeansSame(b, plug, u, plug, SpecMap(specs), q)
<1> DEFINE m == SpecMap(specs)
<1>1. /\ Repointed(b, u, m)
      /\ u.sd = b.sd /\ u.ssl = b.ssl /\ u.tunnels = b.tunnels
  BY ZonesBodyShape
<1>2. /\ \A n : n \notin names => MembersOf(u, n) = MembersOf(b, n)
      /\ \A n \in names : n \in VdomZones(b) => MembersOf(b, n) \subseteq MembersOf(u, n)
      /\ \A s \in ToSet(specs) : s.members \subseteq MembersOf(u, s.name)
  BY ZoneMembers
<1>3. /\ DOMAIN m = UNION {s.members : s \in ToSet(specs)}
      /\ \A n \in DOMAIN m : \E s \in ToSet(specs) : n \in s.members /\ m[n] = s.name
  BY SpecMapOf
<1>4. \A s \in ToSet(specs) : s.name \in names
  BY DEF NamesOf
<1>5. Tunnels(u) = Tunnels(b)
  BY <1>1, Zenon DEF Tunnels
<1> HIDE DEF m
<1>6. \A n \in DOMAIN m : /\ m[n] \in names /\ n \notin VdomZones(b) /\ n # "any"
                          /\ n \in MembersOf(u, m[n])
  BY <1>2, <1>3, <1>4 DEF Joins
<1>7. \A n \in names : n \notin Tunnels(b) /\ \A q : <<n, q>> \notin plug
  BY DEF Joins
<1>8. ASSUME NEW q, \A n \in names : ~Behind(u, plug, n, q)
      PROVE  MeansSame(b, plug, u, plug, m, q)
  <2>1. Folded(b, u, m, names, plug)
    BY <1>2, <1>5, <1>6, <1>7 DEF Folded
  <2>2. \A n : Behind(u, plug, Rename(m, n), q) <=> Behind(b, plug, n, q)
    BY <1>8, <2>1, FoldedBehind
  <2> QED BY <2>2 DEF MeansSame
<1> QED BY <1>1, <1>8 DEF m

(* apply_sdwan: likewise, and the other zones have the ports they had.      *)
LEMMA SdwanBehind ==
  ASSUME NEW b, HasTables(b), NEW specs, SdwanSpecs(specs), NEW u, u = SdwanBody(b, specs), NEW plug,
         NEW names, names = NamesOf(specs), names \cap ZonesNamed(b) = {},
         Joins(b, plug, names, UNION {Members(s) : s \in ToSet(specs)})
  PROVE  /\ Repointed(b, u, SdwanMap(specs))
         /\ \A q : (\A n \in names : ~Behind(u, plug, n, q)) => MeansSame(b, plug, u, plug, SdwanMap(specs), q)
         /\ \A n, q : n \notin names => (Behind(u, plug, n, q) <=> Behind(b, plug, n, q))
<1> DEFINE m == SdwanMap(specs)
<1>1. Repointed(b, u, m) /\ u.ssl = b.ssl /\ u.tunnels = b.tunnels
  BY SdwanBodyShape DEF SdwanSpecs
<1>2. /\ \A n : n \notin names => MembersOf(u, n) = MembersOf(b, n)
      /\ \A n \in names : n \in VdomZones(b) => MembersOf(b, n) \subseteq MembersOf(u, n)
      /\ \A s \in ToSet(specs) : Members(s) \subseteq MembersOf(u, s.name)
  BY SdwanMembers
<1>3. /\ DOMAIN m = UNION {Members(s) : s \in ToSet(specs)}
      /\ \A n \in DOMAIN m : \E s \in ToSet(specs) : n \in Members(s) /\ m[n] = s.name
  BY SdwanMapOf
<1>4. \A s \in ToSet(specs) : s.name \in names
  BY DEF NamesOf
<1>5. Tunnels(u) = Tunnels(b)
  BY <1>1, Zenon DEF Tunnels
<1> HIDE DEF m
<1>6. \A n \in DOMAIN m : /\ m[n] \in names /\ n \notin VdomZones(b) /\ n # "any"
                          /\ n \in MembersOf(u, m[n])
  BY <1>2, <1>3, <1>4 DEF Joins
<1>7. \A n \in names : n \notin Tunnels(b) /\ \A q : <<n, q>> \notin plug
  BY DEF Joins
<1>8. ASSUME NEW q, \A n \in names : ~Behind(u, plug, n, q)
      PROVE  MeansSame(b, plug, u, plug, m, q)
  <2>1. Folded(b, u, m, names, plug)
    BY <1>2, <1>5, <1>6, <1>7 DEF Folded
  <2>2. \A n : Behind(u, plug, Rename(m, n), q) <=> Behind(b, plug, n, q)
    BY <1>8, <2>1, FoldedBehind
  <2> QED BY <2>2 DEF MeansSame
<1>9. \A n, q : n \notin names => (Behind(u, plug, n, q) <=> Behind(b, plug, n, q))
  BY <1>2, <1>5 DEF Behind
<1> QED BY <1>1, <1>8, <1>9 DEF m

(* The names of the zones, up to the port map, up to the zones and up to    *)
(* SD-WAN.  From the zones on none of them is an interface's.               *)
ZonedBy(b, zones, sdwan) == ZonesNamed(b) \subseteq zones /\ b.sd.zones \subseteq sdwan
NoInterface(t, b) == IfaceNames(t) \cap ({"any"} \cup VdomZones(b)) = {}
ApartAt(s, t) ==
  /\ s \in ToPortmap \cup {"zones"} => \A v \in DOMAIN t.bodies :
       ZonedBy(t.bodies[v], ZoneNames(job.tree), SdwanZones(job.tree))
  /\ s = "sdwan" => \A v \in DOMAIN t.bodies :
       ZonedBy(t.bodies[v], ZoneNames(job.tree) \cup NewZones(Plan), SdwanZones(job.tree))
  /\ s \in {"zones", "sdwan"} => \A v \in DOMAIN t.bodies : NoInterface(t, t.bodies[v])

(* The ports of a body are of interfaces.                                   *)
LEMMA PluggedNames ==
  ASSUME NEW t, NEW v, NEW n, NEW q, <<n, q>> \in Plugged(t, v)
  PROVE  n \in IfaceNames(t)
<1>1. PICK i \in t.ifaces : <<n, q>> = <<i.name, i.port>>
  BY DEF Plugged
<1> QED BY <1>1 DEF IfaceNames

(* zones.apply_zones: traffic that no new zone has a port of is decided as  *)
(* it was.                                                                  *)
LEMMA ZonesTraffic ==
  ASSUME ShapeInv, CoherentInv, TrafficCase(job), ApartAt("zones", tree),
         Usable(tree), Usable(tree'), Next, stage = "zones", stage' # "refused",
         NEW v, VerdictsKept(job.tree, v, tree, VdomNow(v), {})
  PROVE  VerdictsKept(job.tree, v, tree', VdomNow(v)', NewZones(Plan))
<1> USE DEF Plan
<1> DEFINE t == tree
           u == tree'
           specs == job.plan.zones
           w == VdomNow(v)
           b == t.bodies[w]
           c == u.bodies[w]
           plug == Plugged(t, w)
           mine == ZoneSpecsOf(t, specs, w)
           names == NamesOf(mine)
           new == NewZones(Plan)
<1>1. ZonesValid(t, specs) /\ u = ApplyZones(t, specs)
  <2>1. Zones
    BY DEF Next, Step, Refuse, Mode, VdomMap, Hw, Ssl, Version, Device, Identity, Portmap, Sdwan,
           Dedup, Audit
  <2> QED BY <2>1 DEF Zones, Step, Refuse
<1>2. VdomNow(v)' = w
  BY NamesStay
<1>3. /\ Usable(t) /\ Usable(u) /\ TreeShape(t) /\ HasTables(b)
      /\ w \in DOMAIN t.bodies /\ VerdictsKept(job.tree, v, t, w, {})
  BY DEF VerdictsKept, Usable, TreeShape
<1>4. /\ SoundBody(b) /\ NoInterface(t, b) /\ ZonedBy(b, ZoneNames(job.tree), SdwanZones(job.tree))
  BY <1>3 DEF CoherentInv, CoherentAt, ApartAt
<1>5. CoherentCase(job) /\ NewZones(Plan) \cap SdwanZones(job.tree) = {}
  BY DEF CoherentInv, TrafficCase, NamesApart
<1>6. specs \in Seq(ToSet(specs))
  BY DEF ShapeInv, IsCase, ListOf
<1>7. \A s \in ToSet(specs) : s.name \in new /\ s.name \in NewNames(Plan)
  BY DEF NewNames, NewZones
<1> HIDE DEF t, u, specs, w, b, c, plug, mine, names, new
<1>8. OnlyBodies(t, u) /\ c = ZonesBody(b, mine) /\ w \in DOMAIN u.bodies
  BY <1>1, <1>3, ZonesTree DEF SameTunnelTrees, OnlyBodies, b, c, mine
<1>9. \A s \in ToSet(mine) : s \in ToSet(specs)
  BY <1>6, AmongKeeps DEF ZoneSpecsOf, mine
<1>10. names \subseteq new /\ names \cap b.sd.zones = {}
  BY <1>4, <1>5, <1>7, <1>9 DEF NamesOf, ZonedBy, names, new
<1>11. Joins(b, plug, names, UNION {s.members : s \in ToSet(mine)})
  <2>1. ASSUME NEW s \in ToSet(mine)
        PROVE  /\ s.name \notin Tunnels(b) /\ s.name \notin IfaceNames(t)
               /\ s.members \subseteq IfaceNames(t)
    <3>1. PICK i \in DOMAIN specs : s = specs[i]
      BY <1>9, EntriesAreIndexed
    <3>2. s.name \notin Tunnels(b)
      BY <1>4, <1>5, <1>7, <1>9, NewIsNoTunnel
    <3> QED BY <1>1, <3>1, <3>2 DEF ZonesValid
  <2>2. \A s \in ToSet(mine) : \A q : <<s.name, q>> \notin plug
    BY <2>1, PluggedNames DEF plug
  <2>3. \A s \in ToSet(mine) : \A n \in s.members : n \notin VdomZones(b) /\ n # "any"
    BY <1>4, <2>1 DEF NoInterface
  <2> QED BY <2>1, <2>2, <2>3 DEF Joins, NamesOf, names
<1>12. Plugged(u, w) = plug
  BY <1>8 DEF OnlyBodies, Plugged, plug
<1> DEFINE m == SpecMap(mine)
<1>13. /\ Repointed(b, c, m)
       /\ \A q : (\A n \in names : ~Behind(c, plug, n, q)) => MeansSame(b, plug, c, plug, m, q)
  BY <1>3, <1>8, <1>10, <1>11, ZonesBehind DEF names
<1> HIDE DEF m
<1>14. \A q : (\A n \in new : ~Behind(c, plug, n, q)) =>
              /\ \A n \in {} : ~Behind(b, plug, n, q)
              /\ MeansSame(b, plug, c, plug, m, q)
  BY <1>10, <1>13
<1>15. VerdictsKept(job.tree, v, u, w, new)
  BY <1>3, <1>8, <1>12, <1>13, <1>14, KeptRepointed DEF b, c, plug
<1> QED BY <1>2, <1>15 DEF u, new

(* sdwan.apply_sdwan: and so is traffic that no SD-WAN zone has a port of.  *)
LEMMA SdwanTraffic ==
  ASSUME ShapeInv, CoherentInv, TrafficCase(job), ApartAt("sdwan", tree),
         Usable(tree), Usable(tree'), Next, stage = "sdwan", stage' # "refused",
         NEW v, VerdictsKept(job.tree, v, tree, VdomNow(v), NewZones(Plan))
  PROVE  VerdictsKept(job.tree, v, tree', VdomNow(v)', NewNames(Plan))
<1> USE DEF Plan
<1> DEFINE t == tree
           u == tree'
           specs == job.plan.sdwan
           w == VdomNow(v)
           b == t.bodies[w]
           c == u.bodies[w]
           plug == Plugged(t, w)
           mine == SdwanSpecsOf(t, specs, w)
           names == NamesOf(mine)
           old == NewZones(Plan)
           new == NewNames(Plan)
<1>1. SdwanValid(t, specs) /\ u = ApplySdwan(t, specs)
  <2>1. Sdwan
    BY DEF Next, Step, Refuse, Mode, VdomMap, Hw, Ssl, Version, Device, Identity, Portmap, Zones,
           Dedup, Audit
  <2> QED BY <2>1 DEF Sdwan, Step, Refuse
<1>2. VdomNow(v)' = w
  BY NamesStay
<1>3. /\ Usable(t) /\ Usable(u) /\ TreeShape(t) /\ HasTables(b)
      /\ w \in DOMAIN t.bodies /\ VerdictsKept(job.tree, v, t, w, old)
  BY DEF VerdictsKept, Usable, TreeShape
<1>4. SoundBody(b) /\ NoInterface(t, b) /\ ZonedBy(b, ZoneNames(job.tree) \cup old, SdwanZones(job.tree))
  BY <1>3 DEF CoherentInv, CoherentAt, ApartAt
<1>5. /\ CoherentCase(job) /\ SdwanSpecs(specs)
      /\ NewSdwanZones(Plan) \cap (ZoneNames(job.tree) \cup old) = {}
  BY CaseSpecs DEF ShapeInv, CoherentInv, TrafficCase, NamesApart
<1>6. \A s \in ToSet(specs) : s.name \in NewSdwanZones(Plan)
  BY DEF NewSdwanZones
<1>7. old \subseteq new /\ NewSdwanZones(Plan) \subseteq new
  BY DEF NewNames
<1> HIDE DEF t, u, specs, w, b, c, plug, mine, names, old, new
<1>8. OnlyBodies(t, u) /\ c = SteeredBody(b, mine) /\ w \in DOMAIN u.bodies
  BY <1>1, <1>3, <1>5, SdwanTree DEF SameTunnelTrees, OnlyBodies, b, c, mine
<1>9. SdwanSpecs(mine) /\ ToSet(mine) \subseteq ToSet(specs)
  BY <1>5, SdwanSpecsIn DEF mine
<1>10. names \subseteq NewSdwanZones(Plan)
  BY <1>6, <1>9 DEF NamesOf, names
<1>11. names \subseteq new /\ names \cap ZonesNamed(b) = {} /\ names \cap old = {}
  BY <1>4, <1>5, <1>7, <1>10 DEF ZonedBy
<1>12. Joins(b, plug, names, UNION {Members(s) : s \in ToSet(mine)})
  <2>1. ASSUME NEW s \in ToSet(mine)
        PROVE  /\ s.name \notin Tunnels(b) /\ s.name \notin IfaceNames(t)
               /\ Members(s) \subseteq IfaceNames(t)
    <3>1. PICK i \in DOMAIN specs : s = specs[i]
      BY <1>9, EntriesAreIndexed
    <3>2. s.name \in NewNames(Plan)
      BY <1>6, <1>7, <1>9 DEF new
    <3>3. s.name \notin Tunnels(b)
      BY <1>4, <1>5, <3>2, NewIsNoTunnel
    <3> QED BY <1>1, <3>1, <3>3 DEF SdwanValid
  <2>2. \A s \in ToSet(mine) : \A q : <<s.name, q>> \notin plug
    BY <2>1, PluggedNames DEF plug
  <2>3. \A s \in ToSet(mine) : \A n \in Members(s) : n \notin VdomZones(b) /\ n # "any"
    BY <1>4, <2>1 DEF NoInterface
  <2> QED BY <2>1, <2>2, <2>3 DEF Joins, NamesOf, names
<1>13. Plugged(u, w) = plug
  BY <1>8 DEF OnlyBodies, Plugged, plug
<1>14. CASE mine = <<>>
  <2> DEFINE m == [x \in {} |-> x]
  <2>1. c = b /\ \A x : Rename(m, x) = x
    BY <1>8, <1>14 DEF SteeredBody, Rename
  <2>2. \A S : RenameAll(m, S) = S
    BY <2>1 DEF RenameAll
  <2> HIDE DEF m
  <2>3. Repointed(b, c, m)
    BY <2>1, <2>2 DEF Repointed
  <2>4. \A q : (\A n \in new : ~Behind(c, plug, n, q)) =>
               /\ \A n \in old : ~Behind(b, plug, n, q)
               /\ MeansSame(b, plug, c, plug, m, q)
    BY <1>7, <2>1 DEF MeansSame
  <2>5. VerdictsKept(job.tree, v, u, w, new)
    BY <1>3, <1>8, <1>13, <2>3, <2>4, KeptRepointed DEF b, c, plug
  <2> QED BY <1>2, <2>5 DEF u, new
<1>15. CASE mine # <<>>
  <2>1. c = SdwanBody(b, mine)
    BY <1>8, <1>15 DEF SteeredBody
  <2> DEFINE m == SdwanMap(mine)
  <2>2. /\ Repointed(b, c, m)
        /\ \A q : (\A n \in names : ~Behind(c, plug, n, q)) => MeansSame(b, plug, c, plug, m, q)
        /\ \A n, q : n \notin names => (Behind(c, plug, n, q) <=> Behind(b, plug, n, q))
    BY <1>3, <1>9, <1>11, <1>12, <2>1, SdwanBehind DEF names
  <2> HIDE DEF m
  <2>3. \A q : (\A n \in new : ~Behind(c, plug, n, q)) =>
               /\ \A n \in old : ~Behind(b, plug, n, q)
               /\ MeansSame(b, plug, c, plug, m, q)
    BY <1>7, <1>11, <2>2
  <2>4. VerdictsKept(job.tree, v, u, w, new)
    BY <1>3, <1>8, <1>13, <2>2, <2>3, KeptRepointed DEF b, c, plug
  <2> QED BY <1>2, <2>4 DEF u, new
<1> QED BY <1>14, <1>15

(* tree_refs.dedup_policies: the zones keep their ports as well.            *)
LEMMA DedupTraffic ==
  ASSUME ShapeInv, Usable(tree), Usable(tree'), Next, stage = "dedup",
         NEW v, NEW names, VerdictsKept(job.tree, v, tree, VdomNow(v), names)
  PROVE  VerdictsKept(job.tree, v, tree', VdomNow(v)', names)
<1> DEFINE t == tree
           u == tree'
           w == VdomNow(v)
           b == t.bodies[w]
           c == u.bodies[w]
<1>1. u = t \/ u = DedupPolicies(t)
  BY StageActions DEF Dedup, Step
<1>2. VdomNow(v)' = w
  BY NamesStay
<1>3. /\ OwnedTree(t) /\ OwnedTree(u) /\ IfacesUnique(t) /\ IfacesUnique(u) /\ TreeShape(t)
      /\ HasTables(b) /\ w \in DOMAIN t.bodies /\ VerdictsKept(job.tree, v, t, w, names)
  BY DEF VerdictsKept, Usable, TreeShape
<1> HIDE DEF t, u, w, b, c
<1>4. CASE u = t
  BY <1>2, <1>3, <1>4 DEF u
<1>5. CASE u = DedupPolicies(t)
  <2>1. OnlyBodies(t, u) /\ c = DedupBody(b) /\ w \in DOMAIN u.bodies
    BY <1>3, <1>5, DedupTree DEF SameTunnelTrees, OnlyBodies, b, c
  <2>2. \A f : Verdict(u, w, f) = Verdict(t, w, f)
    BY <1>3, <2>1, DedupKeepsVerdict DEF OnlyBodies, b, c
  <2>3. Plugged(u, w) = Plugged(t, w)
    BY <2>1 DEF OnlyBodies, Plugged
  <2>4. \A plug, n, q : Behind(c, plug, n, q) <=> Behind(b, plug, n, q)
    BY <1>3, <2>1, DedupBodyShape, SameBehind
  <2>5. \A n, q : q \in PortsOf(t, w, n) <=> Behind(b, Plugged(t, w), n, q)
    BY <1>3, PortsAre DEF b
  <2>6. \A n, q : q \in PortsOf(u, w, n) <=> Behind(c, Plugged(u, w), n, q)
    BY <1>3, PortsAre DEF c
  <2>7. \A f : Clear(u, w, names, f) => Clear(t, w, names, f)
    BY <2>3, <2>4, <2>5, <2>6 DEF Clear
  <2>8. VerdictsKept(job.tree, v, u, w, names)
    BY <1>3, <2>1, <2>2, <2>7, KeptThrough
  <2> QED BY <1>2, <2>8 DEF u
<1> QED BY <1>1, <1>4, <1>5

-----------------------------------------------------------------------------
(* The names of the zones, step by step.                                    *)

(* portmap.apply_tree maps interfaces to names that no zone has.            *)
LEMMA PortmapApart ==
  ASSUME ShapeInv, CoherentInv, TrafficCase(job), ApartAt("portmap", tree), Next, stage = "portmap"
  PROVE  ApartAt("zones", tree')
<1> USE DEF Plan
<1> DEFINE t == tree
           u == tree'
           m == job.plan.portmap
           s == job.tree
           fixed == OtherNames(s)
<1>1. u = ApplyTree(t, m) /\ TreeShape(t)
  BY StageActions DEF Portmap, Step, ShapeInv
<1>2. /\ IfaceNames(t) \subseteq IfaceNames(s)
      /\ \A v \in DOMAIN t.bodies :
           KnownBody(t.bodies[v]) /\ ZonedBy(t.bodies[v], ZoneNames(s), SdwanZones(s))
           /\ HasTables(t.bodies[v])
  BY <1>1 DEF CoherentInv, CoherentAt, ToPortmap, ApartAt, TreeShape
<1>3. /\ DOMAIN m \cap fixed = {} /\ "any" \in fixed
      /\ \A x, y \in IfaceNames(s) \cup fixed : Rename(m, x) = Rename(m, y) => x = y
  BY DEF CoherentInv, CoherentCase, MapsPorts, OtherNames
<1>4. IfaceNames(s) \cap ({"any"} \cup ZoneNames(s) \cup SdwanZones(s)) = {}
  BY DEF TrafficCase, NamesApart
<1> HIDE DEF t, u, m, s, fixed
<1>5. /\ \A j \in u.ifaces : \E i \in t.ifaces : j = Renamed(i, m)
      /\ DOMAIN u.bodies = DOMAIN t.bodies
      /\ \A v \in DOMAIN t.bodies : u.bodies[v] = RenameBody(t.bodies[v], m)
  BY <1>1, AppliedTree
<1>6. \A x \in IfaceNames(u) : \E y \in IfaceNames(t) : x = Rename(m, y)
  <2>1. \A i \in t.ifaces : Renamed(i, m).name = Rename(m, i.name)
    BY <1>1, IfaceFrame DEF TreeShape
  <2> QED BY <1>5, <2>1 DEF IfaceNames
<1>7. ASSUME NEW v \in DOMAIN t.bodies
      PROVE  ZonedBy(u.bodies[v], ZoneNames(s), SdwanZones(s)) /\ NoInterface(u, u.bodies[v])
  <2> DEFINE b == t.bodies[v]
             c == u.bodies[v]
  <2>1. /\ \A z \in c.zones : \E y \in b.zones : z.name = y.name
        /\ c.sd.zones = b.sd.zones
    BY <1>2, <1>5, RenameBodyShape
  <2>2. ZonesNamed(c) \subseteq ZonesNamed(b)
    BY <2>1 DEF ZonesNamed
  <2>3. VdomZones(c) \subseteq VdomZones(b)
    BY <2>1, <2>2 DEF VdomZones, ZonesNamed
  <2>4. VdomZones(b) \subseteq fixed /\ VdomZones(b) \subseteq ZoneNames(s) \cup SdwanZones(s)
    BY <1>2 DEF KnownBody, ZonedBy, ZonesNamed, VdomZones, s, fixed
  <2>5. ZonedBy(c, ZoneNames(s), SdwanZones(s))
    BY <1>2, <2>1, <2>2 DEF ZonedBy
  <2> HIDE DEF b, c
  <2>6. ASSUME NEW x \in IfaceNames(u), x \in {"any"} \cup VdomZones(c)
        PROVE  FALSE
    <3>1. PICK y \in IfaceNames(t) : x = Rename(m, y)
      BY <1>6
    <3>2. x \in fixed /\ x \in {"any"} \cup ZoneNames(s) \cup SdwanZones(s)
      BY <1>3, <2>3, <2>4, <2>6
    <3>3. Rename(m, x) = x
      BY <1>3, <3>2 DEF Rename
    <3>4. x = y
      <4>1. y \in IfaceNames(s) \cup fixed /\ x \in IfaceNames(s) \cup fixed
        BY <1>2, <3>2
      <4>2. Rename(m, x) = Rename(m, y)
        BY <3>1, <3>3
      <4> QED BY <1>3, <4>1, <4>2
    <3> QED BY <1>2, <1>4, <3>2, <3>4
  <2> QED BY <2>5, <2>6 DEF NoInterface, b, c
<1> QED BY <1>5, <1>7 DEF ApartAt, ToPortmap, ToVersion, u, s

(* zones.apply_zones: validate refuses a zone that has an interface's name. *)
LEMMA ZonesApart ==
  ASSUME ShapeInv, ApartAt("zones", tree), Next, stage = "zones", stage' # "refused"
  PROVE  ApartAt("sdwan", tree')
<1> USE DEF Plan
<1> DEFINE t == tree
           u == tree'
           s == job.tree
           specs == job.plan.zones
           new == NewZones(Plan)
<1>1. ZonesValid(t, specs) /\ u = ApplyZones(t, specs) /\ TreeShape(t)
  <2>1. Zones
    BY DEF Next, Step, Refuse, Mode, VdomMap, Hw, Ssl, Version, Device, Identity, Portmap, Sdwan,
           Dedup, Audit
  <2> QED BY <2>1 DEF Zones, Step, Refuse, ShapeInv
<1>2. \A v \in DOMAIN t.bodies :
        /\ NoInterface(t, t.bodies[v]) /\ HasTables(t.bodies[v])
        /\ ZonedBy(t.bodies[v], ZoneNames(s), SdwanZones(s))
  BY <1>1 DEF ApartAt, TreeShape
<1>3. specs \in Seq(ToSet(specs)) /\ new = NamesOf(specs)
  BY DEF ShapeInv, IsCase, ListOf, NewZones, NamesOf
<1> HIDE DEF t, u, s, specs, new
<1>4. /\ OnlyBodies(t, u)
      /\ \A v \in DOMAIN t.bodies : u.bodies[v] = ZonesBody(t.bodies[v], ZoneSpecsOf(t, specs, v))
  BY <1>1, ZonesTree DEF SameTunnelTrees
<1>5. IfaceNames(u) = IfaceNames(t) /\ DOMAIN u.bodies = DOMAIN t.bodies
  BY <1>4 DEF OnlyBodies, IfaceNames
<1>6. new \cap IfaceNames(t) = {}
  <2>1. \A i \in DOMAIN specs : specs[i].name \notin IfaceNames(t)
    BY <1>1 DEF ZonesValid
  <2>2. \A x \in ToSet(specs) : x.name \notin IfaceNames(t)
    BY <2>1, EntriesAreIndexed
  <2> QED BY <1>3, <2>2 DEF NamesOf
<1>7. ASSUME NEW v \in DOMAIN t.bodies
      PROVE  /\ ZonedBy(u.bodies[v], ZoneNames(s) \cup new, SdwanZones(s))
             /\ NoInterface(u, u.bodies[v])
  <2> DEFINE b == t.bodies[v]
             c == u.bodies[v]
             mine == ZoneSpecsOf(t, specs, v)
  <2>1. c.zones = UpsertZones(b.zones, mine) /\ c.sd = b.sd /\ HasTables(b)
    BY <1>2, <1>4, ZonesBodyShape
  <2>2. NamesOf(mine) \subseteq new
    <3>1. \A x \in ToSet(mine) : x \in ToSet(specs)
      BY <1>3, AmongKeeps DEF ZoneSpecsOf
    <3> QED BY <1>3, <3>1 DEF NamesOf
  <2>3. NoInterface(t, b) /\ ZonedBy(b, ZoneNames(s), SdwanZones(s))
    BY <1>2
  <2> HIDE DEF b, c, mine
  <2>4. ZonesNamed(c) = ZonesNamed(b) \cup NamesOf(mine)
    BY <2>1, UpsertedZones DEF ZonesNamed, NamesOf
  <2>5. VdomZones(c) \subseteq VdomZones(b) \cup new
    BY <2>1, <2>2, <2>4 DEF VdomZones, ZonesNamed
  <2> QED BY <1>5, <1>6, <2>1, <2>2, <2>3, <2>4, <2>5 DEF ZonedBy, NoInterface, b, c
<1> QED BY <1>5, <1>7 DEF ApartAt, ToPortmap, ToVersion, u, s, new

(* The other transforms change no name of a zone.                           *)
LEMMA ApartStep ==
  ASSUME ShapeInv, CoherentInv, CoherentAt(stage', tree', told'), TrafficCase(job),
         ApartAt(stage, tree), Next, stage' # "refused"
  PROVE  ApartAt(stage', tree')
<1> DEFINE s == job.tree
<1>1. CASE stage \in {"mode", "vdommap", "hw"}
  <2>1. stage' \in ToSsl
    BY <1>1, NextStage DEF ToSsl
  <2>2. \A v \in DOMAIN tree'.bodies : SourceBody(tree'.bodies[v])
    BY <2>1 DEF CoherentAt
  <2>3. \A b : SourceBody(b) => ZonedBy(b, ZoneNames(s), SdwanZones(s))
    BY DEF SourceBody, ZonedBy, ZonesNamed, ZoneNames, AllZones, SdwanZones
  <2> QED BY <2>1, <2>2, <2>3 DEF ApartAt, ToSsl
<1>2. CASE stage = "ssl"
  <2>1. stage' = "version"
    BY <1>2, NextStage
  <2>2. \A v \in DOMAIN tree.bodies : ZonedBy(tree.bodies[v], ZoneNames(s), SdwanZones(s))
    BY <1>2 DEF ApartAt, ToPortmap, ToVersion
  <2>3. tree' = tree \/ tree' = SslToIpsec(tree)
    BY <1>2, StageActions DEF Ssl, Step
  <2>4. TreeShape(tree)
    BY DEF ShapeInv
  <2>5. CASE tree' = SslToIpsec(tree)
    <3>1. /\ DOMAIN tree'.bodies = DOMAIN tree.bodies
          /\ \A v \in DOMAIN tree.bodies :
               tree'.bodies[v] = SslBody(tree.bodies[v]) /\ HasTables(tree.bodies[v])
      BY <2>4, <2>5, SslTree DEF OnlyBodies, TreeShape
    <3>2. \A v \in DOMAIN tree.bodies :
            tree'.bodies[v].zones = tree.bodies[v].zones /\ tree'.bodies[v].sd = tree.bodies[v].sd
      BY <3>1, SslBodyShape
    <3>3. \A v \in DOMAIN tree'.bodies : ZonedBy(tree'.bodies[v], ZoneNames(s), SdwanZones(s))
      BY <2>2, <3>1, <3>2 DEF ZonedBy, ZonesNamed
    <3> QED BY <2>1, <3>3 DEF ApartAt
  <2> QED BY <2>1, <2>2, <2>3, <2>5 DEF ApartAt
<1>3. CASE stage \in {"version", "device", "identity"}
  <2>1. stage' \in {"device", "identity", "portmap"} /\ tree'.bodies = tree.bodies
    BY <1>3, NextStage, QuietTree
  <2>2. \A v \in DOMAIN tree.bodies : ZonedBy(tree.bodies[v], ZoneNames(s), SdwanZones(s))
    BY <1>3 DEF ApartAt, ToPortmap, ToVersion
  <2> QED BY <2>1, <2>2 DEF ApartAt
<1>4. CASE stage = "portmap"
  <2>1. stage' = "zones" /\ ApartAt("portmap", tree)
    BY <1>4, NextStage
  <2> QED BY <1>4, <2>1, PortmapApart
<1>5. CASE stage = "zones"
  <2>1. stage' = "sdwan" /\ ApartAt("zones", tree)
    BY <1>5, NextStage
  <2> QED BY <1>5, <2>1, ZonesApart
<1>6. CASE stage \in {"sdwan", "dedup", "audit"}
  BY <1>6, NextStage DEF ApartAt, ToPortmap, ToVersion
<1> QED BY <1>1, <1>2, <1>3, <1>4, <1>5, <1>6, NextStage

-----------------------------------------------------------------------------
(* The invariant: at every stage the VDOMs decide the traffic of no zone    *)
(* planned so far as they did on the source device.                         *)
NowAt(v) == IF stage = "mode" THEN v ELSE IF stage = "vdommap" THEN ModeNow(v) ELSE VdomNow(v)
PlannedAt ==
  IF stage \in ToPortmap \cup {"zones"} THEN {}
  ELSE IF stage = "sdwan" THEN NewZones(Plan) ELSE NewNames(Plan)
KeptInv ==
  stage # "refused" /\ ~Plan.scopeOnly =>
    \A v \in DOMAIN job.tree.bodies : VerdictsKept(job.tree, v, tree, NowAt(v), PlannedAt)
TrafficInv == TrafficCase(job) /\ ApartAt(stage, tree) /\ KeptInv

(* The trees in between are usable.                                         *)
LEMMA AlwaysUsable ==
  ASSUME MigrateInv, CoherentInv
  PROVE  Usable(tree)
BY DEF MigrateInv, ShapeInv, PlaceInv, CoherentInv, CoherentAt, Usable

(* Every step keeps the verdicts.                                           *)
LEMMA KeptStep ==
  ASSUME MigrateInv, CoherentInv, TrafficInv, Usable(tree'), Next
  PROVE  KeptInv'
<1>1. ShapeInv /\ Usable(tree) /\ TrafficCase(job) /\ ApartAt(stage, tree)
  BY AlwaysUsable DEF MigrateInv, TrafficInv
<1>2. job' = job /\ Plan' = Plan
  BY <1>1, Frames DEF Plan
<1> SUFFICES ASSUME stage' # "refused", ~Plan.scopeOnly, NEW v \in DOMAIN job.tree.bodies
             PROVE  VerdictsKept(job.tree, v, tree', NowAt(v)', PlannedAt')
  <2>1. KeptInv' <=> (stage' # "refused" /\ ~Plan'.scopeOnly =>
          \A v \in DOMAIN job'.tree.bodies : VerdictsKept(job'.tree, v, tree', NowAt(v)', PlannedAt'))
    BY DEF KeptInv, VerdictsKept, Clear, Verdict, Matches, PortsOf, IfacePorts, InVdom
  <2> QED BY <1>2, <2>1
<1> DEFINE old == NewZones(Plan)
           all == NewNames(Plan)
<1>3. stage # "refused" /\ VerdictsKept(job.tree, v, tree, NowAt(v), PlannedAt)
  <2>1. stage # "refused"
    BY <1>1, NextStage
  <2> QED BY <2>1 DEF TrafficInv, KeptInv
<1>4. /\ NowAt(v) = IF stage = "mode" THEN v ELSE IF stage = "vdommap" THEN ModeNow(v) ELSE VdomNow(v)
      /\ PlannedAt = IF stage \in ToPortmap \cup {"zones"} THEN {}
                     ELSE IF stage = "sdwan" THEN old ELSE all
  BY DEF NowAt, PlannedAt
<1>5. /\ NowAt(v)' = IF stage' = "mode" THEN v
                     ELSE IF stage' = "vdommap" THEN ModeNow(v)' ELSE VdomNow(v)'
      /\ PlannedAt' = IF stage' \in ToPortmap \cup {"zones"} THEN {}
                      ELSE IF stage' = "sdwan" THEN old ELSE all
  <2>1. NewZones(Plan)' = old /\ NewNames(Plan)' = all
    BY <1>2
  <2> QED BY <2>1 DEF NowAt, PlannedAt
<1> HIDE DEF old, all
<1>6. CASE stage = "mode"
  <2>1. NowAt(v)' = ModeNow(v)' /\ PlannedAt' = {} /\ VerdictsKept(job.tree, v, tree, v, {})
    BY <1>1, <1>3, <1>4, <1>5, <1>6, NextStage DEF ToPortmap, ToVersion
  <2> QED BY <1>1, <1>6, <2>1, ModeTraffic
<1>7. CASE stage = "vdommap"
  <2>1. NowAt(v)' = VdomNow(v)' /\ PlannedAt' = {} /\ VerdictsKept(job.tree, v, tree, ModeNow(v), {})
    BY <1>1, <1>3, <1>4, <1>5, <1>7, NextStage DEF ToPortmap, ToVersion
  <2> QED BY <1>1, <1>7, <2>1, VdomMapTraffic
<1>8. CASE stage \in {"hw", "ssl", "portmap"}
  <2>1. NowAt(v)' = VdomNow(v)' /\ PlannedAt' = {} /\ VerdictsKept(job.tree, v, tree, VdomNow(v), {})
    BY <1>1, <1>3, <1>4, <1>5, <1>8, NextStage DEF ToPortmap, ToVersion
  <2> QED BY <1>1, <1>8, <2>1, HwTraffic, SslTraffic, PortmapTraffic
<1>9. CASE stage \in {"version", "device", "identity", "audit"}
  <2>1. /\ NowAt(v)' = VdomNow(v)' /\ PlannedAt' = PlannedAt
        /\ VerdictsKept(job.tree, v, tree, VdomNow(v), PlannedAt)
    BY <1>1, <1>3, <1>4, <1>5, <1>9, NextStage DEF ToPortmap, ToVersion
  <2>2. VdomNow(v)' = VdomNow(v)
    BY <1>1, <1>9, NamesStay
  <2> QED BY <1>1, <1>9, <2>1, <2>2, QuietTree, QuietTraffic
<1>10. CASE stage = "zones"
  <2>1. NowAt(v)' = VdomNow(v)' /\ PlannedAt' = old /\ VerdictsKept(job.tree, v, tree, VdomNow(v), {})
    BY <1>1, <1>3, <1>4, <1>5, <1>10, NextStage DEF ToPortmap, ToVersion
  <2> QED BY <1>1, <1>10, <2>1, ZonesTraffic DEF old
<1>11. CASE stage = "sdwan"
  <2>1. NowAt(v)' = VdomNow(v)' /\ PlannedAt' = all /\ VerdictsKept(job.tree, v, tree, VdomNow(v), old)
    BY <1>1, <1>3, <1>4, <1>5, <1>11, NextStage DEF ToPortmap, ToVersion
  <2> QED BY <1>1, <1>11, <2>1, SdwanTraffic DEF old, all
<1>12. CASE stage = "dedup"
  <2>1. NowAt(v)' = VdomNow(v)' /\ PlannedAt' = all /\ VerdictsKept(job.tree, v, tree, VdomNow(v), all)
    BY <1>1, <1>3, <1>4, <1>5, <1>12, NextStage DEF ToPortmap, ToVersion
  <2> QED BY <1>1, <1>12, <2>1, DedupTraffic
<1> QED BY <1>1, <1>6, <1>7, <1>8, <1>9, <1>10, <1>11, <1>12, NextStage

(* So does the invariant hold after every step.                             *)
LEMMA TrafficStep ==
  ASSUME MigrateInv, CoherentInv, TrafficInv, [Next]_vars, MigrateInv', CoherentInv'
  PROVE  TrafficInv'
<1>1. Usable(tree')
  BY DEF MigrateInv, ShapeInv, PlaceInv, CoherentInv, CoherentAt, Usable
<1>2. CASE UNCHANGED vars
  BY <1>2 DEF vars, TrafficInv, ApartAt, KeptInv, NowAt, PlannedAt, ModeNow, VdomNow, Plan
<1>3. CASE Next
  <2>1. job' = job
    BY <1>3, Frames DEF MigrateInv
  <2>2. ApartAt(stage', tree')
    <3>1. CASE stage' = "refused"
      BY <3>1 DEF ApartAt, ToPortmap, ToVersion
    <3>2. CASE stage' # "refused"
      <4>1. CoherentAt(stage', tree', told')
        BY <2>1 DEF CoherentInv, CoherentAt, CanResolve, SoundBody, SourceBody, KnownBody,
                    Steerable, Plan
      <4> QED BY <1>3, <3>2, <4>1, ApartStep DEF MigrateInv, TrafficInv
    <3> QED BY <3>1, <3>2
  <2>3. KeptInv'
    BY <1>1, <1>3, KeptStep
  <2>4. ApartAt(stage, tree)'
    BY <2>1, <2>2 DEF ApartAt, Plan
  <2> QED BY <2>1, <2>3, <2>4 DEF TrafficInv
<1> QED BY <1>2, <1>3

(* What is given besides: the names of the source and of the plan are       *)
(* apart.  TLC checks it of every case the run migrates (MCCasesApart).     *)
CasesApart == \A c \in Cases : TrafficCase(c)

(* At the start nothing has changed.                                        *)
LEMMA TrafficFromStart ==
  ASSUME CasesApart, Init
  PROVE  TrafficInv
<1>1. PICK c \in Cases : job = [c EXCEPT !.plan = TranslateMembers(@)]
  BY DEF Init
<1>2. /\ job.tree = c.tree /\ job.plan.ssl = c.plan.ssl
      /\ NewZones(job.plan) = NewZones(c.plan) /\ NewSdwanZones(job.plan) = NewSdwanZones(c.plan)
  BY <1>1, CasesAssumption, TranslatedCase
<1>3. TrafficCase(job)
  BY <1>2 DEF CasesApart, TrafficCase, NamesApart
<1>4. tree = job.tree /\ stage = "mode"
  BY DEF Init
<1>5. ApartAt(stage, tree)
  BY <1>4 DEF ApartAt, ZonedBy, ZonesNamed, ZoneNames, AllZones, SdwanZones
<1>6. KeptInv
  BY <1>4 DEF KeptInv, NowAt, VerdictsKept
<1> QED BY <1>3, <1>5, <1>6 DEF TrafficInv

(* Whatever the configuration and the plan, if besides the names of         *)
(* interfaces and zones are apart, then after any migration every packet    *)
(* between ports that no planned zone contains gets the verdict it got on   *)
(* the source device (portmap.apply_tree, zones.apply_zones,                *)
(* sdwan.apply_sdwan, sslvpn.convert, tree_refs.dedup_policies).            *)
THEOREM OtherTrafficStays ==
  CasesCoherent /\ CasesApart => (Spec => []OtherTrafficUntouched)
<1>1. TrafficInv => OtherTrafficUntouched
  <2> SUFFICES ASSUME TrafficInv, Lands, NEW v \in DOMAIN job.tree.bodies, NEW f \in Flows,
                      {f[1], f[2]} \cap PlannedPorts(VdomNow(v)) = {}
               PROVE  Verdict(tree, VdomNow(v), f) = Verdict(job.tree, v, f)
    BY DEF OtherTrafficUntouched
  <2>1. stage = "done" /\ ~Plan.scopeOnly
    BY DEF Lands, Done
  <2>2. VerdictsKept(job.tree, v, tree, VdomNow(v), NewNames(Plan))
    <3>1. NowAt(v) = VdomNow(v) /\ PlannedAt = NewNames(Plan)
      BY <2>1 DEF NowAt, PlannedAt, ToPortmap, ToVersion
    <3> QED BY <2>1, <3>1 DEF TrafficInv, KeptInv
  <2>3. PlannedZones = NewNames(Plan)
    BY DEF PlannedZones, NewNames, NewZones, NewSdwanZones
  <2>4. Clear(tree, VdomNow(v), NewNames(Plan), f)
    BY <2>3 DEF PlannedPorts, Clear
  <2> QED BY <2>2, <2>4 DEF VerdictsKept
<1>2. MigrateInv /\ CoherentInv /\ TrafficInv /\ [Next]_vars => (MigrateInv /\ CoherentInv /\ TrafficInv)'
  BY MigrateStep, CoherentStep, TrafficStep
<1>3. CasesCoherent /\ CasesApart /\ Init => MigrateInv /\ CoherentInv /\ TrafficInv
  BY MigrateStart, CoherentFromStart, TrafficFromStart
<1> QED BY <1>1, <1>2, <1>3, PTL DEF Spec
=============================================================================
