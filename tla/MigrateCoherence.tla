-------------------------- MODULE MigrateCoherence ---------------------------
(***************************************************************************)
(* The output of a migration is coherent, whatever the configuration, the  *)
(* plan and the rules are: every reference resolves, no key is used twice, *)
(* policies name zones and not their members, and bound addresses follow   *)
(* their policies or are told.  What the source has to satisfy is          *)
(* CoherentCase (Migrate).                                                 *)
(*                                                                         *)
(* The argument follows the transforms.  Up to the SSL-VPN conversion      *)
(* every body is one of the source; up to the port map its names are known *)
(* in the source, so a map that is injective on those renames no two       *)
(* alike; from then on the names of new zones are no interface, which the  *)
(* validation checks, and no tunnel, and their members are interfaces of   *)
(* the one VDOM the zone is made in.                                       *)
(***************************************************************************)
EXTENDS MigrateProofs

(* The names in the policies, zones and SD-WAN members of a body.           *)
PolicyNames(b) == UNION {p.src \cup p.dst : p \in ToSet(b.policies)}
NamesIn(b) == PolicyNames(b) \cup Joined(b)
Known(t) == IfaceNames(t) \cup OtherNames(t)
TunnelsNamed(b) == {p.name : p \in b.tunnels}

-----------------------------------------------------------------------------
(* The references of a body, kind by kind.                                  *)
RefsResolve(b, all) ==
  /\ \A o \in b.others : o.at # "policy" => o.ifc \in all
  /\ \A p \in b.tunnels : p.ifc \in all
  /\ \A a \in b.addrs : a.bound \in all
  /\ \A i \in DOMAIN b.routes : b.routes[i].dev \in all
  /\ b.ssl # None => b.ssl.ifc \in all
PoliciesResolve(b, all) ==
  \A i \in DOMAIN b.policies : b.policies[i].src \cup b.policies[i].dst \subseteq all
ZonesResolve(b, names) ==
  /\ \A z \in b.zones : z.members \subseteq names
  /\ \A i \in DOMAIN b.sd.members :
       b.sd.members[i].ifc \in names /\ b.sd.members[i].zone \in b.sd.zones
  /\ \A i \in DOMAIN b.routes : b.routes[i].zone = None \/ b.routes[i].zone \in b.sd.zones

Ref(at, ifc) == [at |-> at, ifc |-> ifc]

(* The entries of a sequence, by index and as a set.                        *)
LEMMA EntriesAreIndexed ==
  ASSUME NEW s
  PROVE  /\ \A i \in DOMAIN s : s[i] \in ToSet(s)
         /\ \A e \in ToSet(s) : \E i \in DOMAIN s : e = s[i]
BY DEF ToSet

(* The references of a body resolve when those of each kind do.             *)
LEMMA ResolvesByKind ==
  ASSUME NEW b, NEW own, NEW names, names = own \cup Tunnels(b)
  PROVE  BodyResolves(b, own) <=>
           /\ PoliciesResolve(b, names \cup VdomZones(b) \cup {"any"})
           /\ RefsResolve(b, names \cup VdomZones(b) \cup {None})
           /\ ZonesResolve(b, names)
<1> DEFINE all == names \cup VdomZones(b) \cup {None}
           some == names \cup VdomZones(b) \cup {"any"}
<1>1. (\A p \in ToSet(b.policies) : p.src \cup p.dst \subseteq some) <=> PoliciesResolve(b, some)
  <2> HIDE DEF some
  <2> QED BY EntriesAreIndexed DEF PoliciesResolve
<1>2. (\A r \in BodyRefs(b) : r.at # "policy" => r.ifc \in all) <=>
        /\ \A o \in b.others : o.at # "policy" => o.ifc \in all
        /\ \A p \in b.tunnels : p.ifc \in all
        /\ \A a \in b.addrs : a.bound \in all
        /\ \A i \in DOMAIN b.routes : b.routes[i].dev \in all
  <2> DEFINE R == BodyRefs(b)
             phases == {Ref("phase1", p.ifc) : p \in b.tunnels}
             bounds == {Ref("bound", a.bound) : a \in b.addrs}
             devs == {Ref("route", r.dev) : r \in ToSet(b.routes)}
             pols == UNION {{Ref("policy", n) : n \in p.src \cup p.dst} : p \in ToSet(b.policies)}
  <2>1. R = b.others \cup phases \cup bounds \cup devs \cup pols
    BY DEF BodyRefs, Ref
  <2>2. \A at, ifc : Ref(at, ifc).at = at /\ Ref(at, ifc).ifc = ifc
    BY DEF Ref
  <2> HIDE DEF all
  <2>3. (\A r \in phases : r.at # "policy" => r.ifc \in all) <=> (\A p \in b.tunnels : p.ifc \in all)
    BY <2>2
  <2>4. (\A r \in bounds : r.at # "policy" => r.ifc \in all) <=> (\A a \in b.addrs : a.bound \in all)
    BY <2>2
  <2>5. (\A r \in devs : r.at # "policy" => r.ifc \in all)
          <=> (\A r \in ToSet(b.routes) : r.dev \in all)
    BY <2>2
  <2>6. \A r \in pols : r.at = "policy"
    BY <2>2
  <2> HIDE DEF R, phases, bounds, devs, pols
  <2>7. (\A r \in R : r.at # "policy" => r.ifc \in all) <=>
          /\ \A r \in b.others : r.at # "policy" => r.ifc \in all
          /\ \A r \in phases : r.at # "policy" => r.ifc \in all
          /\ \A r \in bounds : r.at # "policy" => r.ifc \in all
          /\ \A r \in devs : r.at # "policy" => r.ifc \in all
    BY <2>1, <2>6
  <2>8. (\A r \in ToSet(b.routes) : r.dev \in all) <=> (\A i \in DOMAIN b.routes : b.routes[i].dev \in all)
    BY EntriesAreIndexed
  <2> QED BY <2>3, <2>4, <2>5, <2>7, <2>8 DEF R
<1>3. Joined(b) \subseteq names <=>
        /\ \A z \in b.zones : z.members \subseteq names
        /\ \A i \in DOMAIN b.sd.members : b.sd.members[i].ifc \in names
  <2>1. SdwanPorts(b) \subseteq names <=> \A m \in ToSet(b.sd.members) : m.ifc \in names
    BY DEF SdwanPorts
  <2>2. UNION {z.members : z \in b.zones} \subseteq names <=> \A z \in b.zones : z.members \subseteq names
    OBVIOUS
  <2>3. (\A m \in ToSet(b.sd.members) : m.ifc \in names)
          <=> \A i \in DOMAIN b.sd.members : b.sd.members[i].ifc \in names
    BY EntriesAreIndexed
  <2> QED BY <2>1, <2>2, <2>3 DEF Joined
<1>4. /\ (\A r \in ToSet(b.routes) : r.zone = None \/ r.zone \in b.sd.zones) <=>
           \A i \in DOMAIN b.routes : b.routes[i].zone = None \/ b.routes[i].zone \in b.sd.zones
      /\ (\A m \in ToSet(b.sd.members) : m.zone \in b.sd.zones) <=>
           \A i \in DOMAIN b.sd.members : b.sd.members[i].zone \in b.sd.zones
  BY EntriesAreIndexed
<1>5. BodyResolves(b, own) <=>
        /\ \A p \in ToSet(b.policies) : p.src \cup p.dst \subseteq some
        /\ \A r \in BodyRefs(b) : r.at # "policy" => r.ifc \in all
        /\ Joined(b) \subseteq names
        /\ b.ssl # None => b.ssl.ifc \in all
        /\ \A r \in ToSet(b.routes) : r.zone = None \/ r.zone \in b.sd.zones
        /\ \A m \in ToSet(b.sd.members) : m.zone \in b.sd.zones
  BY DEF BodyResolves
<1>6. RefsResolve(b, all) <=>
        /\ \A o \in b.others : o.at # "policy" => o.ifc \in all
        /\ \A p \in b.tunnels : p.ifc \in all
        /\ \A a \in b.addrs : a.bound \in all
        /\ \A i \in DOMAIN b.routes : b.routes[i].dev \in all
        /\ b.ssl # None => b.ssl.ifc \in all
  BY DEF RefsResolve
<1> HIDE DEF all, some
<1> QED BY <1>1, <1>2, <1>3, <1>4, <1>5, <1>6 DEF ZonesResolve, all, some

(* In a VDOM with more interfaces everything still resolves.                *)
LEMMA ResolvesAmongMore ==
  ASSUME NEW b, NEW own, BodyResolves(b, own), NEW more, own \subseteq more
  PROVE  BodyResolves(b, more)
<1> DEFINE names(o) == o \cup Tunnels(b)
           some(o) == names(o) \cup VdomZones(b) \cup {"any"}
           all(o) == names(o) \cup VdomZones(b) \cup {None}
<1>1. \A o : BodyResolves(b, o) <=> /\ PoliciesResolve(b, some(o)) /\ RefsResolve(b, all(o))
                                   /\ ZonesResolve(b, names(o))
  BY ResolvesByKind
<1>2. names(own) \subseteq names(more) /\ some(own) \subseteq some(more) /\ all(own) \subseteq all(more)
  OBVIOUS
<1> HIDE DEF names, some, all
<1>3. /\ PoliciesResolve(b, some(own)) => PoliciesResolve(b, some(more))
      /\ RefsResolve(b, all(own)) => RefsResolve(b, all(more))
      /\ ZonesResolve(b, names(own)) => ZonesResolve(b, names(more))
  BY <1>2 DEF PoliciesResolve, RefsResolve, ZonesResolve
<1> QED BY <1>1, <1>3

(* No policy of the table names a member: entry by entry.                   *)
LEMMA ThroughByEntry ==
  ASSUME NEW b
  PROVE  /\ ThroughZones(b) <=>
              \A i \in DOMAIN b.policies :
                (b.policies[i].src \cup b.policies[i].dst) \cap Joined(b) = {}
         /\ \A excused : BoundFollow(b, excused) <=>
              \A i \in DOMAIN b.policies, a \in b.addrs :
                a.name = b.policies[i].addr /\ a.bound # None
                  => a.bound \in b.policies[i].src \cup b.policies[i].dst \cup excused
         /\ \A i \in DOMAIN b.policies :
              b.policies[i].src \cup b.policies[i].dst \subseteq PolicyNames(b)
<1>1. \A i \in DOMAIN b.policies : b.policies[i] \in ToSet(b.policies)
  BY EntriesAreIndexed
<1>2. ThroughZones(b) <=>
        \A i \in DOMAIN b.policies :
          (b.policies[i].src \cup b.policies[i].dst) \cap Joined(b) = {}
  BY EntriesAreIndexed DEF ThroughZones
<1>3. ASSUME NEW excused
      PROVE  BoundFollow(b, excused) <=>
              \A i \in DOMAIN b.policies, a \in b.addrs :
                a.name = b.policies[i].addr /\ a.bound # None
                  => a.bound \in b.policies[i].src \cup b.policies[i].dst \cup excused
  BY EntriesAreIndexed DEF BoundFollow
<1>4. \A i \in DOMAIN b.policies :
        b.policies[i].src \cup b.policies[i].dst \subseteq PolicyNames(b)
  BY <1>1 DEF PolicyNames
<1> QED BY <1>2, <1>3, <1>4

-----------------------------------------------------------------------------
(* sslvpn.convert: the new tunnel takes the place of the SSL-VPN interface. *)
LEMMA SslCoherent ==
  ASSUME NEW b, HasTables(b), Converts(b) => SslBySource(b), NEW u, u = SslBody(b),
         NEW own, BodyResolves(b, own), ThroughZones(b), BoundFollow(b, {})
  PROVE  /\ BodyResolves(u, own) /\ ThroughZones(u) /\ BoundFollow(u, {})
         /\ NamesIn(u) \subseteq NamesIn(b) \cup {TunnelName}
         /\ VdomZones(u) = VdomZones(b)
         /\ Tunnels(u) \subseteq Tunnels(b) \cup {TunnelName}
         /\ TunnelsNamed(u) \subseteq TunnelsNamed(b) \cup {TunnelName}
         /\ u.ssl # None => u.ssl = b.ssl
<1>1. CASE ~Converts(b)
  <2>1. u = b
    BY <1>1, SslBodyShape
  <2> QED BY <2>1
<1>2. CASE Converts(b)
  <2> DEFINE names == own \cup Tunnels(b)
             more == own \cup Tunnels(u)
  <2>1. /\ b.tunnels \subseteq u.tunnels
        /\ \E q \in u.tunnels : q.name = TunnelName
        /\ \A q \in u.tunnels : q \in b.tunnels \/ (q.name = TunnelName /\ q.ifc = b.ssl.ifc)
        /\ u.zones = b.zones /\ u.sd = b.sd /\ u.addrs = b.addrs
        /\ u.routes = b.routes /\ u.others = b.others /\ u.ssl = None
    BY <1>2, SslBodyShape
  <2>2. /\ DOMAIN u.policies = DOMAIN b.policies
        /\ \A i \in DOMAIN b.policies :
             /\ u.policies[i].src = RenameAll(Redirect, b.policies[i].src)
             /\ u.policies[i].dst = b.policies[i].dst
             /\ u.policies[i].addr = b.policies[i].addr
    BY <1>2, SslBodyShape DEF SameRest
  <2>3. \A n : Rename(Redirect, n) = IF n = SslName THEN TunnelName ELSE n
    BY DEF Rename, Redirect
  <2>4. /\ \A S : \A n \in RenameAll(Redirect, S) :
             n = TunnelName \/ (n \in S /\ n # SslName)
        /\ \A S : \A n \in S : n # SslName => n \in RenameAll(Redirect, S)
    BY <2>3 DEF RenameAll
  <2>5. VdomZones(u) = VdomZones(b) /\ Joined(u) = Joined(b)
    BY <2>1 DEF VdomZones, Joined, SdwanPorts
  <2>6. /\ TunnelsNamed(u) \subseteq TunnelsNamed(b) \cup {TunnelName}
        /\ TunnelName \in TunnelsNamed(u) /\ TunnelsNamed(b) \subseteq TunnelsNamed(u)
    BY <2>1 DEF TunnelsNamed
  <2>7. Tunnels(u) = TunnelsNamed(u) /\ Tunnels(b) = TunnelsNamed(b) \cup {SslName}
    BY <1>2, <2>1 DEF Tunnels, TunnelsNamed, Converts
  <2>8. SslBySource(b)
    BY <1>2
  <2>9. /\ \A i \in DOMAIN b.policies : SslName \notin b.policies[i].dst
        /\ Joined(b) \cap {SslName, TunnelName} = {}
        /\ \A a \in b.addrs : a.bound # SslName
    <3>1. \A a \in b.addrs : Ref("bound", a.bound) \in BodyRefs(b)
      BY DEF BodyRefs, Ref
    <3>2. \A a \in b.addrs : Ref("bound", a.bound).at # "policy" /\ Ref("bound", a.bound).ifc = a.bound
      BY DEF Ref
    <3>3. \A r \in BodyRefs(b) : r.at # "policy" => r.ifc # SslName
      BY <2>8 DEF SslBySource
    <3>4. \A i \in DOMAIN b.policies : SslName \notin b.policies[i].dst
      BY <2>8, EntriesAreIndexed DEF SslBySource
    <3> QED BY <2>8, <3>1, <3>2, <3>3, <3>4 DEF SslBySource
  <2>10. BodyResolves(u, own)
    <3>1. /\ PoliciesResolve(b, names \cup VdomZones(b) \cup {"any"})
          /\ RefsResolve(b, names \cup VdomZones(b) \cup {None})
          /\ ZonesResolve(b, names)
      BY ResolvesByKind
    <3>2. names \ {SslName} \subseteq more /\ TunnelName \in more
      BY <2>6, <2>7
    <3> DEFINE before == names \cup VdomZones(b)
               after == more \cup VdomZones(u)
    <3>3. before \ {SslName} \subseteq after /\ TunnelName \in after
      BY <2>5, <3>2
    <3> HIDE DEF names, more, before, after
    <3>4. PoliciesResolve(u, after \cup {"any"})
      <4> SUFFICES ASSUME NEW i \in DOMAIN b.policies, NEW n \in u.policies[i].src \cup u.policies[i].dst
                   PROVE  n \in after \cup {"any"}
        BY <2>2 DEF PoliciesResolve
      <4>1. n = TunnelName \/ (n # SslName /\ n \in b.policies[i].src \cup b.policies[i].dst)
        BY <2>2, <2>4, <2>9
      <4>2. b.policies[i].src \cup b.policies[i].dst \subseteq before \cup {"any"}
        BY <3>1 DEF PoliciesResolve, before
      <4> QED BY <3>3, <4>1, <4>2
    <3>5. RefsResolve(u, after \cup {None})
      <4>1. RefsResolve(b, before \cup {None})
        BY <3>1 DEF before
      <4>2. \A r \in BodyRefs(b) : r.at # "policy" => r.ifc # SslName
        BY <2>8 DEF SslBySource
      <4>3. \A o \in b.others : o \in BodyRefs(b)
        BY DEF BodyRefs
      <4>4. \A p \in b.tunnels : p.ifc # SslName
        <5>1. \A p \in b.tunnels : Ref("phase1", p.ifc) \in BodyRefs(b)
          BY DEF BodyRefs, Ref
        <5>2. \A x : Ref("phase1", x).at # "policy" /\ Ref("phase1", x).ifc = x
          BY DEF Ref
        <5> QED BY <4>2, <5>1, <5>2
      <4>5. \A i \in DOMAIN b.routes : b.routes[i].dev # SslName
        <5>1. \A r \in ToSet(b.routes) : Ref("route", r.dev) \in BodyRefs(b)
          BY DEF BodyRefs, Ref
        <5>2. \A x : Ref("route", x).at # "policy" /\ Ref("route", x).ifc = x
          BY DEF Ref
        <5> QED BY <4>2, <5>1, <5>2, EntriesAreIndexed
      <4>6. b.ssl # None /\ b.ssl.ifc # SslName
        BY <1>2, <2>8 DEF Converts, SslBySource
      <4> DEFINE old == before \cup {None}
                 new == after \cup {None}
      <4>7. \A x \in old : x # SslName => x \in new
        BY <3>3
      <4> HIDE DEF old, new
      <4>8. RefsResolve(b, old)
        BY <4>1 DEF old
      <4>9. RefsResolve(u, new)
        <5>1. \A o \in u.others : o.at # "policy" => o.ifc \in new
          BY <2>1, <4>2, <4>3, <4>7, <4>8 DEF RefsResolve
        <5>2. \A p \in b.tunnels : p.ifc \in new
          BY <4>4, <4>7, <4>8 DEF RefsResolve
        <5>3. b.ssl.ifc \in new
          BY <4>6, <4>7, <4>8 DEF RefsResolve
        <5>4. \A p \in u.tunnels : p.ifc \in new
          BY <2>1, <5>2, <5>3
        <5>5. \A a \in u.addrs : a.bound \in new
          BY <2>1, <2>9, <4>7, <4>8 DEF RefsResolve
        <5>6. \A i \in DOMAIN u.routes : u.routes[i].dev \in new
          BY <2>1, <4>5, <4>7, <4>8 DEF RefsResolve
        <5> QED BY <2>1, <5>1, <5>4, <5>5, <5>6 DEF RefsResolve
      <4> QED BY <4>9 DEF new
    <3>6. ZonesResolve(u, more)
      <4>1. \A z \in b.zones : z.members \subseteq Joined(b)
        BY DEF Joined
      <4>2. \A i \in DOMAIN b.sd.members : b.sd.members[i].ifc \in Joined(b)
        BY EntriesAreIndexed DEF Joined, SdwanPorts
      <4>3. SslName \notin Joined(b)
        BY <2>9
      <4> QED BY <2>1, <3>1, <3>2, <4>1, <4>2, <4>3 DEF ZonesResolve
    <3> QED BY <3>4, <3>5, <3>6, ResolvesByKind DEF more, after
  <2>11. ThroughZones(u)
    <3>1. \A i \in DOMAIN b.policies :
            (b.policies[i].src \cup b.policies[i].dst) \cap Joined(b) = {}
      BY ThroughByEntry
    <3>2. \A i \in DOMAIN u.policies :
            (u.policies[i].src \cup u.policies[i].dst) \cap Joined(u) = {}
      BY <2>2, <2>4, <2>5, <2>9, <3>1
    <3> QED BY <3>2, ThroughByEntry
  <2>12. BoundFollow(u, {})
    <3>1. \A i \in DOMAIN b.policies, a \in b.addrs :
            a.name = b.policies[i].addr /\ a.bound # None
              => a.bound \in b.policies[i].src \cup b.policies[i].dst
      BY ThroughByEntry
    <3>2. \A i \in DOMAIN u.policies, a \in u.addrs :
            a.name = u.policies[i].addr /\ a.bound # None
              => a.bound \in u.policies[i].src \cup u.policies[i].dst
      BY <2>1, <2>2, <2>4, <2>9, <3>1
    <3> QED BY <3>2, ThroughByEntry
  <2>13. PolicyNames(u) \subseteq PolicyNames(b) \cup {TunnelName}
    <3> SUFFICES ASSUME NEW p \in ToSet(u.policies), NEW n \in p.src \cup p.dst
                 PROVE  n \in PolicyNames(b) \cup {TunnelName}
      BY DEF PolicyNames
    <3>1. PICK i \in DOMAIN b.policies : p = u.policies[i]
      BY <2>2, EntriesAreIndexed
    <3> QED BY <2>2, <2>4, <3>1, ThroughByEntry
  <2> QED BY <2>1, <2>5, <2>6, <2>7, <2>10, <2>11, <2>12, <2>13 DEF NamesIn
<1> QED BY <1>1, <1>2

-----------------------------------------------------------------------------
(* apply_tree: the names of a body follow the map, which leaves tunnels,    *)
(* zones and "any" alone and makes no two names the same.                   *)
LEMMA RenameCoherent ==
  ASSUME NEW b, HasTables(b), NEW m, NEW u, u = RenameBody(b, m),
         NEW fixed, DOMAIN m \cap fixed = {}, {"any", None} \subseteq fixed,
         VdomZones(b) \cup Tunnels(b) \subseteq fixed, b.ssl # None => u.ssl # None,
         NEW known, NamesIn(b) \subseteq known,
         \A x, y \in known : Rename(m, x) = Rename(m, y) => x = y
  PROVE  /\ \A own : BodyResolves(b, own) => BodyResolves(u, RenameAll(m, own))
         /\ ThroughZones(b) => ThroughZones(u)
         /\ BoundFollow(b, {}) => BoundFollow(u, {})
         /\ TunnelsNamed(u) = TunnelsNamed(b)
<1>1. /\ \A n \in fixed : Rename(m, n) = n
      /\ \A S, x : x \in S => Rename(m, x) \in RenameAll(m, S)
      /\ \A S : \A y \in RenameAll(m, S) : \E x \in S : y = Rename(m, x)
  BY DEF Rename, RenameAll
<1>2. /\ \A z \in u.zones : \E y \in b.zones : z.name = y.name /\ z.members = RenameAll(m, y.members)
      /\ \A y \in b.zones : \E z \in u.zones : z.name = y.name
      /\ u.sd.zones = b.sd.zones
      /\ DOMAIN u.sd.members = DOMAIN b.sd.members
      /\ \A i \in DOMAIN b.sd.members :
           /\ u.sd.members[i].ifc = Rename(m, b.sd.members[i].ifc)
           /\ u.sd.members[i].zone = b.sd.members[i].zone
  BY RenameBodyShape
<1>3. /\ \A o \in u.others : \E q \in b.others : o.at = q.at /\ o.ifc = Rename(m, q.ifc)
      /\ u.ssl # None => b.ssl # None /\ u.ssl.ifc = Rename(m, b.ssl.ifc)
      /\ \A q \in b.tunnels : \E r \in u.tunnels : r.name = q.name
      /\ \A r \in u.tunnels : \E q \in b.tunnels : r.name = q.name /\ r.ifc = Rename(m, q.ifc)
  BY RenameBodyShape
<1>4. /\ DOMAIN u.routes = DOMAIN b.routes
      /\ \A i \in DOMAIN b.routes : /\ u.routes[i].dev = Rename(m, b.routes[i].dev)
                                    /\ u.routes[i].zone = b.routes[i].zone
  BY RenameBodyShape DEF Rerouted
<1>5. /\ DOMAIN u.policies = DOMAIN b.policies
      /\ \A i \in DOMAIN b.policies :
           /\ u.policies[i].src = RenameAll(m, b.policies[i].src)
           /\ u.policies[i].dst = RenameAll(m, b.policies[i].dst)
           /\ u.policies[i].addr = b.policies[i].addr
  BY RenameBodyShape DEF Repointed
<1>6. \A a \in u.addrs : \E c \in b.addrs : a.name = c.name /\ a.bound = Rename(m, c.bound)
  BY RenameBodyShape DEF BoundAnew
<1>7. TunnelsNamed(u) = TunnelsNamed(b)
  BY <1>3 DEF TunnelsNamed
<1>8. Tunnels(u) = Tunnels(b)
  BY <1>3, <1>7 DEF Tunnels, TunnelsNamed
<1>9. VdomZones(u) = VdomZones(b)
  <2>1. {z.name : z \in u.zones} = {z.name : z \in b.zones}
    BY <1>2
  <2> QED BY <1>2, <2>1 DEF VdomZones
<1>10. \A n \in Joined(u) : \E x \in Joined(b) : n = Rename(m, x)
  <2> SUFFICES ASSUME NEW n \in Joined(u) PROVE \E x \in Joined(b) : n = Rename(m, x)
    OBVIOUS
  <2>1. CASE \E z \in u.zones : n \in z.members
    <3>1. PICK y \in b.zones : n \in RenameAll(m, y.members)
      BY <1>2, <2>1
    <3>2. PICK x \in y.members : n = Rename(m, x)
      BY <1>1, <3>1
    <3> QED BY <3>2 DEF Joined
  <2>2. CASE n \in SdwanPorts(u)
    <3>1. PICK i \in DOMAIN u.sd.members : n = u.sd.members[i].ifc
      BY <2>2, EntriesAreIndexed DEF SdwanPorts
    <3>2. b.sd.members[i].ifc \in SdwanPorts(b)
      BY <1>2, EntriesAreIndexed DEF SdwanPorts
    <3> QED BY <1>2, <3>1, <3>2 DEF Joined
  <2> QED BY <2>1, <2>2 DEF Joined
<1>11. ASSUME NEW own, BodyResolves(b, own) PROVE BodyResolves(u, RenameAll(m, own))
  <2> DEFINE names == own \cup Tunnels(b)
             some == names \cup VdomZones(b) \cup {"any"}
             all == names \cup VdomZones(b) \cup {None}
             namesU == RenameAll(m, own) \cup Tunnels(u)
             someU == namesU \cup VdomZones(u) \cup {"any"}
             allU == namesU \cup VdomZones(u) \cup {None}
  <2>1. PoliciesResolve(b, some) /\ RefsResolve(b, all) /\ ZonesResolve(b, names)
    BY <1>11, ResolvesByKind
  <2>2. \A n \in names : Rename(m, n) \in namesU
    BY <1>1, <1>8
  <2>3. \A n \in some : Rename(m, n) \in someU
    BY <1>1, <1>9, <2>2
  <2>4. \A n \in all : Rename(m, n) \in allU
    BY <1>1, <1>9, <2>2
  <2> HIDE DEF names, some, all, namesU, someU, allU
  <2>5. \A i \in DOMAIN u.policies : u.policies[i].src \cup u.policies[i].dst \subseteq someU
    <3> SUFFICES ASSUME NEW i \in DOMAIN u.policies, NEW n \in u.policies[i].src \cup u.policies[i].dst
                 PROVE  n \in someU
      OBVIOUS
    <3>1. PICK x \in b.policies[i].src \cup b.policies[i].dst : n = Rename(m, x)
      BY <1>1, <1>5
    <3>2. x \in some
      BY <1>5, <2>1, <3>1 DEF PoliciesResolve
    <3> QED BY <2>3, <3>1, <3>2
  <2>6. RefsResolve(u, allU)
    <3>1. \A o \in u.others : o.at # "policy" => o.ifc \in allU
      BY <1>3, <2>1, <2>4 DEF RefsResolve
    <3>2. \A p \in u.tunnels : p.ifc \in allU
      BY <1>3, <2>1, <2>4 DEF RefsResolve
    <3>3. \A a \in u.addrs : a.bound \in allU
      BY <1>6, <2>1, <2>4 DEF RefsResolve
    <3>4. \A i \in DOMAIN u.routes : u.routes[i].dev \in allU
      BY <1>4, <2>1, <2>4 DEF RefsResolve
    <3>5. u.ssl # None => u.ssl.ifc \in allU
      BY <1>3, <2>1, <2>4 DEF RefsResolve
    <3> QED BY <3>1, <3>2, <3>3, <3>4, <3>5 DEF RefsResolve
  <2>7. ZonesResolve(u, namesU)
    <3>1. \A z \in u.zones : z.members \subseteq namesU
      <4> SUFFICES ASSUME NEW z \in u.zones, NEW n \in z.members PROVE n \in namesU
        OBVIOUS
      <4>1. PICK y \in b.zones : z.members = RenameAll(m, y.members)
        BY <1>2
      <4>2. PICK x \in y.members : n = Rename(m, x)
        BY <1>1, <4>1
      <4> QED BY <2>1, <2>2, <4>2 DEF ZonesResolve
    <3>2. \A i \in DOMAIN u.sd.members :
            u.sd.members[i].ifc \in namesU /\ u.sd.members[i].zone \in u.sd.zones
      BY <1>2, <2>1, <2>2 DEF ZonesResolve
    <3>3. \A i \in DOMAIN u.routes : u.routes[i].zone = None \/ u.routes[i].zone \in u.sd.zones
      BY <1>2, <1>4, <2>1 DEF ZonesResolve
    <3> QED BY <3>1, <3>2, <3>3 DEF ZonesResolve
  <2>8. PoliciesResolve(u, someU)
    BY <2>5 DEF PoliciesResolve
  <2> QED BY <2>6, <2>7, <2>8, ResolvesByKind DEF namesU, someU, allU
<1>12. ASSUME ThroughZones(b) PROVE ThroughZones(u)
  <2> SUFFICES ASSUME NEW i \in DOMAIN u.policies, NEW n \in u.policies[i].src \cup u.policies[i].dst,
                      n \in Joined(u)
               PROVE  FALSE
    BY ThroughByEntry
  <2>1. PICK x \in b.policies[i].src \cup b.policies[i].dst : n = Rename(m, x)
    BY <1>1, <1>5
  <2>2. PICK y \in Joined(b) : n = Rename(m, y)
    BY <1>10
  <2>3. x \in known /\ y \in known
    BY <1>5, <2>1, <2>2, ThroughByEntry DEF NamesIn
  <2>4. x = y
    BY <2>1, <2>2, <2>3
  <2>5. (b.policies[i].src \cup b.policies[i].dst) \cap Joined(b) = {}
    BY <1>5, <1>12, ThroughByEntry
  <2> QED BY <2>1, <2>2, <2>4, <2>5
<1>13. ASSUME BoundFollow(b, {}) PROVE BoundFollow(u, {})
  <2> SUFFICES ASSUME NEW i \in DOMAIN u.policies, NEW a \in u.addrs,
                      a.name = u.policies[i].addr, a.bound # None
               PROVE  a.bound \in u.policies[i].src \cup u.policies[i].dst
    BY ThroughByEntry
  <2>1. PICK c \in b.addrs : a.name = c.name /\ a.bound = Rename(m, c.bound)
    BY <1>6
  <2>2. c.bound # None
    BY <1>1, <2>1
  <2>3. c.bound \in b.policies[i].src \cup b.policies[i].dst
    BY <1>5, <1>13, <2>1, <2>2, ThroughByEntry
  <2> QED BY <1>1, <1>5, <2>1, <2>3
<1> QED BY <1>7, <1>11, <1>12, <1>13

-----------------------------------------------------------------------------
(* Names that are replaced, in policies and bound addresses, by the zone    *)
(* they join: after apply_zones and apply_sdwan no policy names a member.   *)
LEMMA PoliciesThroughZones ==
  ASSUME NEW b, NEW u, NEW m, Repointed(b, u, m), ThroughZones(b),
         \A n \in DOMAIN m : m[n] \notin Joined(u),
         Joined(u) \subseteq Joined(b) \cup DOMAIN m
  PROVE  ThroughZones(u)
<1>1. /\ DOMAIN u.policies = DOMAIN b.policies
      /\ \A i \in DOMAIN b.policies :
           /\ u.policies[i].src = RenameAll(m, b.policies[i].src)
           /\ u.policies[i].dst = RenameAll(m, b.policies[i].dst)
  BY DEF Repointed
<1>2. \A S : \A y \in RenameAll(m, S) :
        \/ \E x \in S : x \in DOMAIN m /\ y = m[x]
        \/ y \in S /\ y \notin DOMAIN m
  BY DEF RenameAll, Rename
<1> SUFFICES ASSUME NEW i \in DOMAIN u.policies, NEW n \in u.policies[i].src \cup u.policies[i].dst,
                    n \in Joined(u)
             PROVE  FALSE
  BY ThroughByEntry
<1>3. n \in b.policies[i].src \cup b.policies[i].dst /\ n \notin DOMAIN m
  BY <1>1, <1>2
<1>4. (b.policies[i].src \cup b.policies[i].dst) \cap Joined(b) = {}
  BY <1>1, ThroughByEntry
<1> QED BY <1>3, <1>4

(* The policies of a body resolve when the zones do that replace members.   *)
LEMMA PoliciesResolveAnew ==
  ASSUME NEW b, NEW u, NEW m, Repointed(b, u, m), NEW some, PoliciesResolve(b, some),
         NEW more, \A n \in some : Rename(m, n) \in more
  PROVE  PoliciesResolve(u, more)
<1>1. /\ DOMAIN u.policies = DOMAIN b.policies
      /\ \A i \in DOMAIN b.policies :
           /\ u.policies[i].src = RenameAll(m, b.policies[i].src)
           /\ u.policies[i].dst = RenameAll(m, b.policies[i].dst)
  BY DEF Repointed
<1>2. \A S : \A y \in RenameAll(m, S) : \E x \in S : y = Rename(m, x)
  BY DEF RenameAll
<1> SUFFICES ASSUME NEW i \in DOMAIN u.policies, NEW n \in u.policies[i].src \cup u.policies[i].dst
             PROVE  n \in more
  BY DEF PoliciesResolve
<1>3. PICK x \in b.policies[i].src \cup b.policies[i].dst : n = Rename(m, x)
  BY <1>1, <1>2
<1>4. x \in some
  BY <1>1, <1>3 DEF PoliciesResolve
<1> QED BY <1>3, <1>4

(* SpecMap sends each member to the zone of a spec that lists it.           *)
LEMMA SpecMapOf ==
  ASSUME NEW specs
  PROVE  /\ DOMAIN SpecMap(specs) = UNION {s.members : s \in ToSet(specs)}
         /\ \A n \in DOMAIN SpecMap(specs) :
              \E s \in ToSet(specs) : n \in s.members /\ SpecMap(specs)[n] = s.name
<1>1. DOMAIN SpecMap(specs) = UNION {s.members : s \in ToSet(specs)}
  BY DEF SpecMap
<1> SUFFICES ASSUME NEW n \in DOMAIN SpecMap(specs)
             PROVE  \E s \in ToSet(specs) : n \in s.members /\ SpecMap(specs)[n] = s.name
  BY <1>1
<1> DEFINE s == CHOOSE s \in ToSet(specs) : n \in s.members
<1>2. SpecMap(specs)[n] = s.name
  BY <1>1 DEF SpecMap
<1>3. s \in ToSet(specs) /\ n \in s.members
  BY <1>1
<1> QED BY <1>2, <1>3

(* _upsert_zone adds the names of the specs, and their members only.        *)
Extended(z, specs) == [z EXCEPT !.members = @ \cup Gains(specs, z.name)]
Created(n, specs) ==
  [name |-> n, members |-> Gains(specs, n), intra |-> FirstOfName(specs, n).intra]
(* _upsert_zone: the zones are the old ones and those of the specs, with    *)
(* members of either.                                                       *)
LEMMA UpsertedZones ==
  ASSUME NEW b, HasTables(b), NEW specs, NEW zones, zones = UpsertZones(b.zones, specs)
  PROVE  /\ {z.name : z \in zones} = {z.name : z \in b.zones} \cup {s.name : s \in ToSet(specs)}
         /\ \A z \in zones : \A n \in z.members :
              n \in UNION {y.members : y \in b.zones} \/ n \in UNION {s.members : s \in ToSet(specs)}
<1> DEFINE names == {s.name : s \in ToSet(specs)} \ {z.name : z \in b.zones}
           all == UNION {s.members : s \in ToSet(specs)}
<1>1. zones = {Extended(z, specs) : z \in b.zones} \cup {Created(n, specs) : n \in names}
  BY DEF UpsertZones, Extended, Created
<1>2. \A n : Gains(specs, n) \subseteq all
  BY DEF Gains
<1>3. \A z \in b.zones : DOMAIN z = {"name", "members", "intra"}
  BY DEF HasTables
<1>4. \A z \in b.zones : /\ Extended(z, specs).name = z.name
                         /\ Extended(z, specs).members = z.members \cup Gains(specs, z.name)
  BY <1>3 DEF Extended
<1>5. \A n : Created(n, specs).name = n /\ Created(n, specs).members = Gains(specs, n)
  BY DEF Created
<1> HIDE DEF all, names
<1>6. {z.name : z \in zones} = {z.name : z \in b.zones} \cup names
  BY <1>1, <1>4, <1>5
<1>7. names = {s.name : s \in ToSet(specs)} \ {z.name : z \in b.zones}
  BY DEF names
<1>8. \A z \in zones : \A n \in z.members : n \in UNION {y.members : y \in b.zones} \/ n \in all
  BY <1>1, <1>2, <1>4, <1>5
<1> QED BY <1>6, <1>7, <1>8 DEF all

(* apply_zones: the members are interfaces of the VDOM, the zone's name is  *)
(* no interface of it and no tunnel.                                        *)
LEMMA ZonesCoherent ==
  ASSUME NEW b, HasTables(b), NEW specs, NEW u, u = ZonesBody(b, specs), NEW own,
         None \notin own,
         \A s \in ToSet(specs) : s.members \subseteq own /\ s.name \notin own \cup Tunnels(b),
         ToSet(specs) # {} => BodyResolves(b, own),
         ThroughZones(b)
  PROVE  /\ BodyResolves(b, own) => BodyResolves(u, own)
         /\ ThroughZones(u)
         /\ BoundFollow(b, {}) => BoundFollow(u, {})
<1> DEFINE m == SpecMap(specs)
<1>1. /\ Repointed(b, u, m) /\ BoundAnew(b, u, m)
      /\ u.zones = UpsertZones(b.zones, specs)
      /\ u.sd = b.sd /\ u.routes = b.routes
      /\ u.others = b.others /\ u.ssl = b.ssl /\ u.tunnels = b.tunnels
  BY ZonesBodyShape
<1>2. /\ DOMAIN m = UNION {s.members : s \in ToSet(specs)}
      /\ \A n \in DOMAIN m : \E s \in ToSet(specs) : n \in s.members /\ m[n] = s.name
  BY SpecMapOf
<1>3. /\ {z.name : z \in u.zones} = {z.name : z \in b.zones} \cup {s.name : s \in ToSet(specs)}
      /\ \A z \in u.zones : \A n \in z.members :
           n \in UNION {y.members : y \in b.zones} \/ n \in DOMAIN m
  BY <1>1, <1>2, UpsertedZones
<1> HIDE DEF m
<1>4. DOMAIN m \subseteq own /\ \A n \in DOMAIN m : m[n] \notin own \cup Tunnels(b)
  BY <1>2
<1>5. Tunnels(u) = Tunnels(b)
  BY <1>1 DEF Tunnels
<1>6. VdomZones(b) \subseteq VdomZones(u) /\ \A n \in DOMAIN m : m[n] \in VdomZones(u)
  BY <1>1, <1>2, <1>3 DEF VdomZones
<1>7. Joined(u) \subseteq Joined(b) \cup DOMAIN m
  BY <1>1, <1>3 DEF Joined, SdwanPorts
<1>8. DOMAIN m # {} => Joined(b) \subseteq own \cup Tunnels(b)
  BY <1>2 DEF BodyResolves
<1>9. \A n \in DOMAIN m : m[n] \notin Joined(u)
  BY <1>4, <1>7, <1>8
<1>10. ThroughZones(u)
  BY <1>1, <1>7, <1>9, PoliciesThroughZones
<1>11. ASSUME BoundFollow(b, {}) PROVE BoundFollow(u, {})
  <2> SUFFICES ASSUME NEW i \in DOMAIN u.policies, NEW a \in u.addrs,
                      a.name = u.policies[i].addr, a.bound # None
               PROVE  a.bound \in u.policies[i].src \cup u.policies[i].dst
    BY ThroughByEntry
  <2>1. PICK c \in b.addrs : a.name = c.name /\ a.bound = Rename(m, c.bound)
    BY <1>1 DEF BoundAnew
  <2>2. c.bound # None
    BY <1>4, <2>1 DEF Rename
  <2>3. /\ i \in DOMAIN b.policies /\ u.policies[i].addr = b.policies[i].addr
        /\ u.policies[i].src = RenameAll(m, b.policies[i].src)
        /\ u.policies[i].dst = RenameAll(m, b.policies[i].dst)
    BY <1>1 DEF Repointed
  <2>4. c.bound \in b.policies[i].src \cup b.policies[i].dst
    BY <1>11, <2>1, <2>2, <2>3, ThroughByEntry
  <2>5. \A S, x : x \in S => Rename(m, x) \in RenameAll(m, S)
    BY DEF RenameAll
  <2> QED BY <2>1, <2>3, <2>4, <2>5
<1>12. ASSUME BodyResolves(b, own) PROVE BodyResolves(u, own)
  <2> DEFINE names == own \cup Tunnels(b)
             some == names \cup VdomZones(b) \cup {"any"}
             all == names \cup VdomZones(b) \cup {None}
             someU == names \cup VdomZones(u) \cup {"any"}
             allU == names \cup VdomZones(u) \cup {None}
  <2>1. PoliciesResolve(b, some) /\ RefsResolve(b, all) /\ ZonesResolve(b, names)
    BY <1>12, ResolvesByKind
  <2>2. /\ \A n \in some : Rename(m, n) \in someU
        /\ \A n \in all : n \in allU /\ Rename(m, n) \in allU
    BY <1>6 DEF Rename
  <2>3. DOMAIN m \subseteq names
    BY <1>4
  <2> HIDE DEF names, some, all, someU, allU
  <2>4. PoliciesResolve(u, someU)
    BY <1>1, <2>1, <2>2, PoliciesResolveAnew
  <2>5. RefsResolve(u, allU)
    <3>1. \A a \in u.addrs : a.bound \in allU
      BY <1>1, <2>1, <2>2 DEF RefsResolve, BoundAnew
    <3> QED BY <1>1, <2>1, <2>2, <3>1 DEF RefsResolve
  <2>6. ZonesResolve(u, names)
    <3>1. \A z \in u.zones : z.members \subseteq names
      <4> SUFFICES ASSUME NEW z \in u.zones, NEW n \in z.members PROVE n \in names
        OBVIOUS
      <4>1. CASE n \in DOMAIN m
        BY <2>3, <4>1
      <4>2. CASE n \in UNION {y.members : y \in b.zones}
        <5>1. PICK y \in b.zones : n \in y.members
          BY <4>2
        <5> QED BY <2>1, <5>1 DEF ZonesResolve
      <4> QED BY <1>3, <4>1, <4>2
    <3> QED BY <1>1, <2>1, <3>1 DEF ZonesResolve
  <2> QED BY <1>5, <2>4, <2>5, <2>6, ResolvesByKind DEF names, someU, allU
<1> QED BY <1>10, <1>11, <1>12

-----------------------------------------------------------------------------
(* apply_sdwan: an address that is bound to a member of a spec is excused.  *)
LEMMA SdwanCoherent ==
  ASSUME NEW b, HasTables(b), NEW specs, SdwanSpecs(specs), NEW u, u = SdwanBody(b, specs), NEW own,
         \A s \in ToSet(specs) : Members(s) \subseteq own /\ s.name \notin own \cup Tunnels(b),
         ToSet(specs) # {} => BodyResolves(b, own),
         ThroughZones(b),
         NEW excused, \A s \in ToSet(specs) : Members(s) \subseteq excused
  PROVE  /\ BodyResolves(b, own) => BodyResolves(u, own)
         /\ ThroughZones(u)
         /\ BoundFollow(b, {}) => BoundFollow(u, excused)
<1> DEFINE m == SdwanMap(specs)
           names == {s.name : s \in ToSet(specs)}
<1>1. /\ Repointed(b, u, m)
      /\ u.zones = b.zones /\ u.others = b.others /\ u.ssl = b.ssl /\ u.tunnels = b.tunnels
      /\ u.sd.zones = b.sd.zones \cup names
      /\ \A x \in ToSet(u.sd.members) :
           \/ x \in ToSet(b.sd.members)
           \/ \E s \in ToSet(specs) : x.ifc \in Members(s) /\ x.zone = s.name
      /\ \A a \in u.addrs : a \in b.addrs \/ a.bound = None
      /\ \A r \in ToSet(u.routes) : r \in ToSet(b.routes) \/ (r.dev = None /\ r.zone \in names)
  BY SdwanBodyShape DEF SdwanSpecs
<1>2. /\ DOMAIN m = UNION {Members(s) : s \in ToSet(specs)}
      /\ \A n \in DOMAIN m : \E s \in ToSet(specs) : n \in Members(s) /\ m[n] = s.name
  BY SdwanMapOf
<1>3. \A s \in ToSet(specs) : s.name \in names /\ Members(s) \subseteq DOMAIN m
  BY <1>2
<1> HIDE DEF m, names
<1>4. /\ DOMAIN m \subseteq own /\ DOMAIN m \subseteq excused
      /\ \A n \in DOMAIN m : m[n] \notin own \cup Tunnels(b) /\ m[n] \in names
  BY <1>2, <1>3
<1>5. Tunnels(u) = Tunnels(b)
  BY <1>1 DEF Tunnels
<1>6. VdomZones(b) \subseteq VdomZones(u) /\ names \subseteq VdomZones(u)
  BY <1>1 DEF VdomZones
<1>7. Joined(u) \subseteq Joined(b) \cup DOMAIN m
  <2>1. SdwanPorts(u) \subseteq SdwanPorts(b) \cup DOMAIN m
    BY <1>1, <1>3 DEF SdwanPorts
  <2> QED BY <1>1, <2>1 DEF Joined
<1>8. DOMAIN m # {} => Joined(b) \subseteq own \cup Tunnels(b)
  BY <1>2 DEF BodyResolves
<1>9. \A n \in DOMAIN m : m[n] \notin Joined(u)
  BY <1>4, <1>7, <1>8
<1>10. ThroughZones(u)
  BY <1>1, <1>7, <1>9, PoliciesThroughZones
<1>11. ASSUME BoundFollow(b, {}) PROVE BoundFollow(u, excused)
  <2> SUFFICES ASSUME NEW i \in DOMAIN u.policies, NEW a \in u.addrs,
                      a.name = u.policies[i].addr, a.bound # None, a.bound \notin excused
               PROVE  a.bound \in u.policies[i].src \cup u.policies[i].dst
    BY ThroughByEntry
  <2>1. a \in b.addrs /\ Rename(m, a.bound) = a.bound
    BY <1>1, <1>4 DEF Rename
  <2>2. /\ i \in DOMAIN b.policies /\ u.policies[i].addr = b.policies[i].addr
        /\ u.policies[i].src = RenameAll(m, b.policies[i].src)
        /\ u.policies[i].dst = RenameAll(m, b.policies[i].dst)
    BY <1>1 DEF Repointed
  <2>3. a.bound \in b.policies[i].src \cup b.policies[i].dst
    BY <1>11, <2>1, <2>2, ThroughByEntry
  <2>4. \A S, x : x \in S => Rename(m, x) \in RenameAll(m, S)
    BY DEF RenameAll
  <2> QED BY <2>1, <2>2, <2>3, <2>4
<1>12. ASSUME BodyResolves(b, own) PROVE BodyResolves(u, own)
  <2> DEFINE all == own \cup Tunnels(b)
             some == all \cup VdomZones(b) \cup {"any"}
             refs == all \cup VdomZones(b) \cup {None}
             someU == all \cup VdomZones(u) \cup {"any"}
             refsU == all \cup VdomZones(u) \cup {None}
  <2>1. PoliciesResolve(b, some) /\ RefsResolve(b, refs) /\ ZonesResolve(b, all)
    BY <1>12, ResolvesByKind
  <2>2. /\ \A n \in some : Rename(m, n) \in someU
        /\ refs \subseteq refsU /\ None \in refsU
    BY <1>4, <1>6 DEF Rename
  <2>3. DOMAIN m \subseteq all
    BY <1>4
  <2> HIDE DEF all, some, refs, someU, refsU
  <2>4. PoliciesResolve(u, someU)
    BY <1>1, <2>1, <2>2, PoliciesResolveAnew
  <2>5. /\ \A r \in ToSet(b.routes) : r.dev \in refs /\ (r.zone = None \/ r.zone \in b.sd.zones)
        /\ \A x \in ToSet(b.sd.members) : x.ifc \in all /\ x.zone \in b.sd.zones
    BY <2>1, EntriesAreIndexed DEF RefsResolve, ZonesResolve
  <2>6. RefsResolve(u, refsU)
    <3>1. \A r \in ToSet(u.routes) : r.dev \in refsU
      BY <1>1, <2>2, <2>5
    <3>2. \A i \in DOMAIN u.routes : u.routes[i].dev \in refsU
      BY <3>1, EntriesAreIndexed
    <3>3. \A a \in u.addrs : a.bound \in refsU
      BY <1>1, <2>1, <2>2 DEF RefsResolve
    <3> QED BY <1>1, <2>1, <2>2, <3>2, <3>3 DEF RefsResolve
  <2>7. ZonesResolve(u, all)
    <3>1. \A r \in ToSet(u.routes) : r.zone = None \/ r.zone \in u.sd.zones
      BY <1>1, <2>5
    <3>2. \A x \in ToSet(u.sd.members) : x.ifc \in all /\ x.zone \in u.sd.zones
      BY <1>1, <1>3, <2>3, <2>5
    <3>3. /\ \A i \in DOMAIN u.routes : u.routes[i].zone = None \/ u.routes[i].zone \in u.sd.zones
          /\ \A i \in DOMAIN u.sd.members :
               u.sd.members[i].ifc \in all /\ u.sd.members[i].zone \in u.sd.zones
      BY <3>1, <3>2, EntriesAreIndexed
    <3> QED BY <1>1, <2>1, <3>3 DEF ZonesResolve
  <2> QED BY <1>5, <2>4, <2>6, <2>7, ResolvesByKind DEF all, someU, refsU
<1> QED BY <1>10, <1>11, <1>12

(* dedup_policies only takes policies away.                                 *)
LEMMA DedupCoherent ==
  ASSUME NEW b, HasTables(b), NEW u, u = DedupBody(b)
  PROVE  /\ \A own : BodyResolves(b, own) => BodyResolves(u, own)
         /\ ThroughZones(b) => ThroughZones(u)
         /\ \A excused : BoundFollow(b, excused) => BoundFollow(u, excused)
<1>1. /\ ToSet(u.policies) \subseteq ToSet(b.policies)
      /\ u.zones = b.zones /\ u.sd = b.sd /\ u.addrs = b.addrs /\ u.routes = b.routes
      /\ u.others = b.others /\ u.ssl = b.ssl /\ u.tunnels = b.tunnels
  BY DedupBodyShape
<1>2. Tunnels(u) = Tunnels(b) /\ VdomZones(u) = VdomZones(b) /\ Joined(u) = Joined(b)
  BY <1>1 DEF Tunnels, VdomZones, Joined, SdwanPorts
<1>3. \A excused : BoundFollow(b, excused) => BoundFollow(u, excused)
  BY <1>1 DEF BoundFollow
<1>4. ThroughZones(b) => ThroughZones(u)
  BY <1>1, <1>2 DEF ThroughZones
<1>5. ASSUME NEW own, BodyResolves(b, own) PROVE BodyResolves(u, own)
  <2> DEFINE names == own \cup Tunnels(b)
             some == names \cup VdomZones(b) \cup {"any"}
             all == names \cup VdomZones(b) \cup {None}
  <2>1. PoliciesResolve(b, some) /\ RefsResolve(b, all) /\ ZonesResolve(b, names)
    BY <1>5, ResolvesByKind
  <2> HIDE DEF names, some, all
  <2>2. \A p \in ToSet(u.policies) : p.src \cup p.dst \subseteq some
    BY <1>1, <2>1, EntriesAreIndexed DEF PoliciesResolve
  <2>3. PoliciesResolve(u, some)
    BY <2>2, EntriesAreIndexed DEF PoliciesResolve
  <2>4. RefsResolve(u, all) /\ ZonesResolve(u, names)
    BY <1>1, <2>1 DEF RefsResolve, ZonesResolve
  <2> QED BY <1>2, <2>3, <2>4, ResolvesByKind DEF names, some, all
<1> QED BY <1>3, <1>4, <1>5

-----------------------------------------------------------------------------
(* The interfaces of a VDOM.                                                *)

OwnOf(t, v) == {i.name : i \in {j \in t.ifaces : ~t.multi \/ j.vdom = v}}

(* Where no name is used twice an interface is in the VDOM of its entry.    *)
LEMMA VdomOfEntry ==
  ASSUME NEW t, OwnedTree(t), IfacesUnique(t), t.multi, NEW i \in t.ifaces
  PROVE  IfaceVdom(t, i.name) = i.vdom
<1> DEFINE j == CHOOSE j \in t.ifaces : j.name = i.name
<1>1. j \in t.ifaces /\ j.name = i.name
  OBVIOUS
<1>2. j = i
  BY <1>1 DEF IfacesUnique
<1>3. i.vdom # None /\ i.name \in IfaceNames(t)
  BY DEF OwnedTree, IfaceNames
<1>4. IfaceVdom(t, i.name) = IF i.name \notin IfaceNames(t) \/ j.vdom = None THEN "root" ELSE j.vdom
  BY DEF IfaceVdom
<1> QED BY <1>2, <1>3, <1>4

(* The interfaces of a VDOM, as a function of the tree.                     *)
LEMMA OwnNamesAre ==
  ASSUME NEW t, OwnedTree(t), IfacesUnique(t)
  PROVE  \A v : OwnNames(t, v) = OwnOf(t, v)
<1>1. ASSUME NEW v, NEW i \in t.ifaces
      PROVE  (~t.multi \/ IfaceVdom(t, i.name) = v) <=> (~t.multi \/ i.vdom = v)
  BY VdomOfEntry
<1> QED BY <1>1 DEF OwnNames, OwnOf, InVdom

(* The members a validated spec has are interfaces of the one VDOM its zone *)
(* is made in (vdom_scope).                                                 *)
LEMMA MembersOwn ==
  ASSUME NEW t, OwnedTree(t), IfacesUnique(t), NEW names, names \subseteq IfaceNames(t),
         NEW declared, VdomResolves(t, names, declared),
         NEW v, Scope(t, SpecVdom(t, names)) = v
  PROVE  names \subseteq OwnOf(t, v) /\ names # {}
<1> DEFINE vs == {IfaceVdom(t, n) : n \in names}
<1>1. PICK w \in vs : vs = {w}
  BY DEF VdomResolves
<1>2. names # {} /\ \A n \in names : IfaceVdom(t, n) = w
  BY <1>1
<1>3. \A n \in names : \E i \in t.ifaces : i.name = n
  BY DEF IfaceNames
<1>4. CASE ~t.multi
  BY <1>2, <1>3, <1>4 DEF OwnOf
<1>5. CASE t.multi
  <2>1. (CHOOSE n \in names : TRUE) \in names
    BY <1>2
  <2>2. SpecVdom(t, names) = w
    BY <1>2, <2>1 DEF SpecVdom
  <2>3. v = w
    BY <1>5, <2>2 DEF Scope
  <2> SUFFICES ASSUME NEW n \in names PROVE n \in OwnOf(t, v)
    BY <1>2
  <2>4. PICK i \in t.ifaces : i.name = n
    BY <1>3
  <2>5. i.vdom = w
    BY <1>2, <1>5, <2>4, VdomOfEntry
  <2> QED BY <2>3, <2>4, <2>5 DEF OwnOf
<1> QED BY <1>4, <1>5

(* Interfaces that are rewritten one by one stay apart.                     *)
LEMMA StayUnique ==
  ASSUME NEW t, IfacesUnique(t), NEW u, NEW f,
         \A j \in u.ifaces : \E i \in t.ifaces : j = f[i] /\ j.name = i.name
  PROVE  IfacesUnique(u) /\ IfaceNames(u) \subseteq IfaceNames(t)
BY DEF IfacesUnique, IfaceNames

(* Every body of u is one of t, in a VDOM with the interfaces it had.       *)
SameBodies(t, u) ==
  \A w \in DOMAIN u.bodies : \E v \in DOMAIN t.bodies : u.bodies[w] = t.bodies[v]
Carried(t, u) ==
  \A w \in DOMAIN u.bodies : \E v \in DOMAIN t.bodies :
    u.bodies[w] = t.bodies[v] /\ OwnOf(t, v) \subseteq OwnOf(u, w)

(* References of a body that is carried to a VDOM with the same interfaces, *)
(* or more, still resolve.                                                  *)
LEMMA CarriedResolves ==
  ASSUME NEW t, OwnedTree(t), IfacesUnique(t), NEW u, OwnedTree(u), IfacesUnique(u),
         Carried(t, u), Resolved(t)
  PROVE  Resolved(u)
<1> SUFFICES ASSUME NEW w \in DOMAIN u.bodies PROVE BodyResolves(u.bodies[w], OwnOf(u, w))
  BY OwnNamesAre DEF Resolved
<1>1. PICK v \in DOMAIN t.bodies : u.bodies[w] = t.bodies[v] /\ OwnOf(t, v) \subseteq OwnOf(u, w)
  BY DEF Carried
<1>2. BodyResolves(t.bodies[v], OwnOf(t, v))
  BY OwnNamesAre DEF Resolved
<1> QED BY <1>1, <1>2, ResolvesAmongMore

(* to_multi_vdom and to_single_vdom, if only VDOMs are wanted then without  *)
(* the interfaces.                                                          *)
LEMMA MultiCarries ==
  ASSUME NEW t, TreeShape(t), IfacesUnique(t), NEW vdom, NEW scopeOnly,
         NEW u, u = ToMultiVdom(t, vdom, scopeOnly)
  PROVE  /\ IfacesUnique(u) /\ IfaceNames(u) \subseteq IfaceNames(t) /\ SameBodies(t, u)
         /\ Carried(t, u) \/ (u.ifaces = {} /\ scopeOnly)
<1>1. CASE t.multi
  <2>1. u = t
    BY <1>1, MultiTree
  <2> QED BY <2>1 DEF SameBodies, Carried
<1>2. CASE ~t.multi
  <2>1. /\ u.multi /\ DOMAIN u.bodies = {vdom} /\ u.bodies[vdom] = t.bodies["root"]
        /\ \A j \in u.ifaces : \E i \in t.ifaces : j = Moved(i, vdom)
        /\ IF scopeOnly THEN u.ifaces = {} ELSE \A i \in t.ifaces : Moved(i, vdom) \in u.ifaces
    BY <1>2, MultiTree
  <2>2. "root" \in DOMAIN t.bodies
    BY <1>2 DEF TreeShape
  <2>3. \A i \in t.ifaces : Moved(i, vdom).name = i.name /\ Moved(i, vdom).vdom = vdom
    BY IfaceFrame DEF TreeShape
  <2> DEFINE f == [i \in t.ifaces |-> Moved(i, vdom)]
  <2>4. \A i \in t.ifaces : f[i] = Moved(i, vdom)
    OBVIOUS
  <2> HIDE DEF f
  <2>5. IfacesUnique(u) /\ IfaceNames(u) \subseteq IfaceNames(t)
    <3>1. \A j \in u.ifaces : \E i \in t.ifaces : j = f[i] /\ j.name = i.name
      BY <2>1, <2>3, <2>4
    <3> QED BY ONLY <3>1, IfacesUnique(t), StayUnique
  <2>6. SameBodies(t, u)
    BY <2>1, <2>2 DEF SameBodies
  <2>7. ASSUME ~scopeOnly PROVE Carried(t, u)
    <3>1. OwnOf(t, "root") \subseteq OwnOf(u, vdom)
      BY <2>1, <2>3, <2>7 DEF OwnOf
    <3> QED BY <2>1, <2>2, <3>1 DEF Carried
  <2> QED BY <2>1, <2>5, <2>6, <2>7
<1> QED BY <1>1, <1>2

(* to_single_vdom: the one body comes with all its interfaces.              *)
LEMMA SingleCarries ==
  ASSUME NEW t, TreeShape(t), IfacesUnique(t), IsFiniteSet(DOMAIN t.bodies),
         NEW u, u = ToSingleVdom(t)
  PROVE  /\ IfacesUnique(u) /\ IfaceNames(u) \subseteq IfaceNames(t) /\ SameBodies(t, u)
         /\ Carried(t, u)
<1>1. CASE u = t
  BY <1>1 DEF SameBodies, Carried
<1>2. CASE u # t
  <2>1. /\ ~u.multi /\ DOMAIN u.bodies = {"root"}
        /\ \A i \in t.ifaces : Moved(i, None) \in u.ifaces
        /\ \A j \in u.ifaces : \E i \in t.ifaces : j = Moved(i, None)
        /\ \A v \in DOMAIN t.bodies : u.bodies["root"] = t.bodies[v]
    BY <1>2, SingleTree
  <2>2. PICK v : v \in DOMAIN t.bodies
    <3>1. Cardinality(DOMAIN t.bodies) = 1
      BY <1>2 DEF ToSingleVdom
    <3> QED BY <3>1, FS_EmptySet
  <2>3. \A i \in t.ifaces : Moved(i, None).name = i.name
    BY IfaceFrame DEF TreeShape
  <2> DEFINE f == [i \in t.ifaces |-> Moved(i, None)]
  <2>4. \A i \in t.ifaces : f[i] = Moved(i, None)
    OBVIOUS
  <2> HIDE DEF f
  <2>5. IfacesUnique(u) /\ IfaceNames(u) \subseteq IfaceNames(t)
    <3>1. \A j \in u.ifaces : \E i \in t.ifaces : j = f[i] /\ j.name = i.name
      BY <2>1, <2>3, <2>4
    <3> QED BY ONLY <3>1, IfacesUnique(t), StayUnique
  <2>6. OwnOf(t, v) \subseteq OwnOf(u, "root")
    BY <2>1, <2>3 DEF OwnOf
  <2>7. SameBodies(t, u) /\ Carried(t, u)
    BY <2>1, <2>2, <2>6 DEF SameBodies, Carried
  <2> QED BY <2>5, <2>7
<1> QED BY <1>1, <1>2

(* rename_vdoms                                                             *)
LEMMA VdomsCarry ==
  ASSUME NEW t, TreeShape(t), IfacesUnique(t), NEW m, VdomMapValid(t, m),
         NEW u, u = RenameVdoms(t, m)
  PROVE  /\ IfacesUnique(u) /\ IfaceNames(u) \subseteq IfaceNames(t) /\ SameBodies(t, u)
         /\ Carried(t, u) /\ (t.ifaces = {} => u.ifaces = {})
<1> DEFINE p == VdomPairs(m)
<1>1. /\ u.multi = t.multi
      /\ \A i \in t.ifaces : Moved(i, Rename(p, i.vdom)) \in u.ifaces
      /\ \A j \in u.ifaces : \E i \in t.ifaces : j = Moved(i, Rename(p, i.vdom))
      /\ DOMAIN u.bodies = RenameAll(p, DOMAIN t.bodies)
      /\ \A v \in DOMAIN t.bodies : u.bodies[Rename(p, v)] = t.bodies[v]
  BY RenamedVdomsTree
<1> HIDE DEF p
<1>2. \A i \in t.ifaces : /\ Moved(i, Rename(p, i.vdom)).name = i.name
                          /\ Moved(i, Rename(p, i.vdom)).vdom = Rename(p, i.vdom)
  BY IfaceFrame DEF TreeShape
<1> DEFINE f == [i \in t.ifaces |-> Moved(i, Rename(p, i.vdom))]
<1>3. \A i \in t.ifaces : f[i] = Moved(i, Rename(p, i.vdom))
  OBVIOUS
<1> HIDE DEF f
<1>4. IfacesUnique(u) /\ IfaceNames(u) \subseteq IfaceNames(t)
  <2>1. \A j \in u.ifaces : \E i \in t.ifaces : j = f[i] /\ j.name = i.name
    BY <1>1, <1>2, <1>3
  <2> QED BY ONLY <2>1, IfacesUnique(t), StayUnique
<1>5. ASSUME NEW w \in DOMAIN u.bodies
      PROVE  \E v \in DOMAIN t.bodies : u.bodies[w] = t.bodies[v] /\ OwnOf(t, v) \subseteq OwnOf(u, w)
  <2>1. PICK v \in DOMAIN t.bodies : w = Rename(p, v)
    BY <1>1 DEF RenameAll
  <2>2. OwnOf(t, v) \subseteq OwnOf(u, w)
    <3> SUFFICES ASSUME NEW i \in t.ifaces, ~t.multi \/ i.vdom = v PROVE i.name \in OwnOf(u, w)
      BY DEF OwnOf
    <3>1. Moved(i, Rename(p, i.vdom)) \in u.ifaces
      BY <1>1
    <3>2. ~u.multi \/ Moved(i, Rename(p, i.vdom)).vdom = w
      BY <1>1, <1>2, <2>1
    <3> QED BY <1>2, <3>1, <3>2 DEF OwnOf
  <2> QED BY <1>1, <2>1, <2>2
<1> QED BY <1>1, <1>4, <1>5 DEF SameBodies, Carried

(* hwswitch.convert                                                         *)
Softened(t, i) ==
  IF i.type = "hard-switch"
  THEN [i EXCEPT !.type = "switch", !.members = @ \cup SwitchPorts(t, i.name)]
  ELSE i
(* hwswitch.convert: bodies and the names of interfaces stay.               *)
LEMMA HwCarries ==
  ASSUME NEW t, TreeShape(t), IfacesUnique(t), NEW u, u = HwSwitch(t)
  PROVE  /\ IfacesUnique(u) /\ IfaceNames(u) \subseteq IfaceNames(t) /\ SameBodies(t, u)
         /\ Carried(t, u) /\ (t.ifaces = {} => u.ifaces = {})
<1>1. CASE u = t
  BY <1>1 DEF SameBodies, Carried
<1>2. CASE u # t
  <2> DEFINE ifaces == {Softened(t, i) : i \in t.ifaces}
             switches == IF \E i \in t.ifaces : i.type = "hard-switch-vlan" THEN t.switches ELSE {}
  <2>1. u = [t EXCEPT !.ifaces = ifaces, !.switches = switches]
    BY <1>2 DEF HwSwitch, Softened
  <2> HIDE DEF switches, ifaces
  <2>2. u.ifaces = ifaces /\ u.multi = t.multi /\ u.bodies = t.bodies
    BY <2>1 DEF TreeShape, TreeFields
  <2>3. \A i \in t.ifaces : Softened(t, i).name = i.name /\ Softened(t, i).vdom = i.vdom
    BY DEF Softened, TreeShape, IfaceFields
  <2>4. /\ \A j \in u.ifaces : \E i \in t.ifaces : j = Softened(t, i)
        /\ \A i \in t.ifaces : Softened(t, i) \in u.ifaces
    BY <2>2 DEF ifaces
  <2> DEFINE f == [i \in t.ifaces |-> Softened(t, i)]
  <2>5. \A i \in t.ifaces : f[i] = Softened(t, i)
    OBVIOUS
  <2> HIDE DEF f
  <2>6. IfacesUnique(u) /\ IfaceNames(u) \subseteq IfaceNames(t)
    BY <2>3, <2>4, <2>5, StayUnique
  <2>7. \A v : OwnOf(t, v) \subseteq OwnOf(u, v)
    BY <2>2, <2>3, <2>4 DEF OwnOf
  <2> QED BY <2>2, <2>4, <2>6, <2>7 DEF SameBodies, Carried
<1> QED BY <1>1, <1>2

-----------------------------------------------------------------------------
(* The invariant.  Up to the SSL-VPN conversion every body is a body of the *)
(* source; up to the port map its names are known there.                    *)

SourceBody(b) == \E w \in DOMAIN job.tree.bodies : b = job.tree.bodies[w]
KnownBody(b) ==
  /\ NamesIn(b) \subseteq Known(job.tree)
  /\ VdomZones(b) \cup Tunnels(b) \subseteq OtherNames(job.tree)
  /\ b.ssl # None => \E w \in DOMAIN job.tree.bodies : b.ssl = job.tree.bodies[w].ssl

(* At every stage; a new tunnel has the one new name.                       *)
SoundBody(b) ==
  /\ IdsUnique(b) /\ ThroughZones(b)
  /\ TunnelsNamed(b) \subseteq TunnelNames(job.tree) \cup {TunnelName}

(* Of a box that only takes VDOMs over, no interface is left to refer to.   *)
CanResolve(t) == Resolved(t) \/ (t.ifaces = {} /\ Plan.scopeOnly)

(* What a bound address may be on that does not follow its policies.        *)
Steerable == UNION {Members(s) : s \in ToSet(Plan.sdwan)}
BoundKnown(known) == {x[2].ifc : x \in {y \in known : y[1] = "sdwan" /\ y[2].at = "bound"}}

ToSsl == {"mode", "vdommap", "hw", "ssl"}
ToSdwan == ToPortmap \cup {"zones", "sdwan"}
CoherentAt(s, t, known) ==
  /\ CanResolve(t) /\ IfacesUnique(t) /\ None \notin IfaceNames(t)
  /\ \A v \in DOMAIN t.bodies : SoundBody(t.bodies[v])
  /\ s \in ToSsl => \A v \in DOMAIN t.bodies : SourceBody(t.bodies[v])
  /\ s \in ToPortmap => /\ IfaceNames(t) \subseteq IfaceNames(job.tree)
                        /\ \A v \in DOMAIN t.bodies : KnownBody(t.bodies[v])
  /\ s \in ToSdwan => \A v \in DOMAIN t.bodies : BoundFollow(t.bodies[v], {})
  /\ s \in {"dedup", "audit"} => \A v \in DOMAIN t.bodies : BoundFollow(t.bodies[v], Steerable)
  /\ s = "done" => \A v \in DOMAIN t.bodies : BoundFollow(t.bodies[v], BoundKnown(known))

CoherentInv == CoherentCase(job) /\ CoherentAt(stage, tree, told)

(* The case does not change, so what is known of it stays.                  *)
LEMMA CaseStays ==
  ASSUME job' = job, CoherentCase(job), CoherentAt(stage', tree', told')
  PROVE  CoherentInv'
BY DEF CoherentInv, CoherentAt, CanResolve, SoundBody, SourceBody, KnownBody, Steerable, Plan

(* The names of the source's own bodies are known.                          *)
LEMMA SourceKnown ==
  ASSUME IsCase(job), CoherentCase(job), NEW b, SourceBody(b)
  PROVE  KnownBody(b) /\ SoundBody(b) /\ BoundFollow(b, {})
<1> DEFINE t == job.tree
<1>1. PICK w \in DOMAIN t.bodies : b = t.bodies[w]
  BY DEF SourceBody
<1>2. /\ BodyResolves(b, OwnNames(t, w)) /\ IdsUnique(b) /\ ThroughZones(b) /\ BoundFollow(b, {})
  BY <1>1 DEF CoherentCase, Accepted, Resolved
<1>3. OwnNames(t, w) \subseteq IfaceNames(t)
  BY DEF OwnNames, InVdom, IfaceNames
<1>4. TunnelsNamed(b) \subseteq TunnelNames(t)
  BY <1>1 DEF TunnelsNamed, TunnelNames
<1>5. VdomZones(b) \subseteq OtherNames(t)
  BY <1>1 DEF OtherNames
<1>6. Tunnels(b) \subseteq TunnelNames(t) \cup {SslName}
  BY <1>4 DEF Tunnels, TunnelsNamed
<1>7. TunnelNames(t) \cup {"any", None, SslName} \subseteq OtherNames(t)
  BY DEF OtherNames
<1> HIDE DEF t
<1>8. PolicyNames(b) \subseteq Known(t)
  <2>1. \A p \in ToSet(b.policies) :
          p.src \cup p.dst \subseteq OwnNames(t, w) \cup Tunnels(b) \cup VdomZones(b) \cup {"any"}
    BY <1>2 DEF BodyResolves
  <2> QED BY <1>3, <1>5, <1>6, <1>7, <2>1 DEF PolicyNames, Known
<1>9. Joined(b) \subseteq Known(t)
  BY <1>2, <1>3, <1>6, <1>7 DEF BodyResolves, Known
<1>10. KnownBody(b)
  BY <1>1, <1>5, <1>6, <1>7, <1>8, <1>9 DEF KnownBody, NamesIn, t
<1> QED BY <1>2, <1>4, <1>10 DEF SoundBody, t

(* Of a case that is coherent, the tree is at the start.                    *)
LEMMA CoherentStart ==
  ASSUME ShapeInv, CoherentCase(job), tree = job.tree, stage = "mode"
  PROVE  CoherentInv
<1>1. \A v \in DOMAIN tree.bodies : SourceBody(tree.bodies[v])
  BY DEF SourceBody
<1>2. \A v \in DOMAIN tree.bodies :
        KnownBody(tree.bodies[v]) /\ SoundBody(tree.bodies[v]) /\ BoundFollow(tree.bodies[v], {})
  BY <1>1, SourceKnown DEF ShapeInv
<1>3. Resolved(tree) /\ IfacesUnique(tree) /\ None \notin IfaceNames(tree)
  BY DEF CoherentCase, Accepted
<1> QED BY <1>1, <1>2, <1>3 DEF CoherentInv, CoherentAt, CanResolve

(* Bodies that move to other VDOMs stay what they are.                      *)
LEMMA MovesKeep ==
  ASSUME NEW t, NEW known, NEW s \in {"mode", "vdommap", "hw"}, CoherentAt(s, t, known),
         NEW u, IfacesUnique(u), IfaceNames(u) \subseteq IfaceNames(t), SameBodies(t, u),
         CanResolve(u)
  PROVE  \A r \in {"vdommap", "hw", "ssl"} : \A any : CoherentAt(r, u, any)
<1>1. s \in ToSsl /\ s \in ToPortmap /\ s \in ToSdwan
  BY DEF ToSsl, ToPortmap, ToSdwan, ToVersion
<1>2. /\ None \notin IfaceNames(t) /\ IfaceNames(t) \subseteq IfaceNames(job.tree)
      /\ \A v \in DOMAIN t.bodies : /\ SoundBody(t.bodies[v]) /\ SourceBody(t.bodies[v])
                                    /\ KnownBody(t.bodies[v]) /\ BoundFollow(t.bodies[v], {})
  BY <1>1 DEF CoherentAt
<1>3. \A v \in DOMAIN u.bodies : /\ SoundBody(u.bodies[v]) /\ SourceBody(u.bodies[v])
                                 /\ KnownBody(u.bodies[v]) /\ BoundFollow(u.bodies[v], {})
  BY <1>2 DEF SameBodies
<1> QED BY <1>2, <1>3 DEF CoherentAt, ToSsl, ToPortmap, ToSdwan, ToVersion

(* The transforms that leave the interfaces alone resolve body by body.     *)
LEMMA BodiesResolve ==
  ASSUME NEW t, OwnedTree(t), IfacesUnique(t), CanResolve(t),
         NEW u, OwnedTree(u), u.ifaces = t.ifaces, u.multi = t.multi,
         DOMAIN u.bodies = DOMAIN t.bodies,
         \A v \in DOMAIN t.bodies :
           BodyResolves(t.bodies[v], OwnOf(t, v)) => BodyResolves(u.bodies[v], OwnOf(t, v))
  PROVE  CanResolve(u)
<1>1. IfacesUnique(u) /\ \A v : OwnOf(u, v) = OwnOf(t, v)
  BY DEF IfacesUnique, OwnOf
<1>2. Resolved(t) => Resolved(u)
  BY <1>1, OwnNamesAre DEF Resolved
<1> QED BY <1>2 DEF CanResolve

-----------------------------------------------------------------------------
(* Step by step.                                                            *)

LEMMA ModeCoherent ==
  ASSUME ShapeInv, OwnedTree(tree), CoherentInv, Next, stage = "mode"
  PROVE  CoherentAt(stage', tree', told')
<1> USE DEF Plan
<1>1. /\ TreeShape(tree) /\ IfacesUnique(tree) /\ CoherentAt("mode", tree, told)
      /\ IsFiniteSet(DOMAIN tree.bodies) /\ Resolved(tree)
  BY DEF ShapeInv, CoherentInv, CoherentAt, CoherentCase, Accepted, IsCase, IsTree
<1>2. stage' = "vdommap"
  BY NextStage
<1>3. /\ OwnedTree(tree')
      /\ tree' = CASE job.plan.mode = "multi" -> ToMultiVdom(tree, job.plan.vdom, job.plan.scopeOnly)
                   [] job.plan.mode = "single" -> ToSingleVdom(tree)
                   [] OTHER -> tree
  BY OwnedKept, StageActions DEF Mode, Step
<1>4. /\ IfacesUnique(tree') /\ IfaceNames(tree') \subseteq IfaceNames(tree)
      /\ SameBodies(tree, tree')
      /\ Carried(tree, tree') \/ (tree'.ifaces = {} /\ job.plan.scopeOnly)
  <2>1. CASE job.plan.mode = "multi"
    <3>1. tree' = ToMultiVdom(tree, job.plan.vdom, job.plan.scopeOnly)
      BY <1>3, <2>1
    <3> QED BY <1>1, <3>1, MultiCarries
  <2>2. CASE job.plan.mode = "single"
    <3>1. tree' = ToSingleVdom(tree)
      BY <1>3, <2>2
    <3> QED BY <1>1, <3>1, SingleCarries
  <2>3. CASE job.plan.mode \notin {"multi", "single"}
    <3>1. tree' = tree
      BY <1>3, <2>3
    <3> QED BY <1>1, <3>1 DEF SameBodies, Carried
  <2> QED BY <2>1, <2>2, <2>3
<1>5. CanResolve(tree')
  BY <1>1, <1>3, <1>4, CarriedResolves DEF CanResolve
<1> QED BY <1>1, <1>2, <1>4, <1>5, MovesKeep

(* rename_vdoms keeps coherence: a body is under the new name of its VDOM.  *)
LEMMA VdomMapCoherent ==
  ASSUME ShapeInv, OwnedTree(tree), CoherentInv, Next, stage = "vdommap", stage' # "refused"
  PROVE  CoherentAt(stage', tree', told')
<1> USE DEF Plan
<1>1. /\ TreeShape(tree) /\ IfacesUnique(tree) /\ CoherentAt("vdommap", tree, told)
      /\ CanResolve(tree)
  BY DEF ShapeInv, CoherentInv, CoherentAt
<1>2. stage' = "hw"
  BY NextStage
<1>3. /\ OwnedTree(tree')
      /\ VdomMapValid(tree, job.plan.vdommap) /\ tree' = RenameVdoms(tree, job.plan.vdommap)
  BY OwnedKept, StageActions DEF VdomMap, Step, Refuse
<1>4. /\ IfacesUnique(tree') /\ IfaceNames(tree') \subseteq IfaceNames(tree)
      /\ SameBodies(tree, tree')
      /\ Carried(tree, tree') /\ (tree.ifaces = {} => tree'.ifaces = {})
  BY <1>1, <1>3, VdomsCarry
<1>5. CanResolve(tree')
  BY <1>1, <1>3, <1>4, CarriedResolves DEF CanResolve
<1> QED BY <1>1, <1>2, <1>4, <1>5, MovesKeep

(* hwswitch.convert keeps coherence.                                        *)
LEMMA HwCoherent ==
  ASSUME ShapeInv, OwnedTree(tree), CoherentInv, Next, stage = "hw"
  PROVE  CoherentAt(stage', tree', told')
<1> USE DEF Plan
<1>1. /\ TreeShape(tree) /\ IfacesUnique(tree) /\ CoherentAt("hw", tree, told)
      /\ CanResolve(tree)
  BY DEF ShapeInv, CoherentInv, CoherentAt
<1>2. stage' = "ssl"
  BY NextStage
<1>3. OwnedTree(tree') /\ tree' = IF job.plan.hw THEN HwSwitch(tree) ELSE tree
  BY OwnedKept, StageActions DEF Hw, Step
<1>4. /\ IfacesUnique(tree') /\ IfaceNames(tree') \subseteq IfaceNames(tree)
      /\ SameBodies(tree, tree')
      /\ Carried(tree, tree') /\ (tree.ifaces = {} => tree'.ifaces = {})
  <2>1. CASE job.plan.hw
    <3>1. tree' = HwSwitch(tree)
      BY <1>3, <2>1
    <3> QED BY <1>1, <3>1, HwCarries
  <2>2. CASE ~job.plan.hw
    BY <1>1, <1>3, <2>2 DEF SameBodies, Carried
  <2> QED BY <2>1, <2>2
<1>5. CanResolve(tree')
  BY <1>1, <1>3, <1>4, CarriedResolves DEF CanResolve
<1> QED BY <1>1, <1>2, <1>4, <1>5, MovesKeep

(* The SSL-VPN conversion takes bodies of the source only.                  *)
LEMMA SslStepCoherent ==
  ASSUME ShapeInv, OwnedTree(tree), CoherentInv, Next, stage = "ssl"
  PROVE  CoherentAt(stage', tree', told')
<1> USE DEF Plan
<1> DEFINE t == tree
           u == tree'
<1>1. /\ TreeShape(t) /\ IfacesUnique(t) /\ None \notin IfaceNames(t) /\ CanResolve(t)
      /\ IfaceNames(t) \subseteq IfaceNames(job.tree)
      /\ \A v \in DOMAIN t.bodies :
           /\ HasTables(t.bodies[v]) /\ SourceBody(t.bodies[v]) /\ SoundBody(t.bodies[v])
           /\ KnownBody(t.bodies[v]) /\ BoundFollow(t.bodies[v], {})
  BY DEF ShapeInv, CoherentInv, CoherentAt, TreeShape, ToSsl, ToPortmap, ToVersion, ToSdwan
<1>2. stage' = "version"
  BY NextStage
<1>3. OwnedTree(u) /\ u = IF job.plan.ssl THEN SslToIpsec(t) ELSE t
  BY OwnedKept, StageActions DEF Ssl, Step
<1>4. CASE ~job.plan.ssl
  <2>1. u = t
    BY <1>3, <1>4
  <2> HIDE DEF t, u
  <2> QED BY <1>1, <1>2, <2>1 DEF CoherentAt, ToSsl, u, t
<1>5. CASE job.plan.ssl
  <2>1. /\ u.ifaces = t.ifaces /\ u.multi = t.multi /\ DOMAIN u.bodies = DOMAIN t.bodies
        /\ \A v \in DOMAIN t.bodies : u.bodies[v] = SslBody(t.bodies[v])
    BY <1>1, <1>3, <1>5, SslTree DEF OnlyBodies
  <2>2. \A v \in DOMAIN t.bodies : Converts(t.bodies[v]) => SslBySource(t.bodies[v])
    BY <1>1, <1>5 DEF CoherentInv, CoherentCase, SourceBody
  <2> HIDE DEF t, u
  <2>3. \A v \in DOMAIN t.bodies : \E w \in DOMAIN job.tree.bodies :
          BodyResolves(t.bodies[v], OwnNames(job.tree, w))
    BY <1>1 DEF SourceBody, CoherentInv, CoherentCase, Accepted, Resolved
  <2>4. ASSUME NEW v \in DOMAIN t.bodies, NEW own, BodyResolves(t.bodies[v], own)
        PROVE  /\ BodyResolves(u.bodies[v], own) /\ BoundFollow(u.bodies[v], {})
               /\ SoundBody(u.bodies[v]) /\ KnownBody(u.bodies[v])
    <3> DEFINE b == t.bodies[v]
               c == u.bodies[v]
    <3>1. c = SslBody(b) /\ HasTables(b) /\ (Converts(b) => SslBySource(b)) /\ BodyResolves(b, own)
      BY <1>1, <2>1, <2>2, <2>4
    <3>2. SoundBody(b) /\ KnownBody(b) /\ BoundFollow(b, {})
      BY <1>1
    <3> HIDE DEF b, c
    <3>3. /\ BodyResolves(c, own) /\ ThroughZones(c) /\ BoundFollow(c, {})
          /\ NamesIn(c) \subseteq NamesIn(b) \cup {TunnelName}
          /\ VdomZones(c) = VdomZones(b)
          /\ Tunnels(c) \subseteq Tunnels(b) \cup {TunnelName}
          /\ TunnelsNamed(c) \subseteq TunnelsNamed(b) \cup {TunnelName}
          /\ c.ssl # None => c.ssl = b.ssl
      BY <3>1, <3>2, SslCoherent DEF SoundBody
    <3>4. IdsUnique(c)
      BY <3>1, <3>2, SslBodyShape DEF SoundBody
    <3>5. TunnelName \in OtherNames(job.tree)
      BY DEF OtherNames
    <3>6. KnownBody(c)
      BY <3>2, <3>3, <3>5 DEF KnownBody, Known
    <3>7. SoundBody(c)
      BY <3>2, <3>3, <3>4 DEF SoundBody
    <3> QED BY <3>3, <3>6, <3>7 DEF c
  <2>5. CanResolve(u)
    BY <1>1, <1>3, <2>1, <2>4, BodiesResolve DEF t
  <2>6. /\ IfacesUnique(u) /\ None \notin IfaceNames(u) /\ IfaceNames(u) \subseteq IfaceNames(job.tree)
    BY <1>1, <2>1 DEF IfacesUnique, IfaceNames
  <2>7. \A v \in DOMAIN u.bodies :
          SoundBody(u.bodies[v]) /\ KnownBody(u.bodies[v]) /\ BoundFollow(u.bodies[v], {})
    BY <2>1, <2>3, <2>4
  <2> QED BY <1>2, <2>5, <2>6, <2>7 DEF CoherentAt, ToSsl, u
<1> QED BY <1>4, <1>5

(* Versions, the device and its identity change no name.                    *)
LEMMA QuietCoherent ==
  ASSUME ShapeInv, OwnedTree(tree), CoherentInv, Next, stage \in {"version", "device", "identity"}
  PROVE  CoherentAt(stage', tree', told')
<1>1. stage' \in {"device", "identity", "portmap"}
  BY NextStage
<1>2. /\ tree'.ifaces = tree.ifaces /\ tree'.multi = tree.multi /\ tree'.bodies = tree.bodies
  <2>1. TreeShape(tree)
    BY DEF ShapeInv
  <2>2. CASE stage = "version"
    <3>1. \E s, d : tree' = [tree EXCEPT !.words = Scan(@, s, d)]
      BY <2>2, StageActions DEF Version, Step
    <3> QED BY <2>1, <3>1, ScannedTree
  <2>3. CASE stage = "device"
    BY <2>3, StageActions DEF Device, Step
  <2>4. CASE stage = "identity"
    <3>1. tree' = tree \/ tree' = [tree EXCEPT !.host = Plan.identity]
      BY <2>4, StageActions DEF Identity, Step
    <3> QED BY <2>1, <3>1, NamedTree
  <2> QED BY <2>2, <2>3, <2>4
<1>3. CoherentAt(stage, tree, told)
  BY DEF CoherentInv
<1>4. /\ CanResolve(tree') <=> CanResolve(tree)
      /\ IfacesUnique(tree') <=> IfacesUnique(tree)
      /\ IfaceNames(tree') = IfaceNames(tree)
  <2>1. \A v : OwnNames(tree', v) = OwnNames(tree, v)
    BY <1>2 DEF OwnNames, InVdom, IfaceVdom, IfaceNames
  <2> QED BY <1>2, <2>1 DEF CanResolve, Resolved, IfacesUnique, IfaceNames
<1> QED BY <1>1, <1>2, <1>3, <1>4 DEF CoherentAt, ToSsl, ToPortmap, ToVersion, ToSdwan

(* An SSL-VPN section that is left stays one under the new names.           *)
LEMMA SslStays ==
  ASSUME IsCase(job), NEW b, HasTables(b), KnownBody(b), b.ssl # None
  PROVE  RenameBody(b, Plan.portmap).ssl # None
<1> USE DEF Plan
<1> DEFINE m == job.plan.portmap
<1>1. ASSUME NEW c, HasTables(c)
      PROVE  RenameBody(c, m).ssl = IF c.ssl = None THEN None
                                    ELSE [c.ssl EXCEPT !.ifc = Rename(m, c.ssl.ifc)]
  BY <1>1 DEF RenameBody, HasTables, BodyFields
<1>2. PICK w \in DOMAIN job.tree.bodies : b.ssl = job.tree.bodies[w].ssl
  BY DEF KnownBody
<1>3. HasTables(job.tree.bodies[w])
  BY DEF IsCase, IsTree, IsBody
<1>4. RenameBody(job.tree.bodies[w], m).ssl # None
  BY <1>2 DEF IsCase
<1> DEFINE c == job.tree.bodies[w]
<1> HIDE DEF c
<1>5. HasTables(c) /\ c.ssl = b.ssl /\ RenameBody(c, m).ssl # None
  BY <1>2, <1>3, <1>4 DEF c
<1>6. RenameBody(b, m).ssl = RenameBody(c, m).ssl
  <2> HIDE DEF m
  <2> QED BY <1>1, <1>5
<1> QED BY <1>5, <1>6

(* The port map: what is known in the source stays apart.                   *)
LEMMA PortmapCoherent ==
  ASSUME ShapeInv, OwnedTree(tree), CoherentInv, Next, stage = "portmap"
  PROVE  CoherentAt(stage', tree', told')
<1> USE DEF Plan
<1> DEFINE t == tree
           u == tree'
           m == job.plan.portmap
           known == Known(job.tree)
           fixed == OtherNames(job.tree)
<1>1. /\ TreeShape(t) /\ IfacesUnique(t) /\ None \notin IfaceNames(t) /\ CanResolve(t)
      /\ IfaceNames(t) \subseteq IfaceNames(job.tree)
      /\ \A v \in DOMAIN t.bodies :
           /\ HasTables(t.bodies[v]) /\ SoundBody(t.bodies[v])
           /\ KnownBody(t.bodies[v]) /\ BoundFollow(t.bodies[v], {})
  BY DEF ShapeInv, CoherentInv, CoherentAt, TreeShape, ToPortmap, ToSdwan
<1>2. stage' = "zones"
  BY NextStage
<1>3. OwnedTree(u) /\ u = ApplyTree(t, m)
  BY OwnedKept, StageActions DEF Portmap, Step
<1>4. /\ u.multi = t.multi
      /\ \A i \in t.ifaces : Renamed(i, m) \in u.ifaces
      /\ \A j \in u.ifaces : \E i \in t.ifaces : j = Renamed(i, m)
      /\ DOMAIN u.bodies = DOMAIN t.bodies
      /\ \A v \in DOMAIN t.bodies : u.bodies[v] = RenameBody(t.bodies[v], m)
  BY <1>1, <1>3, AppliedTree
<1>5. \A i \in t.ifaces : Renamed(i, m).name = Rename(m, i.name) /\ Renamed(i, m).vdom = i.vdom
  BY <1>1, IfaceFrame DEF TreeShape
<1>6. /\ DOMAIN m \cap fixed = {} /\ {"any", None} \subseteq fixed /\ fixed \subseteq known
      /\ \A x, y \in known : Rename(m, x) = Rename(m, y) => x = y
      /\ IfaceNames(t) \subseteq known
  BY <1>1 DEF CoherentInv, CoherentCase, MapsPorts, OtherNames, Known
<1>7. \A v \in DOMAIN t.bodies : t.bodies[v].ssl # None => u.bodies[v].ssl # None
  BY <1>1, <1>4, SslStays DEF ShapeInv
<1> HIDE DEF t, u, m, known, fixed
<1>8. IfacesUnique(u) /\ None \notin IfaceNames(u)
  <2>1. \A j \in u.ifaces : \E i \in t.ifaces : j = Renamed(i, m) /\ j.name = Rename(m, i.name)
    BY <1>4, <1>5
  <2>2. \A i \in t.ifaces : i.name \in known
    BY <1>6 DEF IfaceNames
  <2>3. IfacesUnique(u)
    BY <1>1, <1>6, <2>1, <2>2 DEF IfacesUnique
  <2>4. Rename(m, None) = None /\ None \in known
    BY <1>6 DEF Rename
  <2>5. None \notin IfaceNames(u)
    BY <1>1, <1>6, <2>1, <2>2, <2>4 DEF IfaceNames
  <2> QED BY <2>3, <2>5
<1>9. \A v : RenameAll(m, OwnOf(t, v)) \subseteq OwnOf(u, v)
  <2>1. ASSUME NEW v, NEW i \in t.ifaces, ~t.multi \/ i.vdom = v
        PROVE  Rename(m, i.name) \in OwnOf(u, v)
    BY <1>4, <1>5, <2>1 DEF OwnOf
  <2> TAKE v
  <2>2. \A x \in OwnOf(t, v) : \E i \in t.ifaces : x = i.name /\ (~t.multi \/ i.vdom = v)
    BY DEF OwnOf
  <2>3. \A x \in OwnOf(t, v) : Rename(m, x) \in OwnOf(u, v)
    BY <2>1, <2>2
  <2> QED BY <2>3 DEF RenameAll
<1>10. ASSUME NEW v \in DOMAIN t.bodies
       PROVE  /\ BodyResolves(t.bodies[v], OwnOf(t, v)) => BodyResolves(u.bodies[v], OwnOf(u, v))
              /\ SoundBody(u.bodies[v]) /\ BoundFollow(u.bodies[v], {})
  <2> DEFINE b == t.bodies[v]
             c == u.bodies[v]
  <2>1. c = RenameBody(b, m) /\ HasTables(b) /\ (b.ssl # None => c.ssl # None)
    BY <1>1, <1>4, <1>7
  <2>2. SoundBody(b) /\ KnownBody(b) /\ BoundFollow(b, {})
    BY <1>1
  <2> HIDE DEF b, c
  <2>3. VdomZones(b) \cup Tunnels(b) \subseteq fixed /\ NamesIn(b) \subseteq known
    BY <2>2 DEF KnownBody, fixed, known
  <2>4. /\ \A own : BodyResolves(b, own) => BodyResolves(c, RenameAll(m, own))
        /\ ThroughZones(b) => ThroughZones(c)
        /\ BoundFollow(b, {}) => BoundFollow(c, {})
        /\ TunnelsNamed(c) = TunnelsNamed(b)
    BY <1>6, <2>1, <2>3, RenameCoherent
  <2>5. IdsUnique(b) => IdsUnique(c)
    BY <2>1, RenameBodyShape
  <2>6. BodyResolves(b, OwnOf(t, v)) => BodyResolves(c, OwnOf(u, v))
    BY <1>9, <2>4, ResolvesAmongMore
  <2> QED BY <2>2, <2>4, <2>5, <2>6 DEF SoundBody, b, c
<1>11. CanResolve(u)
  <2>1. t.ifaces = {} => u.ifaces = {}
    BY <1>4
  <2>2. OwnedTree(t) /\ OwnedTree(u)
    BY <1>3 DEF t
  <2>3. Resolved(t) => Resolved(u)
    BY <1>1, <1>4, <1>8, <1>10, <2>2, OwnNamesAre DEF Resolved
  <2> QED BY <1>1, <2>1, <2>3 DEF CanResolve
<1> QED BY <1>2, <1>4, <1>8, <1>10, <1>11 DEF CoherentAt, ToSsl, ToPortmap, ToVersion, u

-----------------------------------------------------------------------------
(* Zones, SD-WAN and merging leave the interfaces alone.                    *)

(* A name of the plan is no tunnel of a body.                               *)
LEMMA NewIsNoTunnel ==
  ASSUME CoherentCase(job), NEW b, SoundBody(b), NEW n \in NewNames(Plan)
  PROVE  n \notin Tunnels(b)
BY DEF CoherentCase, NamesZones, Plan, SoundBody, TunnelsNamed, Tunnels

(* What a transform of the bodies has to keep from the zones on.            *)
LEMMA BodiesCoherent ==
  ASSUME NEW t, OwnedTree(t), IfacesUnique(t), None \notin IfaceNames(t), CanResolve(t),
         NEW u, OwnedTree(u), OnlyBodies(t, u),
         \A v \in DOMAIN t.bodies :
           /\ BodyResolves(t.bodies[v], OwnOf(t, v)) => BodyResolves(u.bodies[v], OwnOf(t, v))
           /\ SoundBody(u.bodies[v]),
         NEW s \in {"sdwan", "dedup", "audit", "done"}, NEW known,
         s = "sdwan" => \A v \in DOMAIN t.bodies : BoundFollow(u.bodies[v], {}),
         s \in {"dedup", "audit"} => \A v \in DOMAIN t.bodies : BoundFollow(u.bodies[v], Steerable),
         s = "done" => \A v \in DOMAIN t.bodies : BoundFollow(u.bodies[v], BoundKnown(known))
  PROVE  CoherentAt(s, u, known)
<1>1. u.ifaces = t.ifaces /\ u.multi = t.multi /\ DOMAIN u.bodies = DOMAIN t.bodies
  BY DEF OnlyBodies
<1>2. CanResolve(u)
  BY <1>1, BodiesResolve
<1>3. IfacesUnique(u) /\ None \notin IfaceNames(u)
  BY <1>1 DEF IfacesUnique, IfaceNames
<1>4. s \notin ToSsl /\ s \notin ToPortmap /\ (s \in ToSdwan => s = "sdwan")
  BY DEF ToSsl, ToPortmap, ToVersion, ToSdwan
<1> HIDE DEF CoherentAt
<1> QED BY <1>1, <1>2, <1>3, <1>4 DEF CoherentAt

(* The zones of a plan that is valid: members of the VDOM, a new name.      *)
LEMMA ZonesStepCoherent ==
  ASSUME ShapeInv, OwnedTree(tree), CoherentInv, Next, stage = "zones", stage' # "refused"
  PROVE  CoherentAt(stage', tree', told')
<1> USE DEF Plan
<1> DEFINE t == tree
           u == tree'
           specs == job.plan.zones
<1>1. /\ TreeShape(t) /\ IfacesUnique(t) /\ None \notin IfaceNames(t) /\ CanResolve(t)
      /\ \A v \in DOMAIN t.bodies :
           HasTables(t.bodies[v]) /\ SoundBody(t.bodies[v]) /\ BoundFollow(t.bodies[v], {})
  BY DEF ShapeInv, CoherentInv, CoherentAt, TreeShape, ToSdwan
<1>2. stage' = "sdwan"
  BY NextStage
<1>3. ZonesValid(t, specs) /\ u = ApplyZones(t, specs) /\ OwnedTree(u)
  <2>1. Zones
    BY DEF Next, Step, Refuse, Mode, VdomMap, Hw, Ssl, Version, Device, Identity, Portmap, Sdwan,
           Dedup, Audit
  <2> QED BY <2>1, OwnedKept DEF Zones, Step, Refuse
<1>4. /\ OnlyBodies(t, u)
      /\ \A v \in DOMAIN t.bodies : u.bodies[v] = ZonesBody(t.bodies[v], ZoneSpecsOf(t, specs, v))
  BY <1>1, <1>3, ZonesTree DEF SameTunnelTrees
<1>5. specs \in Seq(ToSet(specs)) /\ CoherentCase(job)
  BY DEF ShapeInv, IsCase, ListOf, CoherentInv
<1>6. \A s \in ToSet(specs) : s.name \in NewNames(Plan)
  BY DEF NewNames, NewZones
<1>7. OwnedTree(t)
  OBVIOUS
<1> HIDE DEF t, u, specs
<1>8. ASSUME NEW v \in DOMAIN t.bodies
      PROVE  /\ BodyResolves(t.bodies[v], OwnOf(t, v)) => BodyResolves(u.bodies[v], OwnOf(t, v))
             /\ SoundBody(u.bodies[v]) /\ BoundFollow(u.bodies[v], {})
  <2> DEFINE b == t.bodies[v]
             c == u.bodies[v]
             mine == ZoneSpecsOf(t, specs, v)
             own == OwnOf(t, v)
  <2>1. c = ZonesBody(b, mine) /\ HasTables(b) /\ SoundBody(b) /\ BoundFollow(b, {})
    BY <1>1, <1>4
  <2>2. \A s \in ToSet(mine) : s \in ToSet(specs) /\ Scope(t, SpecVdom(t, s.members)) = v
    BY <1>5, AmongKeeps DEF ZoneSpecsOf
  <2>3. own \subseteq IfaceNames(t) /\ (t.ifaces = {} => own = {})
    BY DEF OwnOf, IfaceNames
  <2>4. BodyResolves(b, own) \/ own = {}
    BY <1>1, <1>7, <2>3, OwnNamesAre DEF CanResolve, Resolved
  <2> HIDE DEF b, c, mine, own
  <2>5. ASSUME NEW s \in ToSet(mine)
        PROVE  s.members \subseteq own /\ s.members # {} /\ s.name \notin own \cup Tunnels(b)
    <3>1. PICK i \in DOMAIN specs : s = specs[i]
      BY <2>2, EntriesAreIndexed
    <3>2. /\ s.name \notin IfaceNames(t) /\ s.members \subseteq IfaceNames(t)
          /\ VdomResolves(t, s.members, s.vdom)
      BY <1>3, <3>1 DEF ZonesValid
    <3>3. s.members \subseteq own /\ s.members # {}
      BY <1>1, <1>7, <2>2, <3>2, MembersOwn DEF own
    <3>4. s.name \notin Tunnels(b)
      BY <1>5, <1>6, <2>1, <2>2, NewIsNoTunnel
    <3> QED BY <2>3, <3>2, <3>3, <3>4
  <2>6. None \notin own
    BY <1>1, <2>3
  <2>7. ToSet(mine) # {} => BodyResolves(b, own)
    BY <2>4, <2>5
  <2>8. ThroughZones(b)
    BY <2>1 DEF SoundBody
  <2>9. /\ BodyResolves(b, own) => BodyResolves(c, own)
        /\ ThroughZones(c) /\ BoundFollow(c, {})
    BY <2>1, <2>5, <2>6, <2>7, <2>8, ZonesCoherent
  <2>10. IdsUnique(c) /\ TunnelsNamed(c) = TunnelsNamed(b)
    BY <2>1, ZonesBodyShape DEF SoundBody, TunnelsNamed
  <2> QED BY <2>1, <2>9, <2>10 DEF SoundBody, b, c, own
<1> QED BY <1>1, <1>2, <1>3, <1>4, <1>7, <1>8, BodiesCoherent DEF u

(* SD-WAN: a member is an interface of the VDOM, and the addresses bound to *)
(* one are the only ones that may stay behind.                              *)
LEMMA SdwanStepCoherent ==
  ASSUME ShapeInv, OwnedTree(tree), CoherentInv, Next, stage = "sdwan", stage' # "refused"
  PROVE  CoherentAt(stage', tree', told')
<1> USE DEF Plan
<1> DEFINE t == tree
           u == tree'
           specs == job.plan.sdwan
<1>1. /\ TreeShape(t) /\ IfacesUnique(t) /\ None \notin IfaceNames(t) /\ CanResolve(t)
      /\ \A v \in DOMAIN t.bodies :
           HasTables(t.bodies[v]) /\ SoundBody(t.bodies[v]) /\ BoundFollow(t.bodies[v], {})
  BY DEF ShapeInv, CoherentInv, CoherentAt, TreeShape, ToSdwan
<1>2. stage' = "dedup"
  BY NextStage
<1>3. SdwanValid(t, specs) /\ u = ApplySdwan(t, specs) /\ OwnedTree(u)
  <2>1. Sdwan
    BY DEF Next, Step, Refuse, Mode, VdomMap, Hw, Ssl, Version, Device, Identity, Portmap, Zones,
           Dedup, Audit
  <2> QED BY <2>1, OwnedKept DEF Sdwan, Step, Refuse
<1>4. SdwanSpecs(specs) /\ CoherentCase(job)
  BY CaseSpecs DEF ShapeInv, CoherentInv
<1>5. /\ OnlyBodies(t, u)
      /\ \A v \in DOMAIN t.bodies :
           u.bodies[v] = SteeredBody(t.bodies[v], SdwanSpecsOf(t, specs, v))
  BY <1>1, <1>3, <1>4, SdwanTree DEF SameTunnelTrees
<1>6. \A s \in ToSet(specs) : s.name \in NewNames(Plan) /\ Members(s) \subseteq Steerable
  BY DEF NewNames, NewSdwanZones, Steerable
<1>7. OwnedTree(t)
  OBVIOUS
<1> HIDE DEF t, u, specs
<1>8. ASSUME NEW v \in DOMAIN t.bodies
      PROVE  /\ BodyResolves(t.bodies[v], OwnOf(t, v)) => BodyResolves(u.bodies[v], OwnOf(t, v))
             /\ SoundBody(u.bodies[v]) /\ BoundFollow(u.bodies[v], Steerable)
  <2> DEFINE b == t.bodies[v]
             c == u.bodies[v]
             mine == SdwanSpecsOf(t, specs, v)
             own == OwnOf(t, v)
  <2>1. c = SteeredBody(b, mine) /\ HasTables(b) /\ SoundBody(b) /\ BoundFollow(b, {})
    BY <1>1, <1>5
  <2>2. /\ SdwanSpecs(mine)
        /\ \A s \in ToSet(mine) : s \in ToSet(specs) /\ Scope(t, SpecVdom(t, Members(s))) = v
    BY <1>4, SdwanSpecsIn
  <2>3. own \subseteq IfaceNames(t) /\ (t.ifaces = {} => own = {})
    BY DEF OwnOf, IfaceNames
  <2>4. BodyResolves(b, own) \/ own = {}
    BY <1>1, <1>7, <2>3, OwnNamesAre DEF CanResolve, Resolved
  <2> HIDE DEF b, c, mine, own
  <2>5. ASSUME NEW s \in ToSet(mine)
        PROVE  Members(s) \subseteq own /\ Members(s) # {} /\ s.name \notin own \cup Tunnels(b)
    <3>1. PICK i \in DOMAIN specs : s = specs[i]
      BY <2>2, EntriesAreIndexed
    <3>2. /\ s.name \notin IfaceNames(t) /\ Members(s) \subseteq IfaceNames(t)
          /\ VdomResolves(t, Members(s), s.vdom)
      BY <1>3, <3>1 DEF SdwanValid
    <3>3. Members(s) \subseteq own /\ Members(s) # {}
      BY <1>1, <1>7, <2>2, <3>2, MembersOwn DEF own
    <3>4. s.name \notin Tunnels(b)
      BY <1>4, <1>6, <2>1, <2>2, NewIsNoTunnel
    <3> QED BY <2>3, <3>2, <3>3, <3>4
  <2>6. ToSet(mine) # {} => BodyResolves(b, own)
    BY <2>4, <2>5
  <2>7. ThroughZones(b) /\ IdsUnique(b)
    BY <2>1 DEF SoundBody
  <2>8. CASE mine = <<>>
    <3>1. c = b
      BY <2>1, <2>8 DEF SteeredBody
    <3>2. BoundFollow(b, Steerable)
      BY <2>1 DEF BoundFollow
    <3> QED BY <2>1, <3>1, <3>2 DEF b, c
  <2>9. CASE mine # <<>>
    <3>1. c = SdwanBody(b, mine)
      BY <2>1, <2>9 DEF SteeredBody
    <3>2. \A s \in ToSet(mine) : Members(s) \subseteq Steerable
      BY <1>6, <2>2
    <3>3. /\ BodyResolves(b, own) => BodyResolves(c, own)
          /\ ThroughZones(c) /\ BoundFollow(c, Steerable)
      BY <2>1, <2>2, <2>5, <2>6, <2>7, <3>1, <3>2, SdwanCoherent
    <3>4. IdsUnique(c) /\ TunnelsNamed(c) = TunnelsNamed(b)
      BY <2>1, <2>2, <2>7, <3>1, SdwanBodyShape DEF SdwanSpecs, TunnelsNamed
    <3> QED BY <2>1, <3>3, <3>4 DEF SoundBody, b, c, own
  <2> QED BY <2>8, <2>9
<1> QED BY <1>1, <1>2, <1>3, <1>5, <1>7, <1>8, BodiesCoherent DEF u

(* Merging takes policies away.                                             *)
LEMMA DedupStepCoherent ==
  ASSUME ShapeInv, OwnedTree(tree), CoherentInv, Next, stage = "dedup"
  PROVE  CoherentAt(stage', tree', told')
<1> DEFINE t == tree
           u == tree'
<1>1. /\ TreeShape(t) /\ IfacesUnique(t) /\ None \notin IfaceNames(t) /\ CanResolve(t)
      /\ \A v \in DOMAIN t.bodies :
           HasTables(t.bodies[v]) /\ SoundBody(t.bodies[v]) /\ BoundFollow(t.bodies[v], Steerable)
  BY DEF ShapeInv, CoherentInv, CoherentAt, TreeShape
<1>2. stage' = "audit"
  BY NextStage
<1>3. OwnedTree(u) /\ (u = t \/ u = DedupPolicies(t))
  BY OwnedKept, StageActions DEF Dedup, Step
<1>4. /\ OnlyBodies(t, u)
      /\ \A v \in DOMAIN t.bodies : u.bodies[v] = t.bodies[v] \/ u.bodies[v] = DedupBody(t.bodies[v])
  BY <1>1, <1>3, DedupTree DEF SameTunnelTrees, OnlyBodies, TreeShape
<1>5. OwnedTree(t)
  OBVIOUS
<1> HIDE DEF t, u
<1>6. ASSUME NEW v \in DOMAIN t.bodies
      PROVE  /\ BodyResolves(t.bodies[v], OwnOf(t, v)) => BodyResolves(u.bodies[v], OwnOf(t, v))
             /\ SoundBody(u.bodies[v]) /\ BoundFollow(u.bodies[v], Steerable)
  <2> DEFINE b == t.bodies[v]
             c == u.bodies[v]
  <2>1. HasTables(b) /\ SoundBody(b) /\ BoundFollow(b, Steerable) /\ (c = b \/ c = DedupBody(b))
    BY <1>1, <1>4
  <2> HIDE DEF b, c
  <2>2. CASE c = b
    BY <2>1, <2>2 DEF b, c
  <2>3. CASE c = DedupBody(b)
    <3>1. /\ \A own : BodyResolves(b, own) => BodyResolves(c, own)
          /\ ThroughZones(b) => ThroughZones(c)
          /\ \A excused : BoundFollow(b, excused) => BoundFollow(c, excused)
      BY <2>1, <2>3, DedupCoherent
    <3>2. (IdsUnique(b) => IdsUnique(c)) /\ TunnelsNamed(c) = TunnelsNamed(b)
      BY <2>1, <2>3, DedupBodyShape DEF TunnelsNamed
    <3> QED BY <2>1, <3>1, <3>2 DEF SoundBody, b, c
  <2> QED BY <2>1, <2>2, <2>3
<1> QED BY <1>1, <1>2, <1>3, <1>4, <1>5, <1>6, BodiesCoherent DEF u

(* The audit tells every bound address on a port that was steered: "bound"  *)
(* is not among the places where a member may stay.                         *)
LEMMA AuditCoherent ==
  ASSUME ShapeInv, OwnedTree(tree), CoherentInv, Next, stage = "audit"
  PROVE  CoherentAt(stage', tree', told')
<1>1. stage' = "done"
  BY NextStage
<1>2. tree' = tree /\ {<<"sdwan", r>> : r \in AuditLeftovers(tree, Steerable, SdwanAllowed)} \subseteq told'
  BY StageActions DEF Audit, Step, Steerable
<1>3. CoherentAt("audit", tree, told)
  BY DEF CoherentInv
<1>4. ASSUME NEW v \in DOMAIN tree.bodies, NEW a \in tree.bodies[v].addrs, a.bound \in Steerable
      PROVE  a.bound \in BoundKnown(told')
  <2> DEFINE r == Ref("bound", a.bound)
  <2>1. r.at = "bound" /\ r.ifc = a.bound
    BY DEF Ref
  <2>2. r \in BodyRefs(tree.bodies[v])
    BY DEF BodyRefs, Ref
  <2> HIDE DEF r
  <2>3. r.at \notin SdwanAllowed
    BY <2>1 DEF SdwanAllowed, BaseAllowed
  <2>4. r \in AuditLeftovers(tree, Steerable, SdwanAllowed)
    BY <1>4, <2>1, <2>2, <2>3 DEF AuditLeftovers
  <2>5. <<"sdwan", r>> \in told'
    BY <1>2, <2>4
  <2> QED BY <2>1, <2>5 DEF BoundKnown
<1>5. \A v \in DOMAIN tree.bodies : BoundFollow(tree.bodies[v], BoundKnown(told'))
  <2>1. \A v \in DOMAIN tree.bodies : BoundFollow(tree.bodies[v], Steerable)
    BY <1>3 DEF CoherentAt
  <2> QED BY <1>4, <2>1 DEF BoundFollow
<1> QED BY <1>1, <1>2, <1>3, <1>5 DEF CoherentAt, ToSsl, ToPortmap, ToVersion, ToSdwan

(* Every step keeps the invariant; a plan that is refused leaves the tree.  *)
LEMMA CoherentStep ==
  ASSUME MigrateInv, CoherentInv, [Next]_vars
  PROVE  CoherentInv'
<1>1. ShapeInv /\ OwnedTree(tree) /\ CoherentCase(job)
  BY DEF MigrateInv, PlaceInv, CoherentInv
<1>2. CASE UNCHANGED vars
  <2>1. job' = job /\ CoherentAt(stage', tree', told')
    BY <1>2 DEF vars, CoherentInv
  <2> QED BY <1>1, <2>1, CaseStays
<1>3. CASE Next
  <2>1. job' = job
    BY <1>1, <1>3, Frames
  <2>2. CoherentAt(stage', tree', told')
    <3>1. CASE stage' = "refused"
      <4>1. tree' = tree
        BY <1>3, <3>1 DEF Next, Mode, VdomMap, Hw, Ssl, Version, Device, Identity, Portmap, Zones,
                          Sdwan, Dedup, Audit, Step, Refuse, After, Stages
      <4>2. CoherentAt(stage, tree, told)
        BY DEF CoherentInv
      <4> QED BY <3>1, <4>1, <4>2 DEF CoherentAt, ToSsl, ToPortmap, ToVersion, ToSdwan
    <3>2. CASE stage' # "refused" /\ stage \in {"mode", "vdommap", "hw", "ssl"}
      BY <1>1, <1>3, <3>2, ModeCoherent, VdomMapCoherent, HwCoherent, SslStepCoherent
    <3>3. CASE stage' # "refused" /\ stage \in {"version", "device", "identity", "portmap"}
      BY <1>1, <1>3, <3>3, QuietCoherent, PortmapCoherent
    <3>4. CASE stage' # "refused" /\ stage \in {"zones", "sdwan", "dedup", "audit"}
      BY <1>1, <1>3, <3>4, ZonesStepCoherent, SdwanStepCoherent, DedupStepCoherent, AuditCoherent
    <3> QED BY <1>1, <1>3, <3>1, <3>2, <3>3, <3>4, NextStage
  <2> QED BY <1>1, <2>1, <2>2, CaseStays
<1> QED BY <1>2, <1>3

-----------------------------------------------------------------------------
(* What is given: the source and the plan are coherent.  TLC checks it of   *)
(* every case the run migrates (MCCasesCoherent).                           *)
CasesCoherent == \A c \in Cases : CoherentCase(c)

(* The source is coherent: the device took it.                              *)
LEMMA CoherentFromStart ==
  ASSUME CasesCoherent, Init
  PROVE  CoherentInv
<1>1. MigrateInv
  BY MigrateStart
<1>2. PICK c \in Cases : job = [c EXCEPT !.plan = TranslateMembers(@)]
  BY DEF Init
<1>3. /\ job.tree = c.tree /\ job.plan.portmap = c.plan.portmap
      /\ job.plan.ssl = c.plan.ssl /\ NewNames(job.plan) = NewNames(c.plan)
  BY <1>2, CasesAssumption, TranslatedCase DEF NewNames
<1>4. CoherentCase(job)
  BY <1>3 DEF CasesCoherent, CoherentCase, NamesZones
<1> QED BY <1>1, <1>4, CoherentStart DEF MigrateInv, Init

(* What the transforms have left of the source's coherence, stage by stage. *)
LEMMA CoherentInvariant == CasesCoherent => (Spec => [](MigrateInv /\ CoherentInv))
<1>1. CasesCoherent /\ Init => MigrateInv /\ CoherentInv
  BY MigrateStart, CoherentFromStart
<1>2. MigrateInv /\ CoherentInv /\ [Next]_vars => (MigrateInv /\ CoherentInv)'
  BY MigrateStep, CoherentStep
<1> QED BY <1>1, <1>2, PTL DEF Spec

(* Whatever the configuration and the plan, if the source is coherent and   *)
(* the port map keeps names apart, then after any migration every reference *)
(* resolves within its VDOM and no key is used twice                        *)
(* (portmap.apply_tree, zones.apply_zones, sdwan.apply_sdwan).              *)
THEOREM OutputIsCoherent == CasesCoherent => (Spec => []OutputCoherent)
<1>1. MigrateInv /\ CoherentInv => OutputCoherent
  <2> SUFFICES ASSUME CoherentInv, stage = "done"
               PROVE  /\ ~Plan.scopeOnly => Resolved(tree)
                      /\ IfacesUnique(tree) /\ \A v \in DOMAIN tree.bodies : IdsUnique(tree.bodies[v])
    BY DEF OutputCoherent, ReferencesResolve, EntriesUnique, Lands, Done
  <2> QED BY DEF CoherentInv, CoherentAt, CanResolve, SoundBody
<1> QED BY <1>1, CoherentInvariant, PTL

(* And the device takes the zones: no policy names a member of a zone or of *)
(* SD-WAN, and an address bound to an interface follows its policies or is  *)
(* told (zones._rebind_associated_addresses, tree_refs.audit_leftovers).    *)
THEOREM ZonesAreUsable == CasesCoherent => (Spec => []ZonesUsable)
<1>1. MigrateInv /\ CoherentInv => ZonesUsable
  <2> SUFFICES ASSUME CoherentInv, stage = "done", NEW v \in DOMAIN tree.bodies
               PROVE  ThroughZones(tree.bodies[v]) /\ BoundFollow(tree.bodies[v], BoundTold)
    BY DEF ZonesUsable, OnlyThroughZones, BoundAddressesUsable, Done
  <2> QED BY DEF CoherentInv, CoherentAt, SoundBody, BoundTold, BoundKnown
<1> QED BY <1>1, CoherentInvariant, PTL
=============================================================================
