----------------------------- MODULE CrossEmit ------------------------------
(***************************************************************************)
(* The FortiOS emitter, fwforge/emit/fortios.py.  The output is a sequence *)
(* of entries in the order of the script:                                  *)
(*   table   the section;  name  the name of its edit                      *)
(*   refs    what it refers to: pairs of a name space and a name           *)
(*   val     what the traffic depends on: the members, hosts or ports of   *)
(*           an object, the interfaces of a zone, the fields of a policy   *)
(***************************************************************************)
EXTENDS CrossIR

CONSTANTS
  Builtin,      \* the built-in services by the ports they stand for
  Predefined,   \* the names of the predefined services
  TunnelLike    \* names that look like a PAN tunnel interface

ASSUME EmitAssumption == "ALL" \in Predefined /\ \A sig \in DOMAIN Builtin : Builtin[sig] \in Predefined

Entry(table, n, refs, val) == [table |-> table, name |-> n, refs |-> refs, val |-> val]
Refs(space, names) == {space} \X names

(* The services of policies and groups, through a map.                     *)
RenameServices(cfg, f) ==
  [cfg EXCEPT !.pols = Each(@, LAMBDA p : [p EXCEPT !.svcs = {At(f, n) : n \in @}]),
              !.sgroups = Each(@, LAMBDA g : [g EXCEPT !.members = Each(@, LAMBDA m : At(f, m))])]

(* A custom service with exactly the ports of a built-in is replaced by it.*)
MapBuiltins(cfg) ==
  LET same == {s \in ToSet(cfg.svcs) : s.sig \in DOMAIN Builtin}
      renames == [n \in {s.name : s \in same} |->
                    Builtin[(CHOOSE s \in same : s.name = n).sig]]
  IN  RenameServices([cfg EXCEPT !.svcs = SelectSeq(@, LAMBDA s : s.sig \notin DOMAIN Builtin)],
                     renames)

(* A service or group named like a predefined one gets a suffix.           *)
AvoidCollisions(cfg) ==
  LET Candidate(n, kind, used) ==
        LET name(k) == n \o "_" \o kind \o (IF k = 1 THEN "" ELSE ToString(k))
        IN  name(Min({k \in 1 .. Cardinality(used) + 1 : name(k) \notin used \cup Predefined}))
      OneName(kind, used, n) ==
        IF n \in Predefined THEN Candidate(n, kind, used) ELSE n
      Fix(kind, names, used) ==
        FoldLeft(LAMBDA done, n : Append(done, OneName(kind, used \cup ToSet(done), n)), <<>>, names)
      old == SvcNames(cfg)
      svcs == Fix("svc", Named(cfg.svcs), ToSet(old))
      groups == Fix("grp", Named(cfg.sgroups), ToSet(old) \cup ToSet(svcs))
  IN  RenameServices([cfg EXCEPT !.svcs = Rename(@, svcs), !.sgroups = Rename(@, groups)],
                     Renames(old, svcs \o groups))

Intf(cfg, n) ==
  IF n \in Anys THEN "any" ELSE IF IsIface(cfg, n) THEN Mapped(IfaceNamed(cfg, n)) ELSE n

-----------------------------------------------------------------------------
(* Each member before the group that lists it; a cycle is cut and told.    *)
RECURSIVE Placed(_, _, _)
Placed(st, groups, n) ==
  IF n \in ToSet(st.order) \/ n \notin Names(groups) THEN st
  ELSE IF n \in st.stack THEN [st EXCEPT !.cycles = @ \cup {n}]
  ELSE LET kids == SelectSeq(GroupNamed(groups, n).members, LAMBDA m : m # n)
           below == FoldLeft(LAMBDA s, m : Placed(s, groups, m),
                             [st EXCEPT !.stack = @ \cup {n}], kids)
       IN  [below EXCEPT !.stack = @ \ {n}, !.order = Append(@, n)]

(* Mutant: the groups in the order of the source.                          *)
Ordered_Source(groups) == [order |-> Named(groups), stack |-> {}, cycles |-> {}]

Ordered(groups) ==
  FoldLeft(LAMBDA st, g : Placed(st, groups, g.name),
           [order |-> <<>>, stack |-> {}, cycles |-> {}], groups)

InOrder(groups) == Each(Ordered(groups).order, LAMBDA n : GroupNamed(groups, n))

(* Aggregates and loopbacks, then each VLAN after the VLAN it rides on.    *)
DependencyOrder(rows) ==
  LET vlans == SelectSeq(rows, LAMBDA i : i.kind = "vlan")
      chain == Each(vlans, LAMBDA v : [name |-> v.name, members |-> <<v.parent>>])
  IN  SelectSeq(rows, LAMBDA i : i.kind # "vlan")
        \o Each(Ordered(chain).order, LAMBDA n : vlans[Min({k \in DOMAIN vlans : vlans[k].name = n})])

InterfaceEntries(cfg) ==
  LET below(i) == IF i.kind = "aggregate" THEN {Intf(cfg, m) : m \in ToSet(i.members)}
                  ELSE IF i.kind = "vlan" THEN {Intf(cfg, i.parent)} ELSE {}
  IN  Each(DependencyOrder(SelectSeq(cfg.ifaces, Created)), LAMBDA i :
        Entry("interface", Mapped(i), Refs("intf", below(i)), [origin |-> i.name, vdom |-> "root"]))

VpnEntries(cfg) ==
  Each(cfg.p1s, LAMBDA p : Entry("phase1", p.name, Refs("intf", {Intf(cfg, p.ifc)}), None))
    \o Each(cfg.p1s, LAMBDA p : Entry("phase2", p.name, {<<"phase1", p.name>>}, None))

(* A tunnel interface that no IPsec tunnel of the output backs.            *)
Unbacked(cfg, n) ==
  IF IsIface(cfg, n) THEN IfaceNamed(cfg, n).kind = "tunnel" /\ IfaceNamed(cfg, n).target = None
  ELSE n \in TunnelLike

KeptMembers(cfg, z) == {m \in ToSet(z.members) : ~Unbacked(cfg, m)}
EmittedZones(cfg) == {z.name : z \in {x \in ToSet(cfg.zones) : KeptMembers(cfg, x) # {}}}
ZoneEntries(cfg) ==
  Each(SelectSeq(cfg.zones, LAMBDA z : KeptMembers(cfg, z) # {}), LAMBDA z :
    LET ports == {Intf(cfg, m) : m \in KeptMembers(cfg, z)}
    IN  Entry("zone", z.name, Refs("intf", ports), ports))
ZonesCut(cfg) ==
  {z.name : z \in {x \in ToSet(cfg.zones) : KeptMembers(cfg, x) # ToSet(x.members) \/ x.members = <<>>}}

-----------------------------------------------------------------------------
(* Objects.  A group is of the family of its first member whose family is  *)
(* known when the groups are read in the order of the source.              *)
FamilyMap(cfg) ==
  LET leaf == [n \in Names(cfg.addrs) \cup Names(cfg.vips) |->
                 IF n \in Names(cfg.addrs) THEN GroupNamed(cfg.addrs, n).fam ELSE 4]
      OneGroup(f, g) ==
        LET known == SelectSeq(g.members, LAMBDA m : m \in DOMAIN f)
        IN  IF known = <<>> THEN f ELSE (g.name :> f[known[1]]) @@ f
  IN  FoldLeft(OneGroup, leaf, cfg.groups)

FamilyOf(cfg, n, default) ==
  LET fam == FamilyMap(cfg) IN IF n \in DOMAIN fam THEN fam[n] ELSE default

Space(f) == IF f = 4 THEN "addr4" ELSE "addr6"

AddressEntries(cfg) ==
  LET of(f) == Each(SelectSeq(cfg.addrs, LAMBDA a : a.fam = f), LAMBDA a :
                 Entry("address", a.name, {}, [space |-> Space(f), hosts |-> a.hosts]))
  IN  of(4) \o of(6)

(* Members of the other family are left out.                               *)
OwnFamily(cfg, g) ==
  LET f == FamilyOf(cfg, g.name, 4)
  IN  {m \in ToSet(g.members) : FamilyOf(cfg, m, f) = f}

AddrGroupEntries(cfg) ==
  LET of(f) == Each(InOrder(SelectSeq(cfg.groups, LAMBDA g : FamilyOf(cfg, g.name, 4) = f)), LAMBDA g :
                 LET ms == IF OwnFamily(cfg, g) = {} THEN {"all"} ELSE OwnFamily(cfg, g)
                 IN  Entry("addrgrp", g.name, Refs(Space(f), ms), [space |-> Space(f), members |-> ms]))
  IN  of(4) \o of(6)

AddrGroupsCut(cfg) ==
  {g.name : g \in {x \in ToSet(cfg.groups) : OwnFamily(cfg, x) # ToSet(x.members) \/ x.members = <<>>}}
Cycles(cfg) ==
  UNION {Ordered(SelectSeq(cfg.groups, LAMBDA g : FamilyOf(cfg, g.name, 4) = f)).cycles : f \in {4, 6}}
    \cup Ordered(cfg.sgroups).cycles

ServiceEntries(cfg) == Each(cfg.svcs, LAMBDA s : Entry("service", s.name, {}, s.sig))

ValidServices(cfg) == Names(cfg.svcs) \cup Names(cfg.sgroups) \cup Predefined
OrAll(names) == IF names = {} THEN {"ALL"} ELSE names

SvcGroupEntries(cfg) ==
  Each(InOrder(cfg.sgroups), LAMBDA g :
    LET ms == OrAll(ToSet(g.members) \cap ValidServices(cfg))
    IN  Entry("svcgrp", g.name, Refs("svc", ms), ms))
SvcGroupsCut(cfg) ==
  {g.name : g \in {x \in ToSet(cfg.sgroups) : ~(ToSet(x.members) \subseteq ValidServices(cfg)) \/ x.members = <<>>}}

ProfileEntries(cfg) == Each(cfg.profiles, LAMBDA p : Entry("profile", p.name, {}, None))
VipEntries(cfg) ==
  Each(SelectSeq(cfg.vips, LAMBDA v : v.whole), LAMBDA v :
    Entry("vip", v.name, Refs("intf", {Intf(cfg, v.ifc)}), None))
PoolEntries(cfg) == Each(cfg.pools, LAMBDA p : Entry("ippool", p.name, {}, None))
ScheduleEntries(cfg) == Each(cfg.scheds, LAMBDA s : Entry("schedule", s.name, {}, None))

-----------------------------------------------------------------------------
(* Routing.                                                                *)
BackedRoutes(cfg) == SelectSeq(cfg.routes, LAMBDA r : ~Unbacked(cfg, r.ifc))
RouteEmitted(cfg) ==
  Each(BackedRoutes(cfg), LAMBDA r : Entry("static", None, Refs("intf", {Intf(cfg, r.ifc)}), None))
RoutesCut(cfg) == {r.ifc : r \in {x \in ToSet(cfg.routes) : Unbacked(cfg, x.ifc)}}

PbrEntries(cfg) ==
  Each(cfg.pbrs, LAMBDA r : Entry("policy-route", None, Refs("intf", {r.in, r.out} \ {"any", ""}), None))

(* The passive interfaces of OSPF; the rest of its section names nothing.  *)
OspfEntries(cfg) ==
  IF cfg.passive = {} THEN <<>>
  ELSE <<Entry("ospf", None, Refs("intf", {Intf(cfg, n) : n \in cfg.passive}), None)>>

-----------------------------------------------------------------------------
(* NAT: in central mode a table of its own, else fields of the policies.   *)
CentralSnatEntries(cfg) ==
  LET rules == SelectSeq(cfg.nats, LAMBDA n : n.kind = "interface")
                 \o SelectSeq(cfg.nats, LAMBDA n : n.kind = "pool")
      objects == Names(cfg.addrs) \cup Names(cfg.groups)
      source(n) == IF n.from = "*" THEN "any" ELSE Intf(cfg, n.from)
      orig(n) == IF n.obj \in objects THEN n.obj ELSE "all"
      pool(n) == IF n.kind = "pool" THEN {<<"pool", n.pool>>} ELSE {}
  IN  Each(rules, LAMBDA n :
        Entry("central-snat", None,
              Refs("intf", {source(n), Intf(cfg, n.to)}) \cup {<<"addr4", orig(n)>>} \cup pool(n),
              [from |-> source(n), to |-> Intf(cfg, n.to)]))

Pairs(p) == {<<p.src[i], p.dst[j]>> : i \in DOMAIN p.src, j \in DOMAIN p.dst}
NatHit(cfg, p) ==
  \E pair \in Pairs(p), n \in ToSet(cfg.nats) :
    n.kind = "interface" /\ n.from \in {pair[1], "*"} /\ n.to = pair[2]

(* The pool of the first pair that has one; of equal keys the first rule's.*)
PoolOfPair(cfg, pair) ==
  LET at(key) == {i \in DOMAIN cfg.nats : /\ cfg.nats[i].kind = "pool"
                                          /\ <<cfg.nats[i].from, cfg.nats[i].to>> = key}
      keys == SelectSeq(<<pair, <<"*", pair[2]>>, <<pair[1], "*">> >>, LAMBDA key : at(key) # {})
  IN  IF keys = <<>> THEN {} ELSE {cfg.nats[Min(at(keys[1]))].pool}

PoolHit(cfg, p) ==
  LET row(s) == FoldLeft(LAMBDA found, d : IF found # {} THEN found ELSE PoolOfPair(cfg, <<s, d>>),
                         {}, p.dst)
  IN  FoldLeft(LAMBDA found, s : IF found # {} THEN found ELSE row(s), {}, p.src)

NatOf(cfg, mode, p) ==
  IF mode = "central" \/ p.act # "accept" THEN {}
  ELSE IF NatHit(cfg, p) THEN {"interface"} ELSE PoolHit(cfg, p)

-----------------------------------------------------------------------------
(* Policies.                                                               *)
ResolveIntf(cfg, n) ==
  IF n \in Anys THEN "any"
  ELSE IF IsIface(cfg, n) THEN Mapped(IfaceNamed(cfg, n))
  ELSE IF n \in Names(cfg.zones) \ EmittedZones(cfg) THEN None ELSE n

Side(cfg, zones) ==
  LET kept == {ResolveIntf(cfg, z) : z \in ToSet(zones)} \ {None}
  IN  IF kept = {} THEN {"any"} ELSE kept

(* Its own family, or that of its addresses; 0 stands for both.            *)
PolicyFamily(cfg, p) ==
  LET fams == {FamilyOf(cfg, n, 4) : n \in (p.srcs \cup p.dsts) \ {"all"}}
  IN  IF p.fam # None THEN p.fam
      ELSE IF fams = {6} THEN 6 ELSE IF fams = {4, 6} THEN 0 ELSE 4

(* Mutant: a side without addresses of a family is everything in it.       *)
Leg_All(cfg, p, names, f) ==
  IF PolicyFamily(cfg, p) = f THEN names
  ELSE IF PolicyFamily(cfg, p) # 0 THEN {}
  ELSE LET own == {n \in names : n = "all" \/ FamilyOf(cfg, n, 4) = f}
       IN  IF own = {} THEN {"all"} ELSE own

(* The addresses of one side in the table of the family f.                 *)
Leg(cfg, p, names, f) ==
  IF PolicyFamily(cfg, p) = f THEN names
  ELSE IF PolicyFamily(cfg, p) # 0 THEN {}
  ELSE LET own == {n \in names : n = "all" \/ FamilyOf(cfg, n, 4) = f}
       IN  IF own = {} THEN {"none"} ELSE own

BadSchedule(cfg, p) == p.sched # None /\ p.sched \notin Names(cfg.scheds)
BadServices(cfg, p) == p.svcs \ ValidServices(cfg)
BadZones(cfg, p) == {z \in ToSet(p.src) \cup ToSet(p.dst) : ResolveIntf(cfg, z) = None}

PolicyEntry(cfg, mode, p) ==
  LET src == Side(cfg, p.src)
      dst == Side(cfg, p.dst)
      addrs(f) == Leg(cfg, p, p.srcs, f) \cup Leg(cfg, p, p.dsts, f)
      svcs == OrAll(p.svcs \cap ValidServices(cfg))
      sched == IF p.sched = None \/ BadSchedule(cfg, p) THEN "always" ELSE p.sched
      profile == IF p.act = "accept" /\ p.profile # None THEN {<<"profile", p.profile>>} ELSE {}
      nat == NatOf(cfg, mode, p)
  IN  Entry("policy", p.name,
            Refs("intf", src \cup dst) \cup Refs("addr4", addrs(4)) \cup Refs("addr6", addrs(6))
              \cup Refs("svc", svcs) \cup {<<"sched", sched>>} \cup profile
              \cup Refs("pool", nat \ {"interface"}),
            [id |-> p.id, src |-> src, dst |-> dst, svcs |-> svcs, act |-> p.act, off |-> p.off,
             srcs |-> [f \in {4, 6} |-> Leg(cfg, p, p.srcs, f)],
             dsts |-> [f \in {4, 6} |-> Leg(cfg, p, p.dsts, f)],
             srcNeg |-> p.srcNeg, dstNeg |-> p.dstNeg, nat |-> nat, sched |-> sched])

PolicyEntries(cfg, mode) == Each(cfg.pols, LAMBDA p : PolicyEntry(cfg, mode, p))
=============================================================================
