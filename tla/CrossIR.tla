------------------------------ MODULE CrossIR -------------------------------
(***************************************************************************)
(* The intermediate representation of a converted firewall and the         *)
(* transforms that run before it is emitted: fwforge/transforms portmap,   *)
(* names, limits, routes and tuning.  A configuration is a record of the   *)
(* sequences of model.py:                                                  *)
(*   ifaces   name, kind, target (or None), parent, members, id, net       *)
(*   zones    name, members          p1s     name, ifc                     *)
(*   addrs    name, fam, hosts, net (it denotes networks)                  *)
(*   groups   name, members          sgroups name, members                 *)
(*   svcs     name, sig (the ports it stands for)                          *)
(*   profiles name                   scheds  name                          *)
(*   vips     name, ifc, whole       pools   name                          *)
(*   nats     kind, from, to, pool, obj                                    *)
(*   routes   net, ifc               pbrs    in, out                       *)
(*   pols     id, name, src, dst, srcs, dsts, srcNeg, dstNeg, svcs, act,   *)
(*            off, sched, profile, fam (or None), inferred                 *)
(*   passive  the interfaces on which OSPF stays passive, a set            *)
(* src and dst of a policy are sequences of zones or interfaces, srcs and  *)
(* dsts the sets of its addresses.  A network is the set of its hosts.     *)
(***************************************************************************)
EXTENDS Naturals, FiniteSets, Sequences, SequencesExt, FiniteSetsExt, TLC

CONSTANTS
  None,     \* no value
  Clean,    \* the names FortiOS does not take, each with what is left of it
  Long,     \* the interface names of more than 15 characters
  NestMax   \* how deep groups may nest

ASSUME IRAssumption == NestMax \in Nat

Each(s, F(_)) == [i \in DOMAIN s |-> F(s[i])]
Named(s) == Each(s, LAMBDA x : x.name)
Names(s) == ToSet(Named(s))
At(f, n) == IF n \in DOMAIN f THEN f[n] ELSE n
Anys == {"any", "all", ""}

Mapped(i) == IF i.target = None THEN i.name ELSE i.target
IsIface(cfg, n) == n \in Names(cfg.ifaces)
IfaceNamed(cfg, n) ==
  cfg.ifaces[Min({i \in DOMAIN cfg.ifaces : cfg.ifaces[i].name = n})]
Created(i) == i.kind \in {"vlan", "aggregate", "loopback"}

(* The references to interfaces of the given kinds, through F.             *)
Rewire(cfg, F(_), kinds) ==
  LET on(k, s, G(_)) == IF k \in kinds THEN Each(s, G) ELSE s
  IN  [cfg EXCEPT
        !.zones = on("zones", @, LAMBDA z : [z EXCEPT !.members = Each(@, F)]),
        !.p1s = on("p1s", @, LAMBDA p : [p EXCEPT !.ifc = F(@)]),
        !.pols = on("pols", @, LAMBDA p : [p EXCEPT !.src = Each(@, F), !.dst = Each(@, F)]),
        !.routes = on("routes", @, LAMBDA r : [r EXCEPT !.ifc = F(@)]),
        !.vips = on("vips", @, LAMBDA v : [v EXCEPT !.ifc = F(@)]),
        !.nats = on("nats", @, LAMBDA n : [n EXCEPT !.from = F(@), !.to = F(@)]),
        !.pbrs = on("pbrs", @, LAMBDA r : [r EXCEPT !.in = F(@), !.out = F(@)])]

-----------------------------------------------------------------------------
(* portmap.py                                                              *)
OwnNames(cfg) == Names(cfg.zones) \cup Names(cfg.p1s)
Target(cfg, map, n) == IF n \in Anys \cup OwnNames(cfg) THEN n ELSE At(map, n)

(* Mutant: NAT rules keep the names of the source.                         *)
PortRefs_NoNat == {"zones", "p1s", "pols", "routes", "vips", "pbrs"}

(* What apply_ir rewrites.                                                 *)
PortRefs == {"zones", "p1s", "pols", "routes", "vips", "nats", "pbrs"}

ApplyIr(cfg, map) ==
  [Rewire(cfg, LAMBDA n : Target(cfg, map, n), PortRefs)
   EXCEPT !.ifaces = Each(@, LAMBDA i :
     [i EXCEPT !.target = IF i.name \in DOMAIN map THEN map[i.name] ELSE @,
               !.parent = IF i.kind = "vlan" THEN Target(cfg, map, @) ELSE @])]

Unmapped(cfg, map) ==
  LET zoned == UNION {ToSet(z.members) : z \in ToSet(cfg.zones)}
      ruled == UNION {ToSet(p.src) \cup ToSet(p.dst) : p \in ToSet(cfg.pols)}
      bound == {x.ifc : x \in ToSet(cfg.p1s)} \cup {x.ifc : x \in ToSet(cfg.routes)}
                 \cup {x.ifc : x \in ToSet(cfg.vips)}
      steered == UNION {{x.in, x.out} : x \in ToSet(cfg.pbrs)}
                   \cup UNION {{x.from, x.to} : x \in ToSet(cfg.nats)}
      parents == {i.parent : i \in {j \in ToSet(cfg.ifaces) : j.kind = "vlan"}}
      made == {i.name : i \in {j \in ToSet(cfg.ifaces) : Created(j) \/ j.kind = "tunnel"}}
  IN  (zoned \cup ruled \cup bound \cup steered \cup parents)
        \ (Anys \cup OwnNames(cfg) \cup DOMAIN map \cup made \cup {None})

(* One aggregate of the wizard: a LAG of the source, a physical interface  *)
(* that is mapped to the LAG's name, or a new one.                         *)
OneAggregate(cfg, spec) ==
  LET hits(kind) == {i \in DOMAIN cfg.ifaces :
                       cfg.ifaces[i].kind = kind /\ Mapped(cfg.ifaces[i]) = spec.name}
      own == IF hits("aggregate") # {} THEN hits("aggregate") ELSE hits("physical")
      fresh == [name |-> spec.name, kind |-> "aggregate", target |-> spec.name,
                parent |-> None, members |-> spec.members, id |-> None, net |-> None]
  IN  [cfg EXCEPT !.ifaces =
         IF own = {} THEN Append(@, fresh)
         ELSE [@ EXCEPT ![Min(own)].kind = "aggregate", ![Min(own)].target = spec.name,
                        ![Min(own)].members = spec.members]]

(* The LAG that takes the port n: the last one that names it.              *)
Lag(aggs, n) ==
  LET takers == {k \in DOMAIN aggs : n \in ToSet(aggs[k].members) /\ n # aggs[k].name}
  IN  IF takers = {} THEN n ELSE aggs[Max(takers)].name

ApplyAuthoring(cfg, auth) ==
  LET built == FoldLeft(OneAggregate, cfg, auth.aggs)
  IN  [Rewire(built, LAMBDA n : Lag(auth.aggs, n), {"zones", "routes", "vips", "nats"})
       EXCEPT !.ifaces = Each(@, LAMBDA i :
         IF i.kind = "vlan" /\ i.name \in DOMAIN auth.parents
         THEN [i EXCEPT !.parent = auth.parents[i.name]] ELSE i)]

(* Ports that become members of a LAG and stay an interface's own target.  *)
Claimed(cfg, auth) ==
  {i.target : i \in {j \in ToSet(cfg.ifaces) : j.kind \in {"physical", "vlan", "loopback"}}}
    \cap UNION {ToSet(s.members) \ {s.name} : s \in ToSet(auth.aggs)}

-----------------------------------------------------------------------------
(* names.py                                                                *)
Variant(n, k) == n \o "~" \o ToString(k)

(* Mutant: a name that is cut is not made unique.                          *)
Sanitize_Cut(n, taken) == At(Clean, n)

Sanitize(n, taken) ==
  LET legal == At(Clean, n)
      free == {k \in 2 .. Cardinality(taken) + 2 : Variant(legal, k) \notin taken}
  IN  IF legal \in taken THEN Variant(legal, Min(free)) ELSE legal

(* The names of one name space, each unlike those before it.               *)
Sanitized(names) ==
  FoldLeft(LAMBDA done, n : Append(done, Sanitize(n, ToSet(done))), <<>>, names)

(* The map of the renamed ones; of equal names the last one's.             *)
Renames(old, new) ==
  LET renamed == {i \in DOMAIN old : old[i] # new[i]}
  IN  [n \in {old[i] : i \in renamed} |-> new[Max({i \in renamed : old[i] = n})]]

Rename(s, new) == [i \in DOMAIN s |-> [s[i] EXCEPT !.name = new[i]]]
Slice(s, from, n) == SubSeq(s, from + 1, from + n)

(* The renames of each name space.                                         *)
AddrNames(cfg) == Named(cfg.addrs) \o Named(cfg.groups) \o Named(cfg.vips)
SvcNames(cfg) == Named(cfg.svcs) \o Named(cfg.sgroups)
AddrRenames(cfg) == Renames(AddrNames(cfg), Sanitized(AddrNames(cfg)))
SvcRenames(cfg) == Renames(SvcNames(cfg), Sanitized(SvcNames(cfg)))
PolRenames(cfg) == Renames(Named(cfg.pols), Sanitized(Named(cfg.pols)))
ZoneRenames(cfg) == Renames(Named(cfg.zones), Sanitized(Named(cfg.zones)))

(* apply: every reference through the map of the name space it points to.  *)
ApplyNames(cfg) ==
  LET a == AddrRenames(cfg)
      s == SvcRenames(cfg)
      addrs == Sanitized(AddrNames(cfg))
      svcs == Sanitized(SvcNames(cfg))
      through(f, names) == {At(f, n) : n \in names}
      nested(f, groups) == Each(groups, LAMBDA g : [g EXCEPT !.members = Each(@, LAMBDA m : At(f, m))])
  IN  [Rewire(cfg, LAMBDA n : At(ZoneRenames(cfg), n), {"pols", "nats"}) EXCEPT
        !.addrs = Rename(@, Slice(addrs, 0, Len(@))),
        !.groups = Rename(nested(a, @), Slice(addrs, Len(cfg.addrs), Len(@))),
        !.vips = Rename(@, Slice(addrs, Len(cfg.addrs) + Len(cfg.groups), Len(@))),
        !.svcs = Rename(@, Slice(svcs, 0, Len(@))),
        !.sgroups = Rename(nested(s, @), Slice(svcs, Len(cfg.svcs), Len(@))),
        !.zones = Rename(@, Sanitized(Named(@))),
        !.pols = Rename(Each(@, LAMBDA p : [p EXCEPT
                   !.srcs = through(a, @), !.dsts = through(a, @), !.svcs = through(s, @)]),
                   Sanitized(Named(@))),
        !.nats = Each(@, LAMBDA n : [n EXCEPT !.obj = At(a, @)])]

(* What apply returns: the names of rules, through all the maps at once.   *)
AllRenames(cfg) == PolRenames(cfg) @@ SvcRenames(cfg) @@ AddrRenames(cfg)

(* The name a created interface should get: a VLAN keeps its id.           *)
Preferred(cfg, i) ==
  IF i.kind = "vlan" /\ i.id # None
  THEN LET head == IF IsIface(cfg, i.parent) THEN Mapped(IfaceNamed(cfg, i.parent)) ELSE i.parent
       IN  At(Clean, head) \o "." \o i.id
  ELSE Mapped(i)

(* sanitize_interfaces: created interfaces with a name FortiOS rejects get *)
(* another one, and so do the references that hold the old one; policies   *)
(* and policy routes are left, the emitter looks policies' names up.       *)
SanitizeInterfaces(cfg) ==
  LET made == {k \in DOMAIN cfg.ifaces : Created(cfg.ifaces[k])}
      todo == {k \in made : Mapped(cfg.ifaces[k]) \in Long}
      kept == {Mapped(cfg.ifaces[k]) : k \in (made \ todo)
                 \cup {j \in DOMAIN cfg.ifaces : cfg.ifaces[j].kind = "physical"}}
      OneName(c, k) ==
        IF k \notin todo THEN c
        ELSE LET taken == kept \cup {Mapped(c.ifaces[j]) : j \in {x \in todo : x < k}}
             IN  [c EXCEPT !.ifaces[k].target = Sanitize(Preferred(c, c.ifaces[k]), taken)]
      named == FoldLeft(OneName, cfg, [k \in DOMAIN cfg.ifaces |-> k])
      renames == Renames(Each(cfg.ifaces, Mapped), Each(named.ifaces, Mapped))
  IN  Rewire(named, LAMBDA n : At(renames, n), {"zones", "p1s", "routes", "vips", "nats"})

SanitizeProfiles(cfg) ==
  LET new == Sanitized(Named(cfg.profiles))
      renames == Renames(Named(cfg.profiles), new)
  IN  [cfg EXCEPT !.profiles = Rename(@, new),
                  !.pols = Each(@, LAMBDA p : [p EXCEPT !.profile = At(renames, @)])]

-----------------------------------------------------------------------------
(* Groups: what a name stands for, and how deep it nests.                  *)
GroupNamed(groups, n) == CHOOSE g \in ToSet(groups) : g.name = n

(* The names below n, n included: as many rounds as there are groups.      *)
Below(groups, n) ==
  FoldLeft(LAMBDA S, g : S \cup UNION {ToSet(h.members) : h \in {x \in ToSet(groups) : x.name \in S}},
           {n}, groups)

RECURSIVE Depth(_, _, _)
Depth(groups, n, seen) ==
  IF n \in seen \/ n \notin Names(groups) THEN 0
  ELSE 1 + Max({0} \cup {Depth(groups, m, seen \cup {n}) : m \in ToSet(GroupNamed(groups, n).members)})

TooDeep(cfg) ==
  {n \in Names(cfg.groups) : Depth(cfg.groups, n, {}) > NestMax}
    \cup {n \in Names(cfg.sgroups) : Depth(cfg.sgroups, n, {}) > NestMax}

-----------------------------------------------------------------------------
(* routes.py: connected networks and routes, longest prefix first.         *)
RouteEntries(cfg) ==
  SelectSeq(Each(cfg.ifaces, LAMBDA i : [net |-> i.net, ifc |-> i.name]), LAMBDA e : e.net # None)
    \o cfg.routes

(* The interface of the first of the smallest networks that hold net.      *)
LookupNet(cfg, net) ==
  LET table == RouteEntries(cfg)
      hold == {k \in DOMAIN table : net \subseteq table[k].net}
      size(k) == Cardinality(table[k].net)
      best == {k \in hold : \A j \in hold : size(k) <= size(j)}
  IN  IF hold = {} THEN None ELSE table[Min(best)].ifc

(* The addresses an address or group stands for; every one must be known.  *)
Leaves(cfg, n) == Below(cfg.groups, n) \ Names(cfg.groups)
Resolves(cfg, n) ==
  Leaves(cfg, n) # {} /\ \A m \in Leaves(cfg, n) : \E a \in ToSet(cfg.addrs) : a.name = m /\ a.net
Networks(cfg, n) ==
  {a.hosts : a \in {x \in ToSet(cfg.addrs) : x.name \in Leaves(cfg, n) /\ x.net}}

(* Mutant: what does not resolve is left out instead of meaning any.       *)
InferDst_Some(cfg, p) ==
  LET egress == {LookupNet(cfg, net) : net \in UNION {Networks(cfg, n) : n \in p.dsts}}
  IN  IF p.dst # <<>> THEN p
      ELSE IF Cardinality(egress) # 1 \/ None \in egress THEN [p EXCEPT !.dst = <<"any">>]
      ELSE [p EXCEPT !.dst = <<CHOOSE e \in egress : TRUE>>, !.inferred = TRUE]

InferDst(cfg, p) ==
  LET egress == {LookupNet(cfg, net) : net \in UNION {Networks(cfg, n) : n \in p.dsts}}
      known == \A n \in p.dsts : Resolves(cfg, n)
  IN  IF p.dst # <<>> THEN p
      ELSE IF ~known \/ Cardinality(egress) # 1 \/ None \in egress THEN [p EXCEPT !.dst = <<"any">>]
      ELSE [p EXCEPT !.dst = <<CHOOSE e \in egress : TRUE>>, !.inferred = TRUE]

InferDstZones(cfg) == [cfg EXCEPT !.pols = Each(@, LAMBDA p : InferDst(cfg, p))]

-----------------------------------------------------------------------------
(* tuning.py                                                               *)
(* The first of the objects with the same definition.                      *)
Canon(s, keys) ==
  [n \in Names(s) |->
     LET own == CHOOSE i \in DOMAIN s : s[i].name = n
     IN  s[Min({i \in DOMAIN s : keys[i] = keys[own]})].name]

MergeDuplicates(cfg) ==
  LET a == Canon(cfg.addrs, Each(cfg.addrs, LAMBDA x : <<x.fam, x.net, x.hosts>>))
      s == Canon(cfg.svcs, Each(cfg.svcs, LAMBDA x : x.sig))
      through(f, names) == {At(f, n) : n \in names}
      once(f, groups) == Each(groups, LAMBDA g :
        [g EXCEPT !.members = FoldLeft(LAMBDA l, m : IF m \in ToSet(l) THEN l ELSE Append(l, m),
                                       <<>>, Each(@, LAMBDA m : At(f, m)))])
  IN  [cfg EXCEPT
        !.addrs = SelectSeq(@, LAMBDA x : a[x.name] = x.name),
        !.svcs = SelectSeq(@, LAMBDA x : s[x.name] = x.name),
        !.groups = once(a, @), !.sgroups = once(s, @),
        !.pols = Each(@, LAMBDA p : [p EXCEPT !.srcs = through(a, @), !.dsts = through(a, @),
                                              !.svcs = through(s, @)]),
        !.nats = Each(@, LAMBDA n : [n EXCEPT !.obj = At(a, @)])]

(* --only first, then --exclude.                                           *)
FilterPolicies(cfg, exclude, only) ==
  [cfg EXCEPT !.pols = SelectSeq(@, LAMBDA p :
     (only = {} \/ p.name \in only) /\ p.name \notin exclude)]

(* A policy for every pair of its zones; the names stay unique.            *)
PairName(base, n, used) ==
  LET name(k) == base \o "-" \o ToString(n) \o (IF k = 0 THEN "" ELSE "x" \o ToString(k))
  IN  name(Min({k \in 0 .. Cardinality(used) : name(k) \notin used}))

SplitOne(pols, p) ==
  LET side(z) == IF z = <<>> THEN <<"any">> ELSE z
      wide == Len(side(p.dst))
      OnePair(done, n) ==
        Append(done, [p EXCEPT !.name = PairName(p.name, n, Names(pols) \cup Names(done)),
                               !.src = <<side(@)[1 + ((n - 1) \div wide)]>>,
                               !.dst = <<side(@)[1 + ((n - 1) % wide)]>>])
  IN  IF Len(p.src) <= 1 /\ Len(p.dst) <= 1 THEN <<p>>
      ELSE FoldLeft(OnePair, <<>>, [n \in 1 .. Len(side(p.src)) * wide |-> n])

SplitInterfacePairs(cfg) ==
  [cfg EXCEPT !.pols = FoldLeft(LAMBDA done, p :
     done \o SplitOne(cfg.pols \o done, p), <<>>, @)]

(* Objects that no policy, NAT rule or group in use needs are dropped.     *)
Prune(cfg) ==
  LET roots == UNION {p.srcs \cup p.dsts : p \in ToSet(cfg.pols)} \cup {n.obj : n \in ToSet(cfg.nats)}
      used == UNION {Below(cfg.groups, n) : n \in roots}
      called == UNION {Below(cfg.sgroups, n) : n \in UNION {p.svcs : p \in ToSet(cfg.pols)}}
      among(s, names) == SelectSeq(s, LAMBDA x : x.name \in names)
  IN  [cfg EXCEPT !.addrs = among(@, used), !.groups = among(@, used),
                  !.svcs = among(@, called), !.sgroups = among(@, called)]

Tune(cfg, t, renames) ==
  LET local(names) == {At(renames, n) : n \in names}
      merged == IF t.merge THEN MergeDuplicates(cfg) ELSE cfg
      chosen == FilterPolicies(merged, local(t.exclude), local(t.only))
      paired == IF t.split THEN SplitInterfacePairs(chosen) ELSE chosen
  IN  IF t.prune THEN Prune(paired) ELSE paired
=============================================================================
