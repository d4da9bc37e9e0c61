----------------------------- MODULE TreeZones ------------------------------
(***************************************************************************)
(* Folding interfaces into zones and into SD-WAN                           *)
(* (fwforge/transforms/zones.py, sdwan.py).  A plan's zone spec is         *)
(* [name, members, intra, vdom], its members a set; an SD-WAN spec is      *)
(* [name, members, check, rule, prefer, vdom], its members a sequence of   *)
(* [ifc, gw], check "default", "none" or a server, rule one of auto, sla,  *)
(* load-balance, priority, none.  vdom is None or an assertion.            *)
(***************************************************************************)
EXTENDS TreeRefs

Members(spec) == {m.ifc : m \in ToSet(spec.members)}
AllZones(t) == UNION {t.bodies[v].zones : v \in DOMAIN t.bodies}
ZonedNames(t) == UNION {z.members : z \in AllZones(t)}
SdwanNames(t) ==
  UNION {{m.ifc : m \in ToSet(t.bodies[v].sd.members)} : v \in DOMAIN t.bodies}

(* resolve_spec_vdom and vdom_scope accept: the members share one VDOM,    *)
(* the plan's assertion agrees, and that VDOM has a body.                  *)
SpecVdom(t, names) == IfaceVdom(t, CHOOSE n \in names : TRUE)
VdomResolves(t, names, declared) ==
  LET vs == {IfaceVdom(t, n) : n \in names}
  IN  /\ \E v \in vs : vs = {v} /\ declared \in {None, v}
      /\ t.multi => vs \subseteq DOMAIN t.bodies

(* vdom_scope: a flat tree is one scope whatever its interfaces say.       *)
Scope(t, v) == IF t.multi THEN v ELSE CHOOSE w \in DOMAIN t.bodies : TRUE

(* zones.validate, apply_zones: FALSE where PlanError is raised.           *)
ZonesValid(t, specs) ==
  /\ \A i \in DOMAIN specs :
       /\ specs[i].name \notin IfaceNames(t)
       /\ specs[i].members \subseteq IfaceNames(t)
       /\ specs[i].members \cap SdwanNames(t) = {}
       /\ \A z \in AllZones(t) : z.members \cap specs[i].members # {} => z.name = specs[i].name
       /\ VdomResolves(t, specs[i].members, specs[i].vdom)
  /\ \A i, j \in DOMAIN specs :
       specs[i].name # specs[j].name => specs[i].members \cap specs[j].members = {}

(* _upsert_zone, for spec after spec: an existing zone gains the members   *)
(* and keeps its intrazone setting; a new one has that of its first spec.  *)
Gains(specs, n) == UNION {s.members : s \in {q \in ToSet(specs) : q.name = n}}
FirstOfName(specs, n) == specs[Min({i \in DOMAIN specs : specs[i].name = n})]
UpsertZones(zones, specs) ==
  {[z EXCEPT !.members = @ \cup Gains(specs, z.name)] : z \in zones}
    \cup {[name |-> n, members |-> Gains(specs, n), intra |-> FirstOfName(specs, n).intra] :
            n \in {s.name : s \in ToSet(specs)} \ {z.name : z \in zones}}

SpecMap(specs) ==
  [n \in UNION {s.members : s \in ToSet(specs)} |->
     (CHOOSE s \in ToSet(specs) : n \in s.members).name]

(* _rebind_associated_addresses: an address bound to a member moves to the *)
(* zone, or the device would reject it in a policy on the zone.            *)
RebindAddresses(b, m) ==
  [b EXCEPT !.addrs = {[a EXCEPT !.bound = Rename(m, @)] : a \in @}]

(* apply_zones: create or extend, then rewrite within each VDOM's scope.   *)
ZonesBody(b, specs) ==
  RebindAddresses(RewritePolicyRefs([b EXCEPT !.zones = UpsertZones(@, specs)],
                                    SpecMap(specs)), SpecMap(specs))

ZoneSpecsOf(t, specs, v) ==
  Among(specs, {s \in ToSet(specs) : Scope(t, SpecVdom(t, s.members)) = v})
ApplyZones(t, specs) ==
  [t EXCEPT !.bodies = [v \in DOMAIN @ |-> ZonesBody(@[v], ZoneSpecsOf(t, specs, v))]]

(* _flag_same_zone_policies                                                *)
SameZonePolicies(t, specs) ==
  UNION {{<<v, p.id>> : p \in {q \in ToSet(t.bodies[v].policies) :
           q.src # {} /\ q.src = q.dst /\ q.src \subseteq {s.name : s \in ToSet(specs)}}} :
         v \in DOMAIN t.bodies}

-----------------------------------------------------------------------------
(* sdwan.validate, apply_sdwan: FALSE where PlanError is raised.           *)
SdwanValid(t, specs) ==
  /\ \A i \in DOMAIN specs :
       /\ specs[i].name \notin IfaceNames(t)
       /\ specs[i].rule = "priority" => specs[i].prefer \in Members(specs[i])
       /\ ~(specs[i].rule = "sla" /\ specs[i].check = "none")
       /\ Members(specs[i]) \subseteq IfaceNames(t) \ (ZonedNames(t) \cup SdwanNames(t))
       /\ Cardinality(Members(specs[i])) = Len(specs[i].members)
       /\ VdomResolves(t, Members(specs[i]), specs[i].vdom)
  /\ \A i, j \in DOMAIN specs : i # j => Members(specs[i]) \cap Members(specs[j]) = {}

(* _next_edit_id: new entries are numbered on from the greatest id.        *)
NextId(s) == Max({0} \cup {s[i].id : i \in DOMAIN s}) + 1
Numbered(s, es) == s \o [i \in DOMAIN es |-> [es[i] EXCEPT !.id = NextId(s) + i - 1]]

(* A route through a zone, without an id yet.                              *)
ZoneRoute(kind, dst, zone, dist) ==
  [id |-> None, kind |-> kind, dst |-> dst, dev |-> None, zone |-> zone,
   gw |-> None, dist |-> dist]

(* An interface-bound route of a member; an internet-service route stays.  *)
MemberRoutes(b, names) == {r \in ToSet(b.routes) : r.dev \in names /\ r.kind # "isdb"}
MemberDefaults(b, names) == {r \in MemberRoutes(b, names) : r.kind = "default"}
Specifics(b, names) == Among(b.routes, MemberRoutes(b, names) \ MemberDefaults(b, names))

(* The gateway of the first default route of a member.                     *)
GatewayOf(b, n) ==
  LET d == Among(b.routes, {r \in MemberDefaults(b, {n}) : r.gw # None})
  IN  IF d = <<>> THEN None ELSE Head(d).gw

(* The zones that lost a default route, and the routes that stay.          *)
LostDefaults(b, zoneOf) == {zoneOf[r.dev] : r \in MemberDefaults(b, DOMAIN zoneOf)}
StayingRoutes(b, names) == Among(b.routes, ToSet(b.routes) \ MemberRoutes(b, names))

(* Mutant: one replacement route for all the zones that lost a default.    *)
ReplaceDefaults_Shared(b, zoneOf) ==
  LET lost == LostDefaults(b, zoneOf)
      kept == StayingRoutes(b, DOMAIN zoneOf)
  IN  IF lost = {} THEN kept
      ELSE Numbered(kept, <<ZoneRoute("default", None, CHOOSE z \in lost : TRUE, None)>>)

(* convert_member_routes: member routes go, each zone that lost a default  *)
(* route gets one of its own, with the distance if there was only one.     *)
ReplaceDefaults(b, zoneOf) ==
  LET dists(z) == {r.dist : r \in {d \in MemberDefaults(b, DOMAIN zoneOf) : zoneOf[d.dev] = z}} \ {None}
      dist(z) == IF Cardinality(dists(z)) = 1 THEN CHOOSE d \in dists(z) : TRUE ELSE None
  IN  Numbered(StayingRoutes(b, DOMAIN zoneOf),
               MapSeq(LAMBDA z : ZoneRoute("default", None, z, dist(z)),
                      SetToSeq(LostDefaults(b, zoneOf))))

(* The members of one spec; a gateway of the plan beats the route's.       *)
Joining(b, spec) ==
  MapSeq(LAMBDA m : [id |-> None, ifc |-> m.ifc, zone |-> spec.name,
                     gw |-> IF m.gw # None THEN m.gw ELSE GatewayOf(b, m.ifc)],
         spec.members)
AddMembers(b, specs) ==
  Numbered(b.sd.members, FlattenSeq(MapSeq(LAMBDA s : Joining(b, s), specs)))

MemberId(members, n) == (CHOOSE m \in ToSet(members) : m.ifc = n).id
MemberIds(members, spec) == MapSeq(LAMBDA m : MemberId(members, m.ifc), spec.members)

(* The health check of a spec is named after its zone; one of that name in *)
(* the source stays as it is.                                              *)
AddCheck(checks, spec, members) ==
  IF spec.check = "none" \/ \E c \in checks : c.zone = spec.name THEN checks
  ELSE checks \cup {[zone |-> spec.name, ids |-> ToSet(MemberIds(members, spec))]}

(* _service_rule, without an id yet                                        *)
ServiceRule(mode, dst, ids, check) ==
  [id |-> None, mode |-> mode, dst |-> dst, ids |-> ids, check |-> check]

(* A specific route becomes a rule pinned to its member, on an address     *)
(* object (_ensure_address), and a route through the zone.                 *)
Pin(members, r) == ServiceRule("manual", r.dst, <<MemberId(members, r.dev)>>, None)
PinAddresses(addrs, pins) ==
  addrs \cup {[name |-> n, bound |-> None] :
                n \in {r.dst : r \in ToSet(pins)} \ {a.name : a \in addrs}}
PinRoutes(routes, pins, zoneOf) ==
  Numbered(routes, MapSeq(LAMBDA r : ZoneRoute(r.kind, r.dst, zoneOf[r.dev], None), pins))

(* The steering rule of a spec; a spec of mode none has no rule.           *)
WithRule(specs) == Among(specs, {s \in ToSet(specs) : s.rule # "none"})
Steer(members, spec) ==
  LET mode == IF spec.rule # "auto" THEN spec.rule
              ELSE IF spec.check # "none" THEN "sla" ELSE "load-balance"
      ids == MemberIds(members, spec)
      first == MemberId(members, spec.prefer)
  IN  IF mode = "priority"
      THEN ServiceRule("manual", "all", <<first>> \o Among(ids, ToSet(ids) \ {first}), None)
      ELSE ServiceRule(mode, "all", ids, IF mode = "sla" THEN spec.name ELSE None)

(* `system sdwan`: zones and members, health checks, pinned prefixes, and  *)
(* then the steering rules.                                                *)
SdwanSection(b, specs, pins) ==
  LET members == AddMembers(b, specs)
      rules == MapSeq(LAMBDA r : Pin(members, r), pins)
                 \o MapSeq(LAMBDA s : Steer(members, s), WithRule(specs))
  IN  [on |-> TRUE,
       zones |-> b.sd.zones \cup {s.name : s \in ToSet(specs)},
       members |-> members,
       checks |-> FoldLeft(LAMBDA cs, s : AddCheck(cs, s, members), b.sd.checks, specs),
       rules |-> Numbered(b.sd.rules, rules)]

(* apply_sdwan within one VDOM; the policies come last.                    *)
SdwanMap(specs) ==
  [n \in UNION {Members(s) : s \in ToSet(specs)} |->
     (CHOOSE s \in ToSet(specs) : n \in Members(s)).name]
SdwanBody(b, specs) ==
  LET zoneOf == SdwanMap(specs)
      pins == Specifics(b, DOMAIN zoneOf)
  IN  RewritePolicyRefs(
        [b EXCEPT !.sd = SdwanSection(b, specs, pins),
                  !.addrs = PinAddresses(@, pins),
                  !.routes = PinRoutes(ReplaceDefaults(b, zoneOf), pins, zoneOf)],
        zoneOf)

SdwanSpecsOf(t, specs, v) ==
  Among(specs, {s \in ToSet(specs) : Scope(t, SpecVdom(t, Members(s))) = v})
ApplySdwan(t, specs) ==
  [t EXCEPT !.bodies = [v \in DOMAIN @ |->
     IF SdwanSpecsOf(t, specs, v) = <<>> THEN @[v] ELSE SdwanBody(@[v], SdwanSpecsOf(t, specs, v))]]
=============================================================================
