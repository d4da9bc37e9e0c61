------------------------------ MODULE Migrate -------------------------------
(***************************************************************************)
(* run_migrate (fwforge/pipeline.py): a FortiOS configuration is moved to  *)
(* another model, one transform of the tree after the other.  A plan is a  *)
(* record of everything the caller passes:                                 *)
(*   portmap, vdommap   functions;  zones, sdwan  see TreeZones            *)
(*   mode, vdom, scopeOnly   the VDOM mode: keep, multi or single          *)
(*   hw, ssl            convert hardware switches, SSL-VPN?                *)
(*   stated, target     versions or None;  identity  a hostname or None    *)
(*   device             the ports of the destination, or None              *)
(***************************************************************************)
EXTENDS TreeZones, TreeModes

CONSTANTS
  Cases,   \* what is migrated: records of tree, header (a version) and plan
  Reach    \* the pairs <<in, out>> of ports whose traffic is followed

VARIABLES
  job,     \* the case; its plan after translate_members
  tree,    \* the tree
  stage,   \* the transform that comes next, "done" or "refused" (PlanError)
  told     \* the findings that properties are about: <<area, subject>>

vars == <<job, tree, stage, told>>

-----------------------------------------------------------------------------
(* A configuration as FortiOS writes it: every interface of a multi-VDOM   *)
(* one names its VDOM, one without VDOMs has the body "root" only, and the *)
(* members of an aggregate have entries of their own.                      *)
IsTable(s, fields) ==
  s \in Seq(ToSet(s)) /\ \A e \in ToSet(s) : DOMAIN e = fields /\ e.id \in Nat
BodyFields == {"zones", "sd", "addrs", "routes", "policies", "others", "ssl", "tunnels"}
HasTables(b) ==
  /\ DOMAIN b = BodyFields
  /\ DOMAIN b.sd = {"on", "zones", "members", "checks", "rules"}
  /\ IsTable(b.routes, {"id", "kind", "dst", "dev", "zone", "gw", "dist"})
  /\ IsTable(b.policies, {"id", "name", "src", "dst", "addr", "act", "rest"})
  /\ IsTable(b.sd.members, {"id", "ifc", "zone", "gw"})
  /\ IsTable(b.sd.rules, {"id", "mode", "dst", "ids", "check"})
  /\ \A z \in b.zones : DOMAIN z = {"name", "members", "intra"}
  /\ \A a \in b.addrs : DOMAIN a = {"name", "bound"}
  /\ \A o \in b.others : DOMAIN o = {"at", "ifc"}
  /\ \A p \in b.tunnels : DOMAIN p = {"name", "ifc", "split", "pool"}
  /\ b.ssl # None => DOMAIN b.ssl = {"ifc", "pools", "portals", "groups"}
IsBody(b) == HasTables(b) /\ (b.ssl # None => b.ssl.portals \in Seq(ToSet(b.ssl.portals)))

TreeFields == {"multi", "mgmt", "host", "ifaces", "switches", "words", "bodies"}
IfaceFields == {"name", "vdom", "type", "members", "parent", "port"}
IsTree(t) ==
  /\ DOMAIN t = TreeFields /\ t.multi \in BOOLEAN /\ IsFiniteSet(DOMAIN t.bodies)
  /\ \A i \in t.ifaces : DOMAIN i = IfaceFields
  /\ \A w \in t.words : DOMAIN w = {"word", "spelling"}
  /\ \A v \in DOMAIN t.bodies : IsBody(t.bodies[v])
  /\ \A i \in t.ifaces : i.type = "aggregate" => i.members \subseteq IfaceNames(t)
  /\ IF t.multi
     THEN /\ \A i \in t.ifaces : i.vdom \in DOMAIN t.bodies \ {None}
          /\ t.mgmt \in DOMAIN t.bodies \cup {None}
     ELSE DOMAIN t.bodies = {"root"} /\ t.mgmt = None

(* The header of a file gives the full version; users may give the train   *)
(* only.  A renamed word is spelled as the file's own version spells it.   *)
IsVersion(v) == v.train \in Nat /\ v.patch \in Nat \cup {None}
Spelling(r, v) == IF r.since <= v.train THEN "new" ELSE "old"
ListOf(s, fields) == s \in Seq(ToSet(s)) /\ \A e \in ToSet(s) : DOMAIN e = fields
IsCase(c) ==
  /\ DOMAIN c = {"tree", "header", "plan"} /\ IsTree(c.tree)
  /\ DOMAIN c.plan = {"portmap", "vdommap", "zones", "sdwan", "mode", "vdom", "scopeOnly",
                      "hw", "ssl", "stated", "target", "identity", "device"}
  /\ c.plan.vdom # None
  /\ ListOf(c.plan.zones, {"name", "members", "intra", "vdom"})
  /\ ListOf(c.plan.sdwan, {"name", "members", "check", "rule", "prefer", "vdom"})
  /\ \A s \in ToSet(c.plan.sdwan) : ListOf(s.members, {"ifc", "gw"})
  /\ \A v \in DOMAIN c.tree.bodies :   \* None is no section
       c.tree.bodies[v].ssl # None => RenameBody(c.tree.bodies[v], c.plan.portmap).ssl # None
  /\ \A v \in {c.header, c.plan.stated, c.plan.target} : v # None => IsVersion(v)
  /\ c.header # None =>
       /\ c.header.patch # None
       /\ \A w \in c.tree.words, r \in Rules :
            r.kind = "renamed" /\ r.word = w.word => w.spelling = Spelling(r, c.header)

ASSUME CasesAssumption == \A c \in Cases : IsCase(c)

(* versiondelta.RULES renames a word once.                                 *)
ASSUME RulesAssumption ==
  /\ \A r \in Rules : r.since \in Nat
  /\ \A r, q \in Rules : r.kind = "renamed" /\ q.kind = "renamed" /\ r.word = q.word
                         => r.since = q.since

(* VDOM_NAME_RE does not match the empty name.                             *)
ASSUME GoodNamesAssumption == None \notin GoodNames

-----------------------------------------------------------------------------
Stages == <<"mode", "vdommap", "hw", "ssl", "version", "device", "identity",
            "portmap", "zones", "sdwan", "dedup", "audit", "done">>
Plan == job.plan

TypeOK ==
  /\ tree.multi \in BOOLEAN
  /\ tree.multi \/ DOMAIN tree.bodies = {"root"}
  /\ stage \in ToSet(Stages) \cup {"refused"}
  /\ \A x \in told : x[1] \in {"device", "portmap", "ssl", "version", "same-zone",
                               "conflict", "zones", "sdwan"}

Tell(area, subjects) == told' = told \cup ({area} \X subjects)

After(s) == Stages[1 + CHOOSE i \in DOMAIN Stages : Stages[i] = s]

(* The transform at s turns the tree into t.                               *)
Step(s, t) ==
  /\ stage = s
  /\ tree' = t
  /\ stage' = After(s)
  /\ UNCHANGED job

(* PlanError at s: no output is written.                                   *)
Refuse(s) == stage = s /\ stage' = "refused" /\ UNCHANGED <<job, tree, told>>

-----------------------------------------------------------------------------
Mode ==
  /\ Step("mode", CASE Plan.mode = "multi" -> ToMultiVdom(tree, Plan.vdom, Plan.scopeOnly)
                    [] Plan.mode = "single" -> ToSingleVdom(tree)
                    [] OTHER -> tree)
  /\ UNCHANGED told

VdomMap ==
  \/ VdomMapValid(tree, Plan.vdommap)
       /\ Step("vdommap", RenameVdoms(tree, Plan.vdommap)) /\ UNCHANGED told
  \/ ~VdomMapValid(tree, Plan.vdommap) /\ Refuse("vdommap")

Hw ==
  /\ Step("hw", IF Plan.hw THEN HwSwitch(tree) ELSE tree)
  /\ UNCHANGED told

Ssl ==
  /\ Step("ssl", IF Plan.ssl THEN SslToIpsec(tree) ELSE tree)
  /\ Tell("ssl", IF Plan.ssl THEN SslTold(tree) ELSE {})

(* Without a stated target the source's own version is the target.         *)
Version ==
  LET s == SourceVersion(job.header, Plan.stated)
      d == IF Plan.target = None THEN s ELSE Plan.target
  IN  /\ Step("version", [tree EXCEPT !.words = Scan(@, s, d)])
      /\ Tell("version", ScanTold(tree.words, s, d))

(* Physical names that will not exist on the destination.                  *)
Device ==
  /\ Step("device", tree)
  /\ Tell("device", IF Plan.device = None THEN {}
                    ELSE RenameAll(Plan.portmap, PhysicalNames(tree)) \ Plan.device)

(* _apply_device_identity                                                  *)
Identity ==
  /\ Step("identity", IF Plan.identity = None THEN tree
                      ELSE [tree EXCEPT !.host = Plan.identity])
  /\ UNCHANGED told

Portmap ==
  LET renamed == ApplyTree(tree, Plan.portmap)
  IN  /\ Step("portmap", renamed)
      /\ Tell("portmap", {r.ifc : r \in LeftoverScan(renamed, Plan.portmap)})

Zones ==
  \/ /\ ZonesValid(tree, Plan.zones)
     /\ Step("zones", ApplyZones(tree, Plan.zones))
     /\ Tell("same-zone", SameZonePolicies(tree', Plan.zones))
  \/ ~ZonesValid(tree, Plan.zones) /\ Refuse("zones")

Sdwan ==
  \/ SdwanValid(tree, Plan.sdwan)
       /\ Step("sdwan", ApplySdwan(tree, Plan.sdwan)) /\ UNCHANGED told
  \/ ~SdwanValid(tree, Plan.sdwan) /\ Refuse("sdwan")

(* Policies are merged only after a zone or SD-WAN refactor.               *)
Refactors == Plan.zones # <<>> \/ Plan.sdwan # <<>>
Dedup ==
  /\ Step("dedup", IF Refactors THEN DedupPolicies(tree) ELSE tree)
  /\ Tell("conflict", IF Refactors THEN Conflicts(tree') ELSE {})

(* References that stayed behind on ports that moved.                      *)
Audit ==
  LET zoned == AuditLeftovers(tree, UNION {s.members : s \in ToSet(Plan.zones)}, ZoneAllowed)
      steered == AuditLeftovers(tree, UNION {Members(s) : s \in ToSet(Plan.sdwan)}, SdwanAllowed)
  IN  /\ Step("audit", tree)
      /\ told' = told \cup {<<"zones", r>> : r \in zoned} \cup {<<"sdwan", r>> : r \in steered}

Init ==
  /\ job \in {[c EXCEPT !.plan = TranslateMembers(@)] : c \in Cases}
  /\ tree = job.tree
  /\ stage = "mode"
  /\ told = {}

Next == Mode \/ VdomMap \/ Hw \/ Ssl \/ Version \/ Device \/ Identity \/ Portmap
          \/ Zones \/ Sdwan \/ Dedup \/ Audit

Spec == Init /\ [][Next]_vars

-----------------------------------------------------------------------------
(* What the device makes of a tree.                                        *)

Done == stage = "done"
InVdom(t, v) == {i \in t.ifaces : ~t.multi \/ IfaceVdom(t, i.name) = v}
VdomZones(b) == {z.name : z \in b.zones} \cup b.sd.zones
Tunnels(b) == {p.name : p \in b.tunnels} \cup (IF b.ssl = None THEN {} ELSE {SslName})

(* The physical ports behind a name a policy of VDOM v may use; remote     *)
(* users arrive at the port "remote".                                      *)
IfacePorts(t, v, names) == {i.port : i \in {j \in InVdom(t, v) : j.name \in names}}
MembersOf(b, n) ==
  IF n \in b.sd.zones THEN {m.ifc : m \in {x \in ToSet(b.sd.members) : x.zone = n}}
  ELSE IF \E z \in b.zones : z.name = n
  THEN UNION {z.members : z \in {y \in b.zones : y.name = n}}
  ELSE {n}
PortsOf(t, v, n) ==
  IF n = "any" THEN {i.port : i \in InVdom(t, v)} \cup {"remote"}
  ELSE LET b == t.bodies[v]
           ms == MembersOf(b, n)
       IN  IfacePorts(t, v, ms \ Tunnels(b))
             \cup (IF ms \cap Tunnels(b) = {} THEN {} ELSE {"remote"})

(* First match of the policies of VDOM v; a packet is <<in, out, addr>>.   *)
Matches(t, v, p, f) ==
  /\ \E n \in p.src : f[1] \in PortsOf(t, v, n)
  /\ \E n \in p.dst : f[2] \in PortsOf(t, v, n)
  /\ p.addr \in {"all", f[3]}
  /\ p.rest # "off"
Verdict(t, v, f) ==
  LET ps == t.bodies[v].policies
      hit == {i \in DOMAIN ps : Matches(t, v, ps[i], f)}
  IN  IF hit = {} THEN "deny" ELSE ps[Min(hit)].act

Addrs == {"x", "other"}
Flows == {<<r[1], r[2], a>> : r \in Reach, a \in Addrs}

(* What has become of VDOM v of the source: by its mode, and by its name.  *)
ModeNow(v) ==
  IF Plan.mode = "multi" /\ ~job.tree.multi THEN Plan.vdom
  ELSE IF Plan.mode = "single" /\ ~tree.multi THEN "root" ELSE v
VdomNow(v) == Rename(VdomPairs(Plan.vdommap), ModeNow(v))

PlannedZones == {s.name : s \in ToSet(Plan.zones) \cup ToSet(Plan.sdwan)}
PlannedPorts(v) == UNION {PortsOf(tree, v, z) : z \in PlannedZones}
PortOf(t, n) == (CHOOSE i \in t.ifaces : i.name = n).port
Lands == Done /\ ~Plan.scopeOnly

-----------------------------------------------------------------------------
(* No policy, route, zone, SD-WAN member, tunnel, SSL-VPN or bound address *)
(* of the body names an interface, tunnel or zone that does not exist; own *)
(* are the interfaces of its VDOM.                                         *)
OwnNames(t, v) == {i.name : i \in InVdom(t, v)}
SdwanPorts(b) == {m.ifc : m \in ToSet(b.sd.members)}
Joined(b) == (UNION {z.members : z \in b.zones}) \cup SdwanPorts(b)
BodyResolves(b, own) ==
  LET names == own \cup Tunnels(b)
  IN  /\ \A p \in ToSet(b.policies) :
           p.src \cup p.dst \subseteq names \cup VdomZones(b) \cup {"any"}
      /\ \A r \in BodyRefs(b) : r.at # "policy" => r.ifc \in names \cup VdomZones(b) \cup {None}
      /\ Joined(b) \subseteq names
      /\ b.ssl # None => b.ssl.ifc \in names \cup VdomZones(b) \cup {None}
      /\ \A r \in ToSet(b.routes) : r.zone = None \/ r.zone \in b.sd.zones
      /\ \A m \in ToSet(b.sd.members) : m.zone \in b.sd.zones
Resolved(t) == \A v \in DOMAIN t.bodies : BodyResolves(t.bodies[v], OwnNames(t, v))

(* After a migration every reference resolves: swaps and chains of renames *)
(* are applied at once (portmap.apply_tree).                               *)
ReferencesResolve == Lands => Resolved(tree)

(* Traffic between ports that no planned zone contains gets the verdict it *)
(* got on the source device: renaming, VDOM conversion, zones, SD-WAN and  *)
(* merging of policies change nothing for it.                              *)
OtherTrafficUntouched ==
  Lands => \A v \in DOMAIN job.tree.bodies : \A f \in Flows :
    {f[1], f[2]} \cap PlannedPorts(VdomNow(v)) = {} =>
      Verdict(tree, VdomNow(v), f) = Verdict(job.tree, v, f)

(* "it could never match": merging duplicates changes no verdict at all    *)
(* (tree_refs.dedup_policies).                                             *)
DedupKeepsVerdicts ==
  [][stage = "dedup" => \A v \in DOMAIN tree.bodies : \A f \in Flows :
       Verdict(tree', v, f) = Verdict(tree, v, f)]_vars

(* The device refuses a zone whose member is used by a policy: afterwards  *)
(* no policy names a member of a zone or of SD-WAN.                        *)
ThroughZones(b) == \A p \in ToSet(b.policies) : (p.src \cup p.dst) \cap Joined(b) = {}
OnlyThroughZones == Done => \A v \in DOMAIN tree.bodies : ThroughZones(tree.bodies[v])

(* An address bound to an interface is usable by the policies on that very *)
(* interface or zone only: it follows its policies, or it is on one of the *)
(* ports that are excused.                                                 *)
BoundFollow(b, excused) ==
  \A p \in ToSet(b.policies), a \in b.addrs :
    a.name = p.addr /\ a.bound # None => a.bound \in p.src \cup p.dst \cup excused
BoundTold == {x[2].ifc : x \in {y \in told : y[1] = "sdwan" /\ y[2].at = "bound"}}

(* A bound address that no longer follows its policies is told.            *)
BoundAddressesUsable ==
  Done => \A v \in DOMAIN tree.bodies : BoundFollow(tree.bodies[v], BoundTold)

(* A default route of a new SD-WAN member is replaced by one through the   *)
(* member's zone, and its gateway is kept on the member.                   *)
DefaultRoutesKept ==
  Done => \A v \in DOMAIN job.tree.bodies : \A r \in ToSet(job.tree.bodies[v].routes) :
    r.kind = "default" /\ r.dev # None =>
      LET b == tree.bodies[VdomNow(v)]
          mine == {m \in ToSet(b.sd.members) : PortOf(tree, m.ifc) = PortOf(job.tree, r.dev)}
      IN  \/ \E q \in ToSet(b.routes) : q.kind = "default" /\ q.dev # None
                                       /\ PortOf(tree, q.dev) = PortOf(job.tree, r.dev)
          \/ \E m \in mine : (r.gw = None \/ m.gw # None) /\
                \E q \in ToSet(b.routes) : q.kind = "default" /\ q.zone = m.zone

(* The member the first matching steering rule prefers for a destination.  *)
Steered(b, dst) ==
  LET hit == {i \in DOMAIN b.sd.rules : b.sd.rules[i].dst \in {"all", dst}}
  IN  IF hit = {} THEN 0 ELSE Head(b.sd.rules[Min(hit)].ids)

(* "pinned-prefix rules FIRST (they must match before the catch-all zone   *)
(* rule)": a prefix that was routed over a member is still sent to it.     *)
PinnedPrefixesWin ==
  Done => \A v \in DOMAIN job.tree.bodies : \A r \in ToSet(job.tree.bodies[v].routes) :
    LET b == tree.bodies[VdomNow(v)]
        mine == {m \in ToSet(b.sd.members) : PortOf(tree, m.ifc) = PortOf(job.tree, r.dev)}
    IN  r.kind \in {"net", "obj"} /\ mine # {} =>
          /\ Steered(b, r.dst) \in {m.id : m \in mine}
          /\ \E q \in ToSet(b.routes) : q.dst = r.dst /\ q.zone \in {m.zone : m \in mine}

(* The ports a hardware switch bridged, wherever the source kept its       *)
(* membership, are bridged by the software switch under the new names.     *)
PortsStayBridged ==
  Lands /\ Plan.hw => \A i \in {x \in job.tree.ifaces : x.type = "hard-switch"} :
    \E j \in tree.ifaces :
      /\ j.port = i.port
      /\ RenameAll(Plan.portmap, i.members \cup SwitchPorts(job.tree, i.name)) \subseteq j.members

(* A physical interface of the output is a port of the destination, or a   *)
(* finding says that the restore drops it.                                 *)
MissingPortsTold ==
  Done /\ Plan.device # None =>
    \A n \in PhysicalNames(tree) : n \in Plan.device \/ <<"device", n>> \in told

(* "All of that is reported, never silent" (sslvpn.py): every destination  *)
(* some tunnel portal split off is on the new tunnel or in a finding.  The *)
(* exception: a phase 1 of the tunnel's name that was there already is     *)
(* left as it is, and the split meant for it is in neither.                *)
SplitsKeptOrTold ==
  Done /\ Plan.ssl => \A v \in DOMAIN job.tree.bodies :
    LET b == job.tree.bodies[v]
    IN  b.ssl # None => \A i \in TunnelPortals(b.ssl) : \A d \in b.ssl.portals[i].split :
          \/ \E q \in tree.bodies[VdomNow(v)].tunnels : q.name = TunnelName /\ d \in q.split
          \/ <<"ssl", d>> \in told
          \/ d \in SplitOf(b.ssl) /\ \E q \in b.tunnels : q.name = TunnelName

(* Where the versions are known and the user does not contradict the       *)
(* header's train, every renamed word is spelled as the target version     *)
(* expects it, upwards and downwards.                                      *)
StatedFits == Plan.stated = None \/ Plan.stated.train = job.header.train
WordsFitTarget ==
  LET d == Plan.target
  IN  Done /\ job.header # None /\ StatedFits /\ d # None /\ d.patch # None =>
        \A w \in tree.words, r \in Rules :
          r.kind = "renamed" /\ r.word = w.word => w.spelling = Spelling(r, d)

(* Every interface belongs to a VDOM of the configuration.                 *)
InterfacesOwned ==
  Done /\ tree.multi =>
    /\ {IfaceVdom(tree, n) : n \in IfaceNames(tree)} \subseteq DOMAIN tree.bodies
    /\ Lands => tree.mgmt \in DOMAIN tree.bodies \cup {None}

(* No two entries of a table share their key.                              *)
Distinct(s) == \A i, j \in DOMAIN s : s[i].id = s[j].id => i = j
IfacesUnique(t) == \A i, j \in t.ifaces : i.name = j.name => i = j
IdsUnique(b) ==
  Distinct(b.routes) /\ Distinct(b.policies) /\ Distinct(b.sd.members) /\ Distinct(b.sd.rules)
EntriesUnique ==
  Done => IfacesUnique(tree) /\ \A v \in DOMAIN tree.bodies : IdsUnique(tree.bodies[v])

-----------------------------------------------------------------------------
(* What coherence of the output rests on, for a case c.                    *)

(* The device takes the source configuration.                              *)
Accepted(t) ==
  /\ Resolved(t) /\ IfacesUnique(t) /\ None \notin IfaceNames(t)
  /\ \A v \in DOMAIN t.bodies :
       IdsUnique(t.bodies[v]) /\ ThroughZones(t.bodies[v]) /\ BoundFollow(t.bodies[v], {})

(* The port map renames interfaces only and no two names alike.            *)
TunnelNames(t) == UNION {{p.name : p \in t.bodies[v].tunnels} : v \in DOMAIN t.bodies}
OtherNames(t) ==
  {"any", None, SslName, TunnelName} \cup TunnelNames(t)
    \cup UNION {VdomZones(t.bodies[v]) : v \in DOMAIN t.bodies}
MapsPorts(t, m) ==
  /\ DOMAIN m \cap OtherNames(t) = {}
  /\ \A x, y \in IfaceNames(t) \cup OtherNames(t) : Rename(m, x) = Rename(m, y) => x = y

(* The names of the plan's zones are no tunnels.                           *)
NewZones(p) == {s.name : s \in ToSet(p.zones)}
NewSdwanZones(p) == {s.name : s \in ToSet(p.sdwan)}
NewNames(p) == NewZones(p) \cup NewSdwanZones(p)
NamesZones(t, p) == NewNames(p) \cap (TunnelNames(t) \cup {SslName, TunnelName}) = {}

(* Of an SSL-VPN that is converted, policies name the interface as a       *)
(* source only, and the name of the new tunnel is no member.               *)
SslBySource(b) ==
  /\ \A p \in ToSet(b.policies) : SslName \notin p.dst
  /\ \A r \in BodyRefs(b) : r.at # "policy" => r.ifc # SslName
  /\ b.ssl.ifc # SslName
  /\ Joined(b) \cap {SslName, TunnelName} = {}

CoherentCase(c) ==
  /\ Accepted(c.tree)
  /\ MapsPorts(c.tree, c.plan.portmap)
  /\ NamesZones(c.tree, c.plan)
  /\ c.plan.ssl => \A v \in DOMAIN c.tree.bodies :
                     Converts(c.tree.bodies[v]) => SslBySource(c.tree.bodies[v])

(* The verdicts rest on this besides: the device has one name space for    *)
(* interfaces, zones and SD-WAN zones, and so does the plan; the name of   *)
(* the new tunnel is not that of an interface or zone.                     *)
ZoneNames(t) == {z.name : z \in AllZones(t)}
SdwanZones(t) == UNION {t.bodies[v].sd.zones : v \in DOMAIN t.bodies}
NamesApart(t, p) ==
  /\ IfaceNames(t) \cap ({"any"} \cup ZoneNames(t) \cup SdwanZones(t)) = {}
  /\ NewZones(p) \cap (SdwanZones(t) \cup NewSdwanZones(p)) = {}
  /\ NewSdwanZones(p) \cap ZoneNames(t) = {}
TunnelNew(b, own) ==
  /\ VdomZones(b) \cap {SslName, TunnelName} = {}
  /\ TunnelName \in own => TunnelName \in Tunnels(b)
TrafficCase(c) ==
  /\ NamesApart(c.tree, c.plan)
  /\ c.plan.ssl => \A v \in DOMAIN c.tree.bodies :
       Converts(c.tree.bodies[v]) => TunnelNew(c.tree.bodies[v], OwnNames(c.tree, v))

-----------------------------------------------------------------------------
(* What the runs check, each from two sides.                               *)

(* The output is coherent: every reference resolves (portmap.apply_tree,   *)
(* tree_refs.audit_leftovers) and no key is used twice (_next_edit_id).    *)
OutputCoherent == ReferencesResolve /\ EntriesUnique

(* The device takes the zones: policies name zones and not their members,  *)
(* and the addresses bound to a member are still usable (zones.py).        *)
ZonesUsable == OnlyThroughZones /\ BoundAddressesUsable

(* What left over an uplink still does, by default route or by prefix      *)
(* (sdwan.convert_member_routes, apply_sdwan).                             *)
UplinksKept == DefaultRoutesKept /\ PinnedPrefixesWin

(* Nothing is lost silently: neither a port the destination lacks nor a    *)
(* split of a portal that is not converted (run_migrate, sslvpn.convert).  *)
LossesTold == MissingPortsTold /\ SplitsKeptOrTold

(* Interfaces keep their bridge and have a VDOM (hwswitch.convert,         *)
(* vdommode.rename_vdoms).                                                 *)
InterfacesKeepPlace == PortsStayBridged /\ InterfacesOwned
=============================================================================
