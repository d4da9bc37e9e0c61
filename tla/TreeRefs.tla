------------------------------ MODULE TreeRefs ------------------------------
(***************************************************************************)
(* The FortiOS configuration tree as the migration transforms see it, and  *)
(* the machinery they share (fwforge/transforms/portmap.py, tree_refs.py): *)
(* renaming interface references, replacing members by their zone, merging *)
(* policies that became identical, and listing what still names a member.  *)
(*                                                                         *)
(* A tree is a record:                                                     *)
(*   multi    is it in multi-VDOM form?                                    *)
(*   mgmt     management-vdom;  host  the hostname under `system global`   *)
(*   ifaces   `system interface`, a set of [name, vdom, type, members,     *)
(*            parent, port]; port says which physical port it really is    *)
(*            and is not part of the file                                  *)
(*   switches `system virtual-switch`, a set of [name, ports]; its removal *)
(*            stands for that of `system physical-switch` as well          *)
(*   words    the version-dependent words in use, see TreeModes            *)
(*   bodies   VDOM name |-> its sections; a flat tree has the one body     *)
(*            "root"                                                       *)
(* A body is a record:                                                     *)
(*   zones    `system zone`, a set of [name, members, intra]               *)
(*   sd       `system sdwan`: [on, zones, members, checks, rules]          *)
(*   addrs    `firewall address`, a set of [name, bound]                   *)
(*   routes   `router static`, a sequence of [id, kind, dst, dev, zone,    *)
(*            gw, dist]; kind is default, net, obj or isdb                 *)
(*   policies `firewall policy`, in order: [id, name, src, dst, addr, act, *)
(*            rest]; name stands for name, uuid and comments, rest for the *)
(*            settings that are no match criteria, "off" for disabled      *)
(*   others   further references, a set of [at, ifc]                       *)
(*   ssl      `vpn ssl`, or None;  tunnels  `vpn ipsec phase1-interface`   *)
(* The order of values in a `set` line carries no meaning: sets.           *)
(***************************************************************************)
EXTENDS Naturals, SequencesExt

CONSTANT None   \* a missing line, an empty value

(* mapping.get(x, x)                                                       *)
Rename(m, x) == IF x \in DOMAIN m THEN m[x] ELSE x
RenameAll(m, S) == {Rename(m, x) : x \in S}

MapSeq(f(_), s) == [i \in DOMAIN s |-> f(s[i])]

(* The entries of s that are in S, in their order: AmongUpTo(s, S)[k] has  *)
(* those of the first k.                                                   *)
AmongUpTo(s, S) ==
  LET kept[k \in 0 .. Len(s)] ==
        IF k = 0 THEN <<>>
        ELSE IF s[k] \in S THEN Append(kept[k - 1], s[k]) ELSE kept[k - 1]
  IN  kept
Among(s, S) == AmongUpTo(s, S)[Len(s)]

IfaceNames(t) == {i.name : i \in t.ifaces}

(* interface_vdoms: 'root' when unset; of two entries the later one wins.  *)
IfaceVdom(t, n) ==
  LET i == CHOOSE i \in t.ifaces : i.name = n
  IN  IF n \notin IfaceNames(t) \/ i.vdom = None THEN "root" ELSE i.vdom

(* load_map and load_plan keep the last of two lines for one name; members *)
(* of zones and SD-WAN may be given under their source name and are        *)
(* translated once, over the complete map.                                 *)
TranslateMembers(plan) ==
  LET m == plan.portmap
  IN  [plan EXCEPT
        !.zones = MapSeq(LAMBDA z : [z EXCEPT !.members = RenameAll(m, @)], @),
        !.sdwan = MapSeq(LAMBDA z : [z EXCEPT
            !.members = MapSeq(LAMBDA x : [x EXCEPT !.ifc = Rename(m, @)], @),
            !.prefer = Rename(m, @)], @)]

-----------------------------------------------------------------------------
(* apply_tree: in every section, each value of an interface attribute and  *)
(* each entry keyed by an interface is looked up in the map once.          *)
RenameBody(b, m) ==
  [b EXCEPT
    !.zones = {[z EXCEPT !.members = RenameAll(m, @)] : z \in @},
    !.sd.members = MapSeq(LAMBDA x : [x EXCEPT !.ifc = Rename(m, @)], @),
    !.addrs = {[a EXCEPT !.bound = Rename(m, @)] : a \in @},
    !.routes = MapSeq(LAMBDA r : [r EXCEPT !.dev = Rename(m, @)], @),
    !.policies = MapSeq(LAMBDA p : [p EXCEPT !.src = RenameAll(m, @),
                                             !.dst = RenameAll(m, @)], @),
    !.others = {[o EXCEPT !.ifc = Rename(m, @)] : o \in @},
    !.ssl = IF @ = None THEN None ELSE [b.ssl EXCEPT !.ifc = Rename(m, b.ssl.ifc)],
    !.tunnels = {[p EXCEPT !.ifc = Rename(m, @)] : p \in @}]

(* Mutant: the pairs of the map are applied one after the other.           *)
ApplyTree_InTurn(t, m) ==
  LET pair(x) == [y \in {x} |-> m[x]]
  IN  FoldLeft(LAMBDA u, x : [u EXCEPT
        !.ifaces = {[i EXCEPT !.name = Rename(pair(x), @)] : i \in @},
        !.bodies = [v \in DOMAIN @ |-> RenameBody(@[v], pair(x))]],
      t, SetToSeq(DOMAIN m))

ApplyTree(t, m) ==
  [t EXCEPT
    !.ifaces = {[i EXCEPT !.name = Rename(m, @), !.members = RenameAll(m, @),
                          !.parent = Rename(m, @)] : i \in @},
    !.switches = {[s EXCEPT !.name = Rename(m, @), !.ports = RenameAll(m, @)] : s \in @},
    !.bodies = [v \in DOMAIN @ |-> RenameBody(@[v], m)]]

(* tree_interface_details: a port without a type and VLAN id is physical,  *)
(* and so is a member of an aggregate.                                     *)
Bundled(t) == UNION {i.members : i \in {j \in t.ifaces : j.type = "aggregate"}}
PhysicalNames(t) ==
  {i.name : i \in {j \in t.ifaces : j.type = "physical" \/ j.name \in Bundled(t)}}

-----------------------------------------------------------------------------
(* Mutant: only the source interfaces are rewritten.                       *)
RewritePolicyRefs_Source(b, m) ==
  [b EXCEPT !.policies = MapSeq(LAMBDA p : [p EXCEPT !.src = RenameAll(m, @)], @)]

(* rewrite_policy_refs: members give way to their zone, once per policy.   *)
RewritePolicyRefs(b, m) ==
  [b EXCEPT !.policies = MapSeq(LAMBDA p : [p EXCEPT !.src = RenameAll(m, @),
                                                     !.dst = RenameAll(m, @)], @)]

(* Mutant: only the match and the action are part of a policy's identity.  *)
Fingerprint_NoRest(p) == <<p.src, p.dst, p.addr, p.act>>

(* _policy_fingerprint: every line but the name, uuid and comments.        *)
Fingerprint(p) == <<p.src, p.dst, p.addr, p.act, p.rest>>

(* Mutant: the last of the policies with one fingerprint stays.            *)
DedupBody_Last(b) ==
  [b EXCEPT !.policies = FoldRight(LAMBDA p, kept :
      IF \E q \in ToSet(kept) : Fingerprint(q) = Fingerprint(p)
      THEN kept ELSE <<p>> \o kept, @, <<>>)]

(* dedup_policies keeps the first of the policies with one fingerprint:    *)
(* KeptUpTo(ps)[k] is what it has kept after the first k policies.         *)
WithFirst(kept, p) ==
  IF \E q \in ToSet(kept) : Fingerprint(q) = Fingerprint(p) THEN kept ELSE Append(kept, p)
KeptUpTo(ps) ==
  LET kept[k \in 0 .. Len(ps)] == IF k = 0 THEN <<>> ELSE WithFirst(kept[k - 1], ps[k])
  IN  kept
DedupBody(b) == [b EXCEPT !.policies = KeptUpTo(@)[Len(@)]]

DedupPolicies(t) == [t EXCEPT !.bodies = [v \in DOMAIN @ |-> DedupBody(@[v])]]

(* flag_conflicting_policies: same match and action, other settings.       *)
SameMatch(p, q) == <<p.src, p.dst, p.addr, p.act>> = <<q.src, q.dst, q.addr, q.act>>
Conflicts(t) ==
  UNION {{<<v, pq[1].id, pq[2].id>> : pq \in
           {x \in ToSet(t.bodies[v].policies) \X ToSet(t.bodies[v].policies) :
              x[1].id < x[2].id /\ SameMatch(x[1], x[2])}} :
         v \in DOMAIN t.bodies}

(* Where a moved interface may stay: BASE_ALLOWED and the two extras.      *)
BaseAllowed == {"dhcp", "phase1", "ha", "link-monitor"}
ZoneAllowed == BaseAllowed \cup {"route", "vip", "ntp", "radius", "multicast"}
SdwanAllowed == BaseAllowed \cup {"route"}

(* audit_leftovers, over the places that are not on the list by themselves *)
(* (the interface's own entry, zones, SD-WAN members and health checks).   *)
BodyRefs(b) ==
  b.others \cup {[at |-> "phase1", ifc |-> p.ifc] : p \in b.tunnels}
    \cup {[at |-> "bound", ifc |-> a.bound] : a \in b.addrs}
    \cup {[at |-> "route", ifc |-> r.dev] : r \in ToSet(b.routes)}
    \cup UNION {{[at |-> "policy", ifc |-> n] : n \in p.src \cup p.dst} :
                  p \in ToSet(b.policies)}
AuditLeftovers(t, moved, allowed) ==
  {r \in UNION {BodyRefs(t.bodies[v]) : v \in DOMAIN t.bodies} :
     r.ifc \in moved /\ r.at \notin allowed}

(* leftover_scan: values and entries outside the renamed attributes that   *)
(* still equal a renamed source name; FortiSwitch ports are left alone.    *)
LeftoverScan(t, m) ==
  {r \in UNION {BodyRefs(t.bodies[v]) : v \in DOMAIN t.bodies} :
     r.ifc \in {x \in DOMAIN m : m[x] # x}}
=============================================================================
