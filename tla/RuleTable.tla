----------------------------- MODULE RuleTable -----------------------------
(* A policy table, what the device does with it, and what the Optimize      *)
(* analysis says about it (src/fwforge/transforms/optimize.py).             *)
(*                                                                          *)
(* A table is [order, off]: the names of its rules from the top down, and   *)
(* the names of those that are disabled.  rules maps a name to its rule:    *)
(*   act            "accept" or "deny"                                      *)
(*   from, to       zones, {} for any                                       *)
(*   src, dst       address objects after group expansion, {} for "all"     *)
(*   srcNeg, dstNeg the negate flags                                        *)
(*   svc            service objects after group and tcp/udp expansion,      *)
(*                  {} for "ALL"                                            *)
(*   when           what the analysis does not look at (schedule, source    *)
(*                  users, client ports): the contexts, {} for always       *)
(* An address object is [type, ips], a service object [proto, lo, hi].      *)
EXTENDS Naturals, FiniteSets, Sequences, SequencesExt, FiniteSetsExt

CONSTANTS
  Flows,        \* the traffic: [from, to, src, dst, proto, port, ctx]
  DeepLimit     \* active rules up to which addresses are compared as sets

ASSUME TableAssumption ==
  /\ DeepLimit \in Nat
  /\ \A f \in Flows : f.port \in Nat
-----------------------------------------------------------------------------
(* The device: the first enabled rule that matches decides, none denies.    *)

AddressMatches(objs, neg, ip) == neg # (objs = {} \/ \E o \in objs : ip \in o.ips)

ServiceMatches(svc, f) ==
  svc = {} \/ \E s \in svc : \/ s.proto = "ip"
                             \/ /\ s.proto = f.proto
                                /\ s.lo <= f.port /\ f.port <= s.hi

RuleMatches(r, f) ==
  /\ r.from = {} \/ f.from \in r.from
  /\ r.to = {} \/ f.to \in r.to
  /\ AddressMatches(r.src, r.srcNeg, f.src)
  /\ AddressMatches(r.dst, r.dstNeg, f.dst)
  /\ ServiceMatches(r.svc, f)
  /\ r.when = {} \/ f.ctx \in r.when

Enabled(t, i) == t.order[i] \notin t.off

Fires(rules, t, f, i) ==
  /\ i \in DOMAIN t.order
  /\ Enabled(t, i)
  /\ RuleMatches(rules[t.order[i]], f)
  /\ \A k \in 1 .. i - 1 : Enabled(t, k) => ~RuleMatches(rules[t.order[k]], f)

Accepted(rules, t) ==
  { f \in Flows : \E i \in DOMAIN t.order :
                    Fires(rules, t, f, i) /\ rules[t.order[i]].act = "accept" }
-----------------------------------------------------------------------------
(* The analysis: containment of zones, addresses and services.              *)

ZonesCover(a, b) == a = {} \/ (b # {} /\ b \subseteq a)

(* A subnet is itself, a range its two endpoint hosts; an FQDN has no       *)
(* networks and is opaque, a name that resolves to nothing has none either. *)
Networks(o) ==
  CASE o.type = "net"   -> { o.ips }
    [] o.type = "range" -> { {Min(o.ips)}, {Max(o.ips)} }
    [] OTHER            -> {}

AddrSet(objs, neg) ==
  [any    |-> ~neg /\ objs = {},
   opaque |-> neg \/ \E o \in objs : o.type = "fqdn",
   nets   |-> IF neg THEN {} ELSE UNION { Networks(o) : o \in objs }]

\* Mutant: networks that overlap count as contained.
AddrContains_Overlap(a, b) ==
  \/ a.any
  \/ /\ ~b.any /\ ~a.opaque /\ ~b.opaque
     /\ \A n \in b.nets : \E m \in a.nets : n \cap m # {}

AddrContains(a, b) ==
  \/ a.any
  \/ /\ ~b.any /\ ~a.opaque /\ ~b.opaque
     /\ \A n \in b.nets : \E m \in a.nets : n \subseteq m

(* What is not tcp or udp loses its protocol number or its ICMP type.       *)
IpNumbered == { "ip", "gre", "esp", "ah", "ospf" }

PortRange(s) ==
  CASE s.proto \in IpNumbered -> [proto |-> "ip", lo |-> 0, hi |-> 0]
    [] s.proto = "icmp"       -> [proto |-> "icmp", lo |-> 0, hi |-> 0]
    [] OTHER                  -> s

RangeContains(a, b) ==
  \/ a.proto = "ip"
  \/ /\ a.proto = b.proto \/ b.proto = "ip"
     /\ a.lo <= b.lo /\ b.hi <= a.hi

ServiceContains(a, b) ==
  \/ a = {}
  \/ /\ b # {}
     /\ \A s \in b : \E r \in a : RangeContains(PortRange(r), PortRange(s))

(* By name; a group is not told apart from the list of its members.         *)
SameAddresses(p, q) == p.src = q.src /\ p.dst = q.dst

AddressesCover(p, q) ==
  LET ps == AddrSet(p.src, p.srcNeg)   qs == AddrSet(q.src, q.srcNeg)
      pd == AddrSet(p.dst, p.dstNeg)   qd == AddrSet(q.dst, q.dstNeg)
  IN  /\ ~ps.opaque /\ ~qs.opaque /\ ~pd.opaque /\ ~qd.opaque
      /\ AddrContains(ps, qs) /\ AddrContains(pd, qd)

Covers(deep, p, q) ==
  /\ ZonesCover(p.from, q.from) /\ ZonesCover(p.to, q.to)
  /\ ServiceContains(p.svc, q.svc)
  /\ IF deep THEN AddressesCover(p, q) ELSE SameAddresses(p, q)

Deep(t) == Cardinality({ i \in DOMAIN t.order : Enabled(t, i) }) <= DeepLimit

\* Mutant: disabled rules hide others too.
Shadowers_Disabled(rules, t, j) ==
  { i \in 1 .. j - 1 : Covers(Deep(t), rules[t.order[i]], rules[t.order[j]]) }

Shadowers(rules, t, j) ==
  { i \in 1 .. j - 1 : /\ Enabled(t, i)
                       /\ Covers(Deep(t), rules[t.order[i]], rules[t.order[j]]) }

(* The rules the report calls dead, and the first rule that hides each.     *)
DeadAt(rules, t) ==
  { j \in DOMAIN t.order : Enabled(t, j) /\ Shadowers(rules, t, j) # {} }

HiddenBy(rules, t, j) == t.order[Min(Shadowers(rules, t, j))]

SameAction(rules, t, j) ==
  rules[HiddenBy(rules, t, j)].act = rules[t.order[j]].act

(* "fully shadowed": the names the Disable button takes.                    *)
ShadowedRules(rules, t) ==
  { t.order[j] : j \in { k \in DeadAt(rules, t) : SameAction(rules, t, k) } }

(* "DENY is bypassed" (act = "deny") and "ACCEPT is unreachable": the rules *)
(* hidden by one of the other action.                                       *)
HiddenAt(rules, t, act) ==
  { j \in DeadAt(rules, t) : rules[t.order[j]].act = act /\ ~SameAction(rules, t, j) }
-----------------------------------------------------------------------------
(* The rules the containment math is exact for: subnets and FQDNs, tcp and  *)
(* udp ports, nothing negated, on no schedule and for every user.           *)
ExactRule(r) ==
  /\ r.srcNeg = FALSE /\ r.dstNeg = FALSE /\ r.when = {}
  /\ \A o \in r.src \cup r.dst : o.type \in {"net", "fqdn"}
  /\ \A s \in r.svc : /\ s.proto \notin IpNumbered \cup {"icmp"}
                     /\ s.lo \in Nat /\ s.hi \in Nat

ExactTable(rules, t) == \A i \in DOMAIN t.order : ExactRule(rules[t.order[i]])
=============================================================================
