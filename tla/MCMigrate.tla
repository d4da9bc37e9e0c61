----------------------------- MODULE MCMigrate ------------------------------
(* Instances of Migrate: families of configurations and plans, each built  *)
(* around one transform and crossed with interface renames.                *)
EXTENDS Migrate

If(n) == [name |-> n, vdom |-> None, type |-> "physical", members |-> {},
          parent |-> None, port |-> n]
Owned(n, v) == [If(n) EXCEPT !.vdom = v]
Pol(i, src, dst, addr, act, rest) ==
  [id |-> i, name |-> i, src |-> src, dst |-> dst, addr |-> addr, act |-> act, rest |-> rest]
Route(i, kind, dst, dev, gw, dist) ==
  [id |-> i, kind |-> kind, dst |-> dst, dev |-> dev, zone |-> None, gw |-> gw, dist |-> dist]
NoSd == [on |-> FALSE, zones |-> {}, members |-> <<>>, checks |-> {}, rules |-> <<>>]
Body == [zones |-> {}, sd |-> NoSd, addrs |-> {}, routes |-> <<>>, policies |-> <<>>,
         others |-> {}, ssl |-> None, tunnels |-> {}]
Tree(ifs, body) ==
  [multi |-> FALSE, mgmt |-> None, host |-> "old", ifaces |-> ifs, switches |-> {},
   words |-> {}, bodies |-> ("root" :> body)]
Plan0 == [portmap |-> <<>>, vdommap |-> <<>>, zones |-> <<>>, sdwan |-> <<>>,
          mode |-> "keep", vdom |-> "root", scopeOnly |-> FALSE, hw |-> FALSE,
          ssl |-> FALSE, stated |-> None, target |-> None, identity |-> None,
          device |-> None]
Case(t, p) == [tree |-> t, header |-> None, plan |-> p]

Ports == {"wan1", "wan2", "lan1", "lan2"}
Base == {If(n) : n \in Ports}

(* Identity, a swap, a chain and a shift to names of the new model.        *)
Maps == {<<>>,
         ("lan1" :> "wan1") @@ ("wan1" :> "lan1"),
         ("lan1" :> "lan2") @@ ("lan2" :> "port3") @@ ("wan1" :> "port1"),
         ("wan1" :> "wan2") @@ ("wan2" :> "lan2") @@ ("lan2" :> "wan1")}

-----------------------------------------------------------------------------
(* Policies folded into a zone and merged.                                 *)
Pair == [src : {{"lan1"}, {"lan2"}}, act : {"accept", "deny"}, rest : {"on", "off"}]
Table(a, b, c) ==
  <<Pol(1, a.src, {"wan1"}, "x", a.act, a.rest), Pol(2, b.src, {"wan1"}, "all", b.act, "on"),
    Pol(3, c.src, {"wan1"}, "x", c.act, c.rest), Pol(4, {"wan2"}, {"wan1"}, "x", "accept", "off"),
    Pol(5, {"wan2"}, {"wan1"}, "x", "accept", "on"), Pol(6, {"wan2"}, {"lan1", "lan2"}, "all", "accept", "on")>>
LanZone(ms) == [name |-> "LAN", members |-> ms, intra |-> "deny", vdom |-> None]
Zone(ms) == [Plan0 EXCEPT !.zones = <<LanZone(ms)>>]
Zoning ==
  {Case(Tree(Base, [Body EXCEPT !.policies = Table(a, b, c),
                                !.addrs = {[name |-> "x", bound |-> bd]}]),
        [Zone({"lan1", "lan2"}) EXCEPT !.portmap = m]) :
     a \in Pair, b \in {q \in Pair : q.rest = "on"}, c \in Pair, m \in Maps,
     bd \in {None}}
  \cup
  {Case(Tree(Base, [Body EXCEPT
          !.policies = <<Pol(1, {"lan1"}, {"wan1"}, "x", act, "on"), Pol(2, {"lan1"}, {"wan2"}, "all", "accept", "on")>>,
          !.addrs = {[name |-> "x", bound |-> "lan1"]},
          !.zones = zs, !.others = {[at |-> at, ifc |-> "lan1"]}]),
        [Zone({"lan1"}) EXCEPT !.portmap = m]) :
     act \in {"accept", "deny"}, m \in Maps, at \in {"dhcp", "vip", "other"},
     zs \in {{}, {[name |-> "LAN", members |-> {"lan2"}, intra |-> "allow"]}}}

-----------------------------------------------------------------------------
(* Uplinks folded into SD-WAN.                                             *)
Wan(check, rule, gw) ==
  [name |-> "UP", members |-> <<[ifc |-> "wan1", gw |-> gw], [ifc |-> "wan2", gw |-> None]>>,
   check |-> check, rule |-> rule, prefer |-> "wan2", vdom |-> None]
Lone(n, w) == [name |-> n, members |-> <<[ifc |-> w, gw |-> None]>>,
               check |-> "default", rule |-> "auto", prefer |-> None, vdom |-> None]
RouteSets ==
  {<<Route(1, "default", None, "wan1", "g1", d), Route(4, k, "pfx", "wan2", None, None),
     Route(2, k2, dd, "wan2", "g2", 10)>> :
     d \in {None, 10, 20}, k \in {"net", "obj", "isdb"},
     <<k2, dd>> \in {<<"default", None>>, <<"net", "pfy">>}}
OldRules == {<<>>, <<[id |-> 1, mode |-> "manual", dst |-> "pfy", ids |-> <<1>>, check |-> None]>>}
UpPolicies == <<Pol(1, {"lan1"}, {"wan1"}, "all", "accept", "on"),
                Pol(2, {"lan1"}, {"wan2"}, "x", "deny", "on"),
                Pol(3, {"lan2"}, {"any"}, "all", "accept", "on")>>
Steering(specs, sds) ==
  {Case(Tree(Base, [Body EXCEPT !.routes = rs, !.sd = sd,
                                !.policies = RewritePolicyRefs([Body EXCEPT !.policies = UpPolicies],
                                  IF sd.on THEN "lan2" :> "OLD" ELSE <<>>).policies,
                                !.addrs = {[name |-> "x", bound |-> "wan2"]}]),
        [Plan0 EXCEPT !.sdwan = sp, !.portmap = m]) :
     rs \in RouteSets, m \in Maps, sp \in specs, sd \in sds}
Sdwans ==
  Steering({<<Wan("default", r, g)>> : r \in {"auto", "priority", "load-balance"}, g \in {None, "g9"}}
             \cup {<<Wan("none", r, None)>> : r \in {"auto", "none", "sla"}}
             \cup {<<Lone("A", "wan1"), Lone("B", "wan2")>>}, {NoSd})

(* The source already has an SD-WAN member, a health check and a rule.     *)
OldSd(rules) ==
  [on |-> TRUE, zones |-> {"OLD"},
   members |-> <<[id |-> 3, ifc |-> "lan2", zone |-> "OLD", gw |-> None]>>,
   checks |-> {[zone |-> "UP", ids |-> {3}]}, rules |-> rules]
Sdwans2 ==
  Steering({<<Wan("default", "auto", None)>>},
           {OldSd(<<[id |-> 5, mode |-> "manual", dst |-> "pfz", ids |-> <<3>>, check |-> None]>>)})

(* Plans that are refused, or nearly.                                      *)
Refusals ==
  {Case(Tree(Base, [Body EXCEPT !.zones = old]), [Plan0 EXCEPT !.zones = zs, !.sdwan = sd]) :
     old \in {{}, {[name |-> "DMZ", members |-> {"lan1"}, intra |-> "deny"]}},
     zs \in {<<>>, <<LanZone({"lan1"})>>, <<LanZone({"nosuch"})>>,
             <<[LanZone({"lan1"}) EXCEPT !.name = "lan2"]>>,
             <<LanZone({"wan1"}), [LanZone({"wan1", "lan1"}) EXCEPT !.name = "Z2"]>>},
     sd \in {<<>>, <<Lone("A", "lan1")>>, <<Lone("wan1", "wan2")>>, <<Wan("none", "sla", None)>>}}

-----------------------------------------------------------------------------
(* Hardware switches, device ports, versions.                              *)
HwTree(inline, parts, kind) ==
  [Tree({If("lan1"), If("lan2"), If("wan1"),
         [If("lan") EXCEPT !.type = kind, !.members = inline]},
        [Body EXCEPT !.policies = <<Pol(1, {"lan"}, {"wan1"}, "all", "accept", "on")>>])
     EXCEPT !.switches = {[name |-> "lan", ports |-> parts]}]
Switches ==
  {Case(HwTree(i, {"lan1", "lan2"} \ j, k),
        [Plan0 EXCEPT !.hw = TRUE, !.portmap = m, !.device = {"wan1", "port1", "port3"}]) :
     i \in {{}, {"lan1"}}, j \in {{}, {"lan2"}},
     k \in {"hard-switch", "hard-switch-vlan"}, m \in Maps}
Bundles ==
  {Case(Tree({If("wan1"), [If("lan1") EXCEPT !.type = "other"],
              [If("lag") EXCEPT !.type = "aggregate", !.members = {"lan1"}]}, Body),
        [Plan0 EXCEPT !.portmap = m, !.device = {"wan1", "lan1", "wan2"}, !.identity = "new"]) : m \in Maps}

V(t, p) == [train |-> t, patch |-> p]
MCRules == {[word |-> "w", since |-> 74, kind |-> "renamed"],
            [word |-> "n", since |-> 74, kind |-> "introduced"],
            [word |-> "gone", since |-> 76, kind |-> "removed"],
            [word |-> "f", since |-> 76, kind |-> "flip"]}
Words(t) == {[word |-> "w", spelling |-> IF t >= 74 THEN "new" ELSE "old"]}
              \cup (IF t >= 74 THEN {[word |-> "n", spelling |-> "new"]} ELSE {})
              \cup (IF t < 76 THEN {[word |-> "gone", spelling |-> "new"]} ELSE {})
Versions ==
  {[Case([Tree(Base, Body) EXCEPT !.words = Words(h)], [Plan0 EXCEPT !.stated = s, !.target = d])
     EXCEPT !.header = V(h, 2)] :
     h \in {72, 74, 76}, s \in {None, V(72, None), V(74, None), V(76, None)},
     d \in {None} \cup {V(t, p) : t \in {72, 74, 76}, p \in {None, 0, 5}}}

-----------------------------------------------------------------------------
(* VDOM modes and SSL-VPN.                                                 *)
VdomTree(vs, mgmt) ==
  [multi |-> TRUE, mgmt |-> mgmt, host |-> "old",
   ifaces |-> {Owned(n, IF n \in {"wan2", "lan2"} THEN vs[2] ELSE vs[1]) : n \in Ports},
   switches |-> {}, words |-> {},
   bodies |-> [v \in {vs[1], vs[2]} |->
     [Body EXCEPT !.policies = <<Pol(1, {"any"}, {"any"}, IF v = vs[1] THEN "x" ELSE "all", "accept", "on")>>,
                  !.routes = IF v = vs[2] THEN <<Route(1, "default", None, "wan2", "g", 10)>> ELSE <<>>]]]
Vdoms ==
  {Case(VdomTree(vs, vs[1]),
        [Plan0 EXCEPT !.vdommap = vm, !.mode = md, !.portmap = m, !.zones = zs, !.sdwan = sd]) :
     vs \in {<<"root", "b">>, <<"b", "b">>},
     vm \in {<<>>, ("b" :> "c"), ("b" :> "root") @@ ("root" :> "b"), ("b" :> "root"),
             ("root" :> "c"), ("nosuch" :> "c"), ("b" :> "bad name")},
     md \in {"keep", "single"}, m \in Maps,
     zs \in {<<>>, <<LanZone({"lan1"})>>, <<LanZone({"lan1", "lan2"})>>,
             <<[LanZone({"lan2"}) EXCEPT !.vdom = "b"]>>},
     sd \in {<<>>, <<Lone("A", "wan2")>>}}
ToMulti ==
  {Case(Tree(Base, [Body EXCEPT !.policies = Table(a, b, a)]),
        [Zone({"lan1"}) EXCEPT !.mode = "multi", !.vdom = "cust", !.scopeOnly = so,
                               !.zones = IF so THEN <<>> ELSE @]) :
     a \in Pair, b \in Pair, so \in BOOLEAN}

Portal(t, sp, ps) == [tunnel |-> t, split |-> sp, pools |-> ps]
OldTunnels == {[name |-> TunnelName, ifc |-> "wan1", split |-> {"d1"}, pool |-> None]}
SslCases(policies) ==
  {Case(Tree(Base, [Body EXCEPT
          !.policies = policies, !.tunnels = old,
          !.ssl = [ifc |-> "wan1", pools |-> own, portals |-> ps, groups |-> {"g"}]]),
        [Plan0 EXCEPT !.ssl = TRUE, !.portmap = m]) :
     own \in {<<>>, <<"p1">>}, m \in Maps, old \in {{}, OldTunnels},
     ps \in {<<>>, <<Portal(FALSE, {}, <<>>)>>, <<Portal(TRUE, {"d1"}, <<"p2">>)>>,
             <<Portal(TRUE, {}, <<"p2">>), Portal(TRUE, {"d1", "d2"}, <<"p3">>)>>,
             <<Portal(TRUE, {"d1"}, <<"p2">>), Portal(FALSE, {"d4"}, <<>>),
               Portal(TRUE, {"d2", "d3"}, <<>>)>>}}
Ssls == SslCases(<<Pol(1, {SslName, "lan1"}, {"wan1"}, "x", "deny", "on"),
                   Pol(2, {SslName}, {"lan1"}, "all", "accept", "on")>>)

MCCases == Zoning \cup Sdwans \cup Sdwans2 \cup Refusals \cup Switches \cup Bundles
             \cup Versions \cup Vdoms \cup ToMulti \cup Ssls

(* The hypotheses of the theorems of MigrateCoherence and MigrateTraffic    *)
(* hold of every case.                                                      *)
ASSUME MCCasesCoherent == \A c \in MCCases : CoherentCase(c)
ASSUME MCCasesApart == \A c \in MCCases : TrafficCase(c)

MCReach == (Ports \X Ports) \cup ({"remote"} \X Ports)
MCGoodNames == {"root", "b", "c"}
=============================================================================
