------------------------------- MODULE MCCross -------------------------------
(* Conversions in families, each around one concern, of a firewall with an *)
(* inside, an outside and a third network.                                 *)
EXTENDS PfSenseTraffic

MCFam == 1 :> 4 @@ 2 :> 4 @@ 3 :> 4 @@ 4 :> 4 @@ 61 :> 6 @@ 63 :> 6
Inside == {1, 2}
Outside == {3}
Third == {4}
MCAtoms == {"t80", "t53", "u53", "t8080"}
MCBuiltin == {"t80"} :> "HTTP" @@ {"t53", "u53"} :> "DNS"
MCPredefined == {"ALL", "ALL_ICMP", "ALL_ICMP6", "HTTP", "DNS", "VNC"}
MCTunnelLike == {"tunnel.9"}
MCClean == "loopback.with.name" :> "loopback" @@ "a b" :> "a-b" @@ "a/b" :> "a-b" @@ "p b" :> "p-b" @@ "p/b" :> "p-b" @@ "eth1.long.7" :> "eth1.7"
             @@ "vsys#1" :> "vsys1" @@ "vsys 1" :> "vsys1" @@ "eth.with.a.long.name" :> "eth.with"
MCLong == {"eth.with.a.long.name", "eth1.long.7", "loopback.with.name"}

If(n, net) == [name |-> n, kind |-> "physical", target |-> None, parent |-> None,
               members |-> <<>>, id |-> None, net |-> net]
Vlan(n, parent, id, net) == [If(n, net) EXCEPT !.kind = "vlan", !.parent = parent, !.id = id]
Made(n, kind, members, net) == [If(n, net) EXCEPT !.kind = kind, !.members = members]
Zone(n, members) == [name |-> n, members |-> members]
Addr(n, hosts) == [name |-> n, fam |-> IF \E h \in hosts : h > 9 THEN 6 ELSE 4, hosts |-> hosts,
                   net |-> \A h \in hosts : h < 9]
Group(n, members) == [name |-> n, members |-> members]
Svc(n, sig) == [name |-> n, sig |-> sig]
Pol(id, src, dst, act) ==
  [id |-> id, name |-> id, src |-> src, dst |-> dst, srcs |-> {"all"}, dsts |-> {"all"},
   srcNeg |-> FALSE, dstNeg |-> FALSE, svcs |-> {"ALL"}, act |-> act, off |-> FALSE,
   sched |-> None, profile |-> None, fam |-> None, inferred |-> FALSE]
Snat(kind, from, to, pool, obj) == [kind |-> kind, from |-> from, to |-> to, pool |-> pool, obj |-> obj]

Ports3 == <<If("eth1", Inside), If("eth2", Outside), If("eth3", Third)>>
Zones3 == <<Zone("in", <<"eth1">>), Zone("out", <<"eth2">>), Zone("dmz", <<"eth3">>)>>
Empty == [ifaces |-> Ports3, zones |-> Zones3, addrs |-> <<>>, groups |-> <<>>, svcs |-> <<>>,
          sgroups |-> <<>>, profiles |-> <<>>, scheds |-> <<>>, vips |-> <<>>, pools |-> <<>>,
          nats |-> <<>>, routes |-> <<>>, pbrs |-> <<>>, p1s |-> <<>>, pols |-> <<>>, passive |-> {}]
NoTune == [merge |-> FALSE, exclude |-> {}, only |-> {}, split |-> FALSE, prune |-> FALSE]
NoAuth == [aggs |-> <<>>, parents |-> <<>>]
Map3 == "eth1" :> "port1" @@ "eth2" :> "port2" @@ "eth3" :> "port3"
Job(c) == [scopes |-> <<[name |-> "root", cfg |-> c]>>, map |-> Map3, auth |-> NoAuth,
           tune |-> NoTune, mode |-> "policy", wrap |-> "flat", doc |-> None]

(* Interfaces: VLANs, LAGs, loopbacks and tunnels, mapped or not, authored *)
(* or not, with everything that refers to an interface.                    *)
Vlans == {Vlan("eth1.7", "eth1", "7", Third), Vlan("eth1.long.7", "eth1", "7", Third),
          Vlan("eth1.7", "ae1", "7", Third)}
PortCfg(v, twice) ==
  [Empty EXCEPT
    !.ifaces = <<If("eth1", Inside), If("eth2", Outside), v, Made("ae1", "aggregate", <<"eth4">>, None),
                 Made("loopback.with.name", "loopback", <<>>, None), Made("tunnel.1", "tunnel", <<>>, None)>>,
    !.zones = <<Zone("in", <<"eth1">>), Zone("out", IF twice THEN <<"eth2", "tunnel.1">> ELSE <<"eth2">>),
                Zone("dmz", <<v.name>>), Zone("vpn", <<"tunnel.9">>)>>,
    !.p1s = <<[name |-> "site", ifc |-> "eth2"]>>,
    !.vips = <<[name |-> "vip-web", ifc |-> "eth2", whole |-> TRUE],
               [name |-> "vip-half", ifc |-> "eth2", whole |-> FALSE]>>,
    !.pbrs = <<[in |-> "eth1", out |-> "eth2"]>>,
    !.passive = {"eth1"},
    !.nats = <<Snat("interface", "in", "out", None, "all")>>,
    !.routes = <<[net |-> {5}, ifc |-> "eth2"], [net |-> {5}, ifc |-> "tunnel.9"]>>,
    !.pols = <<Pol("r1", <<"in">>, <<"out", "vpn">>, "accept"), Pol("r2", <<"dmz">>, <<"vpn">>, "deny"),
               Pol("r3", <<"dmz">>, <<"in">>, "accept")>>]
PortMaps == {Map3, <<>>, "eth1" :> "port2" @@ "eth2" :> "port1", "eth2" :> "wan", Map3 @@ "ae1" :> "LAG9"}
Auths == {NoAuth,
          [aggs |-> <<[name |-> "LAG1", members |-> <<"port1", "port5">>]>>, parents |-> <<>>],
          [aggs |-> <<[name |-> "port1", members |-> <<"port5", "port6">>]>>, parents |-> <<>>],
          [aggs |-> <<[name |-> "LAG1", members |-> <<"port7">>]>>,
           parents |-> "eth1.7" :> "LAG1" @@ "eth1.long.7" :> "LAG1"]}
PortJobs ==
  {[Job(PortCfg(v, t)) EXCEPT !.map = m, !.auth = a, !.wrap = w] :
     v \in Vlans, t \in BOOLEAN, m \in PortMaps, a \in Auths, w \in {"flat", "vdom"}}

(* Names that are alike once cleaned, in every name space, and the rules   *)
(* the user asks for.                                                      *)
Names2 == {<<"a b", "a-b">>, <<"a-b", "a b">>, <<"a b", "a/b">>, <<"web", "a b">>}
RuleNames == {<<"p b", "p-b">>, <<"p-b", "p b">>, <<"p b", "p/b">>, <<"web", "p b">>}
NameCfg(a, s, z, p) ==
  [Empty EXCEPT
    !.addrs = <<Addr(a[1], {1}), Addr(a[2], {2})>>, !.groups = <<Group("g", a)>>,
    !.svcs = <<Svc(s[1], {"t53"}), Svc(s[2], {"u53"})>>, !.sgroups = <<Group("g", <<s[2]>>)>>,
    !.zones = <<Zone(z[1], <<"eth1">>), Zone(z[2], <<"eth2">>)>>,
    !.nats = <<Snat("interface", z[1], z[2], None, a[1])>>,
    !.pols = <<[Pol("r1", <<z[1]>>, <<z[2]>>, "deny") EXCEPT !.name = p[1], !.srcs = {a[1]}, !.svcs = {s[1]}],
               [Pol("r2", <<z[1]>>, <<z[2]>>, "accept") EXCEPT !.name = p[2], !.srcs = {"g"}, !.svcs = {"g", s[1]}],
               [Pol("r3", <<z[1]>>, <<z[2]>>, "accept") EXCEPT !.srcs = {a[2]}]>>]
NameTune(p) ==
  [none |-> NoTune, first |-> [NoTune EXCEPT !.exclude = {p[1]}],
   second |-> [NoTune EXCEPT !.exclude = {p[2]}],
   only |-> [NoTune EXCEPT !.only = {p[2], "r3"}, !.exclude = {"r3"}]]
NameJobs ==
  {[Job(NameCfg(a, s, z, p)) EXCEPT !.tune = NameTune(p)[d[1]], !.mode = d[2]] :
     a \in Names2, s \in {<<"a b", "a-b">>, <<"web", "a b">>},
     z \in {<<"a b", "a-b">>, <<"in", "out">>}, p \in RuleNames,
     d \in {<<"none", "policy">>, <<"none", "central">>, <<"first", "policy">>,
            <<"second", "policy">>, <<"only", "policy">>}}

(* Services: the built-ins, names that are taken, groups in any order,     *)
(* with members nobody defines, and cycles.                                *)
Sigs == {{"t80"}, {"u53"}, {"t53", "u53"}, {"t8080"}}
SvcGroups == {<<Group("g1", <<"s1", "g2">>), Group("g2", <<"s2">>)>>,
              <<Group("g1", <<"g2", "ghost">>), Group("g2", <<"ghost">>)>>,
              <<Group("g1", <<"g2">>), Group("g2", <<"s1", "g1">>)>>,
              <<Group("VNC", <<"s2">>), Group("g1", <<"VNC", "HTTP">>)>>,
              <<Group("g1", <<>>), Group("DNS_grp", <<"s1">>)>>}
SvcCfg(x, y, gs, used, n) ==
  [Empty EXCEPT
    !.svcs = <<Svc("s1", x), Svc("s2", y), Svc(n, {"t8080"})>>, !.sgroups = gs,
    !.profiles = <<[name |-> "a b"], [name |-> "a-b"]>>, !.scheds = <<[name |-> "night"]>>,
    !.pols = <<[Pol("r1", <<"in">>, <<"out">>, "accept") EXCEPT !.svcs = used, !.profile = "a-b"],
               [Pol("r2", <<"in">>, <<"out">>, "deny") EXCEPT !.svcs = {n}, !.sched = "night"],
               [Pol("r3", <<"in">>, <<"out", "dmz">>, "accept") EXCEPT !.svcs = {"g1"}, !.profile = "a b"],
               [Pol("r4", <<"in">>, <<"dmz">>, "accept") EXCEPT !.sched = "day"]>>]
SvcJobs ==
  {[Job(SvcCfg(d[1], d[2], gs, used, d[3])) EXCEPT !.tune = t] :
     d \in {e \in Sigs \X {{"u53"}, {"t53", "u53"}} \X {"s3", "DNS"} : e[3] = "DNS" => {"t53", "u53"} \notin {e[1], e[2]}},
     gs \in SvcGroups, used \in {{"s1"}, {"s2", "ghost"}, {"ghost"}, {"g1"}},
     t \in {NoTune, [NoTune EXCEPT !.prune = TRUE, !.merge = TRUE]}}

(* Addresses: families, negation, groups in any order, cycles.             *)
AddrGroups == {<<Group("g1", <<"h1", "g2">>), Group("g2", <<"h2">>)>>,
               <<Group("g2", <<"h1">>), Group("g1", <<"g2", "h6">>)>>,
               <<Group("g1", <<"g2">>), Group("g2", <<"h1", "g1">>)>>,
               <<Group("g1", <<"h6">>), Group("g2", <<"g1", "h1">>)>>,
               <<Group("g1", <<>>), Group("g2", <<"h1", "twin">>)>>}
AddrCfg(gs, x, y, n, f) ==
  [Empty EXCEPT
    !.ifaces = <<If("eth1", {1, 2, 61}), If("eth2", {3, 63}), If("eth3", Third)>>,
    !.addrs = <<Addr("h1", {1}), Addr("h2", {2}), Addr("h6", {61}), Addr("o6", {63}), Addr("twin", {1}),
                Addr("spare", {4})>>,
    !.groups = gs,
    !.pols = <<[Pol("r1", <<"in">>, <<"out">>, f) EXCEPT !.srcs = x, !.dsts = y, !.srcNeg = n],
               [Pol("r2", <<"in">>, <<"out">>, "accept") EXCEPT !.srcs = {"g1"}],
               [Pol("r3", <<"in", "dmz">>, <<"out">>, "accept") EXCEPT !.srcs = {"twin", "h2"}, !.off = n]>>]
AddrJobs ==
  {[Job(AddrCfg(gs, d[1], d[2], d[3], f)) EXCEPT !.tune = t] :
     gs \in AddrGroups,
     d \in {e \in {{"h1"}, {"h1", "h6"}, {"g2"}, {"h6", "g1"}} \X {{"o6"}, {"all"}} \X BOOLEAN :
             e[3] => e[2] = {"o6"} \/ e[1] = {"h1", "h6"}}, f \in {"accept", "deny"},
     t \in {NoTune, [NoTune EXCEPT !.merge = TRUE, !.prune = TRUE]}}

(* Source NAT over pairs of zones, by interface and by pool.               *)
NatLists == {<<>>, <<Snat("interface", "in", "out", None, "all")>>,
             <<Snat("interface", "*", "out", None, "all"), Snat("pool", "in", "dmz", "p1", "h1")>>,
             <<Snat("interface", "in", "out", None, "all"), Snat("pool", "dmz", "out", "p1", "all")>>,
             <<Snat("pool", "in", "out", "p1", "h1"), Snat("pool", "in", "out", "p2", "all")>>,
             <<Snat("pool", "dmz", "out", "p2", "all"), Snat("interface", "in", "dmz", None, "all"),
               Snat("pool", "in", "out", "p1", "all")>>}
NatCfg(ns, src, dst) ==
  [Empty EXCEPT
    !.nats = ns, !.pools = <<[name |-> "p1"], [name |-> "p2"]>>, !.addrs = <<Addr("h1", {1})>>,
    !.pols = <<Pol("r1", src, dst, "accept"), Pol("r2", <<"dmz">>, <<"in">>, "accept"),
               Pol("r3", <<"dmz">>, <<"out">>, "deny")>>]
(* Without zones: NAT between interfaces, the way out from the routes.     *)
PortNat(d, obj) ==
  [Empty EXCEPT
    !.ifaces = <<If("inside", {1, 2}), If("outside", None), If("dmz", {4})>>, !.zones = <<>>,
    !.routes = <<[net |-> {3}, ifc |-> "outside"]>>,
    !.addrs = <<Addr("h1", {1}), Addr("o3", {3}), Addr("d4", {4})>>,
    !.nats = <<Snat("interface", obj, "outside", None, "h1")>>,
    !.pols = <<[Pol("r1", <<"inside">>, <<>>, "accept") EXCEPT !.dsts = d],
               [Pol("r2", <<"dmz">>, <<>>, "accept") EXCEPT !.dsts = {"o3"}]>>]
AsaMap == "inside" :> "port1" @@ "outside" :> "port2" @@ "dmz" :> "port3"

NatJobs ==
  {[Job(PortNat(d, obj)) EXCEPT !.map = m, !.mode = mode] :
     d \in {{"o3"}, {"d4"}}, obj \in {"inside", "*"}, m \in {AsaMap, <<>>},
     mode \in {"policy", "central"}}
  \cup
  {[Job(NatCfg(ns, src, dst)) EXCEPT !.tune.split = s, !.mode = m] :
     ns \in NatLists,
     src \in {<<"in">>, <<"in", "dmz">>, <<"dmz">>}, dst \in {<<"out">>, <<"dmz", "out">>},
     s \in BOOLEAN, m \in {"policy", "central"}}

(* Rules without a destination zone (Cisco ASA, pfSense): inferred from    *)
(* the routes of the source.                                               *)
RouteCfg(d, dst, map2) ==
  [Empty EXCEPT
    !.ifaces = <<If("inside", {1, 2}), If("outside", {3}), If("dmz", None)>>, !.zones = <<>>,
    !.routes = <<[net |-> {4}, ifc |-> "dmz"], [net |-> {5}, ifc |-> "outside"]>>,
    !.addrs = <<Addr("h1", {1}), Addr("h12", {1, 2}), Addr("o3", {3}), Addr("d4", {4}),
                [Addr("fqdn", {3}) EXCEPT !.net = FALSE]>>,
    !.groups = <<Group("g", <<"d4", "o3">>), Group("gd", <<"d4">>), Group("gf", <<"fqdn", "d4">>)>>,
    !.pols = <<[Pol("r1", <<"inside">>, dst, "deny") EXCEPT !.dsts = d],
               [Pol("r2", <<"dmz">>, <<>>, "accept") EXCEPT !.dsts = {"h12"}],
               [Pol("r3", <<"inside">>, <<>>, "accept") EXCEPT !.dsts = {"o3"}]>>]
RouteJobs ==
  {[Job(RouteCfg(d, dst, m)) EXCEPT !.map = m, !.tune.split = s] :
     d \in {{"o3"}, {"d4", "o3"}, {"g"}, {"gd"}, {"gf"}, {"all"}, {"h1", "h12"}},
     dst \in {<<>>, <<"outside">>, <<"dmz", "outside">>},
     m \in {AsaMap, <<>>}, s \in BOOLEAN}

(* Several vsys, with VLANs of their own or of the same name.              *)
ScopeCfg(tag, name) ==
  [Empty EXCEPT
    !.ifaces = <<If("eth1", Inside), If("eth2", Outside), Vlan(name, "eth1", tag, Third)>>,
    !.zones = <<Zone("in", <<"eth1">>), Zone("out", <<"eth2">>), Zone("dmz", <<name>>)>>,
    !.pols = <<Pol("r1", <<"dmz">>, <<"out">>, "accept"), Pol("r2", <<"in">>, <<"dmz">>, "deny")>>]
ScopeJobs ==
  {[Job(Empty) EXCEPT !.scopes = <<[name |-> n[1], cfg |-> ScopeCfg("7", v)],
                                   [name |-> n[2], cfg |-> ScopeCfg("8", w)]>>,
                      !.wrap = "vsys", !.auth = a] :
     n \in {<<"vsys#1", "vsys 1">>, <<"vsys1", "vsys2">>, <<"vsys1", "vsys#1">>},
     v \in {"eth1.7", "eth.with.a.long.name"}, w \in {"eth1.7", "eth1.8", "eth.with.a.long.name"}, a \in Auths}

(* pfSense documents: what aliases hold and in which order, what the rules *)
(* write, and the rest of a firewall with a DMZ on a VLAN.                 *)
Ip(key, hosts) ==
  [key |-> key, fam |-> IF \E h \in hosts : h > 9 THEN 6 ELSE 4, hosts |-> hosts, ip |-> TRUE]
MCDenotes ==
  "10.1" :> Ip("h-1", {1}) @@ "10.1/32" :> Ip("h-1", {1}) @@ "10.2" :> Ip("h-2", {2})
    @@ "10.0/24" :> Ip("n-1", {1, 2}) @@ "20.3" :> Ip("h-3", {3}) @@ "20.0/24" :> Ip("n-3", {3})
    @@ "30.4" :> Ip("h-4", {4}) @@ "30.0/24" :> Ip("n-4", {4}) @@ "40.0/24" :> Ip("n-5", {5})
    @@ "::61" :> Ip("h6-61", {61}) @@ "::63" :> Ip("h6-63", {63}) @@ "::/0" :> Ip("n6-0", {61, 63})
    @@ "0.0.0.0/0" :> Ip("n-0", {1, 2, 3, 4, 5})
    @@ "web.example" :> [Ip("fq-web.example", {3}) EXCEPT !.ip = FALSE]
MCPortAtoms ==
  [x \in {"tcp", "udp", "tcp/udp"} \X {"", "80", "53", "8080"} |->
     LET tcp == IF x[2] = "" THEN {"t80", "t53", "t8080"} ELSE {"t" \o x[2]}
         udp == IF x[2] = "" THEN {"u53"} ELSE {"u" \o x[2]} \cap MCAtoms
     IN  IF x[1] = "tcp" THEN tcp ELSE IF x[1] = "udp" THEN udp ELSE tcp \cup udp]

End(is, of) == [is |-> is, of |-> of, not |-> FALSE]
Not(e) == [e EXCEPT !.not = TRUE]
AnyEnd == End("any", None)
Alias(n, type, entries) == [name |-> n, type |-> type, entries |-> entries]
Rule(ifc, src, dst, act) ==
  [ifs |-> <<ifc>>, float |-> FALSE, fam |-> "inet", src |-> src, dst |-> dst, sport |-> FALSE,
   proto |-> "", port |-> "", icmp |-> None, act |-> act, off |-> FALSE, gw |-> FALSE]

PfAliases ==
  {<<Alias("Web", "host", <<"10.1", "30.4">>), Alias("Nest", "host", <<"Web", "10.2">>),
     Alias("One", "host", <<"20.3">>), Alias("P", "port", <<"80", "53">>)>>,
   <<Alias("P", "port", <<"53">>), Alias("Nest", "host", <<"10.1/32", "Web">>), Alias("List", "url", <<>>),
     Alias("Web", "host", <<"web.example", "10.1">>), Alias("One", "host", <<"web.example">>)>>,
   <<Alias("Web", "host", <<>>), Alias("Nest", "host", <<"Web">>), Alias("One", "host", <<"One2">>),
     Alias("One2", "host", <<"30.0/24">>), Alias("P", "port", <<"8080", "80">>)>>}
PfIfs(dynamic) ==
  <<[name |-> "wan", phys |-> "em0", own |-> IF dynamic THEN None ELSE "20.3",
     cidr |-> IF dynamic THEN None ELSE "20.0/24", gw |-> TRUE],
    [name |-> "lan", phys |-> "em1", own |-> "10.2", cidr |-> "10.0/24", gw |-> FALSE],
    [name |-> "opt1", phys |-> "em1.30", own |-> "30.4", cidr |-> "30.0/24", gw |-> FALSE]>>
PfDoc(aliases, rules) ==
  [ifs |-> PfIfs(FALSE), vlans |-> <<[phys |-> "em1.30", parent |-> "em1", tag |-> "30"]>>,
   aliases |-> aliases, gws |-> <<[name |-> "WAN_GW", live |-> TRUE, ifc |-> "wan"]>>,
   gw4 |-> "WAN_GW", gw6 |-> "WAN_GW", statics |-> <<>>, rules |-> rules,
   outbound |-> "automatic", manual |-> 0, forwards |-> <<>>, ones |-> <<>>, p1s |-> <<>>, p2s |-> <<>>]

PfEnds ==
  {<<AnyEnd, AnyEnd>>, <<End("net", "lan"), End("addr", "One")>>, <<End("ip", "lan"), Not(End("addr", "Nest"))>>,
   <<Not(End("addr", "Nest")), End("addr", "20.3")>>, <<End("addr", "Web"), End("ip", "wan")>>,
   <<End("addr", "10.1"), End("addr", "List")>>, <<End("addr", "10.0/24"), End("addr", "web.example")>>,
   <<End("addr", "10.1/32"), End("net", "opt1")>>}
PfServices ==
  {<<"", "", None>>, <<"tcp", "80", None>>, <<"tcp/udp", "P", None>>, <<"udp", "", None>>,
   <<"icmp", "", "8">>, <<"gre", "", None>>, <<"carp", "", None>>}
Said(r, s) == [r EXCEPT !.proto = s[1], !.port = s[2], !.icmp = s[3]]
Behind ==
  <<Said(Rule("opt1", AnyEnd, End("net", "lan"), "block"), <<"tcp", "P", None>>),
    Rule("lan", End("net", "lan"), AnyEnd, "pass"),
    [Rule("lan", AnyEnd, AnyEnd, "pass") EXCEPT !.fam = "inet6"],
    [Said(Rule("opt1", AnyEnd, End("addr", "10.1"), "pass"), <<"tcp", "80", None>>) EXCEPT !.gw = TRUE]>>
PfRules ==
  {Said(Rule("lan", e[1], e[2], act), s) :
     e \in PfEnds, s \in {<<"", "", None>>, <<"tcp/udp", "P", None>>}, act \in {"pass", "reject"}}
  \cup
  {Said(Rule("lan", AnyEnd, End("addr", "One"), act), s) : s \in PfServices, act \in {"pass", "reject"}}
PfOddRules ==
  {[Said(Rule(ifc, e[1], e[2], act), <<"icmp", "", None>>) EXCEPT !.proto = p, !.fam = "inet6"] :
     ifc \in {"lan", "wan"}, p \in {"", "icmp"}, act \in {"pass", "block"},
     e \in {<<AnyEnd, End("addr", "::61")>>, <<End("net", "lan"), AnyEnd>>, <<Not(End("addr", "::63")), AnyEnd>>}}
  \cup
  {[Rule("lan", AnyEnd, End("addr", "One"), act) EXCEPT !.float = f, !.fam = v, !.sport = s, !.off = ~s,
      !.ifs = IF f THEN <<"lan", "opt1">> ELSE @] :
     f \in BOOLEAN, v \in {"inet", "inet46"}, s \in BOOLEAN, act \in {"pass", "block"}}

PfJob(doc) ==
  [Job(Parse(doc).cfg) EXCEPT !.doc = doc, !.mode = "central",
     !.map = "wan" :> "port2" @@ "lan" :> "port1" @@ "opt1" :> "port3"]
PfRuleJobs == {PfJob(PfDoc(a, <<r>> \o Behind)) : a \in PfAliases, r \in PfRules \cup PfOddRules}

(* Gateways, routes, NAT and tunnels.                                      *)
PfGates == {<<[name |-> "WAN_GW", live |-> l, ifc |-> "wan"], [name |-> "LAB_GW", live |-> TRUE, ifc |-> "opt1"]>> :
              l \in BOOLEAN}
Forward(ext, protos, port, off) ==
  [off |-> off, ext |-> ext, target |-> "10.1", protos |-> protos, port |-> port, ifc |-> "wan"]
PfForwards ==
  <<Forward(End("ip", "wan"), <<"tcp">>, "80", FALSE), Forward(End("addr", "20.3"), <<"tcp", "udp">>, "P", FALSE),
    Forward(End("ip", "wan"), <<"udp">>, "", TRUE), [Forward(AnyEnd, <<"tcp">>, "53", FALSE) EXCEPT !.ifc = None]>>
PfOnes ==
  <<[off |-> FALSE, ext |-> "20.3", int |-> "10.1", limited |-> TRUE, ifc |-> None],
    [off |-> FALSE, ext |-> "20.3", int |-> "10.0/24", limited |-> FALSE, ifc |-> "wan"]>>
PfTunnels == <<[ike |-> "1", off |-> FALSE, ifc |-> None], [ike |-> "2", off |-> FALSE, ifc |-> "wan"],
               [ike |-> "3", off |-> TRUE, ifc |-> "wan"]>>
PfPairs(l, r) ==
  <<[ike |-> "1", off |-> FALSE, local |-> l, remote |-> End("addr", "40.0/24")],
    [ike |-> "1", off |-> FALSE, local |-> End("net", "opt1"), remote |-> r],
    [ike |-> "2", off |-> FALSE, local |-> End("any", None), remote |-> r]>>
PfRestJobs ==
  {[PfJob([PfDoc(a, Tail(Behind)) EXCEPT
      !.ifs = PfIfs(d), !.gws = g, !.outbound = o, !.manual = 1, !.forwards = PfForwards, !.ones = PfOnes,
      !.statics = <<[net |-> "40.0/24", gw |-> "LAB_GW"], [net |-> "20.3", gw |-> "WAN_GW"]>>,
      !.gw6 = IF d THEN None ELSE @, !.p1s = PfTunnels,
      !.p2s = PfPairs(l, End("addr", IF d THEN "40.0/24" ELSE "0.0.0.0/0"))])
    EXCEPT !.tune = IF d THEN NoTune ELSE [NoTune EXCEPT !.merge = TRUE, !.prune = TRUE, !.split = TRUE]] :
     a \in {x \in PfAliases : Len(x) = 4}, d \in BOOLEAN, g \in PfGates, o \in {"automatic", "hybrid", "manual"},
     l \in {End("addr", "10.0/24"), End("addr", "::61"), End("net", "wan")}}
PfJobs == PfRuleJobs \cup PfRestJobs

(* A destination that is negated, while the routes of the addresses the    *)
(* negation names all leave by one interface.                              *)
MCNegatedJobs ==
  {PfJob(PfDoc(a, <<Said(Rule("lan", AnyEnd, Not(End("net", "opt1")), act), s)>> \o Behind)) :
     a \in PfAliases, s \in PfServices, act \in {"block", "reject"}}

(* NAT from any zone, as Palo Alto and Junos write it.                     *)
MCNatJobs ==
  {[Job(NatCfg(<<Snat(kind, "any", "out", "p1", "h1")>>, src, <<"out">>)) EXCEPT !.tune.split = s, !.mode = m] :
     kind \in {"interface", "pool"}, src \in {<<"in">>, <<"in", "dmz">>}, s \in BOOLEAN,
     m \in {"policy", "central"}}

MCJobs == PortJobs \cup NameJobs \cup SvcJobs \cup AddrJobs \cup NatJobs \cup RouteJobs \cup ScopeJobs
            \cup PfJobs
=============================================================================
