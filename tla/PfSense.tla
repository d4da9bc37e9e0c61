------------------------------ MODULE PfSense -------------------------------
(***************************************************************************)
(* The pfSense parser, fwforge/parsers/pfsense.py with the tunnels of      *)
(* _vpn_common.py: from the sections of config.xml to the IR of CrossIR.   *)
(* A document has                                                          *)
(*   ifs       name, phys, own, cidr (None if it is dynamic), gw (is WAN)  *)
(*   vlans     phys, parent, tag           aliases  name, type, entries    *)
(*   gws       name, live, ifc             statics  net, gw                *)
(*   gw4, gw6  the names of the default gateways, or None                  *)
(*   rules     ifs, float, fam, src, dst, sport, proto, port, icmp, act,   *)
(*             off, gw                                                     *)
(*   outbound  the mode of source NAT      manual   how many rules it has  *)
(*   forwards  off, ext, target, protos, port, ifc                         *)
(*   ones      off, ext, int, limited, ifc (1:1 NAT)                       *)
(*   p1s       ike, off, ifc               p2s      ike, off, local, remote*)
(* An endpoint is "any", the network ("net") or address ("ip") of an       *)
(* interface, or an address, network or alias ("addr"), and may be negated.*)
(***************************************************************************)
EXTENDS CrossIR

CONSTANTS
  Denotes,   \* the addresses, networks and host names a document writes:
             \* key, fam, hosts, ip (FALSE for a host name)
  PortAtoms  \* the atoms of a protocol and a port, a range or "" for any

Nothing == [ifaces |-> <<>>, zones |-> <<>>, addrs |-> <<>>, groups |-> <<>>, svcs |-> <<>>,
            sgroups |-> <<>>, profiles |-> <<>>, scheds |-> <<>>, vips |-> <<>>, pools |-> <<>>,
            nats |-> <<>>, routes |-> <<>>, pbrs |-> <<>>, p1s |-> <<>>, pols |-> <<>>, passive |-> {}]

(* The parser: what it has built, the port aliases, the names that mean an *)
(* address, the shared addresses and services, and the findings.           *)
Fresh == [cfg |-> Nothing, ports |-> <<>>, names |-> {}, made |-> {}, sigs |-> <<>>, found |-> {}]

Found(st, what, who) == [st EXCEPT !.found = @ \cup {<<what, who>>}]
FoundIf(st, cond, what, who) == IF cond THEN Found(st, what, who) ELSE st

IsIp(w) == w \in DOMAIN Denotes /\ Denotes[w].ip
Object(n, w) ==
  [name |-> n, fam |-> Denotes[w].fam, hosts |-> Denotes[w].hosts,
   net |-> Denotes[w].ip /\ Denotes[w].fam = 4]

(* An object made once and shared by all that write the same address.      *)
Share(st, n, w) ==
  IF n \in st.made THEN st
  ELSE [st EXCEPT !.cfg.addrs = Append(@, Object(n, w)), !.made = @ \cup {n}, !.names = @ \cup {n}]

(* The same for services, which are alike when their definitions are.      *)
ShareService(st, definition, n, atoms) ==
  IF definition \in DOMAIN st.sigs THEN st
  ELSE [st EXCEPT !.cfg.svcs = Append(@, [name |-> n, sig |-> atoms]),
                  !.sigs = (definition :> n) @@ @]

-----------------------------------------------------------------------------
(* Interfaces keep their logical names; a VLAN says what it rides on.      *)
Logical(doc, phys) ==
  LET on == {k \in DOMAIN doc.ifs : doc.ifs[k].phys = phys}
  IN  IF on = {} THEN phys ELSE doc.ifs[Max(on)].name

Interface(doc, i) ==
  LET on == {k \in DOMAIN doc.vlans : doc.vlans[k].phys = i.phys /\ doc.vlans[k].tag # None}
      vlan == doc.vlans[Max(on)]
  IN  [name |-> i.name, kind |-> "physical", target |-> None, members |-> <<>>,
       net |-> IF i.cidr = None THEN None ELSE Denotes[i.cidr].hosts,
       parent |-> IF on = {} THEN None ELSE Logical(doc, vlan.parent),
       id |-> IF on = {} THEN None ELSE vlan.tag]

ParseInterfaces(doc, st) == [st EXCEPT !.cfg.ifaces = Each(doc.ifs, LAMBDA i : Interface(doc, i))]

-----------------------------------------------------------------------------
(* Aliases: a list of ports, one address under the alias's own name, or a  *)
(* group of other aliases and shared addresses.  The types "host" and      *)
(* "network" are one, "url" stands for those that are not converted.       *)
ParseAlias(doc, st, a) ==
  LET isAlias(w) == w \in Names(doc.aliases)
      literals == SelectSeq(a.entries, LAMBDA w : ~isAlias(w))
      below == FoldLeft(LAMBDA s, w : Share(s, Denotes[w].key, w), st, literals)
      members == SelectSeq(a.entries, isAlias) \o Each(literals, LAMBDA w : Denotes[w].key)
  IN  CASE a.type = "port" -> [st EXCEPT !.ports = (a.name :> a.entries) @@ @]
        [] a.type = "url" -> Found(st, "alias", a.name)
        [] a.type = "host" /\ Len(a.entries) = 1 /\ literals # <<>> ->
             [st EXCEPT !.cfg.addrs = Append(@, Object(a.name, literals[1])),
                        !.names = @ \cup {a.name}]
        [] OTHER ->
             [below EXCEPT !.cfg.groups = Append(@, [name |-> a.name, members |-> members]),
                           !.names = @ \cup {a.name}]

ParseAliases(doc, st) == FoldLeft(LAMBDA s, a : ParseAlias(doc, s, a), st, doc.aliases)

-----------------------------------------------------------------------------
(* Routes need a gateway with an address of its own.                       *)
Gateway(doc, n) == doc.gws[Max({k \in DOMAIN doc.gws : doc.gws[k].name = n})]
Live(doc, n) == n \in Names(doc.gws) /\ Gateway(doc, n).live

AddRoute(doc, st, net, gw) ==
  IF Live(doc, gw) /\ IsIp(net)
  THEN [st EXCEPT !.cfg.routes =
          Append(@, [net |-> Denotes[net].hosts, ifc |-> Gateway(doc, gw).ifc])]
  ELSE Found(st, "route", net)

ParseRoutes(doc, st) ==
  LET four == IF doc.gw4 = None THEN FoundIf(st, doc.gws # <<>>, "route", "0.0.0.0/0")
              ELSE AddRoute(doc, st, "0.0.0.0/0", doc.gw4)
      six == IF doc.gw6 = None THEN four ELSE AddRoute(doc, four, "::/0", doc.gw6)
  IN  FoldLeft(LAMBDA s, r : AddRoute(doc, s, r.net, r.gw), six, doc.statics)

-----------------------------------------------------------------------------
(* Rules.                                                                  *)
Static(doc, n) == {i \in ToSet(doc.ifs) : i.name = n /\ i.cidr # None}

(* Mutant: the network of an interface is its own address.                 *)
Endpoint_Own(doc, st, e, v6, id) ==
  LET itf == CHOOSE i \in Static(doc, e.of) : TRUE
      shared(n, w) == [st |-> Share(st, n, w), name |-> n]
  IN  CASE e.is = "any" -> [st |-> st, name |-> "all"]
        [] e.is \in {"net", "ip"} /\ (v6 \/ Static(doc, e.of) = {}) ->
             [st |-> Found(st, "endpoint", id), name |-> "all"]
        [] e.is = "ip" -> shared(Denotes[itf.own].key, itf.own)
        [] e.is = "net" -> shared(e.of \o "-net", itf.own)
        [] e.is = "addr" /\ e.of \in st.names -> [st |-> st, name |-> e.of]
        [] e.is = "addr" /\ e.of \notin st.names /\ IsIp(e.of) -> shared(Denotes[e.of].key, e.of)
        [] OTHER -> [st |-> Found(st, "skipped", id), name |-> None]

(* The address of one side, None if the rule cannot be converted.          *)
Endpoint(doc, st, e, v6, id) ==
  LET itf == CHOOSE i \in Static(doc, e.of) : TRUE
      shared(n, w) == [st |-> Share(st, n, w), name |-> n]
  IN  CASE e.is = "any" -> [st |-> st, name |-> "all"]
        [] e.is \in {"net", "ip"} /\ (v6 \/ Static(doc, e.of) = {}) ->
             [st |-> Found(st, "endpoint", id), name |-> "all"]
        [] e.is = "ip" -> shared(Denotes[itf.own].key, itf.own)
        [] e.is = "net" -> shared(e.of \o "-net", itf.cidr)
        [] e.is = "addr" /\ e.of \in st.names -> [st |-> st, name |-> e.of]
        [] e.is = "addr" /\ e.of \notin st.names /\ IsIp(e.of) -> shared(Denotes[e.of].key, e.of)
        [] OTHER -> [st |-> Found(st, "skipped", id), name |-> None]

Ranges(st, port) ==
  IF port \in DOMAIN st.ports THEN st.ports[port] ELSE IF port = "" THEN <<>> ELSE <<port>>
AtomsOfRanges(proto, ranges) ==
  UNION {PortAtoms[proto, p] : p \in IF ranges = <<>> THEN {""} ELSE ToSet(ranges)}

Service(st, r, v6, id) ==
  LET ranges == Ranges(st, r.port)
      flat == IF r.proto = "tcp/udp" THEN "tcpudp" ELSE r.proto
      label == IF ranges = <<>> THEN flat \o "_any" ELSE r.port \o "_" \o flat
      predefined(n) == [st |-> st, name |-> n]
      shared(definition, n, atoms) ==
        LET new == ShareService(st, definition, n, atoms)
        IN  [st |-> new, name |-> new.sigs[definition]]
  IN  CASE r.proto = "" -> predefined("ALL")
        [] r.proto = "icmp" /\ v6 -> predefined("ALL_ICMP6")
        [] r.proto = "icmp" /\ ~v6 /\ r.icmp # None ->
             shared(<<"icmp", <<r.icmp>> >>, "icmp_" \o r.icmp, {"icmp " \o r.icmp})
        [] r.proto = "icmp" /\ ~v6 /\ r.icmp = None -> predefined("ALL_ICMP")
        [] r.proto \in {"tcp", "udp", "tcp/udp"} ->
             shared(<<r.proto, ranges>>, label, AtomsOfRanges(r.proto, ranges))
        [] r.proto \in {"esp", "ah", "gre", "igmp", "ospf", "pim", "sctp"} ->
             shared(<<r.proto, <<>> >>, "proto_" \o r.proto, {"ip " \o r.proto})
        [] OTHER -> [st |-> Found(st, "protocol", id), name |-> "ALL"]

RuleId(n) == "pf-" \o ToString(n)

(* A rule is a policy from its interfaces to wherever the routes lead.     *)
ParseRule(doc, st, n) ==
  LET r == doc.rules[n]
      id == RuleId(n)
      v6 == r.fam = "inet6"
      seen == FoundIf(FoundIf(st, r.fam = "inet46", "dual stack", id), r.float, "floating", id)
      src == Endpoint(doc, seen, r.src, v6, id)
      dst == Endpoint(doc, src.st, r.dst, v6, id)
      svc == Service(dst.st, r, v6, id)
      told == FoundIf(FoundIf(svc.st, r.sport, "source port", id), r.gw, "gateway", id)
  IN  IF None \in {src.name, dst.name} THEN dst.st
      ELSE [told EXCEPT !.cfg.pols = Append(@,
              [id |-> id, name |-> id, src |-> IF r.ifs = <<>> THEN <<"any">> ELSE r.ifs, dst |-> <<>>,
               srcs |-> {src.name}, dsts |-> {dst.name}, srcNeg |-> r.src.not, dstNeg |-> r.dst.not,
               svcs |-> {svc.name}, act |-> IF r.act = "pass" THEN "accept" ELSE "deny", off |-> r.off,
               sched |-> None, profile |-> None, fam |-> IF v6 THEN 6 ELSE None, inferred |-> FALSE])]

ParseRules(doc, st) ==
  FoldLeft(LAMBDA s, n : ParseRule(doc, s, n), st, [n \in DOMAIN doc.rules |-> n])

-----------------------------------------------------------------------------
(* NAT: outbound translation to every WAN, port forwards and 1:1.          *)
Wans(doc) == Named(SelectSeq(doc.ifs, LAMBDA i : i.gw))

ParseOutbound(doc, st) ==
  LET automatic == doc.outbound \in {"automatic", "hybrid"}
      manual == doc.outbound \in {"hybrid", "manual"} /\ doc.manual > 0
      toWan == Each(Wans(doc), LAMBDA w :
                 [kind |-> "interface", from |-> "*", to |-> w, pool |-> None, obj |-> "all"])
  IN  [FoundIf(FoundIf(st, manual, "nat", "manual"), automatic /\ Wans(doc) = <<>>, "nat", "no WAN")
       EXCEPT !.cfg.nats = IF automatic THEN toWan ELSE @]

Vip(n, ifc) == [name |-> n, ifc |-> IF ifc = None THEN "wan" ELSE ifc, whole |-> TRUE]

(* A VIP for every protocol and range; a forward needs both its ends.      *)
ParseForward(doc, st, i) ==
  LET f == doc.forwards[i]
      n == "vip-pf-" \o ToString(i)
      outside == IF f.ext.is = "ip" THEN Static(doc, f.ext.of) # {} ELSE f.ext.is = "addr"
      ranges == IF Ranges(st, f.port) = <<>> THEN <<"">> ELSE Ranges(st, f.port)
      suffix(p, j) ==
        (IF Len(f.protos) > 1 THEN "-" \o p ELSE "") \o (IF Len(ranges) > 1 THEN "-" \o ToString(j) ELSE "")
      copies(p) == [j \in DOMAIN ranges |-> Vip(n \o suffix(p, j), f.ifc)]
  IN  IF f.off THEN st
      ELSE LET split == FoundIf(st, Len(ranges) > 1, "split", n)
           IN  IF ~outside \/ f.target = None THEN Found(split, "forward", n)
               ELSE [split EXCEPT !.cfg.vips = @ \o FlattenSeq(Each(f.protos, copies))]

ParseOneToOne(doc, st, i) ==
  LET o == doc.ones[i]
      n == "vip-1to1-" \o ToString(i)
      single == o.ext # None /\ o.int # None /\ Cardinality(Denotes[o.int].hosts) = 1
      seen == FoundIf(st, o.limited, "1:1 broader", n)
  IN  IF o.off THEN st
      ELSE IF single THEN [seen EXCEPT !.cfg.vips = Append(@, Vip(n, o.ifc))]
      ELSE Found(seen, "1:1", n)

ParseNat(doc, st) ==
  LET forwarded == FoldLeft(LAMBDA s, i : ParseForward(doc, s, i), ParseOutbound(doc, st),
                            [i \in DOMAIN doc.forwards |-> i])
  IN  FoldLeft(LAMBDA s, i : ParseOneToOne(doc, s, i), forwarded, [i \in DOMAIN doc.ones |-> i])

-----------------------------------------------------------------------------
(* IPsec.  A selector is a network, or None if it cannot be told.          *)
Selector(doc, e) ==
  IF e.is = "addr" THEN IF IsIp(e.of) THEN e.of ELSE None
  ELSE IF e.is = "net" /\ Static(doc, e.of) # {} THEN (CHOOSE i \in Static(doc, e.of) : TRUE).cidr
  ELSE None

(* The address of a selector; one that is not IPv4 means everything.       *)
SelectorName(w) == IF Denotes[w].fam = 4 THEN "vpn-" \o Denotes[w].key ELSE "all"
ShareSelector(st, w) ==
  IF Denotes[w].fam = 6 \/ SelectorName(w) \in Names(st.cfg.addrs) THEN st
  ELSE [st EXCEPT !.cfg.addrs = Append(@, Object(SelectorName(w), w))]

(* A policy either way between the local interface and the tunnel.         *)
VpnPolicy(id, from, to, src, dst) ==
  [id |-> id, name |-> id, src |-> <<from>>, dst |-> <<to>>, srcs |-> {SelectorName(src)},
   dsts |-> {SelectorName(dst)}, srcNeg |-> FALSE, dstNeg |-> FALSE, svcs |-> {"ALL"},
   act |-> "accept", off |-> FALSE, sched |-> None, profile |-> None, fam |-> None, inferred |-> FALSE]

(* before is the configuration whose routes find the local interface.      *)
AddTunnel(before, st, tunnel, pairs) ==
  LET AddPair(s, i) ==
        LET near == pairs[i][1]
            far == pairs[i][2]
            found == IF near = "0.0.0.0/0" \/ Denotes[near].fam = 6 THEN None
                     ELSE LookupNet(before, Denotes[near].hosts)
            lan == IF found = None THEN "any" ELSE found
            routed == far = "0.0.0.0/0" \/ \E j \in 1 .. i - 1 : pairs[j][2] = far
            route == [net |-> Denotes[far].hosts, ifc |-> tunnel]
            policy(way, from, to, src, dst) ==
              VpnPolicy(tunnel \o way \o ToString(i), from, to, src, dst)
        IN  [FoundIf(ShareSelector(ShareSelector(s, near), far), lan = "any", "tunnel", tunnel) EXCEPT
              !.cfg.routes = IF routed THEN @ ELSE Append(@, route),
              !.cfg.pols = @ \o <<policy("-out-", lan, tunnel, near, far),
                                  policy("-in-", tunnel, lan, far, near)>>]
  IN  FoldLeft(AddPair, st, [i \in DOMAIN pairs |-> i])

ParsePhase1(doc, before, st, p) ==
  LET tunnel == "vpn-ike" \o p.ike
      ours == SelectSeq(doc.p2s, LAMBDA q : ~q.off /\ q.ike = p.ike)
      all == Each(ours, LAMBDA q : <<Selector(doc, q.local), Selector(doc, q.remote)>>)
      pairs == SelectSeq(all, LAMBDA pair : None \notin ToSet(pair))
      seen == FoundIf(st, all # pairs, "selector", tunnel)
      gate == [name |-> tunnel, ifc |-> IF p.ifc = None THEN "wan" ELSE p.ifc]
  IN  IF p.off THEN st
      ELSE IF pairs = <<>> THEN Found(seen, "no selectors", tunnel)
      ELSE AddTunnel(before, [seen EXCEPT !.cfg.p1s = Append(@, gate)], tunnel, pairs)

ParseIpsec(doc, st) == FoldLeft(LAMBDA s, p : ParsePhase1(doc, st.cfg, s, p), st, doc.p1s)

-----------------------------------------------------------------------------
(* parse: the sections in their order, each seeing what those before made. *)
Parse(doc) ==
  LET objects == ParseAliases(doc, ParseInterfaces(doc, Fresh))
      ruled == ParseRules(doc, ParseRoutes(doc, objects))
  IN  ParseIpsec(doc, ParseNat(doc, ruled))
=============================================================================
