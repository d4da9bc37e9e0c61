--------------------------- MODULE PfSenseTraffic ----------------------------
(***************************************************************************)
(* What pfSense itself does with a flow, read from its document, compared  *)
(* with what the emitted policies do at the end of the whole conversion.   *)
(* job.doc is the document of a pfSense conversion, None for the others.   *)
(***************************************************************************)
EXTENDS CrossTraffic, PfSense

(* The hosts and ports that pfSense takes an endpoint or a port for.       *)
AliasHosts(doc, n) ==
  LET lists == Each(doc.aliases, LAMBDA a : [name |-> a.name, members |-> a.entries])
      words == Below(lists, n) \ Names(lists)
  IN  UNION {Denotes[w].hosts : w \in words \cap DOMAIN Denotes}

PfHosts(doc, e) ==
  LET itf == {i \in ToSet(doc.ifs) : i.name = e.of /\ i.cidr # None}
  IN  CASE e.is = "any" -> DOMAIN Fam
        [] e.is = "net" -> UNION {Denotes[i.cidr].hosts : i \in itf}
        [] e.is = "ip" -> UNION {Denotes[i.own].hosts : i \in itf}
        [] OTHER -> AliasHosts(doc, e.of)

PfPorts(doc, r) ==
  LET alias == {a \in ToSet(doc.aliases) : a.type = "port" /\ a.name = r.port}
      ports == IF alias = {} THEN {r.port} ELSE UNION {ToSet(a.entries) : a \in alias}
  IN  IF r.proto = "" THEN Atoms
      ELSE IF r.proto \in {"tcp", "udp", "tcp/udp"} THEN UNION {PortAtoms[r.proto, p] : p \in ports}
      ELSE {}

PfMatches(doc, r, flows) ==
  LET srcs == PfHosts(doc, r.src)
      dsts == PfHosts(doc, r.dst)
      ports == PfPorts(doc, r)
      fams == IF r.fam = "inet46" THEN {4, 6} ELSE IF r.fam = "inet6" THEN {6} ELSE {4}
  IN  {f \in flows :
         /\ ~r.off /\ f.in \in ToSet(r.ifs) /\ Fam[f.dst] \in fams /\ f.atom \in ports
         /\ (f.src \in srcs) # r.src.not /\ (f.dst \in dsts) # r.dst.not}

(* The findings after which a rule may take other traffic.                 *)
Differing == {"floating", "dual stack", "endpoint", "skipped", "source port", "protocol"}

(* Every flow between interfaces is passed or blocked as pfSense does, by  *)
(* the first rule of the interface it comes in at, unless the report names *)
(* the rule that decides it on either side, or a floating rule matches it. *)
PfSenseDecides ==
  (Ended /\ job.doc # None) =>
    LET doc == job.doc
        flows == {f \in Flows(Source(1)) : Out(Source(1), f) \in Names(doc.ifs)}
        named == {t[2] : t \in {u \in Parse(doc).found : u[1] \in Differing}}
        live == SelectSeq(Policies(1), LAMBDA e : ~e.val.off)
        takes == [i \in DOMAIN doc.rules |-> PfMatches(doc, doc.rules[i], flows)]
        hits == [j \in DOMAIN live |-> Matches(1, live[j])]
    IN  \A f \in flows :
          LET mine == {i \in DOMAIN doc.rules : f \in takes[i]}
              first == {j \in DOMAIN live : f \in hits[j]}
              passed == mine # {} /\ doc.rules[Min(mine)].act = "pass"
              accepted == first # {} /\ live[Min(first)].val.act = "accept"
              excused(id) == id \in named \/ RuleTold(1, id)
          IN  \/ passed = accepted
              \/ \E i \in mine : doc.rules[i].float
              \/ mine # {} /\ excused(RuleId(Min(mine)))
              \/ first # {} /\ excused(live[Min(first)].val.id)
=============================================================================
