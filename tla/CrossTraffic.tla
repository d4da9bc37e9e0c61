----------------------------- MODULE CrossTraffic ------------------------------
(***************************************************************************)
(* What a conversion has to keep: the traffic each rule of the source      *)
(* takes, and how it is translated, compared with what FortiOS does with   *)
(* the emitted tables.  None of this is in the code; the report (told)     *)
(* may excuse a difference, and nothing else does.                         *)
(***************************************************************************)
EXTENDS Cross

Ended == stage = "end"
Scopes == DOMAIN job.scopes
Source(k) == job.scopes[k].cfg
ToldOf(area, k) == {t[3] : t \in {u \in told : u[1] = area /\ u[2] = k}}

-----------------------------------------------------------------------------
(* The source: first match over the rules the user has not filtered out.   *)
Ports(S, n) ==
  IF n \in Anys THEN Names(S.ifaces)
  ELSE IF n \in Names(S.zones) THEN ToSet(GroupNamed(S.zones, n).members) ELSE {n}
SideOf(S, zones) ==
  IF zones = <<>> THEN Names(S.ifaces) ELSE UNION {Ports(S, n) : n \in ToSet(zones)}

HostsOf(S, names) ==
  LET leaves == UNION {Below(S.groups, n) : n \in names}
  IN  IF "all" \in leaves THEN DOMAIN Fam
      ELSE UNION {a.hosts : a \in {x \in ToSet(S.addrs) : x.name \in leaves}}

OfPredefined(n) ==
  IF n = "ALL" THEN Atoms ELSE UNION {sig \in DOMAIN Builtin : Builtin[sig] = n}
AtomsOf(S, names) ==
  LET leaves == UNION {Below(S.sgroups, n) : n \in OrAll(names)}
  IN  UNION {s.sig : s \in {x \in ToSet(S.svcs) : x.name \in leaves}}
        \cup UNION {OfPredefined(n) : n \in leaves \ Names(S.svcs)}

Wanted(p) ==
  (job.tune.only = {} \/ p.name \in job.tune.only) /\ p.name \notin job.tune.exclude

(* A flow comes in at an interface and leaves where its destination is.    *)
Flows(S) ==
  LET way == [h \in DOMAIN Fam |-> LookupNet(S, {h})]
  IN  {f \in [in : Names(S.ifaces), src : DOMAIN Fam, dst : {h \in DOMAIN Fam : way[h] # None},
              atom : Atoms] : Fam[f.src] = Fam[f.dst]}
Out(S, f) == LookupNet(S, {f.dst})

(* A rule of pfSense that names no family is for IPv4.                     *)
Families(p) == IF p.fam # None THEN {p.fam} ELSE IF job.doc = None THEN {4, 6} ELSE {4}

Takes(S, p) ==
  LET from == SideOf(S, p.src)
      to == SideOf(S, p.dst)
      srcs == HostsOf(S, p.srcs)
      dsts == HostsOf(S, p.dsts)
      atoms == AtomsOf(S, p.svcs)
      way == [h \in DOMAIN Fam |-> LookupNet(S, {h})]
  IN  {f \in Flows(S) :
         /\ f.in \in from /\ way[f.dst] \in to
         /\ (f.src \in srcs) # p.srcNeg /\ (f.dst \in dsts) # p.dstNeg
         /\ f.atom \in atoms
         /\ Fam[f.dst] \in Families(p)}

-----------------------------------------------------------------------------
(* The output: the entries of a VDOM, the interfaces among them.           *)
Entries(k) ==
  IF job.wrap = "flat" THEN bodies[k].out
  ELSE SelectSeq(global, LAMBDA e : e.val.vdom = bodies[k].vdom) \o bodies[k].out
TableOf(k, table) == SelectSeq(Entries(k), LAMBDA e : e.table = table)
OfTable(k, table) == ToSet(TableOf(k, table))
Policies(k) == TableOf(k, "policy")

(* The interface of the target that carries an interface of the source.    *)
Wire(k, n) ==
  LET made == {e \in OfTable(k, "interface") : e.val.origin = n}
      own == {i \in ToSet(Source(k).ifaces) : i.name = n /\ i.target # None}
  IN  IF made # {} THEN (CHOOSE e \in made : TRUE).name
      ELSE IF n \in DOMAIN job.map THEN Lag(job.auth.aggs, job.map[n])
      ELSE IF own # {} THEN (CHOOSE i \in own : TRUE).target ELSE n

On(k, side, wire) ==
  \/ "any" \in side \/ wire \in side
  \/ \E z \in OfTable(k, "zone") : z.name \in side /\ wire \in z.val

(* The names below some names in the groups of a table.                    *)
Reach(groups, names) ==
  FoldSet(LAMBDA g, S : S \cup UNION {h.val.members : h \in {x \in groups : x.name \in S}},
          names, groups)

EmittedHosts(k, f, names) ==
  LET groups == {g \in OfTable(k, "addrgrp") : g.val.space = Space(f)}
      reach == Reach(groups, names)
      there == {a \in OfTable(k, "address") : a.name \in reach /\ a.val.space = Space(f)}
  IN  IF "all" \in reach THEN DOMAIN Fam ELSE UNION {a.val.hosts : a \in there}

EmittedAtoms(k, names) ==
  LET groups == {[name |-> g.name, val |-> [members |-> g.val]] : g \in OfTable(k, "svcgrp")}
      reach == Reach(groups, names)
      there == {s \in OfTable(k, "service") : s.name \in reach}
  IN  UNION {s.val : s \in there} \cup UNION {OfPredefined(n) : n \in reach \ {s.name : s \in there}}

(* The flows of the source that an emitted policy matches.                 *)
Matches(k, e) ==
  LET S == Source(k)
      wire == [n \in Names(S.ifaces) |-> Wire(k, n)]
      in == {n \in Names(S.ifaces) : On(k, e.val.src, wire[n])}
      out_ == {n \in Names(S.ifaces) : On(k, e.val.dst, wire[n])}
      way == [h \in DOMAIN Fam |-> LookupNet(S, {h})]
      srcs == [f \in {4, 6} |-> EmittedHosts(k, f, e.val.srcs[f])]
      dsts == [f \in {4, 6} |-> EmittedHosts(k, f, e.val.dsts[f])]
      atoms == EmittedAtoms(k, e.val.svcs)
      leg(f) == e.val.srcs[f] # {} /\ e.val.dsts[f] # {}
  IN  {f \in Flows(S) :
         LET fam == Fam[f.dst]
         IN  /\ leg(fam)
             /\ f.in \in in /\ way[f.dst] \in out_
             /\ (f.src \in srcs[fam]) # e.val.srcNeg /\ (f.dst \in dsts[fam]) # e.val.dstNeg
             /\ f.atom \in atoms}

-----------------------------------------------------------------------------
(* What the report says of a rule, by its own name or by that of a group   *)
(* or zone it needs.                                                       *)
RuleTold(k, id) ==
  LET copies == {p \in ToSet(bodies[k].cfg.pols) : p.id = id}
      groups == UNION {UNION {Below(bodies[k].cfg.groups, n) : n \in p.srcs \cup p.dsts} : p \in copies}
      sgroups == UNION {UNION {Below(bodies[k].cfg.sgroups, n) : n \in p.svcs} : p \in copies}
      zones == UNION {ToSet(p.src) \cup ToSet(p.dst) : p \in copies}
  IN  \/ id \in ToldOf("policy zones", k) \cup ToldOf("policy services", k)
               \cup ToldOf("policy schedule", k)
      \/ (groups \cap (ToldOf("addrgrp", k) \cup ToldOf("cycle", k))) # {}
      \/ (sgroups \cap (ToldOf("svcgrp", k) \cup ToldOf("cycle", k))) # {}
      \/ (zones \cap ToldOf("zone", k)) # {}
      \/ ToldOf("two scopes", k) # {}

(* The state is a fully typed conversion: a stage of the pipeline, a scope *)
(* that exists, and as many finished bodies as scopes gone through.        *)
TypeOK ==
  /\ at \in Scopes /\ stage \in ToSet(Stages)
  /\ Len(bodies) = IF Ended THEN Len(job.scopes) ELSE at - 1
  /\ {t[2] : t \in told} \subseteq Scopes
  /\ \A i \in DOMAIN out : DOMAIN out[i] = {"table", "name", "refs", "val"}
  /\ \A i \in DOMAIN global : global[i].table = "interface"

(* Traffic the output accepts is traffic the source accepted, unless the   *)
(* report names the rule that accepts it or one that denied it: the        *)
(* promise of emit/fortios.py:1-7.                                         *)
NoSilentBroadening ==
  Ended => \A k \in Scopes :
    LET S == Source(k)
        rules == SelectSeq(S.pols, LAMBDA p : ~p.off /\ Wanted(p))
        live == SelectSeq(Policies(k), LAMBDA e : ~e.val.off)
        takes == [i \in DOMAIN rules |-> Takes(S, rules[i])]
        hits == [j \in DOMAIN live |-> Matches(k, live[j])]
    IN  \A f \in Flows(S) :
          LET mine == {i \in DOMAIN rules : f \in takes[i]}
              first == {j \in DOMAIN live : f \in hits[j]}
          IN  (first # {} /\ live[Min(first)].val.act = "accept") =>
                \/ mine # {} /\ rules[Min(mine)].act = "accept"
                \/ RuleTold(k, live[Min(first)].val.id)
                \/ \E i \in mine : RuleTold(k, rules[i].id)

(* A rule the user keeps still takes all the traffic it took, in one copy  *)
(* or in the copies it was split into, with its action, disabled or not as *)
(* before; a rule the user drops is gone.  Nothing is dropped silently.    *)
RulesKeepTheirTraffic ==
  Ended => \A k \in Scopes : \A i \in DOMAIN Source(k).pols :
    LET p == Source(k).pols[i]
        copies == {e \in ToSet(Policies(k)) : e.val.id = p.id}
    IN  IF ~Wanted(p) THEN copies = {}
        ELSE \/ RuleTold(k, p.id)
             \/ /\ copies # {}
                /\ \A e \in copies : e.val.act = p.act /\ e.val.off = p.off
                /\ Takes(Source(k), p) \subseteq UNION {Matches(k, e) : e \in copies}

(* How a flow is translated in the source: by the first rule it meets.     *)
NatOn(S, n, f) ==
  /\ n.from = "*" \/ f.in \in Ports(S, n.from)
  /\ n.to = "*" \/ Out(S, f) \in Ports(S, n.to)
Translation(S, f) ==
  LET met == {i \in DOMAIN S.nats : NatOn(S, S.nats[i], f)}
      rule == S.nats[Min(met)]
  IN  IF met = {} THEN {} ELSE IF rule.kind = "interface" THEN {"interface"} ELSE {rule.pool}

CentralHit(k, f) ==
  \E e \in OfTable(k, "central-snat") :
    On(k, {e.val.from}, Wire(k, f.in)) /\ On(k, {e.val.to}, Wire(k, Out(Source(k), f)))

(* Source NAT follows the traffic through the renaming of its zones, the   *)
(* mapping of its ports and the split of its rules: an accepted flow that  *)
(* was translated still is, and a rule for one pair of zones translates it *)
(* as the source did.                                                      *)
NatFollowsRules ==
  Ended => \A k \in Scopes :
    \A e \in {x \in ToSet(Policies(k)) : x.val.act = "accept" /\ ~RuleTold(k, x.val.id)} :
      LET S == Source(k)
          pair == Cardinality(e.val.src) = 1 /\ Cardinality(e.val.dst) = 1
      IN  \A f \in Matches(k, e) :
            IF job.mode = "central"
            THEN e.val.nat = {} /\ (Translation(S, f) # {}) = CentralHit(k, f)
            ELSE IF pair THEN e.val.nat = Translation(S, f)
            ELSE Translation(S, f) # {} => e.val.nat # {}

-----------------------------------------------------------------------------
Spaces(e) ==
  CASE e.table \in {"interface", "zone"} -> {"intf"}
    [] e.table = "phase1" -> {"intf", "phase1"}
    [] e.table \in {"address", "addrgrp"} -> {e.val.space}
    [] e.table = "vip" -> {"addr4"}
    [] e.table \in {"service", "svcgrp"} -> {"svc"}
    [] e.table = "schedule" -> {"sched"}
    [] e.table = "ippool" -> {"pool"}
    [] OTHER -> {e.table}

(* What is there before the script runs: the ports of the target, the      *)
(* names the report says the target lacks, the predefined objects.         *)
Given(k) ==
  LET ports == {job.map[n] : n \in DOMAIN job.map} \cup ToldOf("unmapped", k)
                 \cup UNION {ToSet(a.members) : a \in ToSet(job.auth.aggs)}
                 \cup UNION {ToSet(i.members) : i \in ToSet(Source(k).ifaces)}
                 \cup {job.auth.parents[n] : n \in DOMAIN job.auth.parents}
  IN  Refs("intf", {"any"} \cup ports) \cup Refs("addr4", {"all", "none"})
        \cup Refs("addr6", {"all", "none"}) \cup Refs("svc", Predefined) \cup {<<"sched", "always">>}

(* Whatever an entry refers to is defined by an entry above it: FortiOS    *)
(* executes the script line by line and rejects a dangling name.  Only a   *)
(* cycle of groups, which the report names, cannot be put in order.        *)
DefinedBeforeUse ==
  Ended => \A k \in Scopes :
    LET script == IF job.wrap = "flat" THEN bodies[k].out ELSE global \o bodies[k].out
    IN  \A i \in DOMAIN script : \A r \in script[i].refs :
          \/ r \in Given(k)
          \/ \E j \in 1 .. i - 1 : script[j].name = r[2] /\ r[1] \in Spaces(script[j])
          \/ r[2] \in ToldOf("cycle", k)

(* In every name space of a VDOM a name is defined once, is one FortiOS    *)
(* takes, and is not that of a predefined object; no two VDOMs get one     *)
(* name, whatever is left of the names of their scopes.                    *)
NamesUnique ==
  Ended => \A k \in Scopes :
    LET script == Entries(k)
        named == {i \in DOMAIN script : script[i].name # None /\ script[i].table # "phase2"}
    IN  /\ \A j \in Scopes : j # k => bodies[j].vdom # bodies[k].vdom
        /\ \A i, j \in named : i < j =>
             \/ script[i].name # script[j].name
             \/ Spaces(script[i]) \cap Spaces(script[j]) = {}
        /\ \A i \in named :
             /\ script[i].name \notin DOMAIN Clean
             /\ script[i].table = "interface" => script[i].name \notin Long
             /\ "svc" \in Spaces(script[i]) => script[i].name \notin Predefined

(* An interface is created once on the device, and a VDOM refers only to   *)
(* interfaces of its own, unless the report says two scopes claim it.      *)
InterfacesOnce ==
  /\ \A i, j \in DOMAIN global : i # j => global[i].name # global[j].name
  /\ \A k \in DOMAIN bodies : \A i \in DOMAIN bodies[k].out : \A g \in ToSet(global) :
       (<<"intf", g.name>> \in bodies[k].out[i].refs /\ g.val.vdom # bodies[k].vdom)
         => g.name \in ToldOf("two scopes", k)

(* Whatever the names and however they are cut, a name that the output     *)
(* defines means one thing, in its VDOM and, for interfaces, on the device.*)
DefinedOnce == NamesUnique /\ InterfacesOnce
=============================================================================
