----------------------------- MODULE TreeModes ------------------------------
(***************************************************************************)
(* The transforms that run before the interface mapping: the VDOM mode     *)
(* (fwforge/transforms/vdommode.py), hardware switches (hwswitch.py),      *)
(* SSL-VPN (sslvpn.py) and FortiOS version changes (versiondelta.py).      *)
(***************************************************************************)
EXTENDS TreeRefs

CONSTANTS
  Rules,     \* versiondelta.RULES: [word, since, kind], see Scan
  GoodNames  \* the names VDOM_NAME_RE matches

TunnelName == "dialup-ipsec"
SslName == "ssl.root"

-----------------------------------------------------------------------------
(* to_multi_vdom: system-wide sections (interfaces, virtual switches) go   *)
(* to `config global`, or are dropped for a box that has its own.          *)
ToMultiVdom(t, vdom, scopeOnly) ==
  IF t.multi THEN t
  ELSE [t EXCEPT
         !.multi = TRUE,
         !.ifaces = IF scopeOnly THEN {} ELSE {[i EXCEPT !.vdom = vdom] : i \in @},
         !.switches = IF scopeOnly THEN {} ELSE @,
         !.bodies = [v \in {vdom} |-> @["root"]]]

(* Mutant: the one VDOM keeps its name.                                    *)
ToSingleVdom_Kept(t) ==
  IF ~t.multi \/ Cardinality(DOMAIN t.bodies) # 1 THEN t
  ELSE [t EXCEPT !.multi = FALSE, !.ifaces = {[i EXCEPT !.vdom = None] : i \in @}]

(* to_single_vdom: several VDOMs are reported as an error and left alone.  *)
ToSingleVdom(t) ==
  IF ~t.multi \/ Cardinality(DOMAIN t.bodies) # 1 THEN t
  ELSE [t EXCEPT
         !.multi = FALSE,
         !.ifaces = {[i EXCEPT !.vdom = None] : i \in @},
         !.bodies = [v \in {"root"} |-> @[CHOOSE w \in DOMAIN @ : TRUE]]]

(* rename_vdoms: the pairs that say anything; PlanError unless valid.      *)
VdomPairs(m) == [v \in {w \in DOMAIN m : m[w] # w} |-> m[v]]
VdomMapValid(t, m) ==
  LET p == VdomPairs(m)
  IN  DOMAIN p # {} =>
        /\ t.multi
        /\ DOMAIN p \subseteq DOMAIN t.bodies
        /\ Range(p) \subseteq GoodNames
        /\ Range(p) \cap DOMAIN t.bodies \subseteq DOMAIN p
        /\ IsInjective(p)

(* Mutant: the interfaces keep the VDOM they were assigned to.             *)
RenameVdoms_Bodies(t, m) ==
  LET p == VdomPairs(m)
  IN  [t EXCEPT
        !.mgmt = Rename(p, @),
        !.bodies = [w \in RenameAll(p, DOMAIN @) |->
                      @[CHOOSE v \in DOMAIN @ : Rename(p, v) = w]]]

(* Bodies, every interface's `set vdom` and management-vdom.               *)
RenameVdoms(t, m) ==
  LET p == VdomPairs(m)
  IN  [t EXCEPT
        !.mgmt = Rename(p, @),
        !.ifaces = {[i EXCEPT !.vdom = Rename(p, @)] : i \in @},
        !.bodies = [w \in RenameAll(p, DOMAIN @) |->
                      @[CHOOSE v \in DOMAIN @ : Rename(p, v) = w]]]

-----------------------------------------------------------------------------
(* _vswitch_ports                                                          *)
SwitchPorts(t, n) == UNION {s.ports : s \in {x \in t.switches : x.name = n}}

(* hwswitch.convert: the type changes, the ports of the virtual switch are *)
(* folded in, and its sections go unless a hard-switch-vlan still needs    *)
(* them.                                                                   *)
HwSwitch(t) ==
  IF \A i \in t.ifaces : i.type \notin {"hard-switch", "hard-switch-vlan"} THEN t
  ELSE [t EXCEPT
         !.ifaces = {IF i.type = "hard-switch"
                     THEN [i EXCEPT !.type = "switch", !.members = @ \cup SwitchPorts(t, i.name)]
                     ELSE i : i \in @},
         !.switches = IF \E i \in t.ifaces : i.type = "hard-switch-vlan" THEN @ ELSE {}]

-----------------------------------------------------------------------------
(* vpn ssl: [ifc, pools, portals, groups]; a portal is [tunnel, split,     *)
(* pools], split {} without split tunneling.  Portals are meant by their   *)
(* place in the section.                                                   *)
TunnelPortals(ssl) == {i \in DOMAIN ssl.portals : ssl.portals[i].tunnel}
WithSplit(ssl) == {i \in TunnelPortals(ssl) : ssl.portals[i].split # {}}

(* The split of the first tunnel portal that has one.                      *)
SplitOf(ssl) == IF WithSplit(ssl) = {} THEN {} ELSE ssl.portals[Min(WithSplit(ssl))].split

(* The pool of the settings, else the first pool of the first portal.      *)
PoolOf(ssl) ==
  LET own == ssl.portals[Min(TunnelPortals(ssl))].pools
  IN  IF ssl.pools # <<>> THEN Head(ssl.pools)
      ELSE IF own # <<>> THEN Head(own) ELSE None

(* Mutant: nothing is told of the other portals.                           *)
LeftBehind_Silent(ssl) == {}

(* Of several tunnel portals, what the one tunnel does not carry is told.  *)
LeftBehind(ssl) ==
  LET ps == TunnelPortals(ssl)
      splitFrom == {i \in WithSplit(ssl) : i = Min(WithSplit(ssl))}
      poolFrom == IF ssl.pools = <<>> THEN {Min(ps)} ELSE {}
  IN  IF \A i, j \in ps : i = j THEN {}
      ELSE (UNION {ssl.portals[i].split : i \in ps \ splitFrom})
             \cup (UNION {ToSet(ssl.portals[i].pools) : i \in ps \ poolFrom})

Converts(b) == b.ssl # None /\ TunnelPortals(b.ssl) # {}

(* _convert_scope: the dial-up tunnel, the policies that came in on the    *)
(* SSL-VPN interface, and no vpn ssl section any more.                     *)
SslBody(b) ==
  IF ~Converts(b) THEN b
  ELSE [b EXCEPT
         !.tunnels = IF \E p \in @ : p.name = TunnelName THEN @
                     ELSE @ \cup {[name |-> TunnelName, ifc |-> b.ssl.ifc,
                                   split |-> SplitOf(b.ssl), pool |-> PoolOf(b.ssl)]},
         !.policies = MapSeq(LAMBDA p :
             [p EXCEPT !.src = {IF n = SslName THEN TunnelName ELSE n : n \in @}], @),
         !.ssl = None]

SslToIpsec(t) == [t EXCEPT !.bodies = [v \in DOMAIN @ |-> SslBody(@[v])]]
SslTold(t) == UNION {LeftBehind(t.bodies[v].ssl) : v \in {w \in DOMAIN t.bodies : Converts(t.bodies[w])}}

-----------------------------------------------------------------------------
(* A version is [train, patch], patch None when only the train is given;   *)
(* a rule lands at patch 0 of a train.                                     *)
Patch(v) == IF v.patch = None THEN 0 ELSE v.patch
Before(v, w) == v.train < w.train \/ (v.train = w.train /\ Patch(v) < Patch(w))

(* run_migrate: the version the user states, completed from the header     *)
(* when it only repeats the header's train.                                *)
SourceVersion(header, stated) ==
  IF stated = None THEN header
  ELSE IF stated.patch = None /\ header # None /\ header.train = stated.train
       THEN header ELSE stated

(* Within one train an unknown patch compares equal.                       *)
Direction(s, d) ==
  IF s = None \/ d = None THEN "none"
  ELSE IF s.train = d.train /\ (s.patch = None \/ d.patch = None) THEN "none"
  ELSE IF Before(s, d) THEN "up" ELSE IF Before(d, s) THEN "down" ELSE "none"

(* Mutant: a change that lands exactly in the target version is left out.  *)
Active_Open(lo, hi) ==
  {r \in Rules : LET at == [train |-> r.since, patch |-> 0]
                 IN  Before(lo, at) /\ Before(at, hi)}

(* The rules whose change lies between the two versions.                   *)
Active(lo, hi) ==
  {r \in Rules : LET at == [train |-> r.since, patch |-> 0]
                 IN  Before(lo, at) /\ ~Before(hi, at)}

(* scan: words is the set of [word, spelling] in the tree.  Renames are    *)
(* done forwards or backwards; removed words are told upwards, introduced  *)
(* ones downwards, a default that flips wherever the line is not written.  *)
Respelled(words, rs, spelling) ==
  {IF \E r \in rs : r.kind = "renamed" /\ r.word = w.word
   THEN [w EXCEPT !.spelling = spelling] ELSE w : w \in words}

Scan(words, s, d) ==
  CASE Direction(s, d) = "up" -> Respelled(words, Active(s, d), "new")
    [] Direction(s, d) = "down" -> Respelled(words, Active(d, s), "old")
    [] OTHER -> words

ScanTold(words, s, d) ==
  LET named(rs, kinds) == {r.word : r \in {q \in rs : q.kind \in kinds}}
      present == {w.word : w \in words}
      told(rs, kinds) == (named(rs, kinds) \cap present) \cup (named(rs, {"flip"}) \ present)
  IN  CASE Direction(s, d) = "up" -> told(Active(s, d), {"removed", "note"})
        [] Direction(s, d) = "down" -> told(Active(d, s), {"introduced"})
        [] OTHER -> {}
=============================================================================
