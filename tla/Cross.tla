-------------------------------- MODULE Cross --------------------------------
(***************************************************************************)
(* A cross-vendor conversion, run_cross of fwforge/pipeline.py: the IR of  *)
(* each vsys goes through the transforms and the emitter, and the          *)
(* interfaces of a multi-VDOM output are hoisted.  Every transform and     *)
(* every section of the emitter is an action.  told is the report: an      *)
(* area, the number of the scope and the name it is about.                 *)
(***************************************************************************)
EXTENDS CrossEmit

CONSTANTS
  Jobs,   \* scopes (name, cfg), map, auth, tune, mode, wrap: one of "flat",
          \* "vdom" (all in one VDOM) and "vsys" (a VDOM per scope)
  Fam,    \* the family of each host
  Atoms   \* the ports services are made of

VARIABLES
  job,     \* the conversion, with the IR of the source
  at,      \* the number of the scope
  stage,   \* the transform or section that comes next
  cfg,     \* the IR of the scope
  renames, \* the names the names transform has changed
  out,     \* the entries emitted for the scope
  global,  \* the interfaces hoisted to config global
  bodies,  \* the finished scopes
  told     \* the warnings

vars == <<job, at, stage, cfg, renames, out, global, bodies, told>>

Stages == <<"map", "author", "names", "ifnames", "profiles", "nesting", "routes", "tuning",
            "builtins", "collisions", "interfaces", "vpn", "zones", "addresses", "addrgroups",
            "services", "svcgroups", "profile tables", "vips", "ippools", "central snat",
            "schedules", "static", "pbr", "ospf", "policies", "hoist", "end">>

After(s) == Stages[1 + CHOOSE i \in DOMAIN Stages : Stages[i] = s]

(* Mutant: what is found in a scope is filed under the next.               *)
Tell_Next(area, names) == {<<area, at + 1, n>> : n \in names}

Tell(area, names) == {<<area, at, n>> : n \in names}

Init ==
  /\ job \in Jobs
  /\ at = 1 /\ stage = "map" /\ cfg = job.scopes[1].cfg
  /\ renames = <<>> /\ out = <<>> /\ global = <<>> /\ bodies = <<>> /\ told = {}

(* A transform replaces the IR, a section appends its entries.             *)
Transform(s, new, news) ==
  /\ stage = s /\ stage' = After(s)
  /\ cfg' = new
  /\ told' = told \cup news
  /\ UNCHANGED <<job, at, out, global, bodies>>

Section(s, entries, news) ==
  /\ stage = s /\ stage' = After(s)
  /\ out' = out \o entries
  /\ told' = told \cup news
  /\ UNCHANGED <<job, at, cfg, renames, global, bodies>>

-----------------------------------------------------------------------------
(* _cross_one.                                                             *)
MapPorts ==
  Transform("map", ApplyIr(cfg, job.map), Tell("unmapped", Unmapped(cfg, job.map)))
    /\ UNCHANGED renames
Author ==
  Transform("author", ApplyAuthoring(cfg, job.auth), Tell("claimed", Claimed(cfg, job.auth)))
    /\ UNCHANGED renames
NameObjects ==
  /\ Transform("names", ApplyNames(cfg), {})
  /\ renames' = AllRenames(cfg)
NameInterfaces == Transform("ifnames", SanitizeInterfaces(cfg), {}) /\ UNCHANGED renames
NameProfiles == Transform("profiles", SanitizeProfiles(cfg), {}) /\ UNCHANGED renames
CheckNesting == Transform("nesting", cfg, Tell("deep", TooDeep(cfg))) /\ UNCHANGED renames
InferZones == Transform("routes", InferDstZones(cfg), {}) /\ UNCHANGED renames
TuneRules == Transform("tuning", Tune(cfg, job.tune, renames), {}) /\ UNCHANGED renames
UseBuiltins == Transform("builtins", MapBuiltins(cfg), {}) /\ UNCHANGED renames
RenamePredefined == Transform("collisions", AvoidCollisions(cfg), {}) /\ UNCHANGED renames

-----------------------------------------------------------------------------
(* Emitter.emit: its sections in their order.                              *)
EmitInterfaces == Section("interfaces", InterfaceEntries(cfg), {})
EmitVpn == Section("vpn", VpnEntries(cfg), {})
EmitZones == Section("zones", ZoneEntries(cfg), Tell("zone", ZonesCut(cfg)))
EmitAddresses == Section("addresses", AddressEntries(cfg), {})
EmitAddrGroups ==
  Section("addrgroups", AddrGroupEntries(cfg),
          Tell("addrgrp", AddrGroupsCut(cfg)) \cup Tell("cycle", Cycles(cfg)))
EmitServices == Section("services", ServiceEntries(cfg), {})
EmitSvcGroups ==
  Section("svcgroups", SvcGroupEntries(cfg),
          Tell("svcgrp", SvcGroupsCut(cfg)) \cup Tell("cycle", Cycles(cfg)))
EmitProfiles == Section("profile tables", ProfileEntries(cfg), {})
EmitVips ==
  Section("vips", VipEntries(cfg), Tell("vip", Names(cfg.vips) \ Names(VipEntries(cfg))))
EmitPools == Section("ippools", PoolEntries(cfg), {})
EmitCentralSnat ==
  Section("central snat", IF job.mode = "central" THEN CentralSnatEntries(cfg) ELSE <<>>, {})
EmitSchedules == Section("schedules", ScheduleEntries(cfg), {})
EmitRoutes == Section("static", RouteEmitted(cfg), Tell("route", RoutesCut(cfg)))
EmitPbr == Section("pbr", PbrEntries(cfg), {})
EmitOspf == Section("ospf", OspfEntries(cfg), {})

PolicyTold ==
  LET those(Bad(_)) == {p.id : p \in {q \in ToSet(cfg.pols) : Bad(q)}}
  IN  Tell("policy zones", those(LAMBDA p : BadZones(cfg, p) # {}))
        \cup Tell("policy schedule", those(LAMBDA p : BadSchedule(cfg, p)))
        \cup Tell("policy services", those(LAMBDA p : BadServices(cfg, p) # {}))

EmitPolicies == Section("policies", PolicyEntries(cfg, job.mode), PolicyTold)

-----------------------------------------------------------------------------
(* The end of a scope.  In a flat output all its entries stay; in one VDOM *)
(* its interfaces become global; of several scopes the first to create an  *)
(* interface keeps it.                                                     *)
Vdoms == Sanitized(Named(job.scopes))
Vdom == IF job.wrap = "flat" THEN "root" ELSE IF job.wrap = "vdom" THEN "fw" ELSE Vdoms[at]
Tagged(e) == [e EXCEPT !.val.vdom = Vdom]
IsGlobal(e) == e.table = "interface"

(* One after another: a name that is taken is dropped.                     *)
Hoisted(entries) ==
  FoldLeft(LAMBDA st, e :
             IF e.name \in Names(st.kept)
             THEN [st EXCEPT !.dropped = @ \cup {e.name}]
             ELSE [st EXCEPT !.kept = Append(@, e)],
           [kept |-> global, dropped |-> {}], entries)

Hoist ==
  LET ports == Each(SelectSeq(out, IsGlobal), Tagged)
      hoisted == IF job.wrap = "vsys" THEN Hoisted(ports)
                 ELSE [kept |-> ports, dropped |-> {}]
      body == IF job.wrap = "flat" THEN out ELSE SelectSeq(out, LAMBDA e : ~IsGlobal(e))
  IN  /\ stage = "hoist"
      /\ bodies' = Append(bodies, [vdom |-> Vdom, out |-> body, cfg |-> cfg])
      /\ global' = IF job.wrap = "flat" THEN global ELSE hoisted.kept
      /\ told' = told \cup Tell("two scopes", hoisted.dropped)
      /\ IF at < Len(job.scopes)
         THEN at' = at + 1 /\ stage' = "map" /\ cfg' = job.scopes[at + 1].cfg
         ELSE at' = at /\ stage' = "end" /\ cfg' = cfg
      /\ out' = <<>> /\ renames' = <<>>
      /\ UNCHANGED job

Next ==
  \/ MapPorts \/ Author \/ NameObjects \/ NameInterfaces \/ NameProfiles \/ CheckNesting
  \/ InferZones \/ TuneRules \/ UseBuiltins \/ RenamePredefined
  \/ EmitInterfaces \/ EmitVpn \/ EmitZones \/ EmitAddresses \/ EmitAddrGroups
  \/ EmitServices \/ EmitSvcGroups \/ EmitProfiles \/ EmitVips \/ EmitPools
  \/ EmitCentralSnat \/ EmitSchedules \/ EmitRoutes \/ EmitPbr \/ EmitOspf \/ EmitPolicies
  \/ Hoist

Spec == Init /\ [][Next]_vars
=============================================================================
