# fwforge: a verification project in TLA+

fwforge converts firewall configurations (Cisco ASA, Palo Alto, pfSense,
Juniper SRX, or another FortiGate) into a FortiOS configuration.  It runs as a
command (`fwforge convert ...`) and as a local web UI (`fwforge gui`).  This
directory holds TLA+ models of its behaviour, TLC configurations that check
them on small instances, and theorems that TLAPS checks for every instance.
Paths below are relative to the repository; `app.py` is
`fwforge/webui/app.py`.

## 1. The system: components, state, operations

| component | state | operations | what makes it correct | modelled |
|---|---|---|---|---|
| job store (`app.py`, `emit/package.py`) | `JOBS` in memory; per job a directory with `_source.conf`, `job.json`, artifacts | load, open (re-analysis), convert, rerun, apply_fix, delete, restart | memory and disk agree between requests; files match the result shown; nothing lost or resurrected | `JobStore` |
| readers of the job store (`app.py`) | `bundle.zip` | result page, downloads, zip | what is offered belongs to one run | no |
| user App-ID database (`pan_appid.py`, `ai_advisor.py`, `pan_app_export.py`) | `~/.fwforge/pan_apps.json`, live tables `_DB`, `_XWALK` | gap analysis merges and reloads, CLI import, conversions look up | merges are not lost, look-ups see a whole table | `AppDb` |
| rule optimizer (`optimize.py`) | none (findings) | shadow analysis, duplicate and collapse checks, object hygiene | a rule called dead never fires | `RuleTable`; the shadow analysis only |
| tuning and the Optimize tab (`tuning.py`, `apply_fix` in `app.py`, `templates/result.html`) | `last_form`, the policy table | filter, disable, reorder, replayed at every run; merge, split, prune | disabling what is dead changes no verdict, a lift moves traffic only in the direction announced, no rule loses traffic | `RuleFixes`; merge, only, split, prune in `CrossIR` |
| names (`names.py`) | rename maps | sanitize, cut and uniquify | names unique, references whole | `CrossIR` |
| FortiOS tree (`fortios_tree.py`) | parser stack | parse, serialize, split and quote words | round trip, settings keep their place | `TreeText` |
| migration transforms (`portmap`, `plan`, `zones`, `sdwan`, `tree_refs`, `vdommode`, `hwswitch`, `sslvpn`) | the tree | rewrite interface references, create zones and SD-WAN, merge policies, change VDOM mode | simultaneous renaming, no dangling reference, verdicts kept, no silent drop | `Migrate` on `TreeRefs`, `TreeZones`, `TreeModes` |
| version delta (`versiondelta.py`) | version-dependent words | respell, drop, report | words fit the target version | `TreeModes` |
| cross-vendor pipeline (`pipeline.py`, `routes.py`, `limits.py`, `portmap.py`) | the IR per vsys | the fixed order of stages, vsys to VDOM, zone inference, hoisting | a rule keeps its traffic and its translation | `Cross` on `CrossIR` |
| FortiOS emitter (`emit/fortios.py`) | output text | sections in load order | defined before used, nothing broader than the source | `CrossEmit` |
| vendor parsers | caches of names and services made so far | text to IR | the target decides as the source did, or the report says why | `PfSense`; the others not |
| package, FortiManager | output text | branch files, JSON-RPC bundle | the bundle says what the script says | no (the writes of `package.py` are in `JobStore`) |
| schema and app-db caches, platform tables, report, CLI | cache files, tables | fetch, look up, render | - | no |

How they interact: the command line and the web UI call the same two
functions, `pipeline.run_cross` and `pipeline.run_migrate`.  `run_cross` calls
a vendor parser, which looks App-IDs up in the live tables, and then the
transforms, optimizer and emitter on one in-memory IR; `run_migrate` parses
the FortiOS tree, applies its transforms to it and serializes it.  Both are
sequential.  The concurrency is in the web UI: `app.run` (cli.py:446) serves
each request in a thread of its own, and the handlers share `JOBS`, the job
directories, the user App-ID file and the live App-ID tables without a lock.
The optimizer's findings come back as `apply_fix` requests, which re-run a
conversion with the accumulated fixes.

The behaviours that are hard: overlapping requests about one job; a stop of
the server between two writes; a write that fails and is swallowed; a handler
that still holds a dict another one has replaced; two writers of the App-ID
file; a table read while it is refilled; advice computed on one rule order and
applied to another; renames applied one after the other instead of at once; a
pipeline of a dozen transforms, each of which renames what the next refers to.
`PROJECT.json` lists them with their lines.

## 2. Modules and plan

| modules | about | theorems in |
|---|---|---|
| `JobService` (abstract), `JobStore`, `JobStoreInvariant`; `MCJobStore` | the web UI's jobs | `JobStoreProofs` |
| `RuleTable`, `RuleFixes`; `MCRuleFixes` | shadow analysis and the fixes clicked in its report | `RuleFixesProofs` |
| `AppDb`; `MCAppDb` | the user App-ID file and the live tables | `AppDbProofs` |
| `TreeRefs`, `TreeZones`, `TreeModes`, composed by `Migrate`; `MCMigrate` | FortiGate to FortiGate migration | `MigrateProofs`, `MigrateCoherence`, `MigrateTraffic` |
| `TreeText`; `MCTreeText` | reading and writing the FortiOS tree | `TreeTextProofs` |
| `CrossIR`, `CrossEmit`, composed by `Cross`; its properties in `CrossTraffic`; `PfSense` before it, with `PfSenseTraffic`; `MCCross` | conversion from another vendor | - |

`RuleFixes` and `Cross` meet in `tuning.apply`: `RuleFixes` replays filter,
disable and reorder over fixed names, `Cross` composes merge, filter, split and
prune with the transforms around them.

`RecursionTheorems` holds what the proofs of three modules share: the least
number of a nonempty set, induction over an interval, and what a fold over a
sequence does step by step, each stated so that no operator is a parameter.

Left, in this order: theorems about `Cross` (`TypeOK`; `InterfacesOnce`, the
second half of `DefinedOnce`, for any scopes) and the last invariant of
`Migrate` (`UplinksKept`); the
resolution steps of the other vendor parsers (NAT, zones, groups); the readers
of the job store on top of `JobStore`.

## 3. The job store

### State and actions

`jobs` is `JOBS`; `dir`, `source`, `json`, `art` are what is on disk for a job:
the directory, `_source.conf`, `job.json` and the artifacts.  An artifact is
represented by the number of the conversion request (`runs`) that wrote it.
`pc`, `on` and `loc` are the request threads: the label of the next step, the
job, and the handler's locals.  `life`, `dirty` and `faults` are history: they
record what happened and constrain only `Load` (a jid is drawn once) and the
fault bound.

| action | code |
|---|---|
| `Load`, `Register` | `load()`: `_source.conf` written (516), then refused with `rmtree`, or entered in `JOBS` |
| `Open`, `Heal` | `job()`: the re-analysis of a job that lacks `iface_details` (584-596) |
| `Convert`, `Rerun`, `ApplyFix`, `Replay` | the three requests that convert; the last two read `last_form` and later call `convert()` |
| `SaveOpen`, `SaveWrite`, `SaveFails` | `_save_job`: `json.dumps` and the truncating open, the write, a swallowed `OSError` |
| `Plan` | reading the source and the pipeline, which accepts or refuses the form |
| `Bundle`, `WriteArtifact`, `ArtifactFails` | the files `convert()` writes, in its order |
| `Record` | `meta["result"] = ...` |
| `Delete`, `Pop` | `rmtree` unlinks what it finds; then the directory and `JOBS.pop` |
| `Restart` | the process stops anywhere; `_load_jobs` reads what is parseable |

A handler that looked a job up keeps its dict: when another request replaces
or removes the entry, `Detach` gives the other handlers a copy in `loc.own`,
and what they store there reaches neither `JOBS` nor the disk.

Abstractions: a form is "accepted or refused", "FortiManager or not" and its
fix fields.  The re-analysis also triggers on a missing `source_platform`,
which goes with missing `iface_details`.  `json.dumps` and the opening of the
file are one step, and so are one artifact's writes.  `rmtree` unlinks all it
listed in one step.  Two handlers that hold the same replaced dict do not see
each other's writes to it.  `_target.conf`, `bundle.zip` and the pages that
only read are left out.  The artifacts of one kind are those under the current
stem of the job: the stem changes only when a re-analysis drops the
destination hostname, and a re-analysed job is FortiOS, which has no
FortiManager bundle that could stay behind under the old one.

### Properties

A job is *clean* while no two requests about it overlap, no write of it fails
and the server is not stopped inside a request about it.  Overlapping requests
about other jobs, and restarts between requests, keep it clean.

- `QuietJobIsDurable`: between requests, memory and disk say the same of a
  clean job, and a removed job leaves nothing.
- `QuietArtifactsMatchResult`: between requests, the files of a clean job are
  those of the run its result page describes; no stale FortiManager bundle.
- `ResultFilesExist`: always, clean or not, in the middle of requests, after
  crashes: a result kept anywhere has its files and its source.
- `LostOnlyByDelete`, `DeletedStaysDeleted`: a clean job leaves the table only
  by a delete and then never comes back.
- `AcceptedRunIsRecorded` (liveness): an accepted conversion ends with its
  result in `job.json`, or its job stops being clean.
- `ImplementsService`: read job by job, `JobStore` implements `JobService`,
  where each request is one step, a newer result never gives way to an older
  one, and a restart is no step at all.

### Where code and documentation disagree

`jobs_survive` checks "survive restarts" (app.py) and TLC finds it violated:
`_save_job` truncates `job.json` in place, and a stop before the text is
written loses a job that had a result.  The finding in `PROJECT.json` quotes
the line.  Section 9 lists what no run is spent on.

### Runs and bounds

`MaxRuns` bounds the conversion requests, `MaxFaults` the restarts and failed
writes.  `jobs_one` has one thread, two jobs (one of them old, so that the
re-analysis runs), every kind of upload and form, two runs (so that a second
result replaces a first) and two faults.  `jobs_two` has two threads, which is
what any overlap of two handlers needs; three add no pair.  Two jobs suffice
because no step touches more than one job except `Restart`.  The threads are
interchangeable in `jobs_two`, hence the symmetry; `jobs_one`, which checks
liveness, uses none.  Deadlock is not checked: when the bounds are used up and
every job is deleted the server is idle.

Fairness is weak fairness of every thread's steps: the operating system runs
each thread, and no handler waits for another.  Requests and faults are not
fair.

### Proofs

Everything is proved for any number of jobs, threads, runs and faults, from
`JobStoreAssumption` (the sentinels None, Torn and Bad are not data) and from
nothing else.  The invariant `JobStoreInv` has six parts, proved in layers:

1. `Base` = `TypeOK`, `LocalsInv` (the locals fit the label) and `BirthInv`
   (a jid is unknown to the others until `load()` has registered it).  They
   need each other: the type of a saved text needs the label, the label of a
   conversion needs the form.  `Frame(t, j)`, proved once per action, says that
   a step of a thread about job j leaves every other job alone.
2. `FilesInv`: wherever a result is kept (JOBS, job.json, a text about to be
   written, a replaced dict) its files are there.  This is why
   `ResultFilesExist` survives every interleaving: `convert()` stores a result
   only after all the writes, and nobody but `delete` removes a file.
3. `CleanInv`: for a clean job, what holds between the steps of its only
   handler.  `QuietJobIsDurable`, `QuietArtifactsMatchResult`,
   `LostOnlyByDelete` and `DeletedStaysDeleted` follow from it.
4. `RunsInv`: the run a handler serves is later than the result shown; with it
   every step maps to a step of `JobService` or a stutter
   (`StoreImplementsService`).

Only model-checked: `AcceptedRunIsRecorded` (liveness), and the violation.

## 4. The rule table and its fixes

### State and actions

`RuleTable` has no state.  A table is the order of its rules and the set of
the disabled ones; a rule has an action and match criteria: zones, addresses
and their negation, services, and `when`, which stands for what the analysis
does not look at (schedule, source users, client ports).  A flow is one packet's
worth of the same.  `Fires` and `Accepted` are the target device: the first
enabled rule that matches decides.  Everything from `ZonesCover` to
`HiddenAt` is the analysis of `optimize.py`, including what it loses: a
range becomes its endpoints, GRE becomes IP, a negated set is incomparable.

`RuleFixes` is the loop around it.  `source` is the upload, `form` the fixes in
`last_form`, `out` the tables of the current output, `page` what the Optimize
tab offers for them, `old` what the tab of an earlier result offers that is
still open in the browser.

| action | code |
|---|---|
| `Wizard` | the conversion form is posted: `convert()` without fixes |
| `DisableDead` | the Disable button: all shadowed rules of the page (result.html:602-611) |
| `LiftDeny`, `LiftAccept`, `FixAll` | Fix, Move above, Fix all rule order (578-587, 622-634, 641-664) |
| `KeepTab` | the page stays open while other results come |

Each fix is `apply_fix` followed by `convert()` in one step (the overlap of two
such requests is not modelled here, see section 9): `Merged` appends the values
the form does not have, `Tuned` replays filter, disable and reorder, in the
order of `tuning.apply`, on the freshly parsed source, and `Page` is the new
analysis.

Abstractions: addresses and services are the resolved objects, with groups
expanded in place; an address is the set of its hosts.  Policy names are unique
within a virtual system, as the parsers deliver them, and not empty.  The web
form never sets `only`.

### Properties

- `DeadNeverFires`: no traffic is decided by a rule the analysis of the current
  table calls dead.
- `DisableIsSafe`: the Disable button of the current result changes no verdict.
- `DisabledStayHarmless`: what was disabled earlier stays harmless after every
  later lift and wizard run, as long as the user works on the current result.
- `LiftsKeepTheirPromise`: lifting a deny only tightens and lifting an accept
  only widens, from any tab, whatever the replayed pairs move in between.
- `TypeOK`: no replay loses, repeats or invents a rule.

### Where code and documentation disagree

`fixes_ranges` starts from tables the passing runs leave out and checks
`DeadNeverFires`: rules for the two endpoints of a range make the rule for the
range "dead", although the code says that ranges never do.  The analysis is
inexact in more ways, see section 9.

### Runs and bounds

`fixes_fresh` starts from every table of four rules, accept or deny, over three
nested and overlapping matches, the top one possibly negated: four rules are a
shadower, a rule it hides, and two others that are lifted between them.
`fixes_tabs` starts from every table of three rules over five matches (any zone, one zone, subnets that contain and
miss each other, two objects in one rule, an FQDN, ports and port ranges), the
first disabled or not, with `DeepLimit` 2 so that disabling a rule takes the
table across the size limit (800 in the code), and with an old tab.  There is
no other bound: the forms are finite because pairs are not added twice, so both
runs are exhaustive.  The flows are the hosts, zones and ports the matches tell
apart.  Deadlock is checked; there is no liveness, a user need not click.

### Proofs

`RuleFixesProofs` proves, for any names, tables, flows and number of virtual
systems, from `TableAssumption` and `FixesAssumption` (ports are numbers, names
are unique within a parsed table):

1. `TypeCorrect`.  The inductive invariant `LoopInv` says that `out` is the
   replay of `form` on `source`, that the saved pairs are a list and that both
   tabs offer lists.  That a replay of any length keeps a listing of the rules
   is an induction on the number of pairs, carried out as a minimal
   counterexample (`LeastNatural`) because the library's induction theorem
   takes an operator.
2. `DeadRulesNeverFire`, if the sources are exact (`ExactSources`: subnets,
   FQDNs, TCP and UDP ports, no negation, no contexts), on both sides of
   the size limit.  `fixes_ranges` shows what goes wrong without.
3. `DisablingIsSafe`, if moreover no name is used in two virtual systems
   (`NamesApart`; disabling goes by name, in every virtual system).  The rule that decides a flow is
   not dead, so it stays enabled, and rules above it can only be disabled.

4. `LiftsKeepTheirWord`, if `NamesApart`.  Every pair that any open tab, old or
   not, offers lifts a deny from `bypassed` and an accept from `unreachable`
   (`TabsInv`); the source never changes, so this stays true.  `apply_fix`
   appends the new pair behind the saved ones (`MergedAppends`), so the new
   order is the old one with at most that one rule moved up (`ReplayContinues`,
   `LiftedMoves`), and a deny that moves up can only take traffic away.
5. `DisablesStayHarmless`, if the sources are exact, `NamesApart` and only the
   current tab is used (`OldTabs = FALSE`).  `DisabledStayHarmless` is not
   inductive; `DisabledCovered` is: every rule the user disabled has an enabled
   rule above it that covers it.  A lift from the current page moves only
   enabled rules and only upwards (`OfferedAreEnabled`), so what covers stays
   above; the Disable button takes a covering rule away only when that one is
   covered by an enabled rule in turn.  With an old tab it does not hold: a
   wizard run excludes the rule that hid another, and the tab from before still
   offers to disable what is hidden no more.

Only model-checked: the violation.

## 5. The App-ID database

### State and actions

`file` is the user file: its apps, `Absent` or `Torn`.  `table` is `_DB` of the
server, `derived` stands for the tables `_rebuild_tables` makes from it.  Web
threads run gap analyses, `Cli` processes run `fwforge applipedia import`; `pc`,
`new` and `own` are their labels and locals.  Nothing keeps the processes in any
order.  `late[p]` names those who changed, since `p` opened the file, read it or
began to iterate over `_DB`, what `p` writes or works with.  The rest is
history: `kept` are the apps written and not given up, `unseen[p]` those of them
that came into the file after `p` read it, or while it held no document;
`behind` names who has left `_DB` behind the file and `uneven` says that the
derived tables may not be those of `_DB`; `missed` is what look-ups missed.

| action | code |
|---|---|
| `Analyse`, `ReadUser`, `Truncate`, `Write` | `research_app_gaps` answers; `merge_to_user_db` reads, merges, truncates, writes |
| `Import`, `ReadForImport`, `Truncate`, `Write` | `import_applipedia` and `cmd_applipedia` |
| `Load`, `Clear`, `Fill`, `Rebuild`, `Collect`, `Finish` | `reload()`: the file is read, `_DB.clear()`, `_DB.update()`, the derived tables emptied, `_DB` iterated over, the tables refilled |
| `LookUp` | `_resolve` in a conversion of another thread |
| `StopServer`, `StopImport`, `StartServer`, `DeleteTorn` | the process stops between any two steps; importing the module reads the file, and refuses a torn one until the user removes it |

An entry is where it came from ("bundled", "ai", "pan").  The crosswalk
`_XWALK` is one of the derived tables.  Two things happen only when operations
overlap.  `Write` into a file that another process truncated or wrote after it
was opened may leave the tail of the longer document behind the shorter one:
the outcome is the document or `Torn`.  `Collect` yields some of the old and
some of the new entries if another reload changed `_DB` meanwhile (`Mixed`),
and raises, as an iteration over a dict does, if its size changed.

### Properties, run, fairness

- `NothingForgotten`: apps once merged stay in the user file, however writers
  overlap and wherever one is stopped, until one writes that read the file
  before they were in it, or when it held no document, or the user deletes it.
  So a merge loses exactly what its writer could not know, never what it read.
- `TableFollowsFile`: between reloads the live tables are what a restart would
  load, unless an import wrote since, the reload found no document, or it
  filled `_DB` with what it had read before another process wrote.  The derived
  tables are those of `_DB` unless another reload changed it under them.
- `MissedOnlyInReload`: a look-up misses a bundled app only while a reload is
  between clearing and refilling.
- `EntriesTakeEffect` (liveness): entries that are being written end up in
  effect, or the server is stopped, or another process is in the way.

The run `apps` has two requests and one import that overlap at every step, one
stop, four names (one upper-case, one with a suffix), three answers and two
exports.  A request has a thread of its own and an import is a process, so each
of them runs once and their number bounds the run; two operations at a time are
what a loss or a stale table takes, and a stop can cut a write with the server
started again for the next request.  Look-ups and starts are free.  Deadlock is
checked.  `WF` of each thread's steps: the operating system runs it, and no
step waits.

### Proofs

`AppDbProofs`, for any names, apps, processes and stops; no theorem assumes an
order between the processes.  `TypeCorrect` comes first.  `MissesOnlyInReload`:
what a reload has read holds the bundled apps, so whoever fills the table last
completes it (`DbInv`).  `NothingIsForgotten`: `HoldsInv` adds that a writer
holds all that is kept but what it has not seen, which its own read establishes
and every other write maintains.  `TablesFollowTheFile`: `FollowInv` says what
a reload holds at each label while nobody has changed it since (`ReadInv`,
`DeriveInv`), and that a table that is not the file's, or not `_DB`'s, has a
reload on its way to empty it, or was emptied by one (`TableInv`,
`DerivedInv`).  The properties do not say that of themselves: at a fill they
need that the reload holds the file and that the table is empty or right.  Only
model-checked: `EntriesTakeEffect` (liveness).

## 6. Migration

### State and actions

`tree` is the parsed configuration reduced to the sections the transforms read
and write (`TreeRefs` lists them), `job` the case with its plan, `stage` the
transform that is next, `told` the findings.  The actions are the calls of
`run_migrate` in its order, each a whole transform; `Refuse` is `PlanError`.

| action | code | operators in |
|---|---|---|
| `Mode`, `VdomMap` | `vdommode.py` | `TreeModes` |
| `Hw`, `Ssl`, `Version` | `hwswitch.py`, `sslvpn.py`, `versiondelta.py` | `TreeModes` |
| `Device`, `Identity` | the destination's ports and hostname (pipeline.py) | `Migrate` |
| `Portmap` | `portmap.apply_tree`, `leftover_scan` | `TreeRefs` |
| `Zones`, `Sdwan` | `zones.py`, `sdwan.py`, validation first | `TreeZones` |
| `Dedup`, `Audit` | `tree_refs.py` | `TreeRefs` |

An interface carries `port`, the physical port it really is, which no transform
reads: it is how the properties recognise an interface under its new name.  A
policy's fields other than its ends, address and action are one value `rest`.

### Properties

- `OutputCoherent`: every reference of the output resolves in its VDOM, and no
  key is used twice.
- `OtherTrafficUntouched`: the verdict on traffic between ports outside any new
  zone is the source's.
- `DedupKeepsVerdicts` (a step): merging policies that became equal changes no
  verdict.
- `ZonesUsable`: no policy names a port that moved into a zone; an address
  bound to such a port can still be used.
- `UplinksKept`: traffic that left by a default or specific route over an
  uplink still can, and pinned prefixes come before rules that catch all.
- `InterfacesKeepPlace`: bridged ports stay bridged, interfaces have a VDOM.
- `LossesTold`: ports the destination lacks and splits that are not carried
  over are in the report; the one exception is in section 9.
- `WordsFitTarget`: version-dependent words are spelled for the target version,
  upwards and downwards, where the user does not state another train than the
  header of the file.

`migrate` starts from 3,100 cases in families, each around one transform,
crossed with interface renames that swap, chain or fold names.  The model is a
pipeline, so a case is one behaviour and the run is exhaustive over the cases;
the families name every kind of spec, plan and section the code distinguishes.
A stopped run is finished or refused, hence no deadlock check.

### Proofs

`MigrateProofs` proves five theorems for any set of cases: any number of VDOMs,
interfaces, policies and renames, any rules of versions and any plan.
`CasesAssumption` says what a case is (`IsCase`), and every part of it is
something FortiOS or the code sees to: the records have the fields they have; a
configuration without VDOMs has one body; every interface of a multi-VDOM one
names a VDOM that exists; the members of an aggregate have entries of their
own; a plan is a list of zones and a list of SD-WAN zones; and the words of a
file are spelled as its own version spells them.
`RulesAssumption` (a word is renamed once) and `GoodNamesAssumption` (the empty
name is no VDOM name) can be read off the source.  TLC evaluates all three on
the run's cases.

The invariant `MigrateInv` says, stage by stage, what the transforms so far
have done, because each property is about the end of a pipeline:

1. `ShapeInv`: after every transform there is a tree again (tables and sequences
   of the fields the next transform reads).  `ToldInv`: findings are of a known
   area.  They give `MigrateTypes`.
2. `WordsInv`: the words are the source's before `version` and the target's
   after it, for upgrades and downgrades at once (`WordsFit`).
3. `PlaceInv`: every interface is in a VDOM, and what a hardware switch
   bridged is bridged: while the switches are in two places, when they are
   converted, and under the new names (`InterfacesStay`).  The second clause
   is about the ports' old names, the last about their new ones; the renaming
   is simultaneous, which is where the step from one to the other needs it.
4. `PortsInv`: `Device` tells the ports under the names they will have, since
   it runs before `Portmap` renames.  `SplitInv`: the splits are in the old
   body, then on the new tunnel or told, under a VDOM that two transforms
   may rename.  Together they give `NothingLostSilently`.

`MergingIsSafe` is a step theorem.  `dedup_policies` keeps the first of equal
policies; `MergingKeepsFirst` says so for tables of any length, by induction on
the part of the table that was read, and a policy that goes is below one that
matches the same flows, so it decided nothing.

`MigrateCoherence` proves `OutputIsCoherent` and `ZonesAreUsable` for any set of
cases that satisfy `CoherentCase`, which TLC evaluates on all 3,100 cases of the
run (`MCCasesCoherent`):

- `Accepted`: the device took the source.  Its references resolve, its keys are
  unique, its policies name zones and not their members, and its bound
  addresses are used where they are bound.
- `MapsPorts`: the port map renames interfaces, no two names alike.  The code
  does not check it, and a map that folds two ports gives two interfaces of one
  name (section 9).
- `NamesZones`: a new zone is not called like a tunnel.  The code compares its
  name with the interfaces, and tunnels are sections of their own.
- `SslBySource`: of an SSL-VPN that is converted, policies name `ssl.root` as a
  source only.  Otherwise what is left dangles (section 9).

Coherence of the output is not inductive: each transform needs more of its
input than that.  `CoherentInv` goes by stage.  Up to the SSL-VPN conversion a
body is one of the source's, whatever VDOM it is under; up to the port map its
names are names of the source, so the injective map keeps them apart; from then
on a zone's name is no interface, which `validate` of both modules checks, and
no tunnel.  References are followed kind by kind (`ResolvesByKind`): policies
and addresses by the map from members to zones, routes by the conversion of the
members' routes, members by the validation.  New entries are numbered behind
the greatest id, so ids stay distinct.  A bound address follows its policies
until SD-WAN moves the policies only, and then the audit tells it: hence
`BoundFollow` in three strengths.

`MigrateTraffic` proves `OtherTrafficStays`: between ports that no planned zone
contains, every packet gets the verdict it got on the source, whatever the
transforms renamed, moved, zoned, converted or merged.  Besides `CoherentCase`
it needs `TrafficCase`, which TLC evaluates on every case of the run too
(`MCCasesApart`):

- `NamesApart`: on the source, and between the source and the plan, interfaces,
  zones and SD-WAN zones have one name space, as they have on the device.  A
  new zone called like an SD-WAN zone of the source would join its members,
  and `zones.validate` compares new names with interfaces only.
- `TunnelNew`: the name of the tunnel that replaces an SSL-VPN is not that of a
  zone, nor of an interface that is no tunnel.

A verdict is the first policy that matches, so it depends on what the names in
policies stand for.  `Behind` says that from the body and the interfaces of its
VDOM alone (`PortsAre`), which makes the transforms comparable:

1. Most of them rename: the policies of the new body are the old ones with
   their ends renamed (`Repointed`), and each end means the same ports
   (`MeansSame`).  Then the verdict is the same for every packet.  VDOM mode,
   VDOM map, the hardware switches, the SSL-VPN conversion and the port map are
   of this kind, the last because its map is injective.
2. `Zones` and `Sdwan` widen a policy: where it named one member it names the
   zone.  A packet with no end in a planned zone cannot tell, since the
   names that were replaced and those that replace them stand for ports it does
   not use (`ZonesTraffic`, `SdwanTraffic`).
3. `Dedup` drops what decided nothing, by `MergingKeepsFirst`.

`TrafficInv` puts them together by stage: under the VDOM's present name, the
verdicts are the source's for the packets clear of the zones planned so far.
Its `ApartAt` carries along which names bodies use and that none is an
interface's; without it step 2 is not inductive, because a zone could take the
name of a thing the policies already mean.

TLC's alone is `UplinksKept`: it follows one route of the source into a table
that four transforms rebuild, and the question whether a pinned prefix comes
before a rule that catches all is one about positions in two lists that are
appended.  What it shares with `MigrateCoherence`, where names and members go, is
proved there.

## 7. The tree parser

`TreeText` reads a text of `Lines` one by one (`reader`, the open blocks and
the lines serialized so far) and, independently, the characters of one line
(`line`, `scan`).  Reading only appends to the innermost open block, so the
tree is kept as what `serialize` writes of it.  A physical line is reduced to
its head, argument and whether it toggles an open quote.  What the code does in
a loop (reading all lines, closing blocks, scanning and quoting characters) is a
recursive function on the number of rounds, which the proofs can unfold.

- `WrittenReadsBack`: what is written reads back as the same tree, without a
  warning.
- `NothingElseDropped`: only closers are dropped or added.
- `SettingsKeepTheirPath`: a setting is found under the blocks open at its line,
  whatever closers are missing or too many.
- `TokensReadBack`: words survive being written and read again.

`tree_text` takes every text of up to `MaxLines` lines over eight kinds of line
and every line of up to `MaxChars` characters over six.  Those lengths hold
every pair of nested blocks with a stray closer and a value that spans lines.

### Proofs

`TreeTextProofs` proves all five properties for texts of any number of lines
and lines of any number of characters, over any set of lines and characters.
`LinesAssumption` is that the path of a `config`, which `serialize` writes
without quotes, holds no odd quote: it is made of the CLI's keywords.

`ReaderInv` is about every prefix of the text that has been read.  The open
blocks nest (`Nested`).  What has been written so far reads as the reader
stands, with the same blocks open and without a warning, and so does it with
the lines of an incomplete value behind it (`ReadsBack`); that is more than
`WritingReadsBack`, which speaks of the completed file only.  If no quote stays
open over a line, all that was dropped or added is closers (`Others`), and the
reader's path and settings are those an independent reading of the text finds
(`Context`).  From it follow `ReaderTypes`, `WritingReadsBack`,
`OnlyClosersChange` and `SettingsStayInPlace`.

`TokensSurvive` needs that the scanner is in one of its modes, and that
scanning what was quoted gives back the token and stands where it stood:
for one character, then for a token, then for a line of them.

Each loop is a chain of states in which one follows from the last
(`RecursionTheorems`): the chain exists, is unique, may be continued and
composed, and ends where the recursive function says.  This replaces the
induction theorem of the library, which takes an operator.

## 8. Conversion from another vendor

### State and actions

`CrossIR` is the IR of `model.py` and the transforms; `CrossEmit` the emitter's
sections, each a sequence of entries (table, name, references, and the value
traffic depends on); `Cross` runs both, stage after stage and scope after
scope, with the report in `told`.  `PfSense` is the parser of `pfsense.py`: an
operator from a document (the sections of `config.xml`) to the IR and the
findings.

| action | code |
|---|---|
| `MapPorts`, `Author` | `portmap.apply_ir`, `apply_authoring` |
| `NameObjects`, `NameInterfaces`, `NameProfiles` | `names.py` |
| `CheckNesting`, `InferZones`, `TuneRules` | `limits.py`, `routes.py`, `tuning.py` |
| `UseBuiltins`, `RenamePredefined` | the service maps of the emitter |
| `EmitInterfaces` ... `EmitPolicies` | the sections of `Emitter.emit`, in its order |
| `Hoist` | wrapping in a VDOM, `_hoist` of several vsys |

A network is the set of its hosts, a service the set of its ports.  How a name
is cleaned and cut is the constant `Clean`.  Left out: device system lines,
BGP, comments, IPv6 static and blackhole routes, and a NAT flag on the policy
itself, which no parser sets.  `Tune` has no disable and reorder, which are in
`RuleFixes`.  A policy with a pool counts as translated, as the emitter intends
(it writes `ippool enable`, fortios.py:1537).

The state of the pfSense parser is a record that `Parse` hands from section to
section, as the code hands `self`: the IR so far (`cfg`), the port aliases
(`ports`, `_port_aliases`), the names that mean an address (`names`,
`_addr_names`), the shared objects (`made` and `sigs`, `_addr_cache` and
`_svc_cache`) and the findings (`found`).  The order of the sections, and of
the aliases and rules in them, decides what is shared and what resolves.
`ParseAlias`, `ParseRoutes`, `Endpoint`, `Service`, `ParseRule`,
`ParseOutbound`, `ParseForward`, `ParseOneToOne` and `ParsePhase1` are the
bodies of the loops of the methods they are named after.  What a literal means
and the name of its object are the constant `Denotes`.  Left out: the reading
of XML, descriptions, credentials and proposals of tunnels, and the remarks on
what is never converted (OpenVPN, packages).

### Properties

`CrossTraffic` compares the source's rules with what FortiOS does with the
emitted tables; only the report excuses a difference.

- `NoSilentBroadening`: what the output accepts, the source accepts.
- `RulesKeepTheirTraffic`: a rule the user keeps takes all the traffic it took,
  with its action; a rule the user drops is gone.
- `NatFollowsRules`: an accepted flow is translated as in the source.
- `DefinedBeforeUse`: every name is defined above its use; only cycles of
  groups, which are reported, are not.
- `DefinedOnce`: a name is defined once in its name space and VDOM, is one
  FortiOS takes and is no predefined one's (`NamesUnique`); an interface is
  created once on the device and a VDOM refers to its own (`InterfacesOnce`).
- `PfSenseDecides` (`PfSenseTraffic`): read straight from the document, with
  pfSense's own rules (first match on the interface a flow comes in at, default
  deny, an alias means what it lists), every flow between two interfaces is
  decided as the emitted policies decide it.  Excused are rules the parser or
  the emitter reports as different, and flows that a floating rule matches.

`cross` goes through families of conversions around ports, names, services,
addresses, NAT, routes, scopes and pfSense documents; the initial states are
the parsed sources.  As with `migrate`, each is one behaviour and the run is
exhaustive over them; hosts, ports and zones are those the rules can tell
apart.  The pfSense documents have a WAN, a LAN and a VLAN, three lists of
aliases (nested in both orders, empty, not convertible, host names), every kind
of endpoint on either side with every kind of service, rules behind the one
that varies, IPv6 and floating rules, and documents with gateways, static
routes, every mode of outbound NAT, forwards, 1:1 NAT and tunnels.

Flows carry TCP and UDP ports only, so other protocols are compared as names.
`PfSenseDecides` judges flows towards interfaces, not into tunnels, and no
flow whose way out the source's routes do not tell.

`cross_negated` and `cross_nat` are the families left out.  In the first, a
pfSense rule blocks everything but the network of one interface:
`infer_dst_zones` ignores the negation (routes.py:93), the policy gets as its
destination the very interface whose network it leaves out, blocks nothing, and
the next rule accepts what was blocked.  In the second, NAT is written for any
zone.  TLC finds `NoSilentBroadening` and `NatFollowsRules` violated; the
findings in `PROJECT.json` quote the lines.  No theorem is proved.

## 9. Known disagreements

Met while modelling; each is kept out of the passing runs by the instances
named there, and no run is spent on it.

Job store.  The re-analysis of a job (app.py:589) forgets the vendor the user
picked and (593) the destination backup's facts.  Of two overlapping
`apply_fix` requests (863, 653, 859-860) the later assignment wins.

Rules.  A rule on a schedule or for users hides the same rule without
(optimize.py:400).  A GRE, ESP, AH or OSPF service counts as every protocol
(158, 209), and past 800 active rules negation is ignored (423).  Disabling
goes by name, in every virtual system (tuning.py:190).  A repeated lift is
dropped although the opposite one undid it (app.py:874).  A tab that shows an earlier
result still offers to disable what is hidden no more (result.html:602-611).

App-IDs.  Of two overlapping merges one loses its entries (ai_advisor.py:237),
and of two overlapping reloads the one that read first may fill the tables last;
`NothingForgotten` and `TableFollowsFile` bound what is lost or stale then.
A running server does not see what an import wrote (cli.py:167).  Keys from the
model are not lower-cased, so an entry may never resolve.

Migration.  Policies towards `ssl.root` keep it (sslvpn.py:300).  Pinned
prefixes are appended behind a source's own catch-all SD-WAN rule
(sdwan.py:419).  zones.py:203-208 speaks of "intrazone deny" for zones that
allow.  Address pools of the tunnel beyond the first are dropped silently, an
existing `fwforge_<zone>` health check is not extended, a port map that is not
injective is not rejected, and `leftover_scan` flags names that were rewritten
correctly.  Where a phase 1 called `dialup-ipsec` is there already, it is kept as
it is and the SSL-VPN's split networks are neither on it nor reported
(sslvpn.py:108-118), although the module says "never silent" (15-18); the
address group of a split that exists is not extended.

Tree text.  Values with `=` or `,` are quoted on writing, so the round trip is
not byte-identical (fortios_tree.py:76-78).  Of `unset a b` and `edit X Y` only
the first word after the keyword is kept (183, 205-206, 233-234); no device
writes such a line, and the model's lines have one.  After a quote that is still open
at the end of the text, writing and reading again changes the text.

Conversion.  `exclude` and `only` go through one rename map of all name spaces
(pipeline.py:56-61): excluding rule "web_1" while an address "web_1" became
"web_1~2" drops another rule.  Connected routes use unmapped names, and routes
more specific than a destination are ignored.  A target port that has the name
of another source interface is mapped twice.  Rules from any to any are
written for IPv4 only.  Translation is lost for interfaces inferred from
connected networks and for VLANs whose name was cut.  A pool rule overtakes an
interface rule of the same pair; a rule over several zones that is not split is
translated for all its pairs.  PAN NAT with several source zones keeps the
first.  Objects named "all" are taken for the predefined one.  A custom service
called HTTP is renamed after users of another custom tcp/80 service were pointed
at the built-in HTTP, and takes them along (fortios.py:1622-1623).

pfSense.  A rule to anywhere has destination "any", which automatic outbound NAT
does not match in policy mode (fortios.py:1492).  A floating "match" rule
becomes a deny.  VLANs are read as physical interfaces, which the emitter does
not create.  A port alias that names another is not resolved.  An alias that
lists one that was not converted keeps it as a member nobody defines.  A rule
for IPv4 that names only IPv6 addresses becomes an IPv6 policy, and an IPv6 rule
that names IPv4 objects refers to them in the IPv6 table.  An IPv6 phase-2
selector means "all", in policies that accept every service.

## 10. Not modelled

- The parsers of Cisco ASA, Palo Alto and Junos (7,000 lines of field-by-field
  translation): what they deliver is the input of `Cross`, whose instances
  follow the shapes each vendor's parser produces (zones or interfaces, rules
  without a destination zone, NAT by pair or to any).
- The optimizer's duplicate, collapse and hygiene checks, which only list.
- The FortiManager bundle and `split_branches`: renderings of the same result.
- `platforms.py`, `schema.py`, `appdb.py`, `report.py`, `cli.py`: tables, cache
  files written once, formatting and argument parsing.
- Readers of the job store: they change nothing but `bundle.zip`.

TLAPS does no liveness under fairness, so `AcceptedRunIsRecorded` and
`EntriesTakeEffect` are TLC's.  So is one invariant of `Migrate` (`UplinksKept`, section 6)
and everything about `Cross` and `PfSense`: their folds are over records of a
dozen tables, and `CrossIR` and `CrossEmit` have a RECURSIVE operator each
(the nesting depth of groups, the placing of members before their groups).
