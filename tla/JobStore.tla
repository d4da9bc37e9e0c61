------------------------------ MODULE JobStore ------------------------------
(***************************************************************************)
(* The conversion jobs of the web UI (fwforge/webui/app.py).               *)
(*                                                                         *)
(* A job lives twice: as a dict in the process-wide table JOBS and as the  *)
(* directory JOBS_DIR/<jid>/ that holds _source.conf, job.json and the     *)
(* artifacts of its last conversion.  Flask serves every request in a      *)
(* thread of its own and the handlers take no lock, so a handler is a      *)
(* sequence of steps here, one for each access to the table or to the      *)
(* directory, and the steps of different handlers interleave.  The server  *)
(* may be restarted between any two steps, and a write may fail.           *)
(*                                                                         *)
(* A conversion request is known by its run number; an artifact on disk is *)
(* represented by the number of the run that wrote it.                     *)
(***************************************************************************)
EXTENDS Naturals, FiniteSets

CONSTANTS
  Jobs,       \* job ids: the uuids load() may draw
  Threads,    \* request threads of the server
  Hosts,      \* hostnames a destination backup may carry
  Fixes,      \* the optimizer's fixes: disable_policy / reorder_policy values
  Uploads,    \* the source files users load, see UploadType
  Forms,      \* the forms the wizard posts, see Form
  OldJobs,    \* jobs on disk that a release without iface_details saved
  None,       \* Python's None, a missing key, a missing file
  Torn,       \* a file that holds no complete document
  Bad,        \* a destination that load() refuses with PlanError
  MaxRuns,    \* bound: conversion requests
  MaxFaults   \* bound: restarts and failed writes

Vendors == {"fortios", "cross", "unknown"}

(* picked: the vendor tile the user chose; detected: detect_vendor(text);  *)
(* ifaces: a FortiOS parse finds `config system interface` entries;        *)
(* target: the hostname of the destination backup loaded along.            *)
UploadType == [picked : {"fortios", "cross", None}, detected : Vendors,
               ifaces : BOOLEAN, target : Hosts \cup {None, Bad}]

(* What convert() is sent: ok is FALSE for a form that run_migrate or      *)
(* run_cross refuses; fmg is the "FortiManager bundle" box; fixes are the  *)
(* disable_policy and reorder_policy fields, which only apply_fix adds.    *)
Form == [ok : BOOLEAN, fmg : BOOLEAN, fixes : SUBSET Fixes]

Runs == 1 .. MaxRuns

Result == [mode : {"migrate", "cross"}, run : Runs, fmg : BOOLEAN,
           stem : Hosts \cup {None}]

(* The dict of a job: the vendor, whether iface_details is non-empty, the  *)
(* target_* facts, last_form and result.                                   *)
Meta == [vendor : Vendors, details : BOOLEAN, target : Hosts \cup {None},
         form : Form \cup {None}, result : Result \cup {None}]

ASSUME JobStoreAssumption ==
  /\ None \notin Jobs \cup Uploads \cup Form \cup Result \cup Meta
  /\ Torn \notin Meta \cup {None, 0}
  /\ Bad \notin Hosts \cup {None}
  /\ Uploads \subseteq UploadType
  /\ Forms \subseteq {f \in Form : f.fixes = {}}
  /\ OldJobs \subseteq Jobs
  /\ MaxRuns \in Nat
  /\ MaxFaults \in Nat

Artifacts == {"fmg", "main", "branches", "report", "diff"}
NoArtifacts == [k \in Artifacts |-> 0]

VARIABLES
  jobs,    \* JOBS
  dir,     \* does JOBS_DIR/<jid>/ exist?
  source,  \* _source.conf: the upload it holds, or None
  json,    \* job.json: a Meta, None or Torn
  art,     \* the artifacts: the run that wrote each, 0 if absent, or Torn
  pc,      \* what the thread does next
  on,      \* the job the thread's request is about
  loc,     \* the locals of the thread's handler, see Locals
  runs,    \* run numbers drawn so far
  life,    \* history: "unborn", "given" (jid drawn), "doomed" (delete asked)
  dirty,   \* history: jobs hit by two handlers at once, a cut or a failed write
  faults   \* restarts and failed writes so far

vars == <<jobs, dir, source, json, art, pc, on, loc, runs, life, dirty, faults>>

(* own: the job's dict as the handler holds it, once another thread has    *)
(* put a new dict in JOBS or removed the entry; None while the handler's   *)
(* dict is the one in JOBS.  form, run: of the conversion.  fd, buf: the   *)
(* open job.json and the text that json.dumps produced for it.             *)
Locals == [own : Meta \cup {None}, form : Form \cup {None}, run : 0 .. MaxRuns,
           fd : {"closed", "clean", "shared", "gone"}, buf : Meta \cup {None}]

NoLocals == [own |-> None, form |-> None, run |-> 0, fd |-> "closed", buf |-> None]

Label == {"idle", "register", "heal", "replay", "save_form", "save_form_write",
          "plan", "fmg", "main", "branches", "report", "diff", "record",
          "save", "save_write", "pop"}

TypeOK ==
  /\ jobs \in [Jobs -> Meta \cup {None}]
  /\ dir \in [Jobs -> BOOLEAN]
  /\ source \in [Jobs -> Uploads \cup {None}]
  /\ json \in [Jobs -> Meta \cup {None, Torn}]
  /\ art \in [Jobs -> [Artifacts -> (0 .. MaxRuns) \cup {Torn}]]
  /\ pc \in [Threads -> Label]
  /\ on \in [Threads -> Jobs \cup {None}]
  /\ loc \in [Threads -> Locals]
  /\ runs \in 0 .. MaxRuns
  /\ life \in [Jobs -> {"unborn", "given", "doomed"}]
  /\ dirty \subseteq Jobs
  /\ faults \in 0 .. MaxFaults

-----------------------------------------------------------------------------
(* _analyze: the vendor the caller forces, or the one it detects.          *)
Analyze(u, forced) ==
  [vendor |-> IF forced # None THEN forced ELSE u.detected,
   details |-> u.ifaces, target |-> None, form |-> None, result |-> None]

(* The test of job() for a job saved before the informed pickers existed.  *)
NeedsHealing(m) == m.vendor = "fortios" /\ ~m.details

Busy(j) == \E t \in Threads : on[t] = j
Quiet(j) == ~Busy(j)

(* A request about job j starts in thread t.                               *)
Begin(t, j, l) ==
  /\ pc[t] = "idle"
  /\ pc' = [pc EXCEPT ![t] = l]
  /\ on' = [on EXCEPT ![t] = j]
  /\ dirty' = IF Busy(j) THEN dirty \cup {j} ELSE dirty

(* The handler of t returns, normally or with an uncaught exception.       *)
Respond(t) ==
  /\ pc' = [pc EXCEPT ![t] = "idle"]
  /\ on' = [on EXCEPT ![t] = None]

Goto(t, l) ==
  /\ pc' = [pc EXCEPT ![t] = l]
  /\ UNCHANGED on

(* The labels at which a handler still uses the dict it looked up.         *)
HoldsMeta(t) == pc[t] \in {"heal", "save_form", "save_form_write", "plan", "fmg",
                           "main", "branches", "report", "diff", "record"}

Held(t) == IF loc[t].own = None THEN jobs[on[t]] ELSE loc[t].own

(* Thread t replaces or removes JOBS[j]: every other handler of j is left  *)
(* with the dict it holds.                                                 *)
Detach(t, j) ==
  loc' = [u \in Threads |->
            IF u = t THEN NoLocals
            ELSE IF on[u] = j /\ HoldsMeta(u) /\ loc[u].own = None
                 THEN [loc[u] EXCEPT !.own = jobs[j]]
                 ELSE loc[u]]

disk == <<dir, source, json, art>>
history == <<life, dirty>>
-----------------------------------------------------------------------------
(* POST /load: _source.conf is written, then the target is resolved.       *)
Load(t, j, u) ==
  /\ life[j] = "unborn"
  /\ u.picked = None => u.detected # "unknown"
  /\ Begin(t, j, "register")
  /\ dir' = [dir EXCEPT ![j] = TRUE]
  /\ source' = [source EXCEPT ![j] = u]
  /\ life' = [life EXCEPT ![j] = "given"]
  /\ UNCHANGED <<jobs, json, art, loc, runs, faults>>

\* Mutant: an unknown target model is stored instead of refused.
Register_Unchecked(t) ==
  LET j == on[t]
      u == source[j]
  IN /\ pc[t] = "register"
     /\ jobs' = [jobs EXCEPT ![j] =
                   [Analyze(u, u.picked) EXCEPT !.target = u.target]]
     /\ Goto(t, "save")
     /\ UNCHANGED <<disk, loc, runs, history, faults>>

(* The rest of /load: a PlanError removes the directory again, otherwise   *)
(* the analysed job enters JOBS.                                           *)
Register(t) ==
  LET j == on[t]
      u == source[j]
  IN /\ pc[t] = "register"
     /\ \/ /\ u.target = Bad
           /\ dir' = [dir EXCEPT ![j] = FALSE]
           /\ source' = [source EXCEPT ![j] = None]
           /\ Respond(t)
           /\ UNCHANGED jobs
        \/ /\ u.target # Bad
           /\ jobs' = [jobs EXCEPT ![j] =
                         [Analyze(u, u.picked) EXCEPT !.target = u.target]]
           /\ Goto(t, "save")
           /\ UNCHANGED <<dir, source>>
     /\ UNCHANGED <<json, art, loc, runs, history, faults>>

(* GET /job/<jid> of a job that lacks iface_details and whose source is    *)
(* there; any other GET changes nothing.                                   *)
Open(t, j) ==
  /\ jobs[j] # None
  /\ NeedsHealing(jobs[j])
  /\ source[j] # None
  /\ Begin(t, j, "heal")
  /\ UNCHANGED <<jobs, disk, loc, runs, life, faults>>

\* Mutant: the re-analysed job is not saved.
Heal_Unsaved(t) ==
  LET j == on[t]
  IN /\ pc[t] = "heal"
     /\ source[j] # None
     /\ jobs' = [jobs EXCEPT ![j] =
          [Analyze(source[j], None) EXCEPT !.result = Held(t).result]]
     /\ Detach(t, j)
     /\ Respond(t)
     /\ UNCHANGED <<disk, runs, history, faults>>

\* Mutant: the fresh dict comes without the old result.
Heal_Forgets(t) ==
  LET j == on[t]
  IN /\ pc[t] = "heal"
     /\ source[j] # None
     /\ jobs' = [jobs EXCEPT ![j] = Analyze(source[j], None)]
     /\ Detach(t, j)
     /\ Goto(t, "save")
     /\ UNCHANGED <<disk, runs, history, faults>>

(* The source is analysed again and a fresh dict with the old result       *)
(* replaces the old one (read_text raises if the source is gone).          *)
Heal(t) ==
  LET j == on[t]
  IN /\ pc[t] = "heal"
     /\ \/ /\ source[j] = None
           /\ Respond(t)
           /\ loc' = [loc EXCEPT ![t] = NoLocals]
           /\ UNCHANGED jobs
        \/ /\ source[j] # None
           /\ jobs' = [jobs EXCEPT ![j] =
                [Analyze(source[j], None) EXCEPT !.result = Held(t).result]]
           /\ Detach(t, j)
           /\ Goto(t, "save")
     /\ UNCHANGED <<disk, runs, history, faults>>

-----------------------------------------------------------------------------
(* convert(): the submitted form becomes last_form.                        *)
Submit(t, j, f, r) ==
  /\ jobs' = [jobs EXCEPT ![j] = [@ EXCEPT !.form = f]]
  /\ loc' = [loc EXCEPT ![t] = [NoLocals EXCEPT !.form = f, !.run = r]]

(* POST /job/<jid>/convert, sent by the wizard.                            *)
Convert(t, j, f) ==
  /\ runs < MaxRuns
  /\ jobs[j] # None
  /\ Begin(t, j, "save_form")
  /\ Submit(t, j, f, runs + 1)
  /\ runs' = runs + 1
  /\ UNCHANGED <<disk, life, faults>>

(* POST /job/<jid>/rerun (no fix) and /job/<jid>/apply_fix: the new form   *)
(* is built from last_form.                                                *)
Recall(t, j, new) ==
  /\ runs < MaxRuns
  /\ jobs[j] # None
  /\ jobs[j].form # None
  /\ Begin(t, j, "replay")
  /\ LET saved == jobs[j].form
     IN loc' = [loc EXCEPT ![t] = [NoLocals EXCEPT
                  !.form = [saved EXCEPT !.fixes = saved.fixes \cup new],
                  !.run = runs + 1]]
  /\ runs' = runs + 1
  /\ UNCHANGED <<jobs, disk, life, faults>>

Rerun(t, j) == Recall(t, j, {})
ApplyFix(t, j, x) == Recall(t, j, {x})

(* ... and convert() is called with it.                                    *)
Replay(t) ==
  LET j == on[t]
  IN /\ pc[t] = "replay"
     /\ \/ /\ jobs[j] = None
           /\ Respond(t)
           /\ loc' = [loc EXCEPT ![t] = NoLocals]
           /\ UNCHANGED jobs
        \/ /\ jobs[j] # None
           /\ Submit(t, j, loc[t].form, loc[t].run)
           /\ Goto(t, "save_form")
     /\ UNCHANGED <<disk, runs, history, faults>>

-----------------------------------------------------------------------------
(* _save_job: json.dumps(JOBS[jid]), then write_text truncates job.json.   *)
(* A job that was popped is a KeyError; a missing directory is an OSError, *)
(* which is swallowed.                                                     *)
SaveOpen(t) ==
  LET j == on[t]
      past == pc[t] = "save_form"   \* convert() goes on after its first save
  IN /\ pc[t] \in {"save_form", "save"}
     /\ \/ /\ jobs[j] # None
           /\ dir[j]
           /\ json' = [json EXCEPT ![j] = Torn]
           /\ loc' = [loc EXCEPT ![t] = [@ EXCEPT !.fd = "clean", !.buf = jobs[j]]]
           /\ Goto(t, IF past THEN "save_form_write" ELSE "save_write")
        \/ /\ jobs[j] # None
           /\ ~dir[j]
           /\ past
           /\ Goto(t, "plan")
           /\ UNCHANGED <<json, loc>>
        \/ /\ jobs[j] = None \/ (~dir[j] /\ ~past)
           /\ Respond(t)
           /\ loc' = [loc EXCEPT ![t] = NoLocals]
           /\ UNCHANGED json
     /\ UNCHANGED <<jobs, dir, source, art, runs, history, faults>>

(* The text reaches the file.  If rmtree has unlinked it meanwhile, nobody *)
(* sees it; if another handler has written the same file since t opened    *)
(* it, the shorter of the two texts may leave the tail of the longer one.  *)
Written(t) ==
  CASE loc[t].fd = "gone" -> {json[on[t]]}
    [] loc[t].fd = "shared" -> {loc[t].buf, Torn}
    [] OTHER -> {loc[t].buf}

(* t returns from the write of job.json.                                   *)
SaveReturn(t) ==
  LET others == [u \in Threads |->
                   IF on[u] = on[t] /\ loc[u].fd = "clean" /\ loc[t].fd # "gone"
                   THEN [loc[u] EXCEPT !.fd = "shared"] ELSE loc[u]]
  IN \/ /\ pc[t] = "save_form_write"
        /\ Goto(t, "plan")
        /\ loc' = [others EXCEPT ![t] = [loc[t] EXCEPT !.fd = "closed", !.buf = None]]
     \/ /\ pc[t] = "save_write"
        /\ Respond(t)
        /\ loc' = [others EXCEPT ![t] = NoLocals]

SaveWrite(t) ==
  /\ pc[t] \in {"save_form_write", "save_write"}
  /\ \E content \in Written(t) : json' = [json EXCEPT ![on[t]] = content]
  /\ SaveReturn(t)
  /\ UNCHANGED <<jobs, dir, source, art, runs, history, faults>>

(* The write fails (disk full): _save_job swallows the OSError.            *)
SaveFails(t) ==
  /\ pc[t] \in {"save_form_write", "save_write"}
  /\ faults < MaxFaults
  /\ json' = IF loc[t].fd = "gone" THEN json ELSE [json EXCEPT ![on[t]] = Torn]
  /\ SaveReturn(t)
  /\ dirty' = dirty \cup {on[t]}
  /\ faults' = faults + 1
  /\ UNCHANGED <<jobs, dir, source, art, runs, life>>

-----------------------------------------------------------------------------
(* convert() after its first save: read the source and run the pipeline,   *)
(* which refuses a bad form (PlanError, PanoramaChoiceNeeded: redirect)    *)
(* and has no parser for vendor "unknown".                                 *)
Plan(t) ==
  LET refused == \/ source[on[t]] = None
                 \/ Held(t).vendor = "unknown"
                 \/ ~loc[t].form.ok
  IN /\ pc[t] = "plan"
     /\ \/ /\ refused
           /\ Respond(t)
           /\ loc' = [loc EXCEPT ![t] = NoLocals]
        \/ /\ ~refused
           /\ Goto(t, "fmg")
           /\ UNCHANGED loc
     /\ UNCHANGED <<jobs, disk, runs, history, faults>>

\* Mutant: the bundle of an earlier run is left in place.
Bundle_Stale(t) ==
  LET j == on[t]
      written == Held(t).vendor # "fortios" /\ loc[t].form.fmg /\ dir[j]
  IN /\ pc[t] = "fmg"
     /\ art' = IF written THEN [art EXCEPT ![j]["fmg"] = loc[t].run] ELSE art
     /\ loc' = [loc EXCEPT ![t].form = [@ EXCEPT !.fmg = written]]
     /\ Goto(t, "main")
     /\ UNCHANGED <<jobs, dir, source, json, runs, history, faults>>

(* The FortiManager bundle of an earlier run is unlinked; a new one is     *)
(* written on request, and a failure to do so only becomes a finding.      *)
Bundle(t) ==
  LET j == on[t]
      written == Held(t).vendor # "fortios" /\ loc[t].form.fmg /\ dir[j]
  IN /\ pc[t] = "fmg"
     /\ art' = [art EXCEPT ![j]["fmg"] = IF written THEN loc[t].run ELSE 0]
     /\ loc' = [loc EXCEPT ![t].form = [@ EXCEPT !.fmg = written]]
     /\ Goto(t, "main")
     /\ UNCHANGED <<jobs, dir, source, json, runs, history, faults>>

\* Mutant: the result is recorded before diff.patch is written.
After_NoDiff(k, vendor) ==
  CASE k = "main" -> IF vendor = "fortios" THEN "report" ELSE "branches"
    [] k = "branches" -> "report"
    [] k = "report" -> "record"
    [] k = "diff" -> "record"

(* write_full or write_split, the reports and, for a migration, diff.patch *)
(* in the order convert() writes them.                                     *)
After(k, vendor) ==
  CASE k = "main" -> IF vendor = "fortios" THEN "report" ELSE "branches"
    [] k = "branches" -> "report"
    [] k = "report" -> IF vendor = "fortios" THEN "diff" ELSE "record"
    [] k = "diff" -> "record"

WriteArtifact(t, k) ==
  LET j == on[t]
      there == dir[j] \/ k = "branches"   \* write_split: mkdir(parents=True)
  IN /\ pc[t] = k
     /\ \/ /\ there
           /\ art' = [art EXCEPT ![j][k] = loc[t].run]
           /\ dir' = [dir EXCEPT ![j] = TRUE]
           /\ Goto(t, After(k, Held(t).vendor))
           /\ UNCHANGED loc
        \/ /\ ~there                        \* FileNotFoundError
           /\ Respond(t)
           /\ loc' = [loc EXCEPT ![t] = NoLocals]
           /\ UNCHANGED <<art, dir>>
     /\ UNCHANGED <<jobs, source, json, runs, history, faults>>

(* Writing an artifact fails half-way: the OSError ends the request.       *)
ArtifactFails(t, k) ==
  /\ faults < MaxFaults
  /\ pc[t] = k
  /\ dir[on[t]]
  /\ art' = [art EXCEPT ![on[t]][k] = Torn]
  /\ Respond(t)
  /\ loc' = [loc EXCEPT ![t] = NoLocals]
  /\ dirty' = dirty \cup {on[t]}
  /\ faults' = faults + 1
  /\ UNCHANGED <<jobs, dir, source, json, runs, life>>

\* Mutant: the result stays in memory.
Record_Unsaved(t) ==
  LET j == on[t]
      m == Held(t)
      r == [mode |-> IF m.vendor = "fortios" THEN "migrate" ELSE "cross",
            run |-> loc[t].run, fmg |-> loc[t].form.fmg, stem |-> m.target]
  IN /\ pc[t] = "record"
     /\ jobs' = IF loc[t].own # None THEN jobs
                ELSE [jobs EXCEPT ![j] = [@ EXCEPT !.result = r]]
     /\ loc' = [loc EXCEPT ![t] = NoLocals]
     /\ Respond(t)
     /\ UNCHANGED <<disk, runs, history, faults>>

(* meta["result"] = ... : seen by the others only if meta is still the     *)
(* dict in JOBS.                                                           *)
Record(t) ==
  LET j == on[t]
      m == Held(t)
      r == [mode |-> IF m.vendor = "fortios" THEN "migrate" ELSE "cross",
            run |-> loc[t].run, fmg |-> loc[t].form.fmg, stem |-> m.target]
  IN /\ pc[t] = "record"
     /\ jobs' = IF loc[t].own # None THEN jobs
                ELSE [jobs EXCEPT ![j] = [@ EXCEPT !.result = r]]
     /\ loc' = [loc EXCEPT ![t] = NoLocals]
     /\ Goto(t, "save")
     /\ UNCHANGED <<disk, runs, history, faults>>

\* Mutant: the job leaves JOBS only, its directory stays.
Delete_Memory(t, j) ==
  /\ jobs[j] # None
  /\ Begin(t, j, "pop")
  /\ life' = [life EXCEPT ![j] = "doomed"]
  /\ UNCHANGED <<jobs, disk, loc, runs, faults>>

-----------------------------------------------------------------------------
(* POST /job/<jid>/delete: rmtree lists the directory and unlinks what it  *)
(* found ...                                                               *)
Delete(t, j) ==
  /\ jobs[j] # None
  /\ Begin(t, j, "pop")
  /\ source' = [source EXCEPT ![j] = None]
  /\ json' = [json EXCEPT ![j] = None]
  /\ art' = [art EXCEPT ![j] = NoArtifacts]
  /\ loc' = [u \in Threads |-> IF on[u] = j /\ loc[u].fd # "closed"
                               THEN [loc[u] EXCEPT !.fd = "gone"] ELSE loc[u]]
  /\ life' = [life EXCEPT ![j] = "doomed"]
  /\ UNCHANGED <<jobs, dir, runs, faults>>

(* ... then removes the directory, which fails silently if a handler has   *)
(* put a file there meanwhile, and the job leaves JOBS.                    *)
Pop(t) ==
  LET j == on[t]
      empty == source[j] = None /\ json[j] = None /\ art[j] = NoArtifacts
  IN /\ pc[t] = "pop"
     /\ dir' = [dir EXCEPT ![j] = @ /\ ~empty]
     /\ jobs' = [jobs EXCEPT ![j] = None]
     /\ Detach(t, j)
     /\ Respond(t)
     /\ UNCHANGED <<source, json, art, runs, history, faults>>

\* Mutant: only converted jobs are loaded.
LoadJobs_Converted ==
  [j \in Jobs |-> IF json[j] \in {None, Torn} THEN None
                  ELSE IF json[j].result = None THEN None ELSE json[j]]

-----------------------------------------------------------------------------
(* The server stops, at any point, and starts again: _load_jobs rebuilds   *)
(* JOBS from the job.json files it can read.                               *)
LoadJobs == [j \in Jobs |-> IF json[j] = Torn THEN None ELSE json[j]]

Restart ==
  /\ faults < MaxFaults
  /\ jobs' = LoadJobs
  /\ pc' = [t \in Threads |-> "idle"]
  /\ on' = [t \in Threads |-> None]
  /\ loc' = [t \in Threads |-> NoLocals]
  /\ dirty' = dirty \cup {j \in Jobs : Busy(j)}
  /\ faults' = faults + 1
  /\ UNCHANGED <<disk, runs, life>>

(* The server has just started on what earlier sessions left: nothing, or  *)
(* jobs of a release that saved no iface_details.                          *)
OldMeta == [vendor |-> "fortios", details |-> FALSE, target |-> None,
            form |-> None, result |-> None]

Init ==
  /\ source \in [Jobs -> Uploads \cup {None}]
  /\ \A j \in Jobs : IF j \in OldJobs
                     THEN source[j] # None /\ source[j].detected = "fortios"
                     ELSE source[j] = None
  /\ json = [j \in Jobs |-> IF j \in OldJobs THEN OldMeta ELSE None]
  /\ jobs = LoadJobs
  /\ dir = [j \in Jobs |-> j \in OldJobs]
  /\ art = [j \in Jobs |-> NoArtifacts]
  /\ pc = [t \in Threads |-> "idle"]
  /\ on = [t \in Threads |-> None]
  /\ loc = [t \in Threads |-> NoLocals]
  /\ runs = 0
  /\ life = [j \in Jobs |-> IF j \in OldJobs THEN "given" ELSE "unborn"]
  /\ dirty = {}
  /\ faults = 0

(* A request arrives.                                                      *)
Request(t) ==
  \E j \in Jobs :
    \/ \E u \in Uploads : Load(t, j, u)
    \/ Open(t, j)
    \/ \E f \in Forms : Convert(t, j, f)
    \/ Rerun(t, j)
    \/ \E x \in Fixes : ApplyFix(t, j, x)
    \/ Delete(t, j)

(* A handler takes its next step.                                          *)
Step(t) ==
  \/ Register(t)
  \/ Heal(t)
  \/ Replay(t)
  \/ SaveOpen(t)
  \/ SaveWrite(t)
  \/ Plan(t)
  \/ Bundle(t)
  \/ \E k \in {"main", "branches", "report", "diff"} : WriteArtifact(t, k)
  \/ Record(t)
  \/ Pop(t)

Fault ==
  \/ Restart
  \/ \E t \in Threads : \/ SaveFails(t)
                        \/ \E k \in {"main", "branches", "report", "diff"} :
                             ArtifactFails(t, k)

Next == Fault \/ \E t \in Threads : Request(t) \/ Step(t)

(* The operating system runs every request thread of the server.           *)
Spec == Init /\ [][Next]_vars /\ \A t \in Threads : WF_vars(Step(t))

-----------------------------------------------------------------------------
(* Properties.  A job is clean while no two requests about it overlap, no  *)
(* write of it fails and the server is not stopped inside a request about  *)
(* it.  The handlers have no lock and no journal, so that is all they can  *)
(* promise everything for; overlapping requests about OTHER jobs, and any  *)
(* restart between requests, must not matter.                              *)

(* Between requests, what JOBS says about a clean job is what job.json     *)
(* says, its source is there, and a job that is not in JOBS has left no    *)
(* directory behind: "Jobs live on disk ... and survive restarts".         *)
QuietJobIsDurable ==
  \A j \in Jobs \ dirty : Quiet(j) =>
    IF jobs[j] = None
    THEN ~dir[j] /\ json[j] = None /\ source[j] = None /\ art[j] = NoArtifacts
    ELSE dir[j] /\ json[j] = jobs[j] /\ source[j] # None

(* Between requests, the files a clean job offers for download are those   *)
(* of the run its result page describes, and a FortiManager bundle is      *)
(* there exactly when the result announces one (no stale bundle).          *)
QuietArtifactsMatchResult ==
  \A j \in Jobs \ dirty : Quiet(j) /\ jobs[j] # None =>
    LET r == jobs[j].result
    IN IF r = None THEN art[j] = NoArtifacts
       ELSE /\ art[j]["main"] = r.run
            /\ art[j]["report"] = r.run
            /\ art[j][IF r.mode = "cross" THEN "branches" ELSE "diff"] = r.run
            /\ art[j]["fmg"] = IF r.fmg THEN r.run ELSE 0

(* Whatever overlaps or crashes, a job nobody asked to delete keeps its    *)
(* source, and the files its recorded result points at are never missing   *)
(* (convert records a result only after it has written them all).          *)
ResultFilesExist ==
  \A j \in Jobs : life[j] = "given" /\ jobs[j] # None =>
    /\ source[j] # None
    /\ LET r == jobs[j].result
       IN r # None => /\ art[j]["main"] # 0
                      /\ art[j]["report"] # 0
                      /\ art[j][IF r.mode = "cross" THEN "branches" ELSE "diff"] # 0

(* A clean job leaves JOBS only because the user deleted it, never by a    *)
(* restart or by another job's request.                                    *)
LostOnlyByDelete ==
  [][\A j \in Jobs : jobs[j] # None /\ jobs'[j] = None
                       => life'[j] = "doomed" \/ j \in dirty']_vars

(* A clean job that was deleted never comes back, not even by a restart.   *)
DeletedStaysDeleted ==
  [][\A j \in Jobs : life[j] = "doomed" /\ jobs[j] = None /\ jobs'[j] # None
                       => j \in dirty']_vars

(* A conversion that the pipeline accepts ends with its result in          *)
(* job.json, unless the job stops being clean on the way.                  *)
AcceptedRunIsRecorded ==
  \A t \in Threads, j \in Jobs, r \in Runs :
    (pc[t] = "fmg" /\ on[t] = j /\ loc[t].run = r)
      ~> \/ j \in dirty
         \/ /\ json[j] \notin {None, Torn}
            /\ json[j].result # None
            /\ json[j].result.run = r

(* The table of jobs, read job by job, is the service of module JobService: *)
(* while a job is clean, requests about it take effect one at a time, a    *)
(* newer result never gives way to an older one, and a restart of the      *)
(* server is invisible.                                                    *)
Blank(s) == [state |-> s, settings |-> None, shown |-> 0]

Entry(j) ==
  IF j \in dirty THEN Blank("lapsed")
  ELSE IF jobs[j] # None
       THEN [state |-> "listed", settings |-> jobs[j].form,
             shown |-> IF jobs[j].result = None THEN 0 ELSE jobs[j].result.run]
       ELSE Blank(IF life[j] = "doomed" THEN "deleted" ELSE "unborn")

Service == INSTANCE JobService
             WITH Settings <- Form, book <- [j \in Jobs |-> Entry(j)]

ImplementsService == Service!Spec

-----------------------------------------------------------------------------
(* What the documentation says and the code does not do.                   *)

(* README: "persistent project list (survives restarts)": a job that has   *)
(* a result, and that nobody asked to delete, is never lost.               *)
ConvertedJobsSurvive ==
  [][\A j \in {k \in Jobs : jobs[k] # None} :
       jobs[j].result # None /\ life[j] = "given" => jobs'[j] # None]_vars
=============================================================================
