--------------------------- MODULE JobStoreProofs ---------------------------
(***************************************************************************)
(* Proofs about JobStore: JobStoreInv is inductive, so the safety          *)
(* properties that the runs check on small instances hold for any set of   *)
(* jobs, any number of threads, any uploads and any bounds.  First Base    *)
(* (types, locals, births), then on top of it FilesInv (whatever overlaps, *)
(* crashes or fails, a recorded result points at files that are there),    *)
(* CleanInv (a job used by one request at a time is what its directory     *)
(* says), and that JobStore implements JobService: read through Entry,     *)
(* every step of a handler, every failed write and every restart is one    *)
(* step of the service or none.  For that, RunsInv: a conversion of a      *)
(* clean job is younger than the result it replaces.                       *)
(***************************************************************************)
EXTENDS JobStoreInvariant, TLAPS

-----------------------------------------------------------------------------
(* Lemmas on the records.                                                  *)

LEMMA AnalyzeType ==
  ASSUME NEW u \in Uploads, NEW v \in Vendors \cup {None}
  PROVE  /\ Analyze(u, v) \in Meta
         /\ Analyze(u, v).result = None
         /\ Analyze(u, v).form = None
BY JobStoreAssumption DEF Analyze, Meta, UploadType, Vendors

(* A dict of a job with a new last_form, result or target is a dict of a   *)
(* job.                                                                    *)
LEMMA MetaUpdate ==
  ASSUME NEW m \in Meta
  PROVE  /\ \A f \in Form \cup {None} :
              /\ [m EXCEPT !.form = f] \in Meta
              /\ [m EXCEPT !.form = f].form = f
              /\ [m EXCEPT !.form = f].result = m.result
              /\ [m EXCEPT !.form = f].vendor = m.vendor
         /\ \A r \in Result \cup {None} :
              /\ [m EXCEPT !.result = r] \in Meta
              /\ [m EXCEPT !.result = r].result = r
              /\ [m EXCEPT !.result = r].form = m.form
              /\ [m EXCEPT !.result = r].vendor = m.vendor
         /\ \A h \in Hosts \cup {None} :
              /\ [m EXCEPT !.target = h] \in Meta
              /\ [m EXCEPT !.target = h].result = m.result
              /\ [m EXCEPT !.target = h].form = m.form
BY DEF Meta

(* Changing one local of a handler gives locals again.                     *)
LEMMA LocalsUpdate ==
  ASSUME NEW l \in Locals
  PROVE  /\ \A m \in Meta \cup {None} : [l EXCEPT !.own = m] \in Locals
         /\ \A d \in {"closed", "clean", "shared", "gone"} :
              [l EXCEPT !.fd = d] \in Locals
         /\ \A d \in {"closed", "clean", "shared", "gone"}, m \in Meta \cup {None} :
              [l EXCEPT !.fd = d, !.buf = m] \in Locals
         /\ \A f \in Form \cup {None} : [l EXCEPT !.form = f] \in Locals
BY DEF Locals

(* The locals of a thread that serves nothing, field by field.             *)
LEMMA NoLocalsType ==
  /\ NoLocals \in Locals
  /\ NoLocals.own = None /\ NoLocals.form = None /\ NoLocals.run = 0
  /\ NoLocals.fd = "closed" /\ NoLocals.buf = None
BY JobStoreAssumption DEF NoLocals, Locals

(* The fix fields of a form, and a form whose fmg box is set anew.         *)
LEMMA FormUpdate ==
  ASSUME NEW f \in Form
  PROVE  /\ f.fixes \subseteq Fixes
         /\ \A b \in BOOLEAN : [f EXCEPT !.fmg = b] \in Form /\ [f EXCEPT !.fmg = b].fmg = b
         /\ \A S \in SUBSET Fixes : [f EXCEPT !.fixes = S] \in Form
BY DEF Form

-----------------------------------------------------------------------------
(* Types, locals and the birth of a job, in every interleaving.            *)

Base == TypeOK /\ LocalsInv /\ BirthInv

(* The first part of load() (_source.conf is written) keeps every          *)
(* variable in its type.                                                   *)
LEMMA TypeLoad ==
  ASSUME NEW t \in Threads, NEW j \in Jobs, NEW u \in Uploads, Base, Load(t, j, u)
  PROVE  TypeOK'
BY DEF Base, TypeOK, Load, Begin, Label

(* The rest of load() (refuse, or enter JOBS) keeps every variable in its  *)
(* type.                                                                   *)
LEMMA TypeRegister ==
  ASSUME NEW t \in Threads, Base, Register(t)
  PROVE  TypeOK'
<1> DEFINE j == on[t]
           u == source[j]
<1>1. j \in Jobs /\ u \in Uploads
  BY DEF Base, TypeOK, LocalsInv, LocalsOK, BirthInv, Register
<1>2. CASE u.target = Bad
  BY <1>1, <1>2 DEF Base, TypeOK, Register, Respond, Label, history
<1>3. CASE u.target # Bad
  <2>1. /\ u.target \in Hosts \cup {None}
        /\ u.picked \in Vendors \cup {None}
    BY <1>1, <1>3, JobStoreAssumption DEF UploadType, Vendors
  <2> DEFINE m == [Analyze(u, u.picked) EXCEPT !.target = u.target]
  <2>2. m \in Meta
    BY <1>1, <2>1, AnalyzeType, MetaUpdate
  <2>3. /\ jobs' = [jobs EXCEPT ![j] = m] /\ pc' = [pc EXCEPT ![t] = "save"]
        /\ UNCHANGED <<dir, source, json, art, on, loc, runs, life, dirty, faults>>
    BY <1>3 DEF Register, Goto, history
  <2> HIDE DEF m
  <2> QED
    BY <1>1, <2>2, <2>3 DEF Base, TypeOK, Label
<1> QED BY <1>2, <1>3

(* A GET of a job that needs re-analysis keeps every variable in its       *)
(* type.                                                                   *)
LEMMA TypeOpen ==
  ASSUME NEW t \in Threads, NEW j \in Jobs, Base, Open(t, j)
  PROVE  TypeOK'
BY DEF Base, TypeOK, Open, Begin, Label, disk

(* A handler that uses a dict holds one, and it is about a job.            *)
LEMMA HeldType ==
  ASSUME NEW t \in Threads, Base, HoldsMeta(t)
  PROVE  Held(t) \in Meta /\ on[t] \in Jobs
BY DEF Base, TypeOK, LocalsInv, LocalsOK, Held, HoldsMeta, Locals

(* Handing the old dict to the other handlers keeps the locals typed.      *)
LEMMA DetachType ==
  ASSUME NEW t \in Threads, NEW j \in Jobs, TypeOK, Detach(t, j)
  PROVE  loc' \in [Threads -> Locals]
BY LocalsUpdate, NoLocalsType DEF TypeOK, Detach

(* The re-analysis in job() keeps every variable in its type.              *)
LEMMA TypeHeal ==
  ASSUME NEW t \in Threads, Base, Heal(t)
  PROVE  TypeOK'
<1> DEFINE j == on[t]
<1>1. j \in Jobs /\ Held(t) \in Meta
  BY HeldType DEF Heal, HoldsMeta
<1>2. CASE source[j] = None
  BY <1>1, <1>2, NoLocalsType DEF Base, TypeOK, Heal, Respond, Label, disk, history
<1>3. CASE source[j] # None
  <2>1. source[j] \in Uploads /\ Held(t).result \in Result \cup {None}
    BY <1>1, <1>3 DEF Base, TypeOK, Meta
  <2>2. [Analyze(source[j], None) EXCEPT !.result = Held(t).result] \in Meta
    BY <2>1, AnalyzeType, MetaUpdate
  <2>3. loc' \in [Threads -> Locals]
    BY <1>1, <1>3, DetachType DEF Base, Heal
  <2>4. /\ jobs' = [jobs EXCEPT ![j] =
                      [Analyze(source[j], None) EXCEPT !.result = Held(t).result]]
        /\ pc' = [pc EXCEPT ![t] = "save"]
        /\ UNCHANGED <<on, dir, source, json, art, runs, life, dirty, faults>>
    BY <1>3 DEF Heal, Goto, disk, history
  <2>5. jobs' \in [Jobs -> Meta \cup {None}]
    BY <1>1, <2>2, <2>4 DEF Base, TypeOK
  <2>6. pc' \in [Threads -> Label]
    BY <2>4 DEF Base, TypeOK, Label
  <2> QED
    BY <2>3, <2>4, <2>5, <2>6 DEF Base, TypeOK
<1> QED BY <1>2, <1>3

(* Storing last_form keeps JOBS and the locals typed.                      *)
LEMMA SubmitType ==
  ASSUME NEW t \in Threads, NEW j \in Jobs, NEW f \in Form, NEW r \in 0 .. MaxRuns,
         TypeOK, jobs[j] # None, Submit(t, j, f, r)
  PROVE  jobs' \in [Jobs -> Meta \cup {None}] /\ loc' \in [Threads -> Locals]
<1>1. [jobs[j] EXCEPT !.form = f] \in Meta
  BY MetaUpdate DEF TypeOK
<1>2. [NoLocals EXCEPT !.form = f, !.run = r] \in Locals
  BY DEF NoLocals, Locals
<1> QED BY <1>1, <1>2 DEF TypeOK, Submit

(* A convert request keeps every variable in its type.                     *)
LEMMA TypeConvert ==
  ASSUME NEW t \in Threads, NEW j \in Jobs, NEW f \in Forms, Base, Convert(t, j, f)
  PROVE  TypeOK'
<1>1. f \in Form /\ runs + 1 \in 0 .. MaxRuns
  BY JobStoreAssumption DEF Base, TypeOK, Convert
<1>2. jobs' \in [Jobs -> Meta \cup {None}] /\ loc' \in [Threads -> Locals]
  BY <1>1, SubmitType DEF Base, Convert
<1> QED BY <1>1, <1>2 DEF Base, TypeOK, Convert, Begin, Label, disk

(* A rerun or apply_fix request keeps every variable in its type.          *)
LEMMA TypeRecall ==
  ASSUME NEW t \in Threads, NEW j \in Jobs, NEW S \in SUBSET Fixes, Base, Recall(t, j, S)
  PROVE  TypeOK'
<1> DEFINE saved == jobs[j].form
           f == [saved EXCEPT !.fixes = saved.fixes \cup S]
<1>1. saved \in Form
  BY DEF Base, TypeOK, Recall, Meta
<1>2. saved.fixes \cup S \in SUBSET Fixes
  BY <1>1, FormUpdate
<1>3. f \in Form
  BY <1>1, <1>2, FormUpdate
<1>4. runs + 1 \in 0 .. MaxRuns
  BY JobStoreAssumption DEF Base, TypeOK, Recall
<1>5. [NoLocals EXCEPT !.form = f, !.run = runs + 1] \in Locals
  BY <1>3, <1>4 DEF NoLocals, Locals
<1> QED BY <1>4, <1>5 DEF Base, TypeOK, Recall, Begin, Label, disk

(* The call of convert() from rerun or apply_fix keeps every variable in   *)
(* its type.                                                               *)
LEMMA TypeReplay ==
  ASSUME NEW t \in Threads, Base, Replay(t)
  PROVE  TypeOK'
<1> DEFINE j == on[t]
<1>1. j \in Jobs /\ loc[t].form \in Form /\ loc[t].run \in 0 .. MaxRuns
  BY DEF Base, TypeOK, LocalsInv, LocalsOK, Replay, Locals
<1>2. CASE jobs[j] = None
  BY <1>1, <1>2, NoLocalsType DEF Base, TypeOK, Replay, Respond, Label, disk, history
<1>3. CASE jobs[j] # None
  <2>1. jobs' \in [Jobs -> Meta \cup {None}] /\ loc' \in [Threads -> Locals]
    BY <1>1, <1>3, SubmitType DEF Base, Replay
  <2> QED
    BY <1>1, <1>3, <2>1 DEF Base, TypeOK, Replay, Goto, Label, disk, history
<1> QED BY <1>2, <1>3

(* Opening job.json in _save_job keeps every variable in its type.         *)
LEMMA TypeSaveOpen ==
  ASSUME NEW t \in Threads, Base, SaveOpen(t)
  PROVE  TypeOK'
<1>1. on[t] \in Jobs
  BY DEF Base, TypeOK, LocalsInv, LocalsOK, SaveOpen
<1>2. [loc[t] EXCEPT !.fd = "clean", !.buf = jobs[on[t]]] \in Locals
  BY <1>1, LocalsUpdate DEF Base, TypeOK
<1>3. loc' \in [Threads -> Locals]
  BY <1>2, NoLocalsType DEF Base, TypeOK, SaveOpen
<1> QED
  BY <1>1, <1>3 DEF Base, TypeOK, SaveOpen, Goto, Respond, Label, history

(* Returning from _save_job keeps labels and locals typed.                 *)
LEMMA SaveReturnType ==
  ASSUME NEW t \in Threads, Base, SaveReturn(t)
  PROVE  /\ pc' \in [Threads -> Label]
         /\ on' \in [Threads -> Jobs \cup {None}]
         /\ loc' \in [Threads -> Locals]
<1> DEFINE others == [u \in Threads |->
                   IF on[u] = on[t] /\ loc[u].fd = "clean" /\ loc[t].fd # "gone"
                   THEN [loc[u] EXCEPT !.fd = "shared"] ELSE loc[u]]
<1>1. others \in [Threads -> Locals]
  BY LocalsUpdate DEF Base, TypeOK
<1>2. [loc[t] EXCEPT !.fd = "closed", !.buf = None] \in Locals
  BY LocalsUpdate DEF Base, TypeOK
<1> QED
  BY <1>1, <1>2, NoLocalsType DEF Base, TypeOK, SaveReturn, Goto, Respond, Label

(* Writing job.json in _save_job keeps every variable in its type.         *)
LEMMA TypeSaveWrite ==
  ASSUME NEW t \in Threads, Base, SaveWrite(t)
  PROVE  TypeOK'
<1>1. on[t] \in Jobs /\ loc[t].buf \in Meta \cup {None}
  BY DEF Base, TypeOK, LocalsInv, LocalsOK, SaveWrite, Locals
<1>2. Written(t) \subseteq Meta \cup {None, Torn}
  BY <1>1 DEF Base, TypeOK, Written
<1>3. json' \in [Jobs -> Meta \cup {None, Torn}]
  <2>1. PICK content \in Written(t) : json' = [json EXCEPT ![on[t]] = content]
    BY DEF SaveWrite
  <2> QED BY <1>2, <2>1 DEF Base, TypeOK
<1>4. /\ SaveReturn(t)
      /\ UNCHANGED <<jobs, dir, source, art, runs, life, dirty, faults>>
  BY DEF SaveWrite, history
<1>5. /\ pc' \in [Threads -> Label]
      /\ on' \in [Threads -> Jobs \cup {None}]
      /\ loc' \in [Threads -> Locals]
  BY <1>4, SaveReturnType
<1> QED
  BY <1>3, <1>4, <1>5 DEF Base, TypeOK

(* A failing write of job.json keeps every variable in its type.           *)
LEMMA TypeSaveFails ==
  ASSUME NEW t \in Threads, Base, SaveFails(t)
  PROVE  TypeOK'
<1>1. on[t] \in Jobs
  BY DEF Base, TypeOK, LocalsInv, LocalsOK, SaveFails
<1> QED
  BY <1>1, SaveReturnType, JobStoreAssumption DEF Base, TypeOK, SaveFails

(* Reading the source and running the pipeline keeps every variable in     *)
(* its type.                                                               *)
LEMMA TypePlan ==
  ASSUME NEW t \in Threads, Base, Plan(t)
  PROVE  TypeOK'
BY NoLocalsType DEF Base, TypeOK, Plan, Goto, Respond, Label, disk, history

(* Writing one artifact of one job keeps the artifacts typed.              *)
LEMMA ArtUpdate ==
  ASSUME NEW j \in Jobs, NEW k \in Artifacts, NEW r \in (0 .. MaxRuns) \cup {Torn},
         TypeOK
  PROVE  [art EXCEPT ![j][k] = r] \in [Jobs -> [Artifacts -> (0 .. MaxRuns) \cup {Torn}]]
BY DEF TypeOK

(* The FortiManager bundle of convert() keeps every variable in its type.  *)
LEMMA TypeBundle ==
  ASSUME NEW t \in Threads, Base, Bundle(t)
  PROVE  TypeOK'
<1> DEFINE j == on[t]
           written == Held(t).vendor # "fortios" /\ loc[t].form.fmg /\ dir[j]
<1>1. j \in Jobs /\ loc[t].form \in Form /\ loc[t].run \in 0 .. MaxRuns
  BY DEF Base, TypeOK, LocalsInv, LocalsOK, Bundle, Locals, Converting
<1>2. [loc[t].form EXCEPT !.fmg = written] \in Form
  BY <1>1, FormUpdate DEF Base, TypeOK, Form
<1>3. [loc[t] EXCEPT !.form = [loc[t].form EXCEPT !.fmg = written]] \in Locals
  BY <1>2, LocalsUpdate DEF Base, TypeOK
<1>4. art' \in [Jobs -> [Artifacts -> (0 .. MaxRuns) \cup {Torn}]]
  BY <1>1, JobStoreAssumption, ArtUpdate DEF Base, Bundle, Artifacts
<1> QED
  BY <1>3, <1>4 DEF Base, TypeOK, Bundle, Goto, Label, history

(* Writing one artifact keeps every variable in its type.                  *)
LEMMA TypeWriteArtifact ==
  ASSUME NEW t \in Threads, NEW k \in {"main", "branches", "report", "diff"}, Base,
         WriteArtifact(t, k)
  PROVE  TypeOK'
<1>1. on[t] \in Jobs /\ loc[t].run \in 0 .. MaxRuns
  BY DEF Base, TypeOK, LocalsInv, LocalsOK, WriteArtifact, Locals, Converting
<1>2. After(k, Held(t).vendor) \in Label
  BY DEF After, Label
<1>3. CASE dir[on[t]] \/ k = "branches"
  <2>1. /\ art' = [art EXCEPT ![on[t]][k] = loc[t].run]
        /\ dir' = [dir EXCEPT ![on[t]] = TRUE]
        /\ pc' = [pc EXCEPT ![t] = After(k, Held(t).vendor)]
        /\ UNCHANGED <<on, loc, jobs, source, json, runs, life, dirty, faults>>
    BY <1>3 DEF WriteArtifact, Goto, history
  <2>2. art' \in [Jobs -> [Artifacts -> (0 .. MaxRuns) \cup {Torn}]]
    BY <1>1, <2>1, ArtUpdate DEF Base, Artifacts
  <2>3. pc' \in [Threads -> Label]
    BY <1>2, <2>1 DEF Base, TypeOK
  <2> QED
    BY <2>1, <2>2, <2>3 DEF Base, TypeOK
<1>4. CASE ~(dir[on[t]] \/ k = "branches")
  BY <1>4, NoLocalsType DEF Base, TypeOK, WriteArtifact, Respond, Label, history
<1> QED BY <1>3, <1>4

(* A failing artifact write keeps every variable in its type.              *)
LEMMA TypeArtifactFails ==
  ASSUME NEW t \in Threads, NEW k \in {"main", "branches", "report", "diff"}, Base,
         ArtifactFails(t, k)
  PROVE  TypeOK'
<1>1. on[t] \in Jobs
  BY DEF Base, TypeOK, LocalsInv, LocalsOK, ArtifactFails
<1> QED
  BY <1>1, NoLocalsType, JobStoreAssumption
  DEF Base, TypeOK, ArtifactFails, Respond, Label, Artifacts

(* The result that convert() stores.                                      *)
Recorded(t) ==
  [mode |-> IF Held(t).vendor = "fortios" THEN "migrate" ELSE "cross",
   run |-> loc[t].run, fmg |-> loc[t].form.fmg, stem |-> Held(t).target]

(* What storing meta["result"] changes, spelled out.                       *)
LEMMA RecordStep ==
  ASSUME NEW t \in Threads, Base, Record(t)
  PROVE  /\ on[t] \in Jobs /\ Held(t) \in Meta /\ Recorded(t) \in Result
         /\ pc[t] = "record" /\ pc' = [pc EXCEPT ![t] = "save"]
         /\ loc' = [loc EXCEPT ![t] = NoLocals]
         /\ UNCHANGED <<on, dir, source, json, art, runs, life, dirty, faults>>
         /\ loc[t].own # None => UNCHANGED jobs
         /\ loc[t].own = None =>
              /\ jobs[on[t]] \in Meta
              /\ jobs' = [jobs EXCEPT ![on[t]] = [jobs[on[t]] EXCEPT !.result = Recorded(t)]]
              /\ [jobs[on[t]] EXCEPT !.result = Recorded(t)] \in Meta
              /\ jobs'[on[t]].vendor = jobs[on[t]].vendor
<1>1. on[t] \in Jobs /\ Held(t) \in Meta
  BY HeldType DEF Record, HoldsMeta
<1>2. loc[t].run \in Runs /\ loc[t].form \in Form
  BY JobStoreAssumption DEF Base, TypeOK, LocalsInv, LocalsOK, Record, Locals, Converting, Runs
<1>3. Recorded(t) \in Result
  BY <1>1, <1>2 DEF Recorded, Result, Meta, Form
<1>4. ASSUME loc[t].own = None
      PROVE  /\ jobs[on[t]] \in Meta
             /\ jobs' = [jobs EXCEPT ![on[t]] = [jobs[on[t]] EXCEPT !.result = Recorded(t)]]
             /\ [jobs[on[t]] EXCEPT !.result = Recorded(t)] \in Meta
             /\ jobs'[on[t]].vendor = jobs[on[t]].vendor
  <2>1. jobs[on[t]] \in Meta
    BY <1>1, <1>4 DEF Held
  <2>2. jobs' = [jobs EXCEPT ![on[t]] = [jobs[on[t]] EXCEPT !.result = Recorded(t)]]
    BY <1>4 DEF Record, Recorded
  <2> QED BY <1>1, <1>3, <2>1, <2>2, MetaUpdate DEF Base, TypeOK
<1> QED BY <1>1, <1>3, <1>4 DEF Record, Goto, disk, history

(* Storing meta["result"] keeps every variable in its type.                *)
LEMMA TypeRecord ==
  ASSUME NEW t \in Threads, Base, Record(t)
  PROVE  TypeOK'
<1>1. loc' \in [Threads -> Locals]
  <2>1. loc' = [loc EXCEPT ![t] = NoLocals]
    BY DEF Record
  <2> QED BY <2>1, NoLocalsType DEF Base, TypeOK
<1>2. jobs' \in [Jobs -> Meta \cup {None}]
  BY RecordStep DEF Base, TypeOK
<1>3. pc' \in [Threads -> Label]
  BY RecordStep DEF Base, TypeOK, Label
<1> QED BY <1>1, <1>2, <1>3, RecordStep DEF Base, TypeOK

(* The rmtree of delete() keeps every variable in its type.                *)
LEMMA TypeDelete ==
  ASSUME NEW t \in Threads, NEW j \in Jobs, Base, Delete(t, j)
  PROVE  TypeOK'
<1>1. loc' \in [Threads -> Locals]
  BY LocalsUpdate DEF Base, TypeOK, Delete
<1>2. NoArtifacts \in [Artifacts -> (0 .. MaxRuns) \cup {Torn}]
  BY JobStoreAssumption DEF NoArtifacts
<1> QED BY <1>1, <1>2 DEF Base, TypeOK, Delete, Begin, Label

(* The JOBS.pop of delete() keeps every variable in its type.              *)
LEMMA TypePop ==
  ASSUME NEW t \in Threads, Base, Pop(t)
  PROVE  TypeOK'
<1>1. on[t] \in Jobs
  BY DEF Base, TypeOK, LocalsInv, LocalsOK, Pop
<1>2. loc' \in [Threads -> Locals]
  BY <1>1, DetachType DEF Base, Pop
<1> QED BY <1>1, <1>2 DEF Base, TypeOK, Pop, Respond, Label, history

(* A restart (_load_jobs) keeps every variable in its type.                *)
LEMMA TypeRestart ==
  ASSUME Base, Restart
  PROVE  TypeOK'
<1>1. LoadJobs \in [Jobs -> Meta \cup {None}]
  BY DEF Base, TypeOK, LoadJobs
<1> QED BY <1>1, NoLocalsType, JobStoreAssumption DEF Base, TypeOK, Restart, Label, disk

-----------------------------------------------------------------------------
(* LocalsInv.                                                              *)

(* A step that leaves a thread and the dict it holds alone.                *)
LEMMA LocalsFrame ==
  ASSUME NEW u \in Threads, Base,
         UNCHANGED <<pc[u], on[u], loc[u]>>,
         HoldsMeta(u) /\ loc[u].own = None
           => jobs'[on[u]] # None /\ jobs'[on[u]].vendor = jobs[on[u]].vendor
  PROVE  LocalsOK(u)'
BY DEF Base, LocalsInv, LocalsOK, HoldsMeta, Held

(* The first part of load() (_source.conf is written) leaves every         *)
(* handler's locals fitting its label.                                     *)
LEMMA LocalsLoad ==
  ASSUME NEW t \in Threads, NEW j \in Jobs, NEW u \in Uploads, Base, Load(t, j, u)
  PROVE  LocalsInv'
BY JobStoreAssumption DEF Base, TypeOK, LocalsInv, Load, Begin, LocalsOK, HoldsMeta, Held, Writing, Converting

(* The rest of load() (refuse, or enter JOBS) leaves every handler's       *)
(* locals fitting its label.                                               *)
LEMMA LocalsRegister ==
  ASSUME NEW t \in Threads, Base, Register(t)
  PROVE  LocalsInv'
<1>1. on[t] \in Jobs /\ \A u \in Threads : on[u] = on[t] => u = t
  BY DEF Base, TypeOK, LocalsInv, LocalsOK, BirthInv, Register
<1>2. LocalsOK(t)'
  BY <1>1, JobStoreAssumption DEF Base, TypeOK, LocalsInv, Register, Goto, Respond, LocalsOK, HoldsMeta, Held, Writing, Converting
<1>3. ASSUME NEW u \in Threads, u # t PROVE LocalsOK(u)'
  <2>1. UNCHANGED <<pc[u], on[u], loc[u]>>
    BY <1>3 DEF Base, TypeOK, Register, Goto, Respond
  <2>2. on[u] # on[t]
    BY <1>1, <1>3
  <2>3. HoldsMeta(u) /\ loc[u].own = None => jobs'[on[u]] = jobs[on[u]] /\ jobs[on[u]] # None
    BY <2>2 DEF Base, TypeOK, LocalsInv, LocalsOK, HoldsMeta, Held, Register
  <2> QED BY <2>1, <2>3, LocalsFrame
<1> QED BY <1>2, <1>3 DEF LocalsInv

(* A GET of a job that needs re-analysis leaves every handler's locals     *)
(* fitting its label.                                                      *)
LEMMA LocalsOpen ==
  ASSUME NEW t \in Threads, NEW j \in Jobs, Base, Open(t, j)
  PROVE  LocalsInv'
BY JobStoreAssumption DEF Base, TypeOK, LocalsInv, Open, Begin, disk, LocalsOK, HoldsMeta, Held, Writing, Converting

(* Thread t replaces or removes JOBS[j]: the others hold on to what they   *)
(* have.                                                                   *)
LEMMA LocalsDetach ==
  ASSUME NEW t \in Threads, NEW j \in Jobs, NEW u \in Threads, u # t, Base,
         Detach(t, j), UNCHANGED <<pc[u], on[u]>>,
         \A i \in Jobs : i # j => jobs'[i] = jobs[i]
  PROVE  LocalsOK(u)' /\ (HoldsMeta(u) => Held(u)' = Held(u))
<1>1. loc[u] \in Locals /\ LocalsOK(u) /\ jobs[j] \in Meta \cup {None}
  BY DEF Base, TypeOK, LocalsInv
<1>2. CASE on[u] = j /\ HoldsMeta(u) /\ loc[u].own = None
  <2>1. loc'[u] = [loc[u] EXCEPT !.own = jobs[j]]
    BY <1>2 DEF Detach
  <2>2. /\ loc'[u].own = jobs[j] /\ loc'[u].form = loc[u].form
        /\ loc'[u].run = loc[u].run /\ loc'[u].fd = loc[u].fd
        /\ loc'[u].buf = loc[u].buf
    BY <1>1, <2>1 DEF Locals
  <2>3. jobs[j] # None
    BY <1>1, <1>2 DEF LocalsOK, Held
  <2>4. Held(u)' = Held(u)
    BY <1>2, <2>2, <2>3 DEF Held
  <2> QED BY <1>1, <1>2, <2>2, <2>3, <2>4 DEF LocalsOK, HoldsMeta
<1>3. CASE ~(on[u] = j /\ HoldsMeta(u) /\ loc[u].own = None)
  <2>1. loc'[u] = loc[u]
    BY <1>3 DEF Detach
  <2>2. HoldsMeta(u) /\ loc[u].own = None => on[u] \in Jobs /\ jobs'[on[u]] = jobs[on[u]]
    BY <1>1, <1>3 DEF Base, TypeOK, LocalsOK, HoldsMeta
  <2>3. HoldsMeta(u) => Held(u)' = Held(u)
    BY <2>1, <2>2 DEF Held
  <2> QED BY <1>1, <2>1, <2>2, <2>3 DEF LocalsOK, HoldsMeta
<1> QED BY <1>2, <1>3

(* The re-analysis in job() leaves every handler's locals fitting its      *)
(* label.                                                                  *)
LEMMA LocalsHeal ==
  ASSUME NEW t \in Threads, Base, Heal(t)
  PROVE  LocalsInv'
<1> DEFINE j == on[t]
<1>1. j \in Jobs /\ Held(t) \in Meta
  BY HeldType DEF Heal, HoldsMeta
<1>2. CASE source[j] = None
  BY <1>2, NoLocalsType, JobStoreAssumption
  DEF Base, TypeOK, LocalsInv, Heal, Respond, LocalsOK, HoldsMeta, Held, Writing, Converting
<1>3. CASE source[j] # None
  <2>1. /\ pc' = [pc EXCEPT ![t] = "save"]
        /\ UNCHANGED on
        /\ Detach(t, j)
        /\ \A i \in Jobs : i # j => jobs'[i] = jobs[i]
    BY <1>1, <1>3 DEF Heal, Goto, Base, TypeOK
  <2>2. ASSUME NEW u \in Threads, u # t PROVE LocalsOK(u)'
    BY <1>1, <2>1, <2>2, LocalsDetach DEF Base, TypeOK
  <2>3. LocalsOK(t)'
    BY <1>1, <2>1, NoLocalsType, JobStoreAssumption
    DEF Base, TypeOK, Detach, LocalsOK, HoldsMeta, Held, Writing, Converting
  <2> QED BY <2>2, <2>3 DEF LocalsInv
<1> QED BY <1>2, <1>3

(* convert() stores the form in the job's dict.                            *)
LEMMA LocalsSubmit ==
  ASSUME NEW t \in Threads, NEW j \in Jobs, NEW f \in Form, NEW r \in Runs, Base,
         jobs[j] # None, Submit(t, j, f, r), pc' = [pc EXCEPT ![t] = "save_form"],
         on' = [on EXCEPT ![t] = j]
  PROVE  LocalsInv'
<1>1. jobs[j] \in Meta /\ [jobs[j] EXCEPT !.form = f] \in Meta
  BY MetaUpdate DEF Base, TypeOK
<1>2. jobs'[j] # None /\ jobs'[j].vendor = jobs[j].vendor
  BY <1>1, MetaUpdate, JobStoreAssumption DEF Submit, Base, TypeOK
<1>3. ASSUME NEW u \in Threads, u # t PROVE LocalsOK(u)'
  <2>1. UNCHANGED <<pc[u], on[u], loc[u]>>
    BY <1>3 DEF Submit, Base, TypeOK
  <2>2. HoldsMeta(u) /\ loc[u].own = None
           => jobs'[on[u]] # None /\ jobs'[on[u]].vendor = jobs[on[u]].vendor
    BY <1>2 DEF Submit, Base, TypeOK, LocalsInv, LocalsOK, HoldsMeta, Held
  <2> QED BY <2>1, <2>2, LocalsFrame
<1>4. LocalsOK(t)'
  <2>1. loc'[t] = [NoLocals EXCEPT !.form = f, !.run = r]
    BY DEF Submit, Base, TypeOK
  <2>2. /\ loc'[t].own = None /\ loc'[t].form = f /\ loc'[t].run = r
        /\ loc'[t].fd = "closed" /\ loc'[t].buf = None
    BY <2>1 DEF NoLocals
  <2>3. pc'[t] = "save_form" /\ on'[t] = j
    BY DEF Base, TypeOK
  <2>4. r # 0 /\ f # None
    BY JobStoreAssumption DEF Runs
  <2> QED BY <1>2, <2>2, <2>3, <2>4, JobStoreAssumption DEF LocalsOK, HoldsMeta, Held, Writing, Converting
<1> QED BY <1>3, <1>4 DEF LocalsInv

(* A convert request leaves every handler's locals fitting its label.      *)
LEMMA LocalsConvert ==
  ASSUME NEW t \in Threads, NEW j \in Jobs, NEW f \in Forms, Base, Convert(t, j, f)
  PROVE  LocalsInv'
<1>1. f \in Form /\ runs + 1 \in Runs
  BY JobStoreAssumption DEF Base, TypeOK, Convert, Runs
<1> QED BY <1>1, LocalsSubmit DEF Convert, Begin

(* A rerun or apply_fix request leaves every handler's locals fitting its  *)
(* label.                                                                  *)
LEMMA LocalsRecall ==
  ASSUME NEW t \in Threads, NEW j \in Jobs, NEW S \in SUBSET Fixes, Base, Recall(t, j, S)
  PROVE  LocalsInv'
<1> DEFINE saved == jobs[j].form
           f == [saved EXCEPT !.fixes = saved.fixes \cup S]
<1>1. saved \in Form
  BY DEF Base, TypeOK, Recall, Meta
<1>2. saved.fixes \cup S \in SUBSET Fixes
  BY <1>1, FormUpdate
<1>3. f \in Form /\ f # None
  BY <1>1, <1>2, FormUpdate, JobStoreAssumption
<1>4. runs + 1 # 0
  BY JobStoreAssumption DEF Base, TypeOK
<1>5. loc' = [loc EXCEPT ![t] = [NoLocals EXCEPT !.form = f, !.run = runs + 1]]
  BY DEF Recall
<1>6. ASSUME NEW u \in Threads, u # t PROVE LocalsOK(u)'
  BY <1>5, <1>6, LocalsFrame
  DEF Recall, Begin, Base, TypeOK, LocalsInv, LocalsOK, HoldsMeta, Held
<1>7. LocalsOK(t)'
  <2>1. /\ loc'[t].own = None /\ loc'[t].form = f /\ loc'[t].run = runs + 1
        /\ loc'[t].fd = "closed" /\ loc'[t].buf = None
    BY <1>5 DEF NoLocals, Base, TypeOK
  <2> QED BY <1>3, <1>4, <2>1, JobStoreAssumption DEF Recall, Begin, Base, TypeOK, LocalsOK, HoldsMeta, Held, Writing, Converting
<1> QED BY <1>6, <1>7 DEF LocalsInv

(* The call of convert() from rerun or apply_fix leaves every handler's    *)
(* locals fitting its label.                                               *)
LEMMA LocalsReplay ==
  ASSUME NEW t \in Threads, Base, Replay(t)
  PROVE  LocalsInv'
<1>1. on[t] \in Jobs /\ loc[t].form \in Form /\ loc[t].run \in Runs
  BY JobStoreAssumption DEF Base, TypeOK, LocalsInv, LocalsOK, Replay, Locals, Runs
<1>2. CASE jobs[on[t]] = None
  BY <1>2, NoLocalsType, JobStoreAssumption
  DEF Base, TypeOK, LocalsInv, Replay, Respond, LocalsOK, HoldsMeta, Held, Writing, Converting
<1>3. CASE jobs[on[t]] # None
  <2>1. on' = [on EXCEPT ![t] = on[t]] /\ pc' = [pc EXCEPT ![t] = "save_form"]
    BY <1>3 DEF Replay, Goto, Base, TypeOK
  <2> QED BY <1>1, <1>3, <2>1, LocalsSubmit DEF Replay
<1> QED BY <1>2, <1>3

(* Opening job.json in _save_job leaves every handler's locals fitting     *)
(* its label.                                                              *)
LEMMA LocalsSaveOpen ==
  ASSUME NEW t \in Threads, Base, SaveOpen(t)
  PROVE  LocalsInv'
<1>1. on[t] \in Jobs /\ loc[t] \in Locals
  BY DEF Base, TypeOK, LocalsInv, LocalsOK, SaveOpen
<1>4. loc[t].fd = "closed"
  BY DEF Base, LocalsInv, LocalsOK, SaveOpen, Writing
<1>2. ASSUME NEW u \in Threads, u # t PROVE LocalsOK(u)'
  BY <1>2, LocalsFrame
  DEF SaveOpen, Goto, Respond, Base, TypeOK, LocalsInv, LocalsOK, HoldsMeta, Held
<1>3. LocalsOK(t)'
  <2>1. CASE loc' = [loc EXCEPT ![t] = [@ EXCEPT !.fd = "clean", !.buf = jobs[on[t]]]]
    <3>1. loc'[t] = [loc[t] EXCEPT !.fd = "clean", !.buf = jobs[on[t]]]
      BY <2>1 DEF Base, TypeOK
    <3>2. /\ loc'[t].own = loc[t].own /\ loc'[t].form = loc[t].form
          /\ loc'[t].run = loc[t].run /\ loc'[t].fd = "clean"
          /\ loc'[t].buf = jobs[on[t]]
      BY <1>1, <3>1 DEF Locals
    <3>3. /\ jobs[on[t]] # None
          /\ UNCHANGED <<on, jobs>>
          /\ pc'[t] = IF pc[t] = "save_form" THEN "save_form_write" ELSE "save_write"
      <4>1. loc'[t] # NoLocals /\ loc'[t] # loc[t]
        BY <3>2, <1>4, NoLocalsType
      <4> QED BY <4>1 DEF SaveOpen, Goto, Respond, Base, TypeOK
    <3>4. LocalsOK(t) /\ pc[t] \in {"save_form", "save"}
      BY DEF Base, LocalsInv, SaveOpen
    <3>5. CASE pc[t] = "save"
      BY <1>1, <3>2, <3>3, <3>4, <3>5, JobStoreAssumption DEF LocalsOK, HoldsMeta, Held, Writing, Converting
    <3>6. CASE pc[t] = "save_form"
      <4>1. Held(t)' = Held(t)
        BY <3>2, <3>3 DEF Held
      <4> QED BY <1>1, <3>2, <3>3, <3>4, <3>6, <4>1, JobStoreAssumption
              DEF LocalsOK, HoldsMeta, Writing, Converting
    <3> QED BY <3>4, <3>5, <3>6
  <2>2. CASE UNCHANGED loc \/ loc' = [loc EXCEPT ![t] = NoLocals]
    <3>1. loc'[t].fd = "closed" /\ loc'[t].fd # "clean"
      BY <1>4, <2>2, NoLocalsType DEF Base, TypeOK
    <3>2. loc' # [loc EXCEPT ![t] = [@ EXCEPT !.fd = "clean", !.buf = jobs[on[t]]]]
      <4>1. [loc[t] EXCEPT !.fd = "clean", !.buf = jobs[on[t]]].fd = "clean"
        BY <1>1 DEF Locals
      <4> QED BY <3>1, <4>1 DEF Base, TypeOK
    <3>3. LocalsOK(t) /\ pc[t] \in {"save_form", "save"} /\ UNCHANGED jobs
      BY DEF Base, LocalsInv, SaveOpen
    <3>4. CASE pc[t] = "save_form" /\ UNCHANGED <<loc, on>> /\ pc' = [pc EXCEPT ![t] = "plan"]
      BY <1>1, <1>4, <3>3, <3>4
      DEF Base, TypeOK, LocalsOK, HoldsMeta, Held, Writing, Converting
    <3>5. CASE Respond(t) /\ loc' = [loc EXCEPT ![t] = NoLocals]
      BY <3>5, NoLocalsType
      DEF Respond, Base, TypeOK, LocalsOK, HoldsMeta, Held, Writing, Converting
    <3> QED BY <3>2, <3>4, <3>5 DEF SaveOpen, Goto
  <2> QED BY <2>1, <2>2 DEF SaveOpen
<1> QED BY <1>2, <1>3 DEF LocalsInv

(* Returning from _save_job leaves every handler's locals fitting its      *)
(* label.                                                                  *)
LEMMA LocalsSaveReturn ==
  ASSUME NEW t \in Threads, Base, SaveReturn(t), UNCHANGED jobs
  PROVE  LocalsInv'
<1> DEFINE hit(u) == on[u] = on[t] /\ loc[u].fd = "clean" /\ loc[t].fd # "gone"
<1>1. \A u \in Threads : loc[u] \in Locals /\ LocalsOK(u)
  BY DEF Base, TypeOK, LocalsInv
<1>2. ASSUME NEW u \in Threads, u # t PROVE LocalsOK(u)'
  <2>1. /\ UNCHANGED <<pc[u], on[u]>>
        /\ loc'[u] = IF hit(u) THEN [loc[u] EXCEPT !.fd = "shared"] ELSE loc[u]
    BY <1>2 DEF SaveReturn, Goto, Respond, Base, TypeOK
  <2>2. /\ loc'[u].own = loc[u].own /\ loc'[u].form = loc[u].form
        /\ loc'[u].run = loc[u].run /\ loc'[u].buf = loc[u].buf
        /\ loc'[u].fd = "closed" <=> loc[u].fd = "closed"
    BY <1>1, <2>1 DEF Locals
  <2> QED BY <1>1, <2>1, <2>2 DEF LocalsOK, HoldsMeta, Held
<1>3. LocalsOK(t)'
  <2>1. CASE pc[t] = "save_form_write"
    <3>1. /\ loc'[t] = [loc[t] EXCEPT !.fd = "closed", !.buf = None]
          /\ pc'[t] = "plan" /\ on'[t] = on[t]
      BY <2>1 DEF SaveReturn, Goto, Base, TypeOK
    <3>2. /\ loc'[t].own = loc[t].own /\ loc'[t].form = loc[t].form
          /\ loc'[t].run = loc[t].run /\ loc'[t].fd = "closed"
      BY <1>1, <3>1 DEF Locals
    <3> QED BY <1>1, <2>1, <3>1, <3>2 DEF LocalsOK, HoldsMeta, Held, Writing, Converting
  <2>2. CASE pc[t] = "save_write"
    BY <2>2, NoLocalsType, JobStoreAssumption DEF SaveReturn, Respond, Base, TypeOK, LocalsOK, HoldsMeta, Held, Writing, Converting
  <2> QED BY <2>1, <2>2 DEF SaveReturn
<1> QED BY <1>2, <1>3 DEF LocalsInv

(* A write of job.json, failing or not, leaves the locals fitting the      *)
(* label.                                                                  *)
LEMMA LocalsSaveWrite ==
  ASSUME NEW t \in Threads, Base, SaveWrite(t) \/ SaveFails(t)
  PROVE  LocalsInv'
BY LocalsSaveReturn DEF SaveWrite, SaveFails

(* Reading the source and running the pipeline leaves every handler's      *)
(* locals fitting its label.                                               *)
LEMMA LocalsPlan ==
  ASSUME NEW t \in Threads, Base, Plan(t)
  PROVE  LocalsInv'
<1>1. ASSUME NEW u \in Threads, u # t PROVE LocalsOK(u)'
  BY <1>1, LocalsFrame
  DEF Plan, Goto, Respond, Base, TypeOK, LocalsInv, LocalsOK, HoldsMeta, Held
<1>2. LocalsOK(t)'
  BY NoLocalsType, JobStoreAssumption
  DEF Plan, Goto, Respond, Base, TypeOK, LocalsInv, LocalsOK, HoldsMeta, Held, Writing, Converting
<1> QED BY <1>1, <1>2 DEF LocalsInv

(* The FortiManager bundle of convert() leaves every handler's locals      *)
(* fitting its label.                                                      *)
LEMMA LocalsBundle ==
  ASSUME NEW t \in Threads, Base, Bundle(t)
  PROVE  LocalsInv'
<1>1. loc[t] \in Locals /\ loc[t].form \in Form /\ LocalsOK(t)
  BY DEF Base, TypeOK, LocalsInv, LocalsOK, Bundle, Locals, Converting
<1>2. PICK f \in Form : /\ loc' = [loc EXCEPT ![t] = [loc[t] EXCEPT !.form = f]]
                        /\ pc' = [pc EXCEPT ![t] = "main"] /\ pc[t] = "fmg"
                        /\ UNCHANGED <<on, jobs>>
  <2> DEFINE written == Held(t).vendor # "fortios" /\ loc[t].form.fmg /\ dir[on[t]]
  <2>1. written \in BOOLEAN
    BY <1>1 DEF Base, TypeOK, Form
  <2>2. [loc[t].form EXCEPT !.fmg = written] \in Form
    BY <1>1, <2>1, FormUpdate
  <2>3. /\ loc' = [loc EXCEPT ![t] = [loc[t] EXCEPT !.form =
                                        [loc[t].form EXCEPT !.fmg = written]]]
        /\ pc' = [pc EXCEPT ![t] = "main"] /\ pc[t] = "fmg"
        /\ UNCHANGED <<on, jobs>>
    BY DEF Bundle, Goto
  <2> HIDE DEF written
  <2> QED BY <2>2, <2>3
<1>3. f # None
  BY JobStoreAssumption
<1>4. ASSUME NEW u \in Threads, u # t PROVE LocalsOK(u)'
  BY <1>2, <1>4, LocalsFrame DEF Base, TypeOK, LocalsInv, LocalsOK, HoldsMeta, Held
<1>5. LocalsOK(t)'
  <2>1. loc'[t] = [loc[t] EXCEPT !.form = f] /\ pc'[t] = "main"
    BY <1>2 DEF Base, TypeOK
  <2>2. /\ loc'[t].own = loc[t].own /\ loc'[t].form = f
        /\ loc'[t].run = loc[t].run /\ loc'[t].fd = loc[t].fd
    BY <1>1, <2>1 DEF Locals
  <2> QED BY <1>1, <1>2, <1>3, <2>1, <2>2 DEF LocalsOK, HoldsMeta, Held, Writing, Converting
<1> QED BY <1>4, <1>5 DEF LocalsInv

(* Writing one artifact leaves every handler's locals fitting its label.   *)
LEMMA LocalsWriteArtifact ==
  ASSUME NEW t \in Threads, NEW k \in {"main", "branches", "report", "diff"}, Base,
         WriteArtifact(t, k)
  PROVE  LocalsInv'
<1>1. ASSUME NEW u \in Threads, u # t PROVE LocalsOK(u)'
  BY <1>1, LocalsFrame
  DEF WriteArtifact, Goto, Respond, Base, TypeOK, LocalsInv, LocalsOK, HoldsMeta, Held
<1>2. LocalsOK(t)'
  <2>1. LocalsOK(t) /\ pc[t] = k
    BY DEF Base, LocalsInv, WriteArtifact
  <2>2. CASE loc' = loc /\ on' = on /\ pc' = [pc EXCEPT ![t] = After(k, Held(t).vendor)]
    <3>1. Held(t)' = Held(t) /\ pc'[t] = After(k, Held(t).vendor)
      BY <2>2 DEF Held, WriteArtifact, Base, TypeOK
    <3> QED BY <2>1, <2>2, <3>1 DEF After, LocalsOK, HoldsMeta, Writing, Converting
  <2>3. CASE Respond(t) /\ loc' = [loc EXCEPT ![t] = NoLocals]
    BY <2>3, NoLocalsType DEF Respond, Base, TypeOK, LocalsOK, HoldsMeta, Held, Writing, Converting
  <2> QED BY <2>2, <2>3 DEF WriteArtifact, Goto
<1> QED BY <1>1, <1>2 DEF LocalsInv

(* A failing artifact write leaves every handler's locals fitting its      *)
(* label.                                                                  *)
LEMMA LocalsArtifactFails ==
  ASSUME NEW t \in Threads, NEW k \in {"main", "branches", "report", "diff"}, Base,
         ArtifactFails(t, k)
  PROVE  LocalsInv'
<1>1. ASSUME NEW u \in Threads, u # t PROVE LocalsOK(u)'
  BY <1>1, LocalsFrame
  DEF ArtifactFails, Respond, Base, TypeOK, LocalsInv, LocalsOK, HoldsMeta, Held
<1>2. LocalsOK(t)'
  BY NoLocalsType DEF ArtifactFails, Respond, Base, TypeOK, LocalsOK, HoldsMeta, Held, Writing, Converting
<1> QED BY <1>1, <1>2 DEF LocalsInv

(* Storing meta["result"] leaves every handler's locals fitting its        *)
(* label.                                                                  *)
LEMMA LocalsRecord ==
  ASSUME NEW t \in Threads, Base, Record(t)
  PROVE  LocalsInv'
<1>1. on[t] \in Jobs /\ pc[t] = "record" /\ LocalsOK(t) /\ Held(t) \in Meta
  BY HeldType DEF Base, TypeOK, LocalsInv, LocalsOK, Record, HoldsMeta
<1>2. LocalsOK(t)'
  BY <1>1, NoLocalsType DEF Record, Goto, Base, TypeOK, LocalsOK, HoldsMeta, Held, Writing, Converting
<1>3. \A i \in Jobs : jobs[i] # None => jobs'[i] # None /\ jobs'[i].vendor = jobs[i].vendor
  <2>1. CASE loc[t].own # None
    BY <2>1, RecordStep
  <2>2. CASE loc[t].own = None
    <3>1. jobs'[on[t]] \in Meta /\ jobs'[on[t]].vendor = jobs[on[t]].vendor
      BY <2>2, RecordStep DEF Base, TypeOK
    <3>2. \A i \in Jobs : i # on[t] => jobs'[i] = jobs[i]
      BY <2>2, RecordStep DEF Base, TypeOK
    <3> QED BY <3>1, <3>2, JobStoreAssumption
  <2> QED BY <2>1, <2>2
<1>4. ASSUME NEW u \in Threads, u # t PROVE LocalsOK(u)'
  BY <1>3, <1>4, LocalsFrame
  DEF Record, Goto, Base, TypeOK, LocalsInv, LocalsOK, HoldsMeta, Held
<1> QED BY <1>2, <1>4 DEF LocalsInv

(* The rmtree of delete() leaves every handler's locals fitting its        *)
(* label.                                                                  *)
LEMMA LocalsDelete ==
  ASSUME NEW t \in Threads, NEW j \in Jobs, Base, Delete(t, j)
  PROVE  LocalsInv'
<1>1. ASSUME NEW u \in Threads, u # t PROVE LocalsOK(u)'
  <2>1. /\ UNCHANGED <<pc[u], on[u], jobs>>
        /\ loc'[u] = IF on[u] = j /\ loc[u].fd # "closed"
                     THEN [loc[u] EXCEPT !.fd = "gone"] ELSE loc[u]
    BY <1>1 DEF Delete, Begin, Base, TypeOK
  <2>2. /\ loc'[u].own = loc[u].own /\ loc'[u].form = loc[u].form
        /\ loc'[u].run = loc[u].run /\ loc'[u].buf = loc[u].buf
        /\ loc'[u].fd = "closed" <=> loc[u].fd = "closed"
    BY <2>1 DEF Base, TypeOK, Locals
  <2> QED BY <2>1, <2>2 DEF Base, LocalsInv, LocalsOK, HoldsMeta, Held
<1>2. LocalsOK(t)'
  <2>1. loc'[t] = loc[t] /\ pc'[t] = "pop" /\ on'[t] = j /\ LocalsOK(t) /\ pc[t] = "idle"
    BY JobStoreAssumption
    DEF Delete, Begin, Base, TypeOK, LocalsInv, LocalsOK, Writing
  <2> QED BY <2>1, JobStoreAssumption DEF LocalsOK, HoldsMeta, Held, Writing, Converting
<1> QED BY <1>1, <1>2 DEF LocalsInv

(* The JOBS.pop of delete() leaves every handler's locals fitting its      *)
(* label.                                                                  *)
LEMMA LocalsPop ==
  ASSUME NEW t \in Threads, Base, Pop(t)
  PROVE  LocalsInv'
<1>1. on[t] \in Jobs
  BY DEF Base, TypeOK, LocalsInv, LocalsOK, Pop
<1>2. ASSUME NEW u \in Threads, u # t PROVE LocalsOK(u)'
  BY <1>1, <1>2, LocalsDetach DEF Pop, Respond, Base, TypeOK
<1>3. LocalsOK(t)'
  BY <1>1, NoLocalsType DEF Pop, Respond, Detach, Base, TypeOK, LocalsOK, HoldsMeta, Held, Writing, Converting
<1> QED BY <1>2, <1>3 DEF LocalsInv

(* A restart (_load_jobs) leaves every handler's locals fitting its        *)
(* label.                                                                  *)
LEMMA LocalsRestart ==
  ASSUME Base, Restart
  PROVE  LocalsInv'
BY NoLocalsType DEF Restart, LocalsInv, LocalsOK, HoldsMeta, Held, Writing, Converting

-----------------------------------------------------------------------------
(* What a step of a handler leaves alone: the other handlers keep their    *)
(* place, and nothing about the other jobs changes.                        *)

Frame(t, j) ==
  /\ on[t] \in {j, None}
  /\ on'[t] \in {j, None}
  /\ \A u \in Threads : u # t => /\ UNCHANGED <<pc[u], on[u]>>
                                 /\ on[u] # j => UNCHANGED loc[u]
  /\ \A i \in Jobs : i # j =>
       /\ UNCHANGED <<jobs[i], dir[i], source[i], json[i], art[i], life[i]>>
       /\ i \in dirty' <=> i \in dirty

(* A request that arrives about job j leaves all other jobs alone.         *)
LEMMA FrameRequest ==
  ASSUME NEW t \in Threads, NEW j \in Jobs, Base,
         \/ \E u \in Uploads : Load(t, j, u)
         \/ Open(t, j)
         \/ \E f \in Forms : Convert(t, j, f)
         \/ \E S \in SUBSET Fixes : Recall(t, j, S)
         \/ Delete(t, j)
  PROVE  Frame(t, j)
<1>0. on[t] = None
  BY DEF Load, Open, Convert, Recall, Delete, Begin, Base, LocalsInv, LocalsOK
<1>1. CASE \E u \in Uploads : Load(t, j, u)
  BY <1>0, <1>1 DEF Base, TypeOK, Load, Begin, Frame
<1>2. CASE Open(t, j)
  BY <1>0, <1>2 DEF Base, TypeOK, Open, Begin, Frame, disk
<1>3. CASE \E f \in Forms : Convert(t, j, f)
  BY <1>0, <1>3 DEF Base, TypeOK, Convert, Submit, Begin, Frame, disk
<1>4. CASE \E S \in SUBSET Fixes : Recall(t, j, S)
  BY <1>0, <1>4 DEF Base, TypeOK, Recall, Begin, Frame, disk
<1>5. CASE Delete(t, j)
  BY <1>0, <1>5 DEF Base, TypeOK, Delete, Begin, Frame
<1> QED BY <1>1, <1>2, <1>3, <1>4, <1>5

(* A handler that takes a step is about some job.                          *)
LEMMA StepOn ==
  ASSUME NEW t \in Threads, Base, Step(t) \/ SaveFails(t) \/
           \E k \in {"main", "branches", "report", "diff"} : ArtifactFails(t, k)
  PROVE  pc[t] # "idle" /\ on[t] \in Jobs
<1>1. pc[t] # "idle"
  BY DEF Step, Register, Heal, Replay, SaveOpen, SaveWrite, SaveFails, Plan, Bundle,
         WriteArtifact, ArtifactFails, Record, Pop
<1> QED BY <1>1 DEF Base, TypeOK, LocalsInv, LocalsOK

(* A handler's step leaves alone every job but the one it is about.        *)
LEMMA FrameStep ==
  ASSUME NEW t \in Threads, Base, Step(t) \/ SaveFails(t) \/
           \E k \in {"main", "branches", "report", "diff"} : ArtifactFails(t, k)
  PROVE  Frame(t, on[t])
<1> DEFINE j == on[t]
<1>0. j \in Jobs
  BY StepOn
<1>1. CASE Register(t)
  BY <1>0, <1>1 DEF Base, TypeOK, Register, Respond, Goto, Frame, history
<1>2. CASE Heal(t)
  <2>1. \A u \in Threads : u # t /\ on[u] # j => UNCHANGED loc[u]
    BY <1>0, <1>2 DEF Base, TypeOK, Heal, Detach
  <2>2. \A i \in Jobs : i # j => UNCHANGED jobs[i]
    BY <1>0, <1>2 DEF Base, TypeOK, Heal
  <2> QED BY <1>0, <1>2, <2>1, <2>2 DEF Base, TypeOK, Heal, Respond, Goto, Frame, disk, history
<1>3. CASE Replay(t)
  BY <1>0, <1>3 DEF Base, TypeOK, Replay, Submit, Respond, Goto, Frame, disk, history
<1>4. CASE SaveOpen(t)
  BY <1>0, <1>4 DEF Base, TypeOK, SaveOpen, Respond, Goto, Frame, history
<1>5. CASE SaveWrite(t) \/ SaveFails(t)
  <2>1. on'[t] \in {j, None} /\ \A u \in Threads : u # t =>
          UNCHANGED <<pc[u], on[u]>> /\ (on[u] # j => UNCHANGED loc[u])
    BY <1>0, <1>5 DEF Base, TypeOK, SaveWrite, SaveFails, SaveReturn, Respond, Goto
  <2>2. \A i \in Jobs : i # j => UNCHANGED json[i] /\ (i \in dirty' <=> i \in dirty)
    BY <1>0, <1>5 DEF Base, TypeOK, SaveWrite, SaveFails, history
  <2> QED BY <1>0, <1>5, <2>1, <2>2 DEF SaveWrite, SaveFails, Frame, history
<1>6. CASE Plan(t)
  BY <1>0, <1>6 DEF Base, TypeOK, Plan, Respond, Goto, Frame, disk, history
<1>7. CASE Bundle(t)
  <2>1. \A i \in Jobs : i # j => UNCHANGED art[i]
    BY <1>0, <1>7 DEF Base, TypeOK, Bundle
  <2>2. \A u \in Threads : u # t => UNCHANGED loc[u]
    BY <1>0, <1>7 DEF Base, TypeOK, Bundle
  <2> QED BY <1>0, <1>7, <2>1, <2>2 DEF Base, TypeOK, Bundle, Goto, Frame, history
<1>8. CASE \E k \in {"main", "branches", "report", "diff"} :
             WriteArtifact(t, k) \/ ArtifactFails(t, k)
  BY <1>0, <1>8
  DEF Base, TypeOK, WriteArtifact, ArtifactFails, Respond, Goto, Frame, history
<1>9. CASE Record(t)
  <2>1. \A i \in Jobs : i # j => UNCHANGED jobs[i]
    BY <1>0, <1>9 DEF Base, TypeOK, Record
  <2> QED BY <1>0, <1>9, <2>1 DEF Base, TypeOK, Record, Goto, Frame, disk, history
<1>10. CASE Pop(t)
  <2>1. \A u \in Threads : u # t /\ on[u] # j => UNCHANGED loc[u]
    BY <1>0, <1>10 DEF Base, TypeOK, Pop, Detach
  <2> QED BY <1>0, <1>10, <2>1 DEF Base, TypeOK, Pop, Respond, Frame, history
<1> QED BY <1>1, <1>2, <1>3, <1>4, <1>5, <1>6, <1>7, <1>8, <1>9, <1>10 DEF Step

-----------------------------------------------------------------------------
(* BirthInv: once a job is born and registered, no step can disturb it.    *)

LEMMA BirthFrame ==
  ASSUME NEW t \in Threads, NEW j \in Jobs, Base, Frame(t, j),
         life[j] # "unborn", life'[j] # "unborn", pc'[t] # "register",
         \A u \in Threads : u # t /\ on[u] = j => pc[u] # "register"
  PROVE  BirthInv'
<1>0. /\ on \in [Threads -> Jobs \cup {None}] /\ None \notin Jobs
      /\ \A u \in Threads : pc[u] = "register" => on[u] \in Jobs
  BY JobStoreAssumption DEF Base, TypeOK, LocalsInv, LocalsOK
<1>1. ASSUME NEW u \in Threads, pc'[u] = "register"
      PROVE  /\ u # t /\ pc[u] = "register" /\ on'[u] = on[u] /\ on[u] # j
             /\ on[u] \in Jobs
  BY <1>0, <1>1 DEF Frame
<1>2. ASSUME NEW i \in Jobs, life'[i] = "unborn"
      PROVE  ~dir'[i] /\ source'[i] = None /\ Quiet(i)'
  <2>1. i # j /\ life[i] = "unborn" /\ ~dir'[i] /\ source'[i] = None /\ Quiet(i)
    BY <1>2 DEF Frame, Base, BirthInv
  <2>2. \A u \in Threads : on'[u] # i
    BY <1>0, <2>1 DEF Frame, Quiet, Busy
  <2> QED BY <2>1, <2>2 DEF Quiet, Busy
<1>3. ASSUME NEW i \in Jobs,
             life'[i] = "unborn" \/ \E u \in Threads : on'[u] = i /\ pc'[u] = "register"
      PROVE  jobs'[i] = None /\ json'[i] = None /\ art'[i] = NoArtifacts
  BY <1>1, <1>3 DEF Frame, Base, BirthInv
<1>4. ASSUME NEW u \in Threads, pc'[u] = "register"
      PROVE  /\ source'[on'[u]] # None
             /\ life'[on'[u]] = "given"
             /\ \A v \in Threads : on'[v] = on'[u] => v = u
  <2>1. u # t /\ pc[u] = "register" /\ on'[u] = on[u] /\ on[u] # j /\ on[u] \in Jobs
    BY <1>1, <1>4
  <2>2. source'[on[u]] # None /\ life'[on[u]] = "given"
    BY <2>1 DEF Frame, Base, BirthInv
  <2>3. \A v \in Threads : on'[v] = on[u] => v = u
    BY <1>0, <2>1 DEF Frame, Base, BirthInv
  <2> QED BY <2>1, <2>2, <2>3
<1> QED BY <1>2, <1>3, <1>4 DEF BirthInv

(* The first part of load() (_source.conf is written) touches no job       *)
(* whose jid load() has not drawn or registered yet.                       *)
LEMMA BirthLoad ==
  ASSUME NEW t \in Threads, NEW j \in Jobs, NEW w \in Uploads, Base, Load(t, j, w)
  PROVE  BirthInv'
<1>0. /\ w # None /\ None \notin Jobs
      /\ \A u \in Threads : pc[u] = "register" => on[u] \in Jobs /\ on[u] # j
      /\ pc[t] = "idle" /\ on[t] = None
  BY JobStoreAssumption
  DEF Base, TypeOK, LocalsInv, LocalsOK, BirthInv, Load, Begin, Quiet, Busy
<1>1. /\ pc' = [pc EXCEPT ![t] = "register"] /\ on' = [on EXCEPT ![t] = j]
      /\ dir' = [dir EXCEPT ![j] = TRUE] /\ source' = [source EXCEPT ![j] = w]
      /\ life[j] = "unborn" /\ life' = [life EXCEPT ![j] = "given"]
      /\ UNCHANGED <<jobs, json, art>>
  BY DEF Load, Begin
<1>2. /\ jobs[j] = None /\ json[j] = None /\ art[j] = NoArtifacts
      /\ \A u \in Threads : on[u] # j
  BY <1>1 DEF Base, BirthInv, Quiet, Busy
<1>3. ASSUME NEW i \in Jobs, life'[i] = "unborn"
      PROVE  ~dir'[i] /\ source'[i] = None /\ Quiet(i)'
  <2>1. i # j /\ life[i] = "unborn"
    BY <1>1, <1>3 DEF Base, TypeOK
  <2> QED BY <1>1, <2>1 DEF Base, TypeOK, BirthInv, Quiet, Busy
<1>4. ASSUME NEW i \in Jobs,
             life'[i] = "unborn" \/ \E u \in Threads : on'[u] = i /\ pc'[u] = "register"
      PROVE  jobs'[i] = None /\ json'[i] = None /\ art'[i] = NoArtifacts
  BY <1>1, <1>2, <1>4 DEF Base, TypeOK, BirthInv
<1>5. ASSUME NEW u \in Threads, pc'[u] = "register"
      PROVE  /\ source'[on'[u]] # None
             /\ life'[on'[u]] = "given"
             /\ \A v \in Threads : on'[v] = on'[u] => v = u
  <2>1. CASE u = t
    BY <1>0, <1>1, <1>2, <2>1 DEF Base, TypeOK
  <2>2. CASE u # t
    BY <1>0, <1>1, <1>2, <1>5, <2>2 DEF Base, TypeOK, BirthInv
  <2> QED BY <2>1, <2>2
<1> QED BY <1>3, <1>4, <1>5 DEF BirthInv

(* Any request but load() is about a job that is already registered.       *)
LEMMA BirthRequest ==
  ASSUME NEW t \in Threads, NEW j \in Jobs, Base,
         \/ Open(t, j)
         \/ \E f \in Forms : Convert(t, j, f)
         \/ \E S \in SUBSET Fixes : Recall(t, j, S)
         \/ Delete(t, j)
  PROVE  BirthInv'
<1>1. Frame(t, j)
  BY FrameRequest
<1>2. jobs[j] # None /\ pc'[t] # "register" /\ life'[j] \in {life[j], "doomed"}
  BY DEF Open, Convert, Recall, Delete, Begin, Base, TypeOK
<1>3. life[j] # "unborn" /\ \A u \in Threads : on[u] = j => pc[u] # "register"
  BY <1>2 DEF Base, BirthInv
<1> QED BY <1>1, <1>2, <1>3, BirthFrame

(* Any handler step touches no job whose jid load() has not drawn or       *)
(* registered yet.                                                         *)
LEMMA BirthStep ==
  ASSUME NEW t \in Threads, Base, Step(t) \/ SaveFails(t) \/
           \E k \in {"main", "branches", "report", "diff"} : ArtifactFails(t, k)
  PROVE  BirthInv'
<1>1. pc[t] # "idle" /\ on[t] \in Jobs /\ Frame(t, on[t])
  BY StepOn, FrameStep
<1>2. life[on[t]] # "unborn" /\ UNCHANGED life
  BY <1>1 DEF Base, BirthInv, Quiet, Busy, Step, Register, Heal, Replay, SaveOpen, SaveWrite,
      SaveFails, Plan, Bundle, WriteArtifact, ArtifactFails, Record, Pop, history
<1>3. \A u \in Threads : u # t /\ on[u] = on[t] => pc[u] # "register"
  BY <1>1 DEF Base, BirthInv
<1>4. pc'[t] # "register"
  BY DEF Base, TypeOK, Step, Register, Heal, Replay, SaveOpen, SaveWrite, SaveReturn,
      SaveFails, Plan, Bundle, WriteArtifact, After, ArtifactFails, Record, Pop, Goto, Respond
<1> QED BY <1>1, <1>2, <1>3, <1>4, BirthFrame

(* A restart (_load_jobs) touches no job whose jid load() has not drawn    *)
(* or registered yet.                                                      *)
LEMMA BirthRestart ==
  ASSUME Base, Restart
  PROVE  BirthInv'
BY JobStoreAssumption DEF Base, BirthInv, Restart, LoadJobs, Quiet, Busy, disk

-----------------------------------------------------------------------------
(* A freshly started server has typed state, no handler and no half-born   *)
(* job.                                                                    *)
LEMMA BaseInit == Init => Base
<1> SUFFICES ASSUME Init PROVE Base
  OBVIOUS
<1>2. OldMeta \in Meta
  BY DEF OldMeta, Meta, Vendors
<1>1. \A j \in Jobs : LoadJobs[j] = IF j \in OldJobs THEN OldMeta ELSE None
  BY <1>2, JobStoreAssumption DEF Init, LoadJobs
<1>3. TypeOK
  BY <1>1, <1>2, NoLocalsType, JobStoreAssumption
  DEF Init, TypeOK, LoadJobs, NoArtifacts, Label
<1>4. LocalsInv
  BY NoLocalsType, JobStoreAssumption
  DEF Init, LocalsInv, LocalsOK, HoldsMeta, Held, Writing, Converting
<1>5. BirthInv
  BY <1>1, JobStoreAssumption DEF Init, BirthInv, Quiet, Busy
<1> QED BY <1>3, <1>4, <1>5 DEF Base

(* The arrival of any request preserves types, locals and births           *)
(* together.                                                               *)
LEMMA BaseRequest ==
  ASSUME NEW t \in Threads, Base, Request(t)
  PROVE  Base'
<1>1. ASSUME NEW j \in Jobs, NEW u \in Uploads, Load(t, j, u) PROVE Base'
  BY <1>1, TypeLoad, LocalsLoad, BirthLoad DEF Base
<1>2. ASSUME NEW j \in Jobs, Open(t, j) PROVE Base'
  BY <1>2, TypeOpen, LocalsOpen, BirthRequest DEF Base
<1>3. ASSUME NEW j \in Jobs, NEW f \in Forms, Convert(t, j, f) PROVE Base'
  BY <1>3, TypeConvert, LocalsConvert, BirthRequest DEF Base
<1>4. ASSUME NEW j \in Jobs, NEW S \in SUBSET Fixes, Recall(t, j, S) PROVE Base'
  BY <1>4, TypeRecall, LocalsRecall, BirthRequest DEF Base
<1>5. ASSUME NEW j \in Jobs, Delete(t, j) PROVE Base'
  BY <1>5, TypeDelete, LocalsDelete, BirthRequest DEF Base
<1>6. ASSUME NEW j \in Jobs, Rerun(t, j) PROVE Base'
  BY <1>4, <1>6 DEF Rerun
<1>7. ASSUME NEW j \in Jobs, NEW x \in Fixes, ApplyFix(t, j, x) PROVE Base'
  <2>1. {x} \in SUBSET Fixes /\ Recall(t, j, {x})
    BY <1>7 DEF ApplyFix
  <2> QED BY <1>4, <2>1
<1> QED BY <1>1, <1>2, <1>3, <1>5, <1>6, <1>7 DEF Request

(* Any handler step preserves types, locals and births together.           *)
LEMMA BaseStep ==
  ASSUME NEW t \in Threads, Base, Step(t)
  PROVE  Base'
<1>0. BirthInv'
  BY BirthStep
<1>1. CASE Register(t)
  BY <1>0, <1>1, TypeRegister, LocalsRegister DEF Base
<1>2. CASE Heal(t)
  BY <1>0, <1>2, TypeHeal, LocalsHeal DEF Base
<1>3. CASE Replay(t)
  BY <1>0, <1>3, TypeReplay, LocalsReplay DEF Base
<1>4. CASE SaveOpen(t)
  BY <1>0, <1>4, TypeSaveOpen, LocalsSaveOpen DEF Base
<1>5. CASE SaveWrite(t)
  BY <1>0, <1>5, TypeSaveWrite, LocalsSaveWrite DEF Base
<1>6. CASE Plan(t)
  BY <1>0, <1>6, TypePlan, LocalsPlan DEF Base
<1>7. CASE Bundle(t)
  BY <1>0, <1>7, TypeBundle, LocalsBundle DEF Base
<1>8. ASSUME NEW k \in {"main", "branches", "report", "diff"}, WriteArtifact(t, k)
      PROVE  Base'
  BY <1>0, <1>8, TypeWriteArtifact, LocalsWriteArtifact DEF Base
<1>9. CASE Record(t)
  BY <1>0, <1>9, TypeRecord, LocalsRecord DEF Base
<1>10. CASE Pop(t)
  BY <1>0, <1>10, TypePop, LocalsPop DEF Base
<1> QED BY <1>1, <1>2, <1>3, <1>4, <1>5, <1>6, <1>7, <1>8, <1>9, <1>10 DEF Step

(* Any fault preserves types, locals and births together.                  *)
LEMMA BaseFault ==
  ASSUME Base, Fault
  PROVE  Base'
<1>1. CASE Restart
  BY <1>1, TypeRestart, LocalsRestart, BirthRestart DEF Base
<1>2. ASSUME NEW t \in Threads, SaveFails(t) PROVE Base'
  BY <1>2, TypeSaveFails, LocalsSaveWrite, BirthStep DEF Base
<1>3. ASSUME NEW t \in Threads, NEW k \in {"main", "branches", "report", "diff"},
             ArtifactFails(t, k)
      PROVE  Base'
  BY <1>3, TypeArtifactFails, LocalsArtifactFails, BirthStep DEF Base
<1> QED BY <1>1, <1>2, <1>3 DEF Fault

(* A step that changes nothing preserves types, locals and births          *)
(* together.                                                               *)
LEMMA BaseStutter ==
  ASSUME Base, UNCHANGED vars
  PROVE  Base'
BY DEF Base, TypeOK, LocalsInv, LocalsOK, HoldsMeta, Held, BirthInv, Quiet, Busy, vars

(* Types, the fit of locals and labels, and the births of jobs hold        *)
(* throughout.                                                             *)
THEOREM BaseInductive == Spec => []Base
<1>1. Init => Base
  BY BaseInit
<1>2. Base /\ [Next]_vars => Base'
  BY BaseRequest, BaseStep, BaseFault, BaseStutter DEF Next
<1> QED BY <1>1, <1>2, PTL DEF Spec

(* Every variable keeps its type: no job enters JOBS or job.json with an   *)
(* unresolved target, and no handler acts without the locals it needs.     *)
THEOREM TypeCorrect == Spec => []TypeOK
<1>1. Base => TypeOK
  BY DEF Base
<1> QED BY <1>1, BaseInductive, PTL

-----------------------------------------------------------------------------
(* FilesInv.                                                               *)

Kept == {"main", "branches", "report", "diff"}

(* A step about job j can only disturb what FilesInv says of j.            *)
LEMMA FilesFrame ==
  ASSUME NEW t \in Threads, NEW j \in Jobs, Base, FilesInv, Frame(t, j),
         life'[j] = "given" => FilesOK(j)'
  PROVE  FilesInv'
<1>1. ASSUME NEW i \in Jobs, i # j, life'[i] = "given" PROVE FilesOK(i)'
  <2>1. UNCHANGED <<jobs[i], source[i], json[i], art[i]>> /\ FilesOK(i)
    BY <1>1 DEF Frame, FilesInv
  <2>2. ASSUME NEW u \in Threads, on'[u] = i
        PROVE  on[u] = i /\ UNCHANGED <<pc[u], on[u], loc[u]>>
    BY <1>1, <2>2, JobStoreAssumption DEF Frame
  <2>3. ASSUME NEW u \in Threads, on'[u] = i
        PROVE  Held(u)' = Held(u) /\ (HoldsMeta(u)' <=> HoldsMeta(u))
    BY <2>1, <2>2, <2>3 DEF Held, HoldsMeta
  <2> QED BY <2>1, <2>2, <2>3 DEF FilesOK
<1> QED BY <1>1 DEF FilesInv

(* No file of j disappears: what was there for a result still is.          *)
LEMMA FilesKept ==
  ASSUME NEW j \in Jobs, \A k \in Kept : art[j][k] # 0 => art'[j][k] # 0
  PROVE  /\ \A m : FilesOf(m, art[j]) => FilesOf(m, art'[j])
         /\ \A l, v : WrittenBy(l, v, art[j]) => WrittenBy(l, v, art'[j])
BY DEF Kept, FilesOf, WrittenBy

(* What a step of t must show for a job that nobody has deleted.  For the  *)
(* other handlers of j it is enough that they hold the same dict, up to a  *)
(* form or a result.                                                       *)
LEMMA FilesStep ==
  ASSUME NEW t \in Threads, NEW j \in Jobs, Base, FilesOK(j), Frame(t, j), FilesInv,
         source[j] # None, source'[j] = source[j],
         \A k \in Kept : art[j][k] # 0 => art'[j][k] # 0,
         jobs'[j] # None => FilesOf(jobs'[j], art'[j]),
         json'[j] \notin {None, Torn} => FilesOf(json'[j], art'[j]),
         \A u \in Threads : u # t /\ on[u] = j =>
           /\ loc'[u].buf = loc[u].buf
           /\ loc'[u].own # None => FilesOf(loc'[u].own, art'[j])
           /\ HoldsMeta(u) => Held(u)'.vendor = Held(u).vendor,
         on'[t] = j =>
           /\ loc'[t].buf # None => FilesOf(loc'[t].buf, art'[j])
           /\ loc'[t].own # None => FilesOf(loc'[t].own, art'[j])
           /\ HoldsMeta(t)' => WrittenBy(pc'[t], Held(t)'.vendor, art'[j])
  PROVE  FilesInv'
<1>1. ASSUME NEW u \in Threads, on'[u] = j, u # t
      PROVE  /\ loc'[u].buf # None => FilesOf(loc'[u].buf, art'[j])
             /\ loc'[u].own # None => FilesOf(loc'[u].own, art'[j])
             /\ HoldsMeta(u)' => WrittenBy(pc'[u], Held(u)'.vendor, art'[j])
  <2>1. on[u] = j /\ UNCHANGED <<pc[u], on[u]>>
    BY <1>1 DEF Frame
  <2>2. loc[u].buf # None => FilesOf(loc[u].buf, art[j])
    BY <2>1 DEF FilesOK
  <2>3. HoldsMeta(u) => WrittenBy(pc[u], Held(u).vendor, art[j])
    BY <2>1 DEF FilesOK
  <2>4. HoldsMeta(u)' <=> HoldsMeta(u)
    BY <2>1 DEF HoldsMeta
  <2> QED BY <1>1, <2>1, <2>2, <2>3, <2>4, FilesKept
<1>2. FilesOK(j)'
  BY <1>1 DEF FilesOK
<1> QED BY <1>2, FilesFrame

(* In a step that leaves JOBS and the dicts of the handlers alone, every   *)
(* other handler keeps what it holds.                                      *)
LEMMA FilesSame ==
  ASSUME NEW t \in Threads, NEW j \in Jobs, Base, FilesOK(j), Frame(t, j),
         UNCHANGED jobs,
         \A k \in Kept : art[j][k] # 0 => art'[j][k] # 0,
         NEW u \in Threads, u # t, on[u] = j,
         loc'[u].own = loc[u].own
  PROVE  /\ loc'[u].own # None => FilesOf(loc'[u].own, art'[j])
         /\ Held(u)' = Held(u)
<1>1. loc[u].own # None => FilesOf(loc[u].own, art[j])
  BY DEF FilesOK
<1>2. Held(u)' = Held(u)
  BY DEF Held, Frame
<1> QED BY <1>1, <1>2, FilesKept

(* The first part of load() (_source.conf is written) keeps a file on      *)
(* disk for everything a kept result points at.                            *)
LEMMA FilesLoad ==
  ASSUME NEW t \in Threads, NEW j \in Jobs, NEW w \in Uploads, Base, FilesInv, Load(t, j, w)
  PROVE  FilesInv'
<1>1. Frame(t, j)
  BY FrameRequest
<1>2. /\ jobs[j] = None /\ json[j] = None /\ \A u \in Threads : on[u] # j
      /\ pc[t] = "idle"
  BY DEF Load, Begin, Base, BirthInv, Quiet, Busy
<1>3. /\ loc[t].buf = None /\ loc[t].own = None
  BY <1>2 DEF Base, LocalsInv, LocalsOK, Writing, HoldsMeta
<1>4. /\ jobs'[j] = None /\ json'[j] = None /\ source'[j] = w /\ loc' = loc
      /\ pc'[t] = "register" /\ \A u \in Threads : on'[u] = j => u = t
  BY <1>2 DEF Load, Begin, Base, TypeOK
<1>5. w # None
  BY JobStoreAssumption
<1>6. FilesOK(j)'
  BY <1>3, <1>4, <1>5 DEF FilesOK, HoldsMeta
<1> QED BY <1>1, <1>6, FilesFrame

(* The rest of load() (refuse, or enter JOBS) keeps a file on disk for     *)
(* everything a kept result points at.                                     *)
LEMMA FilesRegister ==
  ASSUME NEW t \in Threads, Base, FilesInv, Register(t)
  PROVE  FilesInv'
<1>0. PICK j \in Jobs : j = on[t]
  BY StepOn DEF Step
<1>1. Frame(t, j) /\ pc[t] = "register"
  BY <1>0, FrameStep DEF Step, Register
<1>2. /\ jobs[j] = None /\ json[j] = None /\ source[j] \in Uploads
      /\ \A v \in Threads : on[v] = j => v = t
  BY <1>0, <1>1 DEF Base, BirthInv, TypeOK
<1>3. loc[t].buf = None /\ loc[t].own = None
  BY <1>1 DEF Base, LocalsInv, LocalsOK, Writing, HoldsMeta
<1>4. UNCHANGED <<json, art, loc>> /\ \A v \in Threads : on'[v] = j => v = t
  BY <1>1, <1>2 DEF Register, Frame
<1>5. CASE source[j].target = Bad
  <2>1. UNCHANGED jobs /\ \A v \in Threads : on'[v] # j
    BY <1>0, <1>1, <1>4, <1>5, JobStoreAssumption DEF Register, Respond, Base, TypeOK
  <2>2. FilesOK(j)'
    BY <1>2, <1>4, <2>1 DEF FilesOK
  <2> QED BY <1>1, <2>2, FilesFrame
<1>6. CASE source[j].target # Bad
  <2> DEFINE u == source[j]
  <2>1. /\ u.target \in Hosts \cup {None}
        /\ u.picked \in Vendors \cup {None}
    BY <1>2, <1>6, JobStoreAssumption DEF UploadType, Vendors
  <2>2. [Analyze(u, u.picked) EXCEPT !.target = u.target].result = None
    BY <1>2, <2>1, AnalyzeType, MetaUpdate
  <2>3. /\ jobs'[j].result = None /\ source'[j] = u /\ pc'[t] = "save"
    BY <1>0, <1>1, <1>6, <2>2 DEF Register, Goto, Base, TypeOK
  <2>4. FilesOK(j)'
    BY <1>2, <1>3, <1>4, <2>3, JobStoreAssumption DEF FilesOK, FilesOf, HoldsMeta
  <2> QED BY <1>1, <2>4, FilesFrame
<1> QED BY <1>5, <1>6

(* The handlers that start: they hold no text and no dict of their own.    *)
LEMMA FilesOpenRecall ==
  ASSUME NEW t \in Threads, NEW j \in Jobs, Base, FilesInv,
         Open(t, j) \/ \E S \in SUBSET Fixes : Recall(t, j, S)
  PROVE  FilesInv'
<1>1. Frame(t, j) /\ jobs[j] # None /\ UNCHANGED <<jobs, disk, life>>
  BY FrameRequest DEF Open, Recall
<1>2. CASE life[j] # "given"
  BY <1>1, <1>2, FilesFrame
<1>3. CASE life[j] = "given"
  <2>1. FilesOK(j) /\ source[j] # None
    BY <1>1, <1>3 DEF FilesInv, FilesOK
  <2>2. \A u \in Threads : u # t => loc'[u] = loc[u]
    BY DEF Open, Recall, Base, TypeOK
  <2>3. /\ pc'[t] \in {"heal", "replay"} /\ loc'[t].own = None /\ loc'[t].buf = None
        /\ on'[t] = j
    <3>1. CASE Open(t, j)
      BY <3>1 DEF Open, Begin, Base, TypeOK, LocalsInv, LocalsOK, HoldsMeta, Writing
    <3>2. ASSUME NEW S \in SUBSET Fixes, Recall(t, j, S)
          PROVE  /\ pc'[t] \in {"heal", "replay"} /\ loc'[t].own = None
                 /\ loc'[t].buf = None /\ on'[t] = j
      BY <3>2 DEF Recall, Begin, Base, TypeOK, NoLocals
    <3> QED BY <3>1, <3>2
  <2>4. WrittenBy(pc'[t], Held(t)'.vendor, art'[j])
    BY <2>3 DEF WrittenBy
  <2>5. /\ FilesOf(jobs'[j], art'[j])
        /\ json'[j] \notin {None, Torn} => FilesOf(json'[j], art'[j])
        /\ source'[j] = source[j] /\ art'[j] = art[j]
    BY <1>1, <2>1 DEF FilesOK, disk
  <2> QED BY <1>1, <2>1, <2>2, <2>3, <2>4, <2>5, FilesStep, FilesSame
<1> QED BY <1>2, <1>3

(* convert() stores the form: the results stay where they are.             *)
LEMMA FilesSubmit ==
  ASSUME NEW t \in Threads, NEW j \in Jobs, NEW f \in Form, NEW r \in Runs, Base,
         FilesInv, Frame(t, j), jobs[j] # None, Submit(t, j, f, r),
         UNCHANGED <<disk, life>>, pc'[t] = "save_form"
  PROVE  FilesInv'
<1>1. jobs[j] \in Meta /\ jobs'[j] = [jobs[j] EXCEPT !.form = f]
  BY DEF Base, TypeOK, Submit
<1>2. /\ jobs'[j] \in Meta /\ jobs'[j].result = jobs[j].result
      /\ jobs'[j].vendor = jobs[j].vendor
  BY <1>1, MetaUpdate
<1>3. CASE life[j] # "given"
  BY <1>3, FilesFrame
<1>4. CASE life[j] = "given"
  <2>1. FilesOK(j) /\ source[j] # None
    BY <1>4 DEF FilesInv, FilesOK
  <2>2. ASSUME NEW u \in Threads, u # t, on[u] = j
        PROVE  /\ loc'[u] = loc[u]
               /\ loc'[u].own # None => FilesOf(loc'[u].own, art'[j])
               /\ HoldsMeta(u) => Held(u)'.vendor = Held(u).vendor
    <3>1. loc'[u] = loc[u] /\ on'[u] = on[u]
      BY <2>2 DEF Submit, Base, TypeOK, Frame
    <3>2. Held(u)'.vendor = Held(u).vendor
      BY <1>2, <2>2, <3>1 DEF Held
    <3> QED BY <2>1, <2>2, <3>1, <3>2 DEF FilesOK, disk
  <2>3. loc'[t].own = None /\ loc'[t].buf = None
    BY DEF Submit, Base, TypeOK, NoLocals
  <2>4. WrittenBy(pc'[t], Held(t)'.vendor, art'[j])
    BY DEF WrittenBy
  <2>5. /\ FilesOf(jobs'[j], art'[j])
        /\ json'[j] \notin {None, Torn} => FilesOf(json'[j], art'[j])
        /\ source'[j] = source[j] /\ art'[j] = art[j]
    BY <1>2, <2>1 DEF FilesOK, FilesOf, disk
  <2> QED BY <2>1, <2>2, <2>3, <2>4, <2>5, FilesStep
<1> QED BY <1>3, <1>4

(* A convert request keeps a file on disk for everything a kept result     *)
(* points at.                                                              *)
LEMMA FilesConvert ==
  ASSUME NEW t \in Threads, NEW j \in Jobs, NEW f \in Forms, Base, FilesInv,
         Convert(t, j, f)
  PROVE  FilesInv'
<1>1. f \in Form /\ runs + 1 \in Runs
  BY JobStoreAssumption DEF Base, TypeOK, Convert, Runs
<1>2. Frame(t, j) /\ pc'[t] = "save_form"
  BY FrameRequest DEF Convert, Begin, Base, TypeOK
<1> QED BY <1>1, <1>2, FilesSubmit DEF Convert

(* The call of convert() from rerun or apply_fix keeps a file on disk for  *)
(* everything a kept result points at.                                     *)
LEMMA FilesReplay ==
  ASSUME NEW t \in Threads, Base, FilesInv, Replay(t)
  PROVE  FilesInv'
<1>0. PICK j \in Jobs : j = on[t]
  BY StepOn DEF Step
<1>1. Frame(t, j) /\ UNCHANGED <<disk, life>>
  BY <1>0, FrameStep DEF Step, Replay, history
<1>2. CASE jobs[j] = None
  <2>1. /\ UNCHANGED jobs /\ on'[t] = None /\ None \notin Jobs
        /\ \A u \in Threads : u # t => loc'[u] = loc[u]
    BY <1>0, <1>2, JobStoreAssumption DEF Replay, Respond, Base, TypeOK
  <2>2. life[j] = "given" => FilesOK(j)
    BY DEF FilesInv
  <2>3. life[j] = "given" => FilesOK(j)'
    <3>1. \A u \in Threads : on'[u] = j => UNCHANGED <<pc[u], on[u], loc[u]>>
      BY <1>1, <2>1 DEF Frame
    <3> QED BY <1>1, <2>1, <2>2, <3>1 DEF FilesOK, Held, HoldsMeta, disk
  <2> QED BY <1>1, <2>3, FilesFrame
<1>3. CASE jobs[j] # None
  <2>1. loc[t].form \in Form /\ loc[t].run \in Runs
    BY JobStoreAssumption DEF Base, TypeOK, LocalsInv, LocalsOK, Replay, Locals, Runs
  <2>2. Submit(t, j, loc[t].form, loc[t].run) /\ pc'[t] = "save_form"
    BY <1>0, <1>3 DEF Replay, Goto, Base, TypeOK
  <2> QED BY <1>1, <1>3, <2>1, <2>2, FilesSubmit
<1> QED BY <1>2, <1>3

(* A dict that replaces the old one keeps its result; the other handlers   *)
(* keep the old dict.                                                      *)
LEMMA FilesHeal ==
  ASSUME NEW t \in Threads, Base, FilesInv, Heal(t)
  PROVE  FilesInv'
<1>0. PICK j \in Jobs : j = on[t]
  BY StepOn DEF Step
<1>1. Frame(t, j) /\ UNCHANGED <<disk, life>> /\ HoldsMeta(t)
  BY <1>0, FrameStep DEF Step, Heal, history, HoldsMeta
<1>2. CASE life[j] # "given"
  BY <1>1, <1>2, FilesFrame
<1>3. CASE life[j] = "given"
  <2>1. FilesOK(j) /\ source[j] # None
    BY <1>0, <1>3 DEF FilesInv, FilesOK
  <2>2. Detach(t, j) /\ pc'[t] = "save" /\ source[j] \in Uploads
    BY <1>0, <2>1 DEF Heal, Goto, Base, TypeOK
  <2>3. Held(t) \in Meta /\ FilesOf(Held(t), art[j])
    <3>1. Held(t) \in Meta
      BY <1>1, HeldType
    <3> QED BY <1>0, <2>1, <3>1, JobStoreAssumption DEF FilesOK, Held
  <2>4. jobs'[j].result = Held(t).result
    <3>1. [Analyze(source[j], None) EXCEPT !.result = Held(t).result].result = Held(t).result
      BY <2>2, <2>3, AnalyzeType, MetaUpdate DEF Meta
    <3> QED BY <1>0, <2>1, <3>1 DEF Heal, Base, TypeOK
  <2>5. ASSUME NEW u \in Threads, u # t, on[u] = j
        PROVE  /\ loc'[u].buf = loc[u].buf
               /\ loc'[u].own # None => FilesOf(loc'[u].own, art'[j])
               /\ HoldsMeta(u) => Held(u)'.vendor = Held(u).vendor
    <3>1. UNCHANGED <<pc[u], on[u]>>
      BY <1>1, <2>5 DEF Frame
    <3>2. \A i \in Jobs : i # j => jobs'[i] = jobs[i]
      BY <1>1 DEF Frame
    <3>3. HoldsMeta(u) => Held(u)' = Held(u)
      BY <2>2, <2>5, <3>1, <3>2, LocalsDetach
    <3>4. CASE HoldsMeta(u) /\ loc[u].own = None
      <4>1. loc'[u] = [loc[u] EXCEPT !.own = jobs[j]] /\ jobs[j] # None
        BY <2>2, <2>5, <3>4 DEF Detach, Base, LocalsInv, LocalsOK, Held
      <4>2. loc'[u].own = jobs[j] /\ loc'[u].buf = loc[u].buf
        BY <4>1 DEF Base, TypeOK, Locals
      <4> QED BY <1>1, <2>1, <3>3, <4>1, <4>2 DEF FilesOK, disk
    <3>5. CASE ~(HoldsMeta(u) /\ loc[u].own = None)
      <4>1. loc'[u] = loc[u]
        BY <2>2, <2>5, <3>5 DEF Detach
      <4> QED BY <1>1, <2>1, <2>5, <3>3, <4>1 DEF FilesOK, disk
    <3> QED BY <3>4, <3>5
  <2>6. loc'[t] = NoLocals
    BY <2>2 DEF Detach
  <2>7. /\ FilesOf(jobs'[j], art'[j])
        /\ json'[j] \notin {None, Torn} => FilesOf(json'[j], art'[j])
        /\ source'[j] = source[j] /\ art'[j] = art[j]
    BY <1>1, <2>1, <2>3, <2>4 DEF FilesOK, FilesOf, disk
  <2> QED BY <1>1, <2>1, <2>2, <2>5, <2>6, <2>7, NoLocalsType, FilesStep DEF HoldsMeta
<1> QED BY <1>2, <1>3

(* Opening job.json in _save_job keeps a file on disk for everything a     *)
(* kept result points at.                                                  *)
LEMMA FilesSaveOpen ==
  ASSUME NEW t \in Threads, Base, FilesInv, SaveOpen(t)
  PROVE  FilesInv'
<1>0. PICK j \in Jobs : j = on[t]
  BY StepOn DEF Step
<1>1. /\ Frame(t, j) /\ UNCHANGED <<jobs, source, art, life>>
      /\ \A u \in Threads : u # t => loc'[u] = loc[u]
      /\ json' = json \/ json' = [json EXCEPT ![j] = Torn]
  BY <1>0, FrameStep DEF Step, SaveOpen, history, Base, TypeOK
<1>2. CASE life[j] # "given"
  BY <1>1, <1>2, FilesFrame
<1>3. CASE life[j] = "given"
  <2>1. FilesOK(j) /\ source[j] # None
    BY <1>0, <1>3 DEF FilesInv, FilesOK
  <2>2. /\ jobs'[j] # None => FilesOf(jobs'[j], art'[j])
        /\ json'[j] \notin {None, Torn} => FilesOf(json'[j], art'[j])
        /\ source'[j] = source[j] /\ art'[j] = art[j]
    BY <1>1, <2>1 DEF FilesOK, Base, TypeOK
  <2>3. /\ loc'[t].own \in {None, loc[t].own}
        /\ loc'[t].buf \in {None, jobs[j], loc[t].buf}
    <3>1. CASE loc' = [loc EXCEPT ![t] = [@ EXCEPT !.fd = "clean", !.buf = jobs[j]]]
      BY <3>1 DEF Base, TypeOK, Locals
    <3>2. CASE UNCHANGED loc \/ loc' = [loc EXCEPT ![t] = NoLocals]
      BY <3>2, NoLocalsType DEF Base, TypeOK
    <3> QED BY <1>0, <3>1, <3>2 DEF SaveOpen
  <2>4. pc'[t] \in {"save_form_write", "save_write", "plan", "idle"}
    BY DEF SaveOpen, Goto, Respond, Base, TypeOK
  <2>5. /\ loc'[t].buf # None => FilesOf(loc'[t].buf, art'[j])
        /\ loc'[t].own # None => FilesOf(loc'[t].own, art'[j])
        /\ WrittenBy(pc'[t], Held(t)'.vendor, art'[j])
    BY <1>0, <1>1, <2>1, <2>3, <2>4 DEF FilesOK, WrittenBy
  <2> QED BY <1>1, <2>1, <2>2, <2>5, FilesStep, FilesSame
<1> QED BY <1>2, <1>3

(* A write of job.json, failing or not, saves only results that have       *)
(* their files.                                                            *)
LEMMA FilesSaveWrite ==
  ASSUME NEW t \in Threads, Base, FilesInv, SaveWrite(t) \/ SaveFails(t)
  PROVE  FilesInv'
<1>0. PICK j \in Jobs : j = on[t]
  BY StepOn DEF Step
<1>1. /\ Frame(t, j) /\ UNCHANGED <<jobs, source, art, life>> /\ SaveReturn(t)
      /\ loc[t].buf # None
  BY <1>0, FrameStep
  DEF Step, SaveWrite, SaveFails, history, Base, LocalsInv, LocalsOK, Writing
<1>2. json'[j] \in {json[j], Torn, loc[t].buf}
  BY <1>0 DEF SaveWrite, SaveFails, Written, Base, TypeOK
<1>3. CASE life[j] # "given"
  BY <1>1, <1>3, FilesFrame
<1>4. CASE life[j] = "given"
  <2>1. FilesOK(j) /\ source[j] # None
    BY <1>0, <1>4 DEF FilesInv, FilesOK
  <2>2. /\ jobs'[j] # None => FilesOf(jobs'[j], art'[j])
        /\ json'[j] \notin {None, Torn} => FilesOf(json'[j], art'[j])
        /\ source'[j] = source[j] /\ art'[j] = art[j]
    BY <1>0, <1>1, <1>2, <2>1 DEF FilesOK
  <2>3. ASSUME NEW u \in Threads, u # t
        PROVE  loc'[u].own = loc[u].own /\ loc'[u].buf = loc[u].buf
    <3>1. loc'[u] \in {loc[u], [loc[u] EXCEPT !.fd = "shared"]}
      BY <1>1, <2>3 DEF SaveReturn, Base, TypeOK
    <3> QED BY <3>1 DEF Base, TypeOK, Locals
  <2>4. /\ loc'[t].own \in {None, loc[t].own} /\ loc'[t].buf = None
        /\ pc'[t] \in {"plan", "idle"}
    <3>1. CASE pc[t] = "save_form_write"
      <4>1. /\ loc'[t] = [loc[t] EXCEPT !.fd = "closed", !.buf = None]
            /\ pc'[t] = "plan"
        BY <1>1, <3>1 DEF SaveReturn, Goto, Base, TypeOK
      <4> QED BY <4>1 DEF Base, TypeOK, Locals
    <3>2. CASE pc[t] = "save_write"
      BY <1>1, <3>2, NoLocalsType DEF SaveReturn, Respond, Base, TypeOK
    <3> QED BY <1>1, <3>1, <3>2 DEF SaveReturn
  <2>5. /\ loc'[t].own # None => FilesOf(loc'[t].own, art'[j])
        /\ WrittenBy(pc'[t], Held(t)'.vendor, art'[j])
    BY <1>0, <1>1, <2>1, <2>4 DEF FilesOK, WrittenBy
  <2> QED BY <1>1, <2>1, <2>2, <2>3, <2>4, <2>5, FilesStep, FilesSame
<1> QED BY <1>3, <1>4

(* The steps of convert() that write files or give up.                     *)
LEMMA FilesConverting ==
  ASSUME NEW t \in Threads, NEW j \in Jobs, j = on[t], Base, FilesInv, Frame(t, j),
         UNCHANGED <<jobs, source, json, life>>,
         \A k \in Kept : art[j][k] # 0 => art'[j][k] # 0,
         \A u \in Threads : u # t => loc'[u] = loc[u],
         \/ loc'[t] = NoLocals /\ pc'[t] = "idle"
         \/ /\ loc'[t].own = loc[t].own /\ loc'[t].buf = loc[t].buf
            /\ FilesOK(j) => WrittenBy(pc'[t], Held(t).vendor, art'[j])
  PROVE  FilesInv'
<1>1. CASE life[j] # "given"
  BY <1>1, FilesFrame
<1>2. CASE life[j] = "given"
  <2>1. FilesOK(j) /\ source[j] # None
    BY <1>2 DEF FilesInv, FilesOK
  <2>2. /\ jobs'[j] # None => FilesOf(jobs'[j], art'[j])
        /\ json'[j] \notin {None, Torn} => FilesOf(json'[j], art'[j])
    BY <2>1, FilesKept DEF FilesOK
  <2>3. CASE loc'[t] = NoLocals /\ pc'[t] = "idle"
    BY <2>1, <2>2, <2>3, NoLocalsType, FilesStep, FilesSame DEF HoldsMeta
  <2>4. CASE /\ loc'[t].own = loc[t].own /\ loc'[t].buf = loc[t].buf
             /\ FilesOK(j) => WrittenBy(pc'[t], Held(t).vendor, art'[j])
    <3>1. /\ loc[t].own # None => FilesOf(loc'[t].own, art'[j])
          /\ loc[t].buf # None => FilesOf(loc'[t].buf, art'[j])
      BY <2>1, <2>4, FilesKept DEF FilesOK
    <3>2. on'[t] = j => Held(t)' = Held(t)
      BY <2>4 DEF Held
    <3> QED BY <2>1, <2>2, <2>4, <3>1, <3>2, FilesStep, FilesSame
  <2> QED BY <2>3, <2>4
<1> QED BY <1>1, <1>2

(* Reading the source and running the pipeline keeps a file on disk for    *)
(* everything a kept result points at.                                     *)
LEMMA FilesPlan ==
  ASSUME NEW t \in Threads, Base, FilesInv, Plan(t)
  PROVE  FilesInv'
<1>0. PICK j \in Jobs : j = on[t]
  BY StepOn DEF Step
<1>1. /\ Frame(t, j) /\ UNCHANGED <<jobs, disk, life>>
      /\ \A u \in Threads : u # t => loc'[u] = loc[u]
      /\ \/ loc'[t] = NoLocals /\ pc'[t] = "idle"
         \/ loc'[t] = loc[t] /\ pc'[t] = "fmg"
  BY <1>0, FrameStep DEF Step, Plan, Goto, Respond, history, Base, TypeOK
<1>2. pc'[t] = "fmg" => WrittenBy(pc'[t], Held(t).vendor, art'[j])
  BY DEF WrittenBy
<1> QED BY <1>0, <1>1, <1>2, FilesConverting DEF disk

(* The FortiManager bundle of convert() keeps a file on disk for           *)
(* everything a kept result points at.                                     *)
LEMMA FilesBundle ==
  ASSUME NEW t \in Threads, Base, FilesInv, Bundle(t)
  PROVE  FilesInv'
<1>0. PICK j \in Jobs : j = on[t]
  BY StepOn DEF Step
<1>1. /\ Frame(t, j) /\ UNCHANGED <<jobs, source, json, life>> /\ pc'[t] = "main"
      /\ \A u \in Threads : u # t => loc'[u] = loc[u]
  BY <1>0, FrameStep DEF Step, Bundle, Goto, history, Base, TypeOK
<1>2. \A k \in Kept : art'[j][k] = art[j][k]
  BY <1>0 DEF Bundle, Base, TypeOK, Kept, Artifacts
<1>3. loc'[t].own = loc[t].own /\ loc'[t].buf = loc[t].buf
  <2>1. PICK f : loc'[t] = [loc[t] EXCEPT !.form = f]
    BY DEF Bundle, Base, TypeOK
  <2> QED BY <2>1 DEF Base, TypeOK, Locals
<1>4. WrittenBy(pc'[t], Held(t).vendor, art'[j])
  BY <1>1 DEF WrittenBy
<1> QED BY <1>0, <1>1, <1>2, <1>3, <1>4, FilesConverting

(* Writing one artifact keeps a file on disk for everything a kept result  *)
(* points at.                                                              *)
LEMMA FilesWriteArtifact ==
  ASSUME NEW t \in Threads, NEW k \in {"main", "branches", "report", "diff"},
         Base, FilesInv, WriteArtifact(t, k)
  PROVE  FilesInv'
<1>0. PICK j \in Jobs : j = on[t]
  BY StepOn DEF Step
<1>1. /\ Frame(t, j) /\ UNCHANGED <<jobs, source, json, life>>
      /\ \A u \in Threads : u # t => loc'[u] = loc[u]
      /\ pc[t] = k
  BY <1>0, FrameStep DEF Step, WriteArtifact, Goto, Respond, history, Base, TypeOK
<1>2. CASE dir[j] \/ k = "branches"
  <2>1. /\ art' = [art EXCEPT ![j][k] = loc[t].run] /\ loc' = loc
        /\ pc'[t] = After(k, Held(t).vendor)
    BY <1>0, <1>2 DEF WriteArtifact, Goto, Base, TypeOK
  <2>2. loc[t].run # 0 /\ HoldsMeta(t)
    BY <1>1 DEF Base, LocalsInv, LocalsOK, HoldsMeta, Converting
  <2>3. /\ art'[j][k] # 0
        /\ \A i \in Kept : i # k => art'[j][i] = art[j][i]
    BY <2>1, <2>2 DEF Base, TypeOK, Kept, Artifacts
  <2>4. /\ k = "branches" => Held(t).vendor # "fortios"
        /\ k = "diff" => Held(t).vendor = "fortios"
    BY <1>1 DEF Base, LocalsInv, LocalsOK
  <2>5. FilesOK(j) => WrittenBy(k, Held(t).vendor, art[j])
    BY <1>0, <1>1, <2>2 DEF FilesOK
  <2>6. FilesOK(j) => WrittenBy(pc'[t], Held(t).vendor, art'[j])
    BY <2>1, <2>3, <2>4, <2>5 DEF WrittenBy, After, Kept
  <2> QED BY <1>0, <1>1, <2>1, <2>3, <2>6, FilesConverting
<1>3. CASE ~(dir[j] \/ k = "branches")
  <2>1. UNCHANGED art /\ loc'[t] = NoLocals /\ pc'[t] = "idle"
    BY <1>0, <1>3 DEF WriteArtifact, Respond, Base, TypeOK
  <2> QED BY <1>0, <1>1, <2>1, FilesConverting
<1> QED BY <1>2, <1>3

(* A failing artifact write keeps a file on disk for everything a kept     *)
(* result points at.                                                       *)
LEMMA FilesArtifactFails ==
  ASSUME NEW t \in Threads, NEW k \in {"main", "branches", "report", "diff"},
         Base, FilesInv, ArtifactFails(t, k)
  PROVE  FilesInv'
<1>0. PICK j \in Jobs : j = on[t]
  BY StepOn
<1>1. /\ Frame(t, j) /\ UNCHANGED <<jobs, source, json, life>>
      /\ \A u \in Threads : u # t => loc'[u] = loc[u]
      /\ loc'[t] = NoLocals /\ pc'[t] = "idle"
  BY <1>0, FrameStep DEF ArtifactFails, Respond, Base, TypeOK
<1>2. \A i \in Kept : art[j][i] # 0 => art'[j][i] # 0
  BY <1>0, JobStoreAssumption DEF ArtifactFails, Base, TypeOK, Kept, Artifacts
<1> QED BY <1>0, <1>1, <1>2, FilesConverting

(* The result is recorded when its files are there.                        *)
LEMMA FilesRecord ==
  ASSUME NEW t \in Threads, Base, FilesInv, Record(t)
  PROVE  FilesInv'
<1>0. PICK j \in Jobs : j = on[t]
  BY StepOn DEF Step
<1>1. /\ Frame(t, j) /\ UNCHANGED <<disk, life>> /\ pc[t] = "record" /\ HoldsMeta(t)
      /\ \A u \in Threads : u # t => loc'[u] = loc[u]
      /\ loc'[t] = NoLocals /\ pc'[t] = "save"
  BY <1>0, FrameStep DEF Step, Record, Goto, history, Base, TypeOK, HoldsMeta
<1>2. CASE life[j] # "given"
  BY <1>1, <1>2, FilesFrame
<1>3. CASE life[j] = "given"
  <2>1. FilesOK(j) /\ source[j] # None
    BY <1>0, <1>3 DEF FilesInv, FilesOK
  <2>2. \/ jobs'[j] = jobs[j]
        \/ /\ loc[t].own = None /\ jobs[j] # None /\ jobs'[j].vendor = jobs[j].vendor
           /\ jobs'[j].result = Recorded(t)
    <3>1. CASE loc[t].own # None
      BY <3>1, RecordStep
    <3>2. CASE loc[t].own = None
      <4>1. /\ jobs[j] \in Meta /\ Recorded(t) \in Result
            /\ jobs' = [jobs EXCEPT ![j] = [jobs[j] EXCEPT !.result = Recorded(t)]]
            /\ jobs'[j].vendor = jobs[j].vendor
        BY <1>0, <3>2, RecordStep
      <4>2. jobs'[j].result = Recorded(t) /\ jobs[j] # None
        BY <4>1, MetaUpdate, JobStoreAssumption DEF Base, TypeOK
      <4> QED BY <3>2, <4>1, <4>2
    <3> QED BY <3>1, <3>2
  <2>3. WrittenBy("record", Held(t).vendor, art[j])
    BY <1>0, <1>1, <2>1 DEF FilesOK
  <2>4. /\ jobs'[j] # None => FilesOf(jobs'[j], art'[j])
        /\ json'[j] \notin {None, Torn} => FilesOf(json'[j], art'[j])
        /\ source'[j] = source[j] /\ art'[j] = art[j]
    BY <1>1, <2>1, <2>2, <2>3 DEF FilesOK, FilesOf, WrittenBy, Recorded, disk
  <2>5. ASSUME NEW u \in Threads, u # t, on[u] = j
        PROVE  /\ loc'[u].buf = loc[u].buf
               /\ loc'[u].own # None => FilesOf(loc'[u].own, art'[j])
               /\ HoldsMeta(u) => Held(u)'.vendor = Held(u).vendor
    <3>1. loc'[u] = loc[u] /\ on'[u] = on[u]
      BY <1>1, <2>5 DEF Frame
    <3>2. Held(u)'.vendor = Held(u).vendor
      BY <2>2, <2>5, <3>1 DEF Held
    <3> QED BY <1>1, <2>1, <2>5, <3>1, <3>2 DEF FilesOK, disk
  <2> QED BY <1>1, <2>1, <2>4, <2>5, NoLocalsType, FilesStep DEF HoldsMeta
<1> QED BY <1>2, <1>3

(* The rmtree of delete() keeps a file on disk for everything a kept       *)
(* result points at.                                                       *)
LEMMA FilesDelete ==
  ASSUME NEW t \in Threads, NEW j \in Jobs, Base, FilesInv, Delete(t, j)
  PROVE  FilesInv'
<1>1. Frame(t, j) /\ life'[j] = "doomed"
  BY FrameRequest DEF Delete, Base, TypeOK
<1> QED BY <1>1, FilesFrame

(* The JOBS.pop of delete() keeps a file on disk for everything a kept     *)
(* result points at.                                                       *)
LEMMA FilesPop ==
  ASSUME NEW t \in Threads, Base, FilesInv, Pop(t)
  PROVE  FilesInv'
<1>0. PICK j \in Jobs : j = on[t]
  BY StepOn DEF Step
<1>1. /\ Frame(t, j) /\ UNCHANGED <<source, json, art, life>> /\ Detach(t, j)
      /\ on'[t] = None /\ None \notin Jobs /\ jobs'[j] = None
  BY <1>0, FrameStep, JobStoreAssumption
  DEF Step, Pop, Respond, history, Base, TypeOK
<1>2. CASE life[j] # "given"
  BY <1>1, <1>2, FilesFrame
<1>3. CASE life[j] = "given"
  <2>1. FilesOK(j) /\ source[j] # None
    BY <1>0, <1>3 DEF FilesInv, FilesOK
  <2>2. ASSUME NEW u \in Threads, u # t, on[u] = j
        PROVE  /\ loc'[u].buf = loc[u].buf
               /\ loc'[u].own # None => FilesOf(loc'[u].own, art'[j])
               /\ HoldsMeta(u) => Held(u)'.vendor = Held(u).vendor
    <3>1. UNCHANGED <<pc[u], on[u]>> /\ \A i \in Jobs : i # j => jobs'[i] = jobs[i]
      BY <1>1, <2>2 DEF Frame
    <3>2. HoldsMeta(u) => Held(u)' = Held(u)
      BY <1>1, <2>2, <3>1, LocalsDetach
    <3>3. CASE HoldsMeta(u) /\ loc[u].own = None
      <4>1. loc'[u] = [loc[u] EXCEPT !.own = jobs[j]] /\ jobs[j] # None
        BY <1>1, <2>2, <3>3 DEF Detach, Base, LocalsInv, LocalsOK, Held
      <4>2. loc'[u].own = jobs[j] /\ loc'[u].buf = loc[u].buf
        BY <4>1 DEF Base, TypeOK, Locals
      <4> QED BY <1>1, <2>1, <3>2, <4>1, <4>2 DEF FilesOK
    <3>4. CASE ~(HoldsMeta(u) /\ loc[u].own = None)
      <4>1. loc'[u] = loc[u]
        BY <1>1, <2>2, <3>4 DEF Detach
      <4> QED BY <1>1, <2>1, <2>2, <3>2, <4>1 DEF FilesOK
    <3> QED BY <3>3, <3>4
  <2>3. /\ json'[j] \notin {None, Torn} => FilesOf(json'[j], art'[j])
        /\ source'[j] = source[j] /\ art'[j] = art[j]
    BY <1>1, <2>1 DEF FilesOK
  <2> QED BY <1>1, <2>1, <2>2, <2>3, FilesStep
<1> QED BY <1>2, <1>3

(* After a restart JOBS holds what job.json says.                          *)
LEMMA FilesRestart ==
  ASSUME Base, FilesInv, Restart
  PROVE  FilesInv'
<1>1. ASSUME NEW j \in Jobs, life'[j] = "given" PROVE FilesOK(j)'
  <2>1. FilesOK(j) /\ UNCHANGED disk /\ None \notin Jobs /\ Torn # None
    BY <1>1, JobStoreAssumption DEF Restart, FilesInv
  <2>2. /\ jobs'[j] # None => json[j] \notin {None, Torn} /\ jobs'[j] = json[j]
        /\ \A u \in Threads : on'[u] # j
    BY <2>1 DEF Restart, LoadJobs
  <2> QED BY <2>1, <2>2 DEF FilesOK, disk
<1> QED BY <1>1 DEF FilesInv

(* A freshly started server has no result without its files.               *)
LEMMA FilesInit == Init => FilesInv
<1> SUFFICES ASSUME Init PROVE FilesInv
  OBVIOUS
<1>1. ASSUME NEW j \in Jobs, life[j] = "given" PROVE FilesOK(j)
  <2>1. /\ j \in OldJobs /\ source[j] # None /\ json[j] = OldMeta
        /\ \A t \in Threads : on[t] # j
    BY <1>1, JobStoreAssumption DEF Init
  <2>2. jobs[j] \in {None, json[j]}
    BY DEF Init, LoadJobs
  <2>3. OldMeta.result = None
    BY DEF OldMeta
  <2> QED BY <2>1, <2>2, <2>3 DEF FilesOK, FilesOf
<1> QED BY <1>1 DEF FilesInv

(* A step that changes nothing keeps a file on disk for everything a kept  *)
(* result points at.                                                       *)
LEMMA FilesStutter ==
  ASSUME FilesInv, UNCHANGED vars
  PROVE  FilesInv'
BY DEF FilesInv, FilesOK, Held, HoldsMeta, vars

(* The arrival of any request keeps a file on disk for everything a kept   *)
(* result points at.                                                       *)
LEMMA FilesRequest ==
  ASSUME NEW t \in Threads, Base, FilesInv, Request(t)
  PROVE  FilesInv'
<1>1. ASSUME NEW j \in Jobs, NEW u \in Uploads, Load(t, j, u) PROVE FilesInv'
  BY <1>1, FilesLoad
<1>2. ASSUME NEW j \in Jobs, NEW S \in SUBSET Fixes, Open(t, j) \/ Recall(t, j, S)
      PROVE  FilesInv'
  BY <1>2, FilesOpenRecall
<1>3. ASSUME NEW j \in Jobs, Open(t, j) \/ Rerun(t, j) PROVE FilesInv'
  BY <1>2, <1>3 DEF Rerun
<1>4. ASSUME NEW j \in Jobs, NEW f \in Forms, Convert(t, j, f) PROVE FilesInv'
  BY <1>4, FilesConvert
<1>5. ASSUME NEW j \in Jobs, NEW x \in Fixes, ApplyFix(t, j, x) PROVE FilesInv'
  <2>1. {x} \in SUBSET Fixes /\ Recall(t, j, {x})
    BY <1>5 DEF ApplyFix
  <2> QED BY <1>2, <2>1
<1>6. ASSUME NEW j \in Jobs, Delete(t, j) PROVE FilesInv'
  BY <1>6, FilesDelete
<1> QED BY <1>1, <1>3, <1>4, <1>5, <1>6 DEF Request

(* Any handler step keeps a file on disk for everything a kept result      *)
(* points at.                                                              *)
LEMMA FilesHandler ==
  ASSUME NEW t \in Threads, Base, FilesInv, Step(t)
  PROVE  FilesInv'
<1>1. ASSUME NEW k \in {"main", "branches", "report", "diff"}, WriteArtifact(t, k)
      PROVE  FilesInv'
  BY <1>1, FilesWriteArtifact
<1> QED
  BY <1>1, FilesRegister, FilesHeal, FilesReplay, FilesSaveOpen, FilesSaveWrite, FilesPlan,
     FilesBundle, FilesRecord, FilesPop
  DEF Step

(* Any fault keeps a file on disk for everything a kept result points at.  *)
LEMMA FilesFault ==
  ASSUME Base, FilesInv, Fault
  PROVE  FilesInv'
<1>1. ASSUME NEW t \in Threads, NEW k \in {"main", "branches", "report", "diff"},
             ArtifactFails(t, k)
      PROVE  FilesInv'
  BY <1>1, FilesArtifactFails
<1> QED BY <1>1, FilesRestart, FilesSaveWrite DEF Fault

(* No interleaving and no crash leaves a kept result without its files,    *)
(* for jobs nobody asked to delete.                                        *)
THEOREM FilesInductive == Spec => []FilesInv
<1>1. Init => FilesInv
  BY FilesInit
<1>2. Base /\ FilesInv /\ [Next]_vars => FilesInv'
  BY FilesRequest, FilesHandler, FilesFault, FilesStutter DEF Next
<1> QED BY <1>1, <1>2, BaseInductive, PTL DEF Spec

(* Whatever requests overlap, wherever the server is stopped and whichever *)
(* write fails: a job that nobody asked to delete keeps its source, and    *)
(* the files its recorded result points at are there.                      *)
THEOREM ResultFilesAlwaysExist == Spec => []ResultFilesExist
<1>1. FilesInv => ResultFilesExist
  BY DEF FilesInv, FilesOK, FilesOf, ResultFilesExist
<1> QED BY <1>1, FilesInductive, PTL
-----------------------------------------------------------------------------
(* CleanInv.                                                               *)

LEMMA CleanFrame ==
  ASSUME NEW t \in Threads, NEW j \in Jobs, Base, CleanInv, Frame(t, j),
         j \notin dirty' => CleanOK(j)'
  PROVE  CleanInv'
<1>1. ASSUME NEW i \in Jobs, i # j, i \notin dirty' PROVE CleanOK(i)'
  <2>1. /\ UNCHANGED <<jobs[i], dir[i], source[i], json[i], art[i], life[i]>>
        /\ CleanOK(i)
    BY <1>1 DEF Frame, CleanInv
  <2>2. \A u \in Threads : on'[u] = i <=> on[u] = i
    BY <1>1, JobStoreAssumption DEF Frame
  <2>3. ASSUME NEW u \in Threads, on'[u] = i
        PROVE  on[u] = i /\ UNCHANGED <<pc[u], on[u], loc[u]>>
    BY <1>1, <2>2, <2>3, JobStoreAssumption DEF Frame
  <2>4. Quiet(i)' <=> Quiet(i)
    BY <2>2 DEF Quiet, Busy
  <2>5. CleanQuiet(i) => CleanQuiet(i)'
    BY <2>1 DEF CleanQuiet, Gone, Stored, ArtifactsMatch
  <2>6. ASSUME NEW u \in Threads, on'[u] = i PROVE CleanStep(u, i)'
    <3>1. CleanStep(u, i) /\ UNCHANGED <<pc[u], on[u], loc[u]>>
      BY <2>1, <2>3, <2>6 DEF CleanOK
    <3>2. Stored(i)' <=> Stored(i)
      BY <2>1 DEF Stored
    <3>3. ArtifactsMatch(i)' <=> ArtifactsMatch(i)
      BY <2>1 DEF ArtifactsMatch
    <3>4. Progress(u, i, pc[u])' <=> Progress(u, i, pc[u])
      BY <2>1, <3>1 DEF Progress
    <3> QED BY <2>1, <2>2, <3>1, <3>2, <3>3, <3>4 DEF CleanStep
  <2> QED BY <2>1, <2>4, <2>5, <2>6 DEF CleanOK
<1> QED BY <1>1 DEF CleanInv

(* A request about a job that stays clean finds it quiet.                  *)
LEMMA CleanBegin ==
  ASSUME NEW t \in Threads, NEW j \in Jobs, NEW l, Base, CleanInv, Begin(t, j, l),
         j \notin dirty'
  PROVE  /\ CleanQuiet(j)
         /\ on'[t] = j /\ pc'[t] = l
         /\ \A u \in Threads : on'[u] = j => u = t
         /\ loc[t].own = None /\ loc[t].fd = "closed"
         /\ ~Quiet(j)'
<1>1. j \notin dirty /\ ~Busy(j)
  BY DEF Begin
<1>2. pc[t] = "idle" /\ on' = [on EXCEPT ![t] = j] /\ pc' = [pc EXCEPT ![t] = l]
  BY DEF Begin
<1> QED BY <1>1, <1>2
        DEF CleanInv, CleanOK, Quiet, Busy, Base, TypeOK, LocalsInv, LocalsOK, Writing, HoldsMeta

(* The first part of load() (_source.conf is written) leaves a clean job   *)
(* in step with its directory.                                             *)
LEMMA CleanLoad ==
  ASSUME NEW t \in Threads, NEW j \in Jobs, NEW w \in Uploads, Base, CleanInv, Load(t, j, w)
  PROVE  CleanInv'
<1>1. Frame(t, j) /\ Begin(t, j, "register") /\ UNCHANGED loc /\ dir'[j]
  BY FrameRequest DEF Load, Base, TypeOK
<1>2. ASSUME j \notin dirty' PROVE CleanOK(j)'
  <2>1. CleanStep(t, j)'
    BY <1>1, <1>2, CleanBegin DEF CleanStep
  <2> QED BY <1>1, <1>2, <2>1, CleanBegin DEF CleanOK
<1> QED BY <1>1, <1>2, CleanFrame

(* A GET of a job that needs re-analysis leaves a clean job in step with   *)
(* its directory.                                                          *)
LEMMA CleanOpen ==
  ASSUME NEW t \in Threads, NEW j \in Jobs, Base, CleanInv, Open(t, j)
  PROVE  CleanInv'
<1>1. /\ Frame(t, j) /\ Begin(t, j, "heal") /\ UNCHANGED <<loc, jobs, disk, life>>
      /\ jobs[j] # None
  BY FrameRequest DEF Open
<1>2. ASSUME j \notin dirty' PROVE CleanOK(j)'
  <2>1. CleanQuiet(j)'
    BY <1>1, <1>2, CleanBegin DEF CleanQuiet, Gone, Stored, ArtifactsMatch, disk
  <2>2. CleanStep(t, j)'
    BY <1>1, <1>2, <2>1, CleanBegin DEF CleanStep, CleanQuiet, Writing, Converting
  <2> QED BY <1>1, <1>2, <2>2, CleanBegin DEF CleanOK
<1> QED BY <1>1, <1>2, CleanFrame

(* The rmtree of delete() leaves a clean job in step with its directory.   *)
LEMMA CleanDelete ==
  ASSUME NEW t \in Threads, NEW j \in Jobs, Base, CleanInv, Delete(t, j)
  PROVE  CleanInv'
<1>1. /\ Frame(t, j) /\ Begin(t, j, "pop") /\ UNCHANGED jobs /\ jobs[j] # None
      /\ source'[j] = None /\ json'[j] = None /\ art'[j] = NoArtifacts
      /\ life'[j] = "doomed"
  BY FrameRequest DEF Delete, Base, TypeOK
<1>2. ASSUME j \notin dirty' PROVE CleanOK(j)'
  <2>1. loc[t].own = None /\ loc[t].fd = "closed"
    BY <1>1, <1>2, CleanBegin
  <2>2. loc'[t] = loc[t]
    BY <2>1 DEF Delete
  <2>3. CleanStep(t, j)'
    BY <1>1, <1>2, <2>1, <2>2, CleanBegin DEF CleanStep
  <2> QED BY <1>1, <1>2, <2>3, CleanBegin DEF CleanOK
<1> QED BY <1>1, <1>2, CleanFrame

(* A rerun or apply_fix request leaves a clean job in step with its        *)
(* directory.                                                              *)
LEMMA CleanRecall ==
  ASSUME NEW t \in Threads, NEW j \in Jobs, NEW S \in SUBSET Fixes, Base, CleanInv,
         Recall(t, j, S)
  PROVE  CleanInv'
<1>1. /\ Frame(t, j) /\ Begin(t, j, "replay") /\ UNCHANGED <<jobs, disk, life>>
      /\ jobs[j] # None
  BY FrameRequest DEF Recall
<1>2. loc'[t].own = None /\ loc'[t].fd = "closed"
  BY DEF Recall, Base, TypeOK, NoLocals
<1>3. ASSUME j \notin dirty' PROVE CleanOK(j)'
  <2>1. CleanQuiet(j)'
    BY <1>1, <1>3, CleanBegin DEF CleanQuiet, Gone, Stored, ArtifactsMatch, disk
  <2>2. CleanStep(t, j)'
    BY <1>1, <1>2, <1>3, <2>1, CleanBegin DEF CleanStep, CleanQuiet, Writing, Converting
  <2> QED BY <1>1, <1>3, <2>2, CleanBegin DEF CleanOK
<1> QED BY <1>1, <1>3, CleanFrame

(* The form is stored in a job whose artifacts match its result.           *)
LEMMA CleanSubmit ==
  ASSUME NEW t \in Threads, NEW j \in Jobs, NEW f \in Form, NEW r, Base,
         Submit(t, j, f, r), Stored(j), ArtifactsMatch(j), life[j] = "given",
         UNCHANGED <<disk, life>>, pc'[t] = "save_form", on'[t] = j,
         \A u \in Threads : on'[u] = j => u = t
  PROVE  CleanOK(j)'
<1>1. jobs[j] \in Meta /\ jobs'[j] = [jobs[j] EXCEPT !.form = f]
  BY DEF Base, TypeOK, Submit, Stored
<1>2. /\ jobs'[j] # None /\ jobs'[j].result = jobs[j].result
      /\ jobs'[j].form # None
  BY <1>1, MetaUpdate, JobStoreAssumption
<1>3. loc'[t].own = None /\ loc'[t].fd = "closed"
  BY DEF Submit, Base, TypeOK, NoLocals
<1>4. Stored(j)' /\ ArtifactsMatch(j)'
  BY <1>2 DEF Stored, ArtifactsMatch, disk
<1>5. CleanStep(t, j)'
  BY <1>2, <1>3, <1>4 DEF CleanStep, Writing, Converting
<1> QED BY <1>5 DEF CleanOK, Quiet, Busy

(* A convert request leaves a clean job in step with its directory.        *)
LEMMA CleanConvert ==
  ASSUME NEW t \in Threads, NEW j \in Jobs, NEW f \in Forms, Base, CleanInv,
         Convert(t, j, f)
  PROVE  CleanInv'
<1>1. /\ Frame(t, j) /\ Begin(t, j, "save_form") /\ UNCHANGED <<disk, life>>
      /\ jobs[j] # None /\ Submit(t, j, f, runs + 1)
  BY FrameRequest DEF Convert
<1>2. f \in Form
  BY JobStoreAssumption
<1>3. ASSUME j \notin dirty' PROVE CleanOK(j)'
  <2>1. Stored(j) /\ ArtifactsMatch(j) /\ life[j] = "given"
    BY <1>1, <1>3, CleanBegin DEF CleanQuiet
  <2> QED BY <1>1, <1>2, <1>3, <2>1, CleanBegin, CleanSubmit
<1> QED BY <1>1, <1>3, CleanFrame

(* A handler of a clean job is alone with it; its next step leaves the job *)
(* clean if it reaches the state the next label asks for, or returns with  *)
(* the job as a quiet one must be.                                         *)
LEMMA CleanNext ==
  ASSUME NEW t \in Threads, NEW j \in Jobs, j = on[t], Base, CleanInv, Frame(t, j),
         UNCHANGED dirty,
         CleanStep(t, j) => \/ on'[t] = None /\ CleanQuiet(j)'
                            \/ /\ on'[t] = j
                               /\ (\A u \in Threads : on'[u] = j => u = t)
                                    => CleanStep(t, j)'
  PROVE  CleanInv'
<1>1. ASSUME j \notin dirty' PROVE CleanOK(j)'
  <2>1. CleanStep(t, j)
    BY <1>1 DEF CleanInv, CleanOK
  <2>2. \A u \in Threads : on'[u] = j => u = t
    BY <2>1 DEF CleanStep, Frame
  <2>3. CASE on'[t] = None /\ CleanQuiet(j)'
    BY <2>2, <2>3, JobStoreAssumption DEF CleanOK, Quiet, Busy
  <2>4. CASE on'[t] = j /\ CleanStep(t, j)'
    BY <2>2, <2>4 DEF CleanOK, Quiet, Busy
  <2> QED BY <2>1, <2>2, <2>3, <2>4
<1> QED BY <1>1, CleanFrame

(* The rest of load() (refuse, or enter JOBS) leaves a clean job in step   *)
(* with its directory.                                                     *)
LEMMA CleanRegister ==
  ASSUME NEW t \in Threads, Base, CleanInv, Register(t)
  PROVE  CleanInv'
<1>0. PICK j \in Jobs : j = on[t]
  BY StepOn DEF Step
<1>1. /\ Frame(t, j) /\ pc[t] = "register" /\ UNCHANGED <<json, art, loc, life, dirty>>
  BY <1>0, FrameStep DEF Step, Register, history
<1>2. /\ jobs[j] = None /\ json[j] = None /\ art[j] = NoArtifacts
      /\ source[j] \in Uploads /\ life[j] = "given"
  BY <1>0, <1>1 DEF Base, BirthInv, TypeOK
<1>3. CASE source[j].target = Bad
  <2>1. on'[t] = None /\ ~dir'[j] /\ source'[j] = None /\ UNCHANGED jobs
    BY <1>0, <1>3 DEF Register, Respond, Base, TypeOK
  <2>2. CleanQuiet(j)'
    BY <1>1, <1>2, <2>1 DEF CleanQuiet, Gone
  <2> QED BY <1>0, <1>1, <2>1, <2>2, CleanNext
<1>4. CASE source[j].target # Bad
  <2> DEFINE u == source[j]
             m == [Analyze(u, u.picked) EXCEPT !.target = u.target]
  <2>1. /\ u.target \in Hosts \cup {None}
        /\ u.picked \in Vendors \cup {None}
    BY <1>2, <1>4, JobStoreAssumption DEF UploadType, Vendors
  <2>2. m \in Meta /\ m.result = None
    BY <1>2, <2>1, AnalyzeType, MetaUpdate
  <2>3. /\ jobs'[j] = m /\ source'[j] = u /\ pc'[t] = "save" /\ on'[t] = j
        /\ UNCHANGED dir
    BY <1>0, <1>4 DEF Register, Goto, Base, TypeOK
  <2> HIDE DEF m
  <2>4. ArtifactsMatch(j)'
    BY <1>1, <1>2, <2>2, <2>3 DEF ArtifactsMatch
  <2>5. CleanStep(t, j) => Stored(j)'
    BY <1>1, <1>2, <2>2, <2>3, JobStoreAssumption DEF CleanStep, Stored
  <2>6. CleanStep(t, j) /\ (\A v \in Threads : on'[v] = j => v = t) => CleanStep(t, j)'
    BY <1>1, <1>2, <2>3, <2>4, <2>5 DEF CleanStep, Writing, Converting
  <2> QED BY <1>0, <1>1, <2>3, <2>6, CleanNext
<1> QED BY <1>3, <1>4

(* The re-analysis in job() leaves a clean job in step with its            *)
(* directory.                                                              *)
LEMMA CleanHeal ==
  ASSUME NEW t \in Threads, Base, CleanInv, Heal(t)
  PROVE  CleanInv'
<1>0. PICK j \in Jobs : j = on[t]
  BY StepOn DEF Step
<1>1. Frame(t, j) /\ UNCHANGED <<disk, life, dirty>> /\ HoldsMeta(t) /\ pc[t] = "heal"
  BY <1>0, FrameStep DEF Step, Heal, history, HoldsMeta
<1>2. ASSUME CleanStep(t, j), \A v \in Threads : on'[v] = j => v = t
      PROVE  on'[t] = j /\ CleanStep(t, j)'
  <2>1. /\ loc[t].own = None /\ Stored(j) /\ life[j] = "given" /\ ArtifactsMatch(j)
    BY <1>1, <1>2 DEF CleanStep
  <2>2. source[j] \in Uploads /\ Held(t) = jobs[j] /\ jobs[j] \in Meta
    BY <1>0, <2>1 DEF Stored, Base, TypeOK, Held
  <2>3. on'[t] = j /\ pc'[t] = "save" /\ loc'[t] = NoLocals
    BY <1>0, <2>1 DEF Heal, Goto, Detach, Stored, Base, TypeOK
  <2>4. /\ jobs'[j] = [Analyze(source[j], None) EXCEPT !.result = jobs[j].result]
        /\ jobs'[j] \in Meta /\ jobs'[j].result = jobs[j].result
    <3>1. jobs'[j] = [Analyze(source[j], None) EXCEPT !.result = jobs[j].result]
      BY <1>0, <2>1, <2>2 DEF Heal, Stored, Base, TypeOK
    <3>2. jobs[j].result \in Result \cup {None}
      BY <2>2 DEF Meta
    <3> QED BY <2>2, <3>1, <3>2, AnalyzeType, MetaUpdate
  <2>5. Stored(j)' /\ ArtifactsMatch(j)'
    BY <1>1, <2>1, <2>4, JobStoreAssumption DEF Stored, ArtifactsMatch, disk
  <2> QED BY <1>1, <1>2, <2>1, <2>3, <2>5, NoLocalsType DEF CleanStep, Writing, Converting
<1>3. CleanStep(t, j) => on'[t] = j
  BY <1>0, <1>1 DEF CleanStep, Heal, Goto, Stored
<1> QED BY <1>0, <1>1, <1>2, <1>3, CleanNext

(* The call of convert() from rerun or apply_fix leaves a clean job in     *)
(* step with its directory.                                                *)
LEMMA CleanReplay ==
  ASSUME NEW t \in Threads, Base, CleanInv, Replay(t)
  PROVE  CleanInv'
<1>0. PICK j \in Jobs : j = on[t]
  BY StepOn DEF Step
<1>1. Frame(t, j) /\ UNCHANGED <<disk, life, dirty>> /\ pc[t] = "replay"
  BY <1>0, FrameStep DEF Step, Replay, history
<1>2. ASSUME j \notin dirty' PROVE CleanOK(j)'
  <2>1. CleanStep(t, j)
    BY <1>0, <1>1, <1>2 DEF CleanInv, CleanOK
  <2>2. /\ Stored(j) /\ life[j] = "given" /\ ArtifactsMatch(j)
        /\ \A u \in Threads : on'[u] = j => u = t
    BY <1>1, <2>1 DEF CleanStep, Frame
  <2>3. Submit(t, j, loc[t].form, loc[t].run) /\ pc'[t] = "save_form" /\ on'[t] = j
    BY <1>0, <2>2 DEF Replay, Goto, Base, TypeOK, Stored
  <2>4. loc[t].form \in Form
    BY <1>1 DEF Base, TypeOK, LocalsInv, LocalsOK, Locals
  <2> QED BY <1>1, <2>2, <2>3, <2>4, CleanSubmit
<1> QED BY <1>1, <1>2, CleanFrame

(* Opening job.json in _save_job leaves a clean job in step with its       *)
(* directory.                                                              *)
LEMMA CleanSaveOpen ==
  ASSUME NEW t \in Threads, Base, CleanInv, SaveOpen(t)
  PROVE  CleanInv'
<1>0. PICK j \in Jobs : j = on[t]
  BY StepOn DEF Step
<1>1. /\ Frame(t, j) /\ UNCHANGED <<jobs, dir, source, art, life, dirty>>
      /\ pc[t] \in {"save_form", "save"}
  BY <1>0, FrameStep DEF Step, SaveOpen, history
<1>2. ASSUME CleanStep(t, j)
      PROVE  /\ on'[t] = j
             /\ (\A v \in Threads : on'[v] = j => v = t) => CleanStep(t, j)'
  <2>1. /\ loc[t].own = None /\ Stored(j) /\ life[j] = "given" /\ ArtifactsMatch(j)
        /\ pc[t] \in Converting => jobs[j].form # None
    BY <1>1, <1>2 DEF CleanStep
  <2>2. /\ loc' = [loc EXCEPT ![t] = [@ EXCEPT !.fd = "clean", !.buf = jobs[j]]]
        /\ on'[t] = j
        /\ pc'[t] = IF pc[t] = "save_form" THEN "save_form_write" ELSE "save_write"
    BY <1>0, <2>1 DEF SaveOpen, Goto, Stored, Base, TypeOK
  <2>3. loc'[t].own = None /\ loc'[t].fd = "clean" /\ loc'[t].buf = jobs[j]
    BY <2>1, <2>2 DEF Base, TypeOK, Locals
  <2>4. Stored(j)' /\ ArtifactsMatch(j)'
    BY <1>1, <2>1 DEF Stored, ArtifactsMatch
  <2> QED BY <1>1, <2>1, <2>2, <2>3, <2>4 DEF CleanStep, Writing, Converting
<1> QED BY <1>0, <1>1, <1>2, CleanNext

(* Writing job.json in _save_job leaves a clean job in step with its       *)
(* directory.                                                              *)
LEMMA CleanSaveWrite ==
  ASSUME NEW t \in Threads, Base, CleanInv, SaveWrite(t)
  PROVE  CleanInv'
<1>0. PICK j \in Jobs : j = on[t]
  BY StepOn DEF Step
<1>1. /\ Frame(t, j) /\ UNCHANGED <<jobs, dir, source, art, life, dirty>>
      /\ pc[t] \in {"save_form_write", "save_write"} /\ SaveReturn(t)
  BY <1>0, FrameStep DEF Step, SaveWrite, history
<1>2. ASSUME CleanStep(t, j)
      PROVE  \/ on'[t] = None /\ CleanQuiet(j)'
             \/ /\ on'[t] = j
                /\ (\A v \in Threads : on'[v] = j => v = t) => CleanStep(t, j)'
  <2>1. /\ loc[t].own = None /\ Stored(j) /\ life[j] = "given" /\ ArtifactsMatch(j)
        /\ loc[t].fd = "clean" /\ loc[t].buf = jobs[j]
        /\ pc[t] \in Converting => jobs[j].form # None
    BY <1>1, <1>2 DEF CleanStep, Writing, Base, LocalsInv, LocalsOK
  <2>2. json'[j] = jobs[j]
    BY <1>0, <2>1 DEF SaveWrite, Written, Base, TypeOK
  <2>3. Stored(j)' /\ ArtifactsMatch(j)'
    BY <1>1, <2>1 DEF Stored, ArtifactsMatch
  <2>4. CASE pc[t] = "save_write"
    <3>1. on'[t] = None
      BY <1>1, <2>4 DEF SaveReturn, Respond, Base, TypeOK
    <3> QED BY <1>1, <2>1, <2>2, <2>3, <3>1 DEF CleanQuiet, Stored
  <2>5. CASE pc[t] = "save_form_write"
    <3>1. /\ loc'[t] = [loc[t] EXCEPT !.fd = "closed", !.buf = None]
          /\ pc'[t] = "plan" /\ on'[t] = j
      BY <1>0, <1>1, <2>5 DEF SaveReturn, Goto, Base, TypeOK
    <3>2. loc'[t].own = None /\ loc'[t].fd = "closed"
      BY <2>1, <3>1 DEF Base, TypeOK, Locals
    <3> QED BY <1>1, <2>1, <2>2, <2>3, <2>5, <3>1, <3>2 DEF CleanStep, Writing, Converting
  <2> QED BY <1>1, <2>4, <2>5
<1> QED BY <1>0, <1>1, <1>2, CleanNext

(* A write that fails ends the clean life of its job.                      *)
LEMMA CleanFails ==
  ASSUME NEW t \in Threads, Base, CleanInv,
         SaveFails(t) \/ \E k \in {"main", "branches", "report", "diff"} : ArtifactFails(t, k)
  PROVE  CleanInv'
<1>0. PICK j \in Jobs : j = on[t]
  BY StepOn
<1>1. Frame(t, j) /\ j \in dirty'
  BY <1>0, FrameStep DEF SaveFails, ArtifactFails
<1> QED BY <1>1, CleanFrame

(* Reading the source and running the pipeline leaves a clean job in step  *)
(* with its directory.                                                     *)
LEMMA CleanPlan ==
  ASSUME NEW t \in Threads, Base, CleanInv, Plan(t)
  PROVE  CleanInv'
<1>0. PICK j \in Jobs : j = on[t]
  BY StepOn DEF Step
<1>1. Frame(t, j) /\ UNCHANGED <<jobs, disk, life, dirty>> /\ pc[t] = "plan"
  BY <1>0, FrameStep DEF Step, Plan, history
<1>2. ASSUME CleanStep(t, j)
      PROVE  \/ on'[t] = None /\ CleanQuiet(j)'
             \/ /\ on'[t] = j
                /\ (\A v \in Threads : on'[v] = j => v = t) => CleanStep(t, j)'
  <2>1. /\ loc[t].own = None /\ Stored(j) /\ life[j] = "given" /\ ArtifactsMatch(j)
        /\ loc[t].fd \in {"closed", "clean"} /\ json[j] = jobs[j]
        /\ jobs[j].form # None
    BY <1>1, <1>2 DEF CleanStep, Converting
  <2>2. Stored(j)' /\ ArtifactsMatch(j)'
    BY <1>1, <2>1 DEF Stored, ArtifactsMatch, disk
  <2>3. CASE Respond(t)
    <3>1. on'[t] = None
      BY <2>3 DEF Respond, Base, TypeOK
    <3> QED BY <1>1, <2>1, <2>2, <3>1 DEF CleanQuiet, Stored, disk
  <2>4. CASE Goto(t, "fmg") /\ UNCHANGED loc
    <3>1. pc'[t] = "fmg" /\ on'[t] = j
      BY <1>0, <2>4 DEF Goto, Base, TypeOK
    <3> QED BY <1>1, <2>1, <2>2, <2>4, <3>1 DEF CleanStep, Writing, Converting, disk
  <2> QED BY <2>3, <2>4 DEF Plan
<1> QED BY <1>0, <1>1, <1>2, CleanNext

(* The FortiManager bundle of convert() leaves a clean job in step with    *)
(* its directory.                                                          *)
LEMMA CleanBundle ==
  ASSUME NEW t \in Threads, Base, CleanInv, Bundle(t)
  PROVE  CleanInv'
<1>0. PICK j \in Jobs : j = on[t]
  BY StepOn DEF Step
<1>1. /\ Frame(t, j) /\ UNCHANGED <<jobs, dir, source, json, life, dirty>>
      /\ pc[t] = "fmg" /\ pc'[t] = "main" /\ on'[t] = j
  BY <1>0, FrameStep DEF Step, Bundle, Goto, history, Base, TypeOK
<1>2. /\ loc'[t].own = loc[t].own /\ loc'[t].fd = loc[t].fd
      /\ art'[j]["fmg"] = IF loc'[t].form.fmg THEN loc'[t].run ELSE 0
  <2> DEFINE written == Held(t).vendor # "fortios" /\ loc[t].form.fmg /\ dir[j]
             f == [loc[t].form EXCEPT !.fmg = written]
  <2>1. loc[t].form \in Form /\ loc[t] \in Locals
    BY <1>1 DEF Base, TypeOK, LocalsInv, LocalsOK, Converting, Locals
  <2>2. f.fmg = written
    BY <2>1 DEF Form
  <2>3. /\ loc'[t] = [loc[t] EXCEPT !.form = f]
        /\ art'[j]["fmg"] = IF written THEN loc[t].run ELSE 0
    BY <1>0 DEF Bundle, Base, TypeOK, Artifacts
  <2> HIDE DEF f, written
  <2>4. /\ loc'[t].own = loc[t].own /\ loc'[t].fd = loc[t].fd
        /\ loc'[t].form = f /\ loc'[t].run = loc[t].run
    BY <2>1, <2>3 DEF Locals
  <2> QED BY <2>2, <2>3, <2>4
<1>3. Progress(t, j, "main")'
  BY <1>2 DEF Progress
<1>4. ASSUME CleanStep(t, j)
      PROVE  (\A v \in Threads : on'[v] = j => v = t) => CleanStep(t, j)'
  BY <1>1, <1>2, <1>3, <1>4 DEF CleanStep, Stored, Writing, Converting
<1> QED BY <1>0, <1>1, <1>4, CleanNext

(* Writing one artifact leaves a clean job in step with its directory.     *)
LEMMA CleanWriteArtifact ==
  ASSUME NEW t \in Threads, NEW k \in {"main", "branches", "report", "diff"},
         Base, CleanInv, WriteArtifact(t, k)
  PROVE  CleanInv'
<1>0. PICK j \in Jobs : j = on[t]
  BY StepOn DEF Step
<1>1. /\ Frame(t, j) /\ UNCHANGED <<jobs, source, json, life, dirty>> /\ pc[t] = k
      /\ HoldsMeta(t)
  BY <1>0, FrameStep DEF Step, WriteArtifact, history, HoldsMeta
<1>2. ASSUME CleanStep(t, j)
      PROVE  /\ on'[t] = j
             /\ (\A v \in Threads : on'[v] = j => v = t) => CleanStep(t, j)'
  <2>1. /\ loc[t].own = None /\ Stored(j) /\ life[j] = "given" /\ json[j] = jobs[j]
        /\ loc[t].fd \in {"closed", "clean"} /\ jobs[j].form # None
        /\ k # "main" => Progress(t, j, k)
        /\ art[j]["fmg"] = IF loc[t].form.fmg THEN loc[t].run ELSE 0
    BY <1>1, <1>2 DEF CleanStep, Converting, Progress
  <2>2. Held(t) = jobs[j]
    BY <1>0, <2>1 DEF Held
  <2>3. /\ art' = [art EXCEPT ![j][k] = loc[t].run] /\ UNCHANGED <<loc, on>>
        /\ pc'[t] = After(k, jobs[j].vendor) /\ dir'[j]
    BY <1>0, <2>1, <2>2 DEF WriteArtifact, Goto, Stored, Base, TypeOK
  <2>4. /\ art'[j][k] = loc[t].run
        /\ \A i \in Artifacts : i # k => art'[j][i] = art[j][i]
    BY <2>3 DEF Base, TypeOK, Artifacts
  <2>5. /\ k = "branches" => jobs[j].vendor # "fortios"
        /\ k = "diff" => jobs[j].vendor = "fortios"
    BY <1>1, <2>2 DEF Base, LocalsInv, LocalsOK
  <2>6. Progress(t, j, pc[t])'
    BY <1>1, <2>1, <2>3, <2>4, <2>5 DEF Progress, After, Artifacts
  <2>7. pc'[t] \in {"branches", "report", "diff", "record"} /\ Stored(j)'
    BY <1>1, <2>1, <2>3 DEF After, Stored
  <2> QED BY <1>0, <1>1, <2>1, <2>3, <2>6, <2>7 DEF CleanStep, Writing, Converting
<1> QED BY <1>0, <1>1, <1>2, CleanNext

(* Storing meta["result"] leaves a clean job in step with its directory.   *)
LEMMA CleanRecord ==
  ASSUME NEW t \in Threads, Base, CleanInv, Record(t)
  PROVE  CleanInv'
<1>0. PICK j \in Jobs : j = on[t]
  BY StepOn DEF Step
<1>1. /\ Frame(t, j) /\ UNCHANGED <<disk, life, dirty>> /\ pc[t] = "record"
      /\ loc'[t] = NoLocals /\ pc'[t] = "save" /\ on'[t] = j
  BY <1>0, FrameStep DEF Step, Record, Goto, history, Base, TypeOK
<1>2. ASSUME CleanStep(t, j)
      PROVE  (\A v \in Threads : on'[v] = j => v = t) => CleanStep(t, j)'
  <2>1. /\ loc[t].own = None /\ Stored(j) /\ life[j] = "given"
        /\ Progress(t, j, "record")
    BY <1>1, <1>2 DEF CleanStep, Converting
  <2>2. /\ jobs[j] \in Meta /\ Recorded(t) \in Result /\ Held(t) = jobs[j]
        /\ jobs' = [jobs EXCEPT ![j] = [jobs[j] EXCEPT !.result = Recorded(t)]]
    BY <1>0, <2>1, RecordStep DEF Held
  <2>3. jobs'[j].result = Recorded(t) /\ jobs'[j] \in Meta
    BY <2>2, MetaUpdate DEF Base, TypeOK
  <2>4. /\ Recorded(t) # None /\ Recorded(t).run = loc[t].run
        /\ Recorded(t).fmg = loc[t].form.fmg
        /\ Recorded(t).mode = IF jobs[j].vendor = "fortios" THEN "migrate" ELSE "cross"
    BY <2>2, JobStoreAssumption DEF Recorded
  <2>5. ArtifactsMatch(j)'
    BY <1>1, <2>1, <2>3, <2>4 DEF ArtifactsMatch, Progress, disk
  <2>6. Stored(j)'
    BY <1>1, <2>1, <2>3, JobStoreAssumption DEF Stored, disk
  <2> QED BY <1>1, <2>1, <2>5, <2>6, NoLocalsType DEF CleanStep, Writing, Converting
<1> QED BY <1>0, <1>1, <1>2, CleanNext

(* The JOBS.pop of delete() leaves a clean job in step with its            *)
(* directory.                                                              *)
LEMMA CleanPop ==
  ASSUME NEW t \in Threads, Base, CleanInv, Pop(t)
  PROVE  CleanInv'
<1>0. PICK j \in Jobs : j = on[t]
  BY StepOn DEF Step
<1>1. /\ Frame(t, j) /\ UNCHANGED <<source, json, art, dirty>> /\ pc[t] = "pop"
      /\ on'[t] = None /\ jobs'[j] = None
  BY <1>0, FrameStep DEF Step, Pop, Respond, history, Base, TypeOK
<1>2. ASSUME CleanStep(t, j) PROVE CleanQuiet(j)'
  <2>1. json[j] = None /\ source[j] = None /\ art[j] = NoArtifacts
    BY <1>1, <1>2 DEF CleanStep
  <2>2. ~dir'[j]
    BY <1>0, <2>1 DEF Pop, Base, TypeOK
  <2> QED BY <1>1, <2>1, <2>2 DEF CleanQuiet, Gone
<1> QED BY <1>0, <1>1, <1>2, CleanNext

(* A restart (_load_jobs) leaves a clean job in step with its directory.   *)
LEMMA CleanRestart ==
  ASSUME Base, CleanInv, Restart
  PROVE  CleanInv'
<1>1. ASSUME NEW j \in Jobs, j \notin dirty' PROVE CleanOK(j)'
  <2>1. /\ CleanQuiet(j) /\ UNCHANGED <<disk, life>>
        /\ \A u \in Threads : on'[u] # j
    BY <1>1, JobStoreAssumption DEF Restart, CleanInv, CleanOK, Quiet
  <2>2. jobs'[j] = jobs[j]
    BY <2>1, JobStoreAssumption
    DEF Restart, LoadJobs, CleanQuiet, Gone, Stored, Base, TypeOK
  <2> QED BY <2>1, <2>2 DEF CleanOK, CleanQuiet, Gone, Stored, ArtifactsMatch, Quiet, Busy, disk
<1> QED BY <1>1 DEF CleanInv

(* A freshly started server has every job in step with its directory.      *)
LEMMA CleanInit == Init => CleanInv
<1> SUFFICES ASSUME Init PROVE CleanInv
  OBVIOUS
<1>1. ASSUME NEW j \in Jobs PROVE CleanOK(j)
  <2>1. \A t \in Threads : on[t] # j
    BY JobStoreAssumption DEF Init
  <2>2. CleanQuiet(j)
    <3>1. CASE j \in OldJobs
      <4>1. OldMeta \in Meta /\ OldMeta.result = None
        BY DEF OldMeta, Meta, Vendors
      <4>2. jobs[j] = OldMeta /\ json[j] = OldMeta /\ OldMeta # None
        BY <3>1, <4>1, JobStoreAssumption DEF Init, LoadJobs
      <4> QED BY <3>1, <4>1, <4>2 DEF Init, CleanQuiet, Stored, ArtifactsMatch
    <3>2. CASE j \notin OldJobs
      BY <3>2, JobStoreAssumption DEF Init, LoadJobs, CleanQuiet, Gone
    <3> QED BY <3>1, <3>2
  <2> QED BY <2>1, <2>2 DEF CleanOK
<1> QED BY <1>1 DEF CleanInv

(* A step that changes nothing leaves a clean job in step with its         *)
(* directory.                                                              *)
LEMMA CleanStutter ==
  ASSUME CleanInv, UNCHANGED vars
  PROVE  CleanInv'
BY DEF CleanInv, CleanOK, CleanQuiet, CleanStep, Gone, Stored, ArtifactsMatch, Progress,
       Quiet, Busy, vars

(* The arrival of any request leaves a clean job in step with its          *)
(* directory.                                                              *)
LEMMA CleanRequest ==
  ASSUME NEW t \in Threads, Base, CleanInv, Request(t)
  PROVE  CleanInv'
<1>1. ASSUME NEW j \in Jobs, NEW u \in Uploads, Load(t, j, u) PROVE CleanInv'
  BY <1>1, CleanLoad
<1>2. ASSUME NEW j \in Jobs, Open(t, j) PROVE CleanInv'
  BY <1>2, CleanOpen
<1>3. ASSUME NEW j \in Jobs, Rerun(t, j) PROVE CleanInv'
  BY <1>3, CleanRecall DEF Rerun
<1>4. ASSUME NEW j \in Jobs, NEW f \in Forms, Convert(t, j, f) PROVE CleanInv'
  BY <1>4, CleanConvert
<1>5. ASSUME NEW j \in Jobs, NEW x \in Fixes, ApplyFix(t, j, x) PROVE CleanInv'
  <2>1. {x} \in SUBSET Fixes /\ Recall(t, j, {x})
    BY <1>5 DEF ApplyFix
  <2> QED BY <2>1, CleanRecall
<1>6. ASSUME NEW j \in Jobs, Delete(t, j) PROVE CleanInv'
  BY <1>6, CleanDelete
<1> QED BY <1>1, <1>2, <1>3, <1>4, <1>5, <1>6 DEF Request

(* Any handler step leaves a clean job in step with its directory.         *)
LEMMA CleanHandler ==
  ASSUME NEW t \in Threads, Base, CleanInv, Step(t)
  PROVE  CleanInv'
<1>1. ASSUME NEW k \in {"main", "branches", "report", "diff"}, WriteArtifact(t, k)
      PROVE  CleanInv'
  BY <1>1, CleanWriteArtifact
<1> QED
  BY <1>1, CleanRegister, CleanHeal, CleanReplay, CleanSaveOpen, CleanSaveWrite, CleanPlan,
     CleanBundle, CleanRecord, CleanPop
  DEF Step

(* A clean job is in step with its directory, also in the middle of a      *)
(* request.                                                                *)
THEOREM CleanInductive == Spec => []CleanInv
<1>1. Init => CleanInv
  BY CleanInit
<1>2. Base /\ CleanInv /\ [Next]_vars => CleanInv'
  BY CleanRequest, CleanHandler, CleanRestart, CleanFails, CleanStutter DEF Next, Fault
<1> QED BY <1>1, <1>2, BaseInductive, PTL DEF Spec

(* Between requests a clean job is exactly what its directory says.        *)
THEOREM QuietJobsAreDurable == Spec => []QuietJobIsDurable
<1>1. CleanInv => QuietJobIsDurable
  BY DEF CleanInv, CleanOK, CleanQuiet, Gone, Stored, QuietJobIsDurable
<1> QED BY <1>1, CleanInductive, PTL

(* Between requests the downloads of a clean job are those of the run its  *)
(* result describes.                                                       *)
THEOREM QuietArtifactsAlwaysMatch == Spec => []QuietArtifactsMatchResult
<1>1. CleanInv => QuietArtifactsMatchResult
  BY DEF CleanInv, CleanOK, CleanQuiet, ArtifactsMatch, QuietArtifactsMatchResult
<1> QED BY <1>1, CleanInductive, PTL
-----------------------------------------------------------------------------
(* What a step may do to the table of jobs.                                *)

LEMMA ConvertKeeps ==
  ASSUME NEW t \in Threads, NEW j \in Jobs, NEW f \in Form, NEW r, Base, jobs[j] # None,
         Submit(t, j, f, r)
  PROVE  jobs'[j] # None
<1>1. [jobs[j] EXCEPT !.form = f] \in Meta
  BY MetaUpdate DEF Base, TypeOK
<1> QED BY <1>1, JobStoreAssumption DEF Submit, Base, TypeOK

(* Only delete's pop empties an entry of JOBS while the server runs.       *)
LEMMA EntryKept ==
  ASSUME NEW t \in Threads, NEW i \in Jobs, Base, jobs[i] # None, ~Pop(t),
         Request(t) \/ Step(t) \/ SaveFails(t) \/
           \E k \in {"main", "branches", "report", "diff"} : ArtifactFails(t, k)
  PROVE  jobs'[i] # None
<1>1. CASE Request(t)
  <2>1. ASSUME NEW j \in Jobs, NEW f \in Forms, Convert(t, j, f) PROVE jobs'[i] # None
    <3>1. f \in Form /\ Frame(t, j) /\ jobs[j] # None /\ Submit(t, j, f, runs + 1)
      BY <2>1, FrameRequest, JobStoreAssumption DEF Convert
    <3> QED BY <3>1, ConvertKeeps DEF Frame
  <2>2. CASE UNCHANGED jobs
    BY <2>2
  <2> QED BY <1>1, <2>1, <2>2 DEF Request, Load, Open, Rerun, ApplyFix, Recall, Delete
<1>2. CASE Register(t)
  BY <1>2, StepOn DEF Step, Register, Base, BirthInv, TypeOK
<1>3. CASE Heal(t)
  <2>1. HoldsMeta(t) /\ on[t] \in Jobs /\ Held(t) \in Meta
    BY <1>3, HeldType DEF Heal, HoldsMeta
  <2>2. CASE source[on[t]] # None
    <3>1. source[on[t]] \in Uploads /\ Held(t).result \in Result \cup {None}
      BY <2>1, <2>2 DEF Base, TypeOK, Meta
    <3>2. [Analyze(source[on[t]], None) EXCEPT !.result = Held(t).result] \in Meta
      BY <3>1, AnalyzeType, MetaUpdate
    <3> QED BY <1>3, <2>1, <2>2, <3>2, JobStoreAssumption DEF Heal, Base, TypeOK
  <2> QED BY <1>3, <2>2 DEF Heal
<1>4. CASE Replay(t)
  <2>1. on[t] \in Jobs /\ Frame(t, on[t])
    BY <1>4, StepOn, FrameStep DEF Step
  <2>2. loc[t].form \in Form
    BY <1>4 DEF Base, TypeOK, LocalsInv, LocalsOK, Replay, Locals
  <2> QED BY <1>4, <2>1, <2>2, ConvertKeeps DEF Replay, Frame
<1>5. CASE Record(t)
  <2>1. CASE loc[t].own # None
    BY <1>5, <2>1, RecordStep
  <2>2. CASE loc[t].own = None
    <3>1. /\ [jobs[on[t]] EXCEPT !.result = Recorded(t)] \in Meta
          /\ jobs' = [jobs EXCEPT ![on[t]] = [jobs[on[t]] EXCEPT !.result = Recorded(t)]]
      BY <1>5, <2>2, RecordStep
    <3> QED BY <3>1, JobStoreAssumption DEF Base, TypeOK
  <2> QED BY <2>1, <2>2
<1>6. CASE UNCHANGED jobs
  BY <1>6
<1> QED
  BY <1>1, <1>2, <1>3, <1>4, <1>5, <1>6
  DEF Step, SaveOpen, SaveWrite, SaveFails, Plan, Bundle, WriteArtifact, ArtifactFails

(* A restart changes nothing about a clean job.                            *)
LEMMA RestartInvisible ==
  ASSUME NEW i \in Jobs, Base, CleanInv, Restart, i \notin dirty'
  PROVE  jobs'[i] = jobs[i]
<1>1. CleanQuiet(i)
  BY JobStoreAssumption DEF Restart, CleanInv, CleanOK, Quiet
<1> QED BY <1>1, JobStoreAssumption
        DEF Restart, LoadJobs, CleanQuiet, Gone, Stored, Base, TypeOK

(* A clean job leaves JOBS in a step only if it was deleted.               *)
LEMMA LostStep ==
  ASSUME Base, CleanInv, [Next]_vars, NEW i \in Jobs, jobs[i] # None, jobs'[i] = None,
         i \notin dirty'
  PROVE  life'[i] = "doomed"
<1>1. ~Restart /\ ~UNCHANGED vars
  BY RestartInvisible DEF vars
<1>2. PICK t \in Threads :
        Request(t) \/ Step(t) \/ SaveFails(t) \/
           \E k \in {"main", "branches", "report", "diff"} : ArtifactFails(t, k)
  BY <1>1 DEF Next, Fault
<1>3. Pop(t)
  BY <1>2, EntryKept
<1>4. on[t] = i /\ pc[t] = "pop" /\ UNCHANGED <<life, dirty>>
  BY <1>3, StepOn DEF Step, Pop, history, Base, TypeOK
<1>5. CleanStep(t, i)
  BY <1>4 DEF CleanInv, CleanOK
<1> QED BY <1>4, <1>5 DEF CleanStep

(* An entry of a clean job only goes away because its user deleted it.     *)
THEOREM LossNeedsDelete == Spec => LostOnlyByDelete
<1>1. Base /\ CleanInv /\ [Next]_vars
        => [\A j \in Jobs : jobs[j] # None /\ jobs'[j] = None
                       => life'[j] = "doomed" \/ j \in dirty']_vars
  BY LostStep
<1> QED BY <1>1, BaseInductive, CleanInductive, PTL DEF Spec, LostOnlyByDelete

(* A deleted job comes back in a step only if it is not clean.             *)
LEMMA DeletedStep ==
  ASSUME Base, CleanInv, [Next]_vars, NEW i \in Jobs, life[i] = "doomed", jobs[i] = None,
         jobs'[i] # None
  PROVE  i \in dirty'
<1> SUFFICES ASSUME i \notin dirty' PROVE FALSE
  OBVIOUS
<1>1. ~Restart /\ ~UNCHANGED vars
  BY RestartInvisible DEF vars
<1>2. PICK t \in Threads :
        Request(t) \/ Step(t) \/ SaveFails(t) \/
           \E k \in {"main", "branches", "report", "diff"} : ArtifactFails(t, k)
  BY <1>1 DEF Next, Fault
<1>3. CASE Request(t)
  <2>1. ASSUME NEW j \in Jobs, NEW f \in Forms, Convert(t, j, f) PROVE jobs'[i] = jobs[i]
    BY <2>1, FrameRequest DEF Convert, Frame
  <2> QED BY <1>3, <2>1 DEF Request, Load, Open, Rerun, ApplyFix, Recall, Delete
<1>4. CASE Step(t) \/ SaveFails(t) \/
             \E k \in {"main", "branches", "report", "diff"} : ArtifactFails(t, k)
  <2>1. on[t] = i /\ pc[t] # "idle"
    BY <1>4, FrameStep, StepOn DEF Frame
  <2>2. i \notin dirty
    BY <1>4 DEF Step, Register, Heal, Replay, SaveOpen, SaveWrite, SaveFails, Plan, Bundle,
         WriteArtifact, ArtifactFails, Record, Pop, history
  <2>3. CleanStep(t, i)
    BY <2>1, <2>2 DEF CleanInv, CleanOK
  <2>4. pc[t] # "register"
    BY <2>1 DEF Base, BirthInv
  <2> QED BY <2>3, <2>4 DEF CleanStep, Stored
<1> QED BY <1>2, <1>3, <1>4

(* A clean job that was deleted never comes back.                          *)
THEOREM DeletedNeverReturns == Spec => DeletedStaysDeleted
<1>1. Base /\ CleanInv /\ [Next]_vars
        => [\A j \in Jobs : life[j] = "doomed" /\ jobs[j] = None /\ jobs'[j] # None
                       => j \in dirty']_vars
  BY DeletedStep
<1> QED BY <1>1, BaseInductive, CleanInductive, PTL DEF Spec, DeletedStaysDeleted

-----------------------------------------------------------------------------
(* RunsInv.                                                                *)

LEMMA RunsType ==
  ASSUME TypeOK
  PROVE  /\ runs \in Nat
         /\ \A t \in Threads : loc[t].run \in Nat
         /\ \A j \in Jobs : jobs[j] # None => /\ jobs[j] \in Meta
                                            /\ jobs[j].result \in Result \cup {None}
         /\ \A r \in Result : r.run \in Nat /\ r.run # 0
BY JobStoreAssumption DEF TypeOK, Locals, Meta, Result, Runs

(* Only a request that starts draws a run number; a step of its handler    *)
(* keeps the number or, at the end, drops it.                              *)
LEMMA RunKept ==
  ASSUME NEW t \in Threads, Base, Step(t) \/ SaveFails(t) \/
           \E k \in {"main", "branches", "report", "diff"} : ArtifactFails(t, k)
  PROVE  /\ runs' = runs
         /\ \A u \in Threads : loc'[u].run \in {0, loc[u].run}
<1>0. NoLocals.run = 0 /\ \A u \in Threads : loc[u] \in Locals
  BY NoLocalsType DEF Base, TypeOK
<1>1. runs' = runs
  BY DEF Step, Register, Heal, Replay, SaveOpen, SaveWrite, SaveFails, Plan, Bundle,
         WriteArtifact, ArtifactFails, Record, Pop
<1>2. ASSUME NEW j, Detach(t, j) PROVE \A u \in Threads : loc'[u].run \in {0, loc[u].run}
  <2>1. \A u \in Threads : loc'[u] \in {NoLocals, loc[u], [loc[u] EXCEPT !.own = jobs[j]]}
    BY <1>2 DEF Detach
  <2> QED BY <1>0, <2>1 DEF Locals
<1>3. ASSUME NEW l \in Locals, l.run \in {0, loc[t].run}, loc' = [loc EXCEPT ![t] = l]
      PROVE  \A u \in Threads : loc'[u].run \in {0, loc[u].run}
  BY <1>3 DEF Base, TypeOK
<1>4. ASSUME UNCHANGED loc \/ loc' = [loc EXCEPT ![t] = NoLocals]
      PROVE  \A u \in Threads : loc'[u].run \in {0, loc[u].run}
  BY <1>0, <1>3, <1>4, NoLocalsType
<1>5. CASE Heal(t) \/ Pop(t)
  BY <1>1, <1>2, <1>4, <1>5 DEF Heal, Pop
<1>6. CASE Replay(t)
  <2>1. ASSUME Submit(t, on[t], loc[t].form, loc[t].run)
        PROVE  \A u \in Threads : loc'[u].run \in {0, loc[u].run}
    <3>1. PICK l : /\ loc' = [loc EXCEPT ![t] = l]
                   /\ l = [NoLocals EXCEPT !.form = loc[t].form, !.run = loc[t].run]
      BY <2>1 DEF Submit
    <3>2. l \in Locals /\ l.run = loc[t].run
      BY <1>0, <3>1 DEF NoLocals, Locals
    <3> QED BY <1>3, <3>1, <3>2
  <2> QED BY <1>1, <1>4, <1>6, <2>1 DEF Replay
<1>7. CASE SaveOpen(t)
  <2>1. /\ [loc[t] EXCEPT !.fd = "clean", !.buf = jobs[on[t]]] \in Locals
        /\ [loc[t] EXCEPT !.fd = "clean", !.buf = jobs[on[t]]].run = loc[t].run
    <3>1. jobs[on[t]] \in Meta \cup {None}
      BY <1>7, StepOn DEF Step, Base, TypeOK
    <3>2. [loc[t] EXCEPT !.fd = "clean", !.buf = jobs[on[t]]] \in Locals
      BY <1>0, <3>1, LocalsUpdate
    <3> QED BY <1>0, <3>2 DEF Locals
  <2> QED BY <1>1, <1>3, <1>4, <1>7, <2>1 DEF SaveOpen
<1>8. CASE SaveWrite(t) \/ SaveFails(t)
  <2>1. \A u \in Threads :
          loc'[u] \in {NoLocals, loc[u], [loc[u] EXCEPT !.fd = "shared"],
                      [loc[u] EXCEPT !.fd = "closed", !.buf = None]}
    BY <1>8 DEF SaveWrite, SaveFails, SaveReturn, Base, TypeOK
  <2>2. \A l \in Locals : /\ [l EXCEPT !.fd = "shared"].run = l.run
                         /\ [l EXCEPT !.fd = "closed", !.buf = None].run = l.run
    BY DEF Locals
  <2> QED BY <1>0, <1>1, <2>1, <2>2
<1>9. CASE Bundle(t)
  <2>1. PICK f : loc' = [loc EXCEPT ![t] = [loc[t] EXCEPT !.form = f]]
    BY <1>9 DEF Bundle
  <2> QED BY <1>0, <1>1, <2>1 DEF Locals, Base, TypeOK
<1> QED
  BY <1>1, <1>4, <1>5, <1>6, <1>7, <1>8, <1>9
  DEF Step, Register, Plan, WriteArtifact, ArtifactFails, Record

(* Run numbers are drawn in order: nobody serves one that is not drawn.    *)
LEMMA BoundNext ==
  ASSUME Base, RunsBound, [Next]_vars
  PROVE  RunsBound' /\ runs' \in Nat /\ runs' >= runs
<1>0. /\ runs \in Nat /\ NoLocals.run = 0
      /\ \A u \in Threads : loc[u].run \in Nat /\ loc[u].run <= runs
  BY RunsType, NoLocalsType DEF Base, RunsBound
<1>1. ASSUME runs' = runs, \A u \in Threads : loc'[u].run \in {0, loc[u].run}
      PROVE  RunsBound' /\ runs' \in Nat /\ runs' >= runs
  BY <1>0, <1>1 DEF RunsBound
<1>2. CASE UNCHANGED vars \/ Restart
  BY <1>0, <1>1, <1>2 DEF vars, Restart
<1>3. ASSUME NEW t \in Threads, NEW f, runs' = runs + 1,
             loc' = [loc EXCEPT ![t] = [NoLocals EXCEPT !.form = f, !.run = runs + 1]]
      PROVE  RunsBound' /\ runs' \in Nat /\ runs' >= runs
  <2>1. loc'[t].run = runs + 1 /\ \A u \in Threads : u # t => loc'[u] = loc[u]
    BY <1>3 DEF Base, TypeOK, NoLocals
  <2> QED BY <1>0, <1>3, <2>1 DEF RunsBound
<1>4. ASSUME NEW t \in Threads, NEW j \in Jobs, NEW f \in Forms, Convert(t, j, f)
      PROVE  RunsBound' /\ runs' \in Nat /\ runs' >= runs
  BY <1>3, <1>4 DEF Convert, Submit
<1>5. ASSUME NEW t \in Threads, NEW j \in Jobs, NEW S, Recall(t, j, S)
      PROVE  RunsBound' /\ runs' \in Nat /\ runs' >= runs
  BY <1>3, <1>5 DEF Recall
<1>6. ASSUME NEW t \in Threads, NEW j \in Jobs, NEW u \in Uploads,
             Load(t, j, u) \/ Open(t, j)
      PROVE  RunsBound' /\ runs' \in Nat /\ runs' >= runs
  BY <1>1, <1>6 DEF Load, Open
<1>7. ASSUME NEW t \in Threads, NEW j \in Jobs, Delete(t, j)
      PROVE  RunsBound' /\ runs' \in Nat /\ runs' >= runs
  <2>1. \A u \in Threads : loc'[u] \in {loc[u], [loc[u] EXCEPT !.fd = "gone"]}
    BY <1>7 DEF Delete
  <2>2. \A u \in Threads : loc'[u].run = loc[u].run
    BY <2>1 DEF Base, TypeOK, Locals
  <2> QED BY <1>1, <1>7, <2>2 DEF Delete
<1>8. ASSUME NEW t \in Threads, Request(t)
      PROVE  RunsBound' /\ runs' \in Nat /\ runs' >= runs
  <2>1. ASSUME NEW j \in Jobs, Open(t, j)
        PROVE  RunsBound' /\ runs' \in Nat /\ runs' >= runs
    BY <1>1, <2>1 DEF Open
  <2> QED BY <1>4, <1>5, <1>6, <1>7, <1>8, <2>1 DEF Request, Rerun, ApplyFix
<1>9. ASSUME NEW t \in Threads, Step(t) \/ SaveFails(t) \/
               \E k \in {"main", "branches", "report", "diff"} : ArtifactFails(t, k)
      PROVE  RunsBound' /\ runs' \in Nat /\ runs' >= runs
  BY <1>1, <1>9, RunKept
<1> QED BY <1>2, <1>8, <1>9 DEF Next, Fault
-----------------------------------------------------------------------------
(* What a step about a job that stays clean does to the job's entry.       *)

Same(j) ==
  /\ jobs'[j] = jobs[j]
  /\ jobs[j] = None => (life'[j] = "doomed" <=> life[j] = "doomed")

Created(j) ==
  /\ jobs[j] = None /\ life[j] = "given"
  /\ jobs'[j] # None /\ jobs'[j].form = None /\ jobs'[j].result = None

Submitted(j) ==
  /\ jobs[j] # None
  /\ jobs'[j] # None /\ jobs'[j].form \in Form /\ jobs'[j].result = jobs[j].result

Reanalysed(j) ==
  /\ jobs[j] # None
  /\ jobs'[j] # None /\ jobs'[j].form = None /\ jobs'[j].result = jobs[j].result

Shown(t, j) ==
  /\ on[t] = j /\ pc[t] = "record" /\ pc'[t] = "save"
  /\ jobs[j] # None /\ jobs[j].form # None
  /\ jobs'[j] # None /\ jobs'[j].form = jobs[j].form
  /\ jobs'[j].result # None /\ jobs'[j].result.run = loc[t].run

Popped(j) == jobs[j] # None /\ jobs'[j] = None /\ life'[j] = "doomed"

Effect(t, j) ==
  Same(j) \/ Created(j) \/ Submitted(j) \/ Reanalysed(j) \/ Shown(t, j) \/ Popped(j)

(* Storing last_form changes the settings of the entry and nothing else.   *)
LEMMA SubmitEffect ==
  ASSUME NEW t \in Threads, NEW j \in Jobs, NEW f \in Form, NEW r, Base, jobs[j] # None,
         Submit(t, j, f, r)
  PROVE  Submitted(j)
<1>1. jobs[j] \in Meta /\ jobs'[j] = [jobs[j] EXCEPT !.form = f]
  BY DEF Base, TypeOK, Submit
<1>2. jobs'[j] \in Meta /\ jobs'[j].form = f /\ jobs'[j].result = jobs[j].result
  BY <1>1, MetaUpdate
<1> QED BY <1>2, JobStoreAssumption DEF Submitted

(* What a request that arrives does to the entry of its clean job.         *)
LEMMA RequestEffect ==
  ASSUME NEW t \in Threads, NEW j \in Jobs, Base,
         \/ \E u \in Uploads : Load(t, j, u)
         \/ Open(t, j)
         \/ \E f \in Forms : Convert(t, j, f)
         \/ \E S \in SUBSET Fixes : Recall(t, j, S)
         \/ Delete(t, j)
  PROVE  Effect(t, j)
<1>1. ASSUME NEW f \in Forms, Convert(t, j, f) PROVE Submitted(j)
  <2>1. f \in Form /\ jobs[j] # None /\ Submit(t, j, f, runs + 1)
    BY <1>1, JobStoreAssumption DEF Convert
  <2> QED BY <2>1, SubmitEffect
<1>2. CASE \E u \in Uploads : Load(t, j, u)
  BY <1>2 DEF Load, Same, Effect, Base, TypeOK
<1>3. CASE Open(t, j) \/ \E S \in SUBSET Fixes : Recall(t, j, S)
  BY <1>3 DEF Open, Recall, Same, Effect
<1>4. CASE Delete(t, j)
  BY <1>4 DEF Delete, Same, Effect
<1> QED BY <1>1, <1>2, <1>3, <1>4 DEF Effect

(* What a handler step does to the entry of its clean job.                 *)
LEMMA StepEffect ==
  ASSUME NEW t \in Threads, NEW j \in Jobs, j = on[t], Base, CleanInv, j \notin dirty',
         Step(t) \/ SaveFails(t) \/
           \E k \in {"main", "branches", "report", "diff"} : ArtifactFails(t, k)
  PROVE  Effect(t, j)
<1>1. ~SaveFails(t) /\ ~\E k \in {"main", "branches", "report", "diff"} : ArtifactFails(t, k)
  BY DEF SaveFails, ArtifactFails
<1>2. UNCHANGED <<life, dirty>>
  BY <1>1 DEF Step, Register, Heal, Replay, SaveOpen, SaveWrite, Plan, Bundle,
         WriteArtifact, Record, Pop, history
<1>3. CleanStep(t, j)
  BY <1>2 DEF CleanInv, CleanOK
<1>4. CASE UNCHANGED jobs
  BY <1>2, <1>4 DEF Same, Effect
<1>5. CASE Register(t)
  <2> DEFINE u == source[j]
             m == [Analyze(u, u.picked) EXCEPT !.target = u.target]
  <2>1. u \in Uploads /\ jobs[j] = None /\ life[j] = "given"
    BY <1>5 DEF Register, Base, BirthInv, TypeOK
  <2>2. CASE u.target # Bad
    <3>1. /\ u.target \in Hosts \cup {None}
          /\ u.picked \in Vendors \cup {None}
      BY <2>1, <2>2, JobStoreAssumption DEF UploadType, Vendors
    <3>2. m \in Meta /\ m.result = None /\ m.form = None
      BY <2>1, <3>1, AnalyzeType, MetaUpdate
    <3>3. jobs'[j] = m
      BY <1>5, <2>2 DEF Register, Base, TypeOK
    <3> HIDE DEF m
    <3> QED BY <2>1, <3>2, <3>3, JobStoreAssumption DEF Created, Effect
  <2> QED BY <1>4, <1>5, <2>2 DEF Register
<1>6. CASE Heal(t)
  <2>1. Stored(j) /\ loc[t].own = None
    BY <1>3, <1>6 DEF CleanStep, Heal
  <2>2. /\ source[j] \in Uploads /\ jobs[j] \in Meta /\ jobs[j].result \in Result \cup {None}
    BY <2>1 DEF Stored, Base, TypeOK, Meta
  <2>3. jobs'[j] = [Analyze(source[j], None) EXCEPT !.result = jobs[j].result]
    BY <1>6, <2>1, <2>2 DEF Heal, Stored, Held, Base, TypeOK
  <2>4. /\ jobs'[j] \in Meta /\ jobs'[j].form = None /\ jobs'[j].result = jobs[j].result
    BY <2>2, <2>3, AnalyzeType, MetaUpdate
  <2> QED BY <2>1, <2>4, JobStoreAssumption DEF Stored, Reanalysed, Effect
<1>7. CASE Replay(t)
  <2>1. Stored(j) /\ loc[t].form \in Form
    BY <1>3, <1>7 DEF CleanStep, Replay, Base, TypeOK, LocalsInv, LocalsOK, Locals
  <2>2. jobs[j] # None /\ Submit(t, j, loc[t].form, loc[t].run)
    BY <1>7, <2>1 DEF Replay, Stored
  <2> QED BY <2>1, <2>2, SubmitEffect DEF Effect
<1>8. CASE Record(t)
  <2>1. /\ Stored(j) /\ loc[t].own = None /\ jobs[j].form # None
        /\ pc[t] = "record" /\ pc'[t] = "save"
    BY <1>3, <1>8 DEF CleanStep, Converting, Record, Goto, Base, TypeOK
  <2>2. /\ jobs[j] \in Meta /\ Recorded(t) \in Result
        /\ jobs'[j] = [jobs[j] EXCEPT !.result = Recorded(t)]
    <3>1. /\ jobs[j] \in Meta /\ Recorded(t) \in Result
          /\ jobs' = [jobs EXCEPT ![j] = [jobs[j] EXCEPT !.result = Recorded(t)]]
      BY <1>8, <2>1, RecordStep
    <3> QED BY <3>1 DEF Base, TypeOK
  <2>3. /\ jobs'[j] \in Meta /\ jobs'[j].form = jobs[j].form
        /\ jobs'[j].result = Recorded(t)
    BY <2>2, MetaUpdate
  <2>4. Recorded(t) # None /\ Recorded(t).run = loc[t].run
    BY <2>2, JobStoreAssumption DEF Recorded
  <2> QED BY <2>1, <2>3, <2>4, JobStoreAssumption DEF Stored, Shown, Effect
<1>9. CASE Pop(t)
  BY <1>2, <1>3, <1>9 DEF CleanStep, Pop, Popped, Effect, Base, TypeOK
<1> QED
  BY <1>1, <1>4, <1>5, <1>6, <1>7, <1>8, <1>9
  DEF Step, SaveOpen, SaveWrite, Plan, Bundle, WriteArtifact

-----------------------------------------------------------------------------
(* RunsInv is preserved.                                                   *)

(* The result a clean job shows afterwards was drawn before.               *)
LEMMA ShownBound ==
  ASSUME NEW t \in Threads, NEW j \in Jobs, Base, Base', RunsBound, RunsOK(j), Effect(t, j),
         runs' \in Nat, runs' >= runs
  PROVE  jobs'[j] # None /\ jobs'[j].result # None => jobs'[j].result.run <= runs'
<1>1. /\ runs \in Nat /\ loc[t].run \in Nat /\ loc[t].run <= runs
      /\ jobs[j] # None /\ jobs[j].result # None
           => jobs[j].result.run \in Nat /\ jobs[j].result.run <= runs
  BY RunsType DEF Base, RunsBound, RunsOK
<1> QED BY <1>1 DEF Effect, Same, Created, Submitted, Reanalysed, Shown, Popped

(* The arrival of any request keeps the run being served later than the    *)
(* one shown.                                                              *)
LEMMA RunsRequest ==
  ASSUME NEW t \in Threads, NEW j \in Jobs, Base, Base', CleanInv, RunsInv,
         j \notin dirty', runs' \in Nat, runs' >= runs,
         \/ \E u \in Uploads : Load(t, j, u)
         \/ Open(t, j)
         \/ \E f \in Forms : Convert(t, j, f)
         \/ \E S \in SUBSET Fixes : Recall(t, j, S)
         \/ Delete(t, j)
  PROVE  RunsOK(j)'
<1>1. PICK l : Begin(t, j, l) /\ l \in {"register", "heal", "save_form", "replay", "pop"}
  BY DEF Load, Open, Convert, Recall, Delete
<1>2. /\ CleanQuiet(j) /\ on'[t] = j /\ pc'[t] = l /\ j \notin dirty
      /\ \A u \in Threads : on'[u] = j => u = t
  BY <1>1, CleanBegin DEF Begin
<1>3. RunsOK(j) /\ Effect(t, j)
  BY <1>2, RequestEffect DEF RunsInv
<1>4. pc'[t] \in Serving => /\ loc'[t].run = runs + 1
                           /\ jobs[j] # None /\ jobs'[j].result = jobs[j].result
  <2>1. ASSUME NEW f \in Forms, Convert(t, j, f)
        PROVE  /\ loc'[t].run = runs + 1
               /\ jobs[j] # None /\ jobs'[j].result = jobs[j].result
    <3>1. f \in Form /\ jobs[j] # None /\ Submit(t, j, f, runs + 1)
      BY <2>1, JobStoreAssumption DEF Convert
    <3>2. Submitted(j)
      BY <3>1, SubmitEffect
    <3>3. loc'[t].run = runs + 1
      BY <3>1 DEF Submit, Base, TypeOK, NoLocals
    <3> QED BY <3>2, <3>3 DEF Submitted
  <2>2. ASSUME NEW S \in SUBSET Fixes, Recall(t, j, S)
        PROVE  /\ loc'[t].run = runs + 1
               /\ jobs[j] # None /\ jobs'[j].result = jobs[j].result
    BY <2>2 DEF Recall, Base, TypeOK, NoLocals
  <2>3. CASE (\E u \in Uploads : Load(t, j, u)) \/ Open(t, j) \/ Delete(t, j)
    <3>1. pc'[t] \in {"register", "heal", "pop"}
      BY <2>3 DEF Load, Open, Delete, Begin, Base, TypeOK
    <3> QED BY <3>1 DEF Serving, Converting
  <2> QED BY <2>1, <2>2, <2>3
<1>5. runs \in Nat /\ (jobs[j] # None /\ jobs[j].result # None => jobs[j].result.run \in Nat)
  BY RunsType DEF Base
<1>6. jobs'[j] # None /\ jobs'[j].result # None => jobs'[j].result.run <= runs'
  BY <1>3, ShownBound DEF RunsInv
<1> QED BY <1>2, <1>3, <1>4, <1>5, <1>6 DEF RunsOK

(* Any handler step keeps the run being served later than the one shown.   *)
LEMMA RunsStep ==
  ASSUME NEW t \in Threads, NEW j \in Jobs, j = on[t], Base, Base', CleanInv, RunsInv,
         j \notin dirty', runs' \in Nat, runs' >= runs,
         Step(t) \/ SaveFails(t) \/
           \E k \in {"main", "branches", "report", "diff"} : ArtifactFails(t, k)
  PROVE  RunsOK(j)'
<1>1. /\ Effect(t, j) /\ Frame(t, j)
      /\ \A u \in Threads : loc'[u].run \in {0, loc[u].run}
  BY StepEffect, FrameStep, RunKept
<1>2. j \notin dirty
  BY DEF Step, Register, Heal, Replay, SaveOpen, SaveWrite, SaveFails, Plan, Bundle,
         WriteArtifact, ArtifactFails, Record, Pop, history
<1>3. CleanStep(t, j) /\ RunsOK(j)
  BY <1>2 DEF CleanInv, CleanOK, RunsInv
<1>4. \A u \in Threads : on'[u] = j => u = t
  BY <1>1, <1>3 DEF CleanStep, Frame
<1>5. pc'[t] \in Serving => pc[t] \in Serving
  BY DEF Serving, Converting, Base, TypeOK, Step, Register, Heal, Replay, SaveOpen,
      SaveWrite, SaveReturn, SaveFails, Plan, Bundle, WriteArtifact, After, ArtifactFails,
      Record, Pop, Goto, Respond
<1>6. pc'[t] \in Serving => loc'[t].run = loc[t].run
  BY <1>1 DEF Base, LocalsInv, LocalsOK, Serving
<1>7. pc'[t] \in Serving => jobs[j] # None
  BY <1>3, <1>5 DEF CleanStep, Serving, Converting, Stored
<1>8. pc'[t] \in Serving /\ jobs'[j].result # None
        => jobs'[j].result = jobs[j].result \/ jobs'[j] = None
  BY <1>1, <1>7
  DEF Effect, Same, Created, Submitted, Reanalysed, Shown, Popped, Serving, Converting
<1>9. pc'[t] \in Serving /\ on'[t] = j => jobs'[j] # None
  <2>1. pc'[t] \in Serving /\ pc'[t] # "replay" => HoldsMeta(t)'
    BY DEF Serving, Converting, HoldsMeta
  <2>2. CASE UNCHANGED jobs
    BY <1>7, <2>2
  <2>3. CASE Popped(j)
    <3>1. Pop(t)
      BY <2>3, EntryKept DEF Popped
    <3> QED BY <3>1 DEF Pop, Respond, Base, TypeOK, Serving, Converting
  <2> QED BY <1>1, <1>7, <2>3
          DEF Effect, Same, Created, Submitted, Reanalysed, Shown
<1>10. jobs'[j] # None /\ jobs'[j].result # None => jobs'[j].result.run <= runs'
  BY <1>1, <1>3, ShownBound DEF RunsInv
<1> QED BY <1>3, <1>4, <1>5, <1>6, <1>8, <1>9, <1>10 DEF RunsOK

(* A step is taken by one handler, about one job.                          *)
About(t, j) ==
  \/ \E u \in Uploads : Load(t, j, u)
  \/ Open(t, j)
  \/ \E f \in Forms : Convert(t, j, f)
  \/ \E S \in SUBSET Fixes : Recall(t, j, S)
  \/ Delete(t, j)
  \/ j = on[t] /\ (Step(t) \/ SaveFails(t) \/
        \E k \in {"main", "branches", "report", "diff"} : ArtifactFails(t, k))

(* Every step that is not a restart is about one job and frames the        *)
(* others.                                                                 *)
LEMMA StepAbout ==
  ASSUME Base, [Next]_vars, ~Restart, ~UNCHANGED vars
  PROVE  \E t \in Threads, j \in Jobs : About(t, j) /\ Frame(t, j)
<1>1. PICK t \in Threads :
        Request(t) \/ Step(t) \/ SaveFails(t) \/
           \E k \in {"main", "branches", "report", "diff"} : ArtifactFails(t, k)
  BY DEF Next, Fault
<1>2. CASE Request(t)
  <2>1. \A j \in Jobs, S \in SUBSET Fixes : Recall(t, j, S) => About(t, j) /\ Frame(t, j)
    BY FrameRequest DEF About
  <2>2. ASSUME NEW j \in Jobs, NEW x \in Fixes, ApplyFix(t, j, x)
        PROVE  About(t, j) /\ Frame(t, j)
    <3>1. {x} \in SUBSET Fixes /\ Recall(t, j, {x})
      BY <2>2 DEF ApplyFix
    <3> QED BY <2>1, <3>1
  <2>3. ASSUME NEW j \in Jobs, Rerun(t, j) PROVE About(t, j) /\ Frame(t, j)
    BY <2>1, <2>3 DEF Rerun
  <2>4. ASSUME NEW j \in Jobs, NEW u \in Uploads, Load(t, j, u)
        PROVE  About(t, j) /\ Frame(t, j)
    BY <2>4, FrameRequest DEF About
  <2>5. ASSUME NEW j \in Jobs, NEW f \in Forms, Convert(t, j, f)
        PROVE  About(t, j) /\ Frame(t, j)
    BY <2>5, FrameRequest DEF About
  <2>6. ASSUME NEW j \in Jobs, Open(t, j) \/ Delete(t, j)
        PROVE  About(t, j) /\ Frame(t, j)
    BY <2>6, FrameRequest DEF About
  <2> HIDE DEF About, Frame
  <2> QED BY <1>2, <2>2, <2>3, <2>4, <2>5, <2>6 DEF Request
<1>3. CASE ~Request(t)
  BY <1>1, <1>3, StepOn, FrameStep DEF About
<1> QED BY <1>2, <1>3

(* Every step keeps the run being served later than the one shown.         *)
LEMMA RunsNext ==
  ASSUME Base, Base', CleanInv, RunsInv, [Next]_vars
  PROVE  RunsInv'
<1>1. RunsBound' /\ runs' \in Nat /\ runs' >= runs
  BY BoundNext DEF RunsInv
<1>2. ASSUME NEW i \in Jobs, i \notin dirty' PROVE RunsOK(i)'
  <2>1. CASE UNCHANGED vars
    BY <1>2, <2>1 DEF RunsInv, RunsOK, vars
  <2>2. CASE Restart
    <3>1. i \notin dirty /\ runs' = runs /\ \A u \in Threads : pc'[u] = "idle"
      BY <1>2, <2>2 DEF Restart
    <3>2. jobs'[i] = jobs[i] /\ RunsOK(i)
      BY <1>2, <2>2, <3>1, RestartInvisible DEF RunsInv
    <3> QED BY <3>1, <3>2 DEF RunsOK, Serving, Converting
  <2>3. CASE ~Restart /\ ~UNCHANGED vars
    <3>1. PICK t \in Threads, j \in Jobs : About(t, j) /\ Frame(t, j)
      BY <2>3, StepAbout
    <3>2. CASE i = j
      BY <1>1, <1>2, <3>1, <3>2, RunsRequest, RunsStep DEF About
    <3>3. CASE i # j
      <4>1. i \notin dirty /\ RunsOK(i) /\ jobs'[i] = jobs[i]
        BY <1>2, <3>1, <3>3 DEF Frame, RunsInv
      <4>2. \A u \in Threads : on'[u] = i => on[u] = i /\ UNCHANGED <<pc[u], loc[u]>>
        BY <3>1, <3>3, JobStoreAssumption DEF Frame
      <4>3. /\ runs \in Nat
            /\ jobs[i] # None /\ jobs[i].result # None => jobs[i].result.run \in Nat
        BY RunsType DEF Base
      <4> QED BY <1>1, <4>1, <4>2, <4>3 DEF RunsOK
    <3> QED BY <3>2, <3>3
  <2> QED BY <2>1, <2>2, <2>3
<1> QED BY <1>1, <1>2 DEF RunsInv

(* A freshly started server has drawn no run number.                       *)
LEMMA RunsInit == Init => RunsInv
<1> SUFFICES ASSUME Init PROVE RunsInv
  OBVIOUS
<1>1. RunsBound
  BY NoLocalsType DEF Init, RunsBound
<1>2. ASSUME NEW j \in Jobs PROVE RunsOK(j)
  <2>1. jobs[j] # None => jobs[j] = OldMeta
    BY DEF Init, LoadJobs
  <2> QED BY <2>1, JobStoreAssumption DEF Init, RunsOK, OldMeta, Serving, Converting
<1> QED BY <1>1, <1>2 DEF RunsInv

(* On a clean job a newer result never gives way to an older one.          *)
THEOREM RunsInductive == Spec => []RunsInv
<1>1. Init => RunsInv
  BY RunsInit
<1>2. Base /\ Base' /\ CleanInv /\ RunsInv /\ [Next]_vars => RunsInv'
  BY RunsNext
<1> QED BY <1>1, <1>2, BaseInductive, CleanInductive, PTL DEF Spec

-----------------------------------------------------------------------------
(* The refinement.                                                         *)

Book == [j \in Jobs |-> Entry(j)]

(* The entries of a freshly started server are initial ones of             *)
(* JobService.                                                             *)
LEMMA ServiceInit == Init => Service!Init
<1> SUFFICES ASSUME Init PROVE Service!Init
  OBVIOUS
<1>1. ASSUME NEW j \in Jobs PROVE Entry(j) \in {Blank("unborn"), Blank("listed")}
  <2>1. jobs[j] = IF j \in OldJobs /\ OldMeta # Torn THEN OldMeta ELSE None
    BY JobStoreAssumption DEF Init, LoadJobs
  <2> QED BY <2>1 DEF Init, Entry, Blank, OldMeta
<1> QED BY <1>1 DEF Service!Init, Service!Blank, Blank

(* An entry of the service changes when the entry of JOBS does.            *)
LEMMA SameEntry ==
  ASSUME NEW j \in Jobs, jobs'[j] = jobs[j], j \in dirty' <=> j \in dirty,
         jobs[j] = None => (life'[j] = "doomed" <=> life[j] = "doomed")
  PROVE  Entry(j)' = Entry(j)
BY DEF Entry, Blank

(* One entry moves, the others stay.                                       *)
LEMMA OneEntry ==
  ASSUME NEW t \in Threads, NEW j \in Jobs, Frame(t, j), NEW e, Entry(j)' = e
  PROVE  Book' = [Book EXCEPT ![j] = e]
<1>1. \A i \in Jobs : i # j => Entry(i)' = Entry(i)
  BY SameEntry DEF Frame
<1> QED BY <1>1 DEF Book

(* Jobs that stop being clean lapse in the service, the others are         *)
(* untouched.                                                              *)
LEMMA LapseStep ==
  ASSUME NEW S \in SUBSET Jobs, \A i \in Jobs : i \notin S => Entry(i)' = Entry(i),
         S \subseteq dirty'
  PROVE  Service!Lapse
<1>1. \A i \in S : Entry(i)' = Blank("lapsed")
  BY DEF Entry, Blank
<1>2. Book' = [i \in Jobs |-> IF i \in S THEN Blank("lapsed") ELSE Book[i]]
  BY <1>1 DEF Book
<1> QED BY <1>2 DEF Service!Lapse, Service!Blank, Blank, Book

(* What the handler of a clean job does to its entry, the service allows.  *)
LEMMA EffectStep ==
  ASSUME NEW t \in Threads, NEW j \in Jobs, Base, Base', CleanInv, RunsInv, Frame(t, j),
         j \notin dirty', j \notin dirty, Effect(t, j)
  PROVE  Service!Next \/ UNCHANGED Book
<1> DEFINE Move(e) == Book' = [Book EXCEPT ![j] = e]
<1>0. /\ jobs[j] # None => /\ Entry(j).state = "listed"
                          /\ Entry(j).settings = jobs[j].form
                          /\ Entry(j).shown = IF jobs[j].result = None THEN 0
                                             ELSE jobs[j].result.run
      /\ jobs'[j] # None => Entry(j)' = [state |-> "listed", settings |-> jobs'[j].form,
                     shown |-> IF jobs'[j].result = None THEN 0 ELSE jobs'[j].result.run]
      /\ Book[j] = Entry(j)
  BY DEF Entry, Book
<1>1. CASE Same(j)
  <2>1. Entry(j)' = Entry(j)
    BY <1>1, SameEntry DEF Same
  <2>2. Book' = [Book EXCEPT ![j] = Entry(j)]
    BY <2>1, OneEntry
  <2> QED BY <1>0, <2>2 DEF Book
<1>2. CASE Created(j)
  <2>1. Entry(j).state = "unborn" /\ Entry(j)' = Blank("listed")
    BY <1>0, <1>2 DEF Created, Entry, Blank
  <2>2. Move(Blank("listed"))
    BY <2>1, OneEntry
  <2>3. Service!Create(j)
    BY <1>0, <2>1, <2>2
    DEF Service!Create, Service!Change, Service!Blank, Blank, Book
  <2> QED BY <2>3 DEF Service!Next
<1>3. CASE Submitted(j)
  <2>1. Entry(j)' = [Entry(j) EXCEPT !.settings = jobs'[j].form]
    BY <1>0, <1>3 DEF Submitted, Entry
  <2>2. PICK f \in Form : Entry(j)' = [Entry(j) EXCEPT !.settings = f]
    BY <1>3, <2>1 DEF Submitted
  <2>3. Move([Entry(j) EXCEPT !.settings = f])
    BY <2>2, OneEntry
  <2>4. Service!Submit(j)
    BY <1>0, <1>3, <2>3 DEF Submitted, Service!Submit, Service!Listed, Service!Change, Book
  <2> QED BY <2>4 DEF Service!Next
<1>4. CASE Reanalysed(j)
  <2>1. Entry(j)' = [Entry(j) EXCEPT !.settings = None]
    BY <1>0, <1>4 DEF Reanalysed, Entry
  <2>2. Move([Entry(j) EXCEPT !.settings = None])
    BY <2>1, OneEntry
  <2>3. Service!Reanalyse(j)
    BY <1>0, <1>4, <2>2 DEF Reanalysed, Service!Reanalyse, Service!Listed, Service!Change, Book
  <2> QED BY <2>3 DEF Service!Next
<1>5. CASE Shown(t, j)
  <2> DEFINE r == loc[t].run
  <2>1. /\ r \in 1 .. MaxRuns
        /\ jobs[j].result # None => r > jobs[j].result.run
    <3>1. r \in 0 .. MaxRuns /\ r # 0
      BY <1>5 DEF Shown, Base, TypeOK, LocalsInv, LocalsOK, Locals, Converting
    <3>2. jobs[j].result # None => r > jobs[j].result.run
      BY <1>5 DEF Shown, RunsInv, RunsOK, Serving, Converting
    <3> QED BY <3>1, <3>2, JobStoreAssumption
  <2>2. r > Entry(j).shown
    BY <1>0, <1>5, <2>1, JobStoreAssumption DEF Shown
  <2>3. Entry(j)' = [Entry(j) EXCEPT !.shown = r]
    BY <1>0, <1>5 DEF Shown, Entry
  <2>4. Move([Entry(j) EXCEPT !.shown = r])
    BY <2>3, OneEntry
  <2>5. Service!Show(j)
    BY <1>0, <1>5, <2>1, <2>2, <2>4
    DEF Shown, Service!Show, Service!Listed, Service!Change, Book
  <2> QED BY <2>5 DEF Service!Next
<1>6. CASE Popped(j)
  <2>1. Entry(j)' = Blank("deleted")
    BY <1>6 DEF Popped, Entry
  <2>2. Move(Blank("deleted"))
    BY <2>1, OneEntry
  <2>3. Service!Delete(j)
    BY <1>0, <1>6, <2>2
    DEF Popped, Service!Delete, Service!Listed, Service!Change, Service!Blank, Blank, Book
  <2> QED BY <2>3 DEF Service!Next
<1> QED BY <1>1, <1>2, <1>3, <1>4, <1>5, <1>6 DEF Effect

(* Every step of the store is a step of the service or leaves the book     *)
(* alone.                                                                  *)
LEMMA ServiceStep ==
  ASSUME Base, Base', CleanInv, RunsInv, [Next]_vars
  PROVE  Service!Next \/ UNCHANGED Book
<1>1. CASE UNCHANGED vars
  BY <1>1 DEF vars, Book, Entry, Blank
<1>2. CASE Restart
  <2>1. \A i \in Jobs : i \notin dirty' => Entry(i)' = Entry(i)
    <3>1. dirty \subseteq dirty' /\ UNCHANGED life
      BY <1>2 DEF Restart
    <3>2. ASSUME NEW i \in Jobs, i \notin dirty' PROVE jobs'[i] = jobs[i]
      BY <1>2, <3>2, RestartInvisible
    <3> QED BY <3>1, <3>2, SameEntry
  <2>2. dirty' \in SUBSET Jobs
    BY DEF Base, TypeOK
  <2>3. Service!Lapse
    BY <2>1, <2>2, LapseStep
  <2> QED BY <2>3 DEF Service!Next
<1>3. CASE ~Restart /\ ~UNCHANGED vars
  <2>1. PICK t \in Threads, j \in Jobs : About(t, j) /\ Frame(t, j)
    BY <1>3, StepAbout
  <2>2. CASE j \in dirty'
    <3>1. \A i \in Jobs : i \notin {j} => Entry(i)' = Entry(i)
      BY <2>1, SameEntry DEF Frame
    <3>2. {j} \in SUBSET Jobs /\ {j} \subseteq dirty'
      BY <2>2
    <3>3. Service!Lapse
      BY <3>1, <3>2, LapseStep
    <3> QED BY <3>3 DEF Service!Next
  <2>3. CASE j \notin dirty'
    <3>1. j \notin dirty
      <4>1. CASE Step(t) \/ SaveFails(t) \/
                   \E k \in {"main", "branches", "report", "diff"} : ArtifactFails(t, k)
        BY <2>3, <4>1
        DEF Step, Register, Heal, Replay, SaveOpen, SaveWrite, SaveFails, Plan, Bundle,
            WriteArtifact, ArtifactFails, Record, Pop, history
      <4>2. CASE \E l : Begin(t, j, l)
        BY <2>3, <4>2 DEF Begin
      <4> QED BY <2>1, <4>1, <4>2 DEF About, Load, Open, Convert, Recall, Delete
    <3>2. Effect(t, j)
      BY <2>1, <2>3, RequestEffect, StepEffect DEF About
    <3> QED BY <2>1, <2>3, <3>1, <3>2, EffectStep
  <2> QED BY <2>2, <2>3
<1> QED BY <1>1, <1>2, <1>3

(* The web UI implements the service: seen job by job, and as long as a    *)
(* job is used by one request at a time, requests act atomically, a newer  *)
(* result never gives way to an older one and no restart is noticed.       *)
THEOREM StoreImplementsService == Spec => ImplementsService
<1>1. Init => Service!Init
  BY ServiceInit
<1>2. Base /\ Base' /\ CleanInv /\ RunsInv /\ [Next]_vars
        => [Service!Next]_[j \in Jobs |-> Entry(j)]
  BY ServiceStep DEF Book
<1> QED BY <1>1, <1>2, BaseInductive, CleanInductive, RunsInductive, PTL
        DEF Spec, ImplementsService, Service!Spec

(* The whole inductive invariant of JobStoreInvariant holds throughout.    *)
THEOREM InvariantHolds == Spec => []JobStoreInv
<1>1. Base /\ FilesInv /\ CleanInv /\ RunsInv => JobStoreInv
  BY DEF Base, JobStoreInv
<1> QED BY <1>1, BaseInductive, FilesInductive, CleanInductive, RunsInductive, PTL
=============================================================================
