------------------------- MODULE JobStoreInvariant -------------------------
(***************************************************************************)
(* The inductive invariant behind the safety properties of JobStore.  It   *)
(* says, for every label, what a handler that has come so far may assume   *)
(* about its job, its locals and the files.                                *)
(***************************************************************************)
EXTENDS JobStore

Converting == {"save_form", "save_form_write", "plan", "fmg", "main", "branches",
               "report", "diff", "record"}
Writing == {"save_form_write", "save_write"}

(* The locals fit the label, in every interleaving.                        *)
LocalsOK(t) ==
  /\ pc[t] = "idle" <=> on[t] = None
  /\ pc[t] \in Writing <=> loc[t].fd # "closed"
  /\ pc[t] \in Writing <=> loc[t].buf # None
  /\ pc[t] \in Converting \cup {"replay"} => loc[t].form # None /\ loc[t].run # 0
  /\ HoldsMeta(t) => Held(t) # None
  /\ loc[t].own # None => HoldsMeta(t)
  /\ pc[t] = "branches" => Held(t).vendor # "fortios"
  /\ pc[t] = "diff" => Held(t).vendor = "fortios"

LocalsInv == \A t \in Threads : LocalsOK(t)

(* A jid is in use only after load() drew it, and until load() has         *)
(* registered the job no other handler can know it.                        *)
BirthInv ==
  /\ \A j \in Jobs :
       /\ life[j] = "unborn" => /\ ~dir[j] /\ source[j] = None
                                /\ Quiet(j)
       /\ (life[j] = "unborn" \/ \E t \in Threads : on[t] = j /\ pc[t] = "register")
            => jobs[j] = None /\ json[j] = None /\ art[j] = NoArtifacts
  /\ \A t \in Threads : pc[t] = "register" =>
       /\ source[on[t]] # None
       /\ life[on[t]] = "given"
       /\ \A u \in Threads : on[u] = on[t] => u = t

(* The files that the result of m points at are among the artifacts a.     *)
FilesOf(m, a) ==
  LET r == m.result
  IN r # None => /\ a["main"] # 0
                 /\ a["report"] # 0
                 /\ a[IF r.mode = "cross" THEN "branches" ELSE "diff"] # 0

(* What a conversion has written by the time it reaches label l.           *)
WrittenBy(l, vendor, a) ==
  /\ l \in {"branches", "report", "diff", "record"} => a["main"] # 0
  /\ l \in {"report", "diff", "record"} /\ vendor # "fortios" => a["branches"] # 0
  /\ l \in {"diff", "record"} => a["report"] # 0
  /\ l = "record" /\ vendor = "fortios" => a["diff"] # 0

(* Wherever a result is kept (JOBS, job.json, the text being saved, a dict *)
(* only a handler still holds), its files are there.                       *)
FilesOK(j) ==
  /\ jobs[j] # None => source[j] # None /\ FilesOf(jobs[j], art[j])
  /\ json[j] \notin {None, Torn} => source[j] # None /\ FilesOf(json[j], art[j])
  /\ \A t \in Threads : on[t] = j =>
       /\ source[j] # None
       /\ loc[t].buf # None => FilesOf(loc[t].buf, art[j])
       /\ loc[t].own # None => FilesOf(loc[t].own, art[j])
       /\ HoldsMeta(t) => WrittenBy(pc[t], Held(t).vendor, art[j])

FilesInv == \A j \in Jobs : life[j] = "given" => FilesOK(j)

-----------------------------------------------------------------------------
(* The artifacts of j are exactly what its result promises.                *)
ArtifactsMatch(j) ==
  LET r == jobs[j].result
  IN IF r = None THEN art[j] = NoArtifacts
     ELSE /\ art[j]["main"] = r.run
          /\ art[j]["report"] = r.run
          /\ art[j][IF r.mode = "cross" THEN "branches" ELSE "diff"] = r.run
          /\ art[j]["fmg"] = IF r.fmg THEN r.run ELSE 0

Gone(j) == ~dir[j] /\ json[j] = None /\ source[j] = None /\ art[j] = NoArtifacts

Stored(j) == jobs[j] # None /\ dir[j] /\ source[j] # None

(* What run r of thread t has written when it reaches label l.             *)
Progress(t, j, l) ==
  LET r == loc[t].run
      cross == jobs[j].vendor # "fortios"
  IN /\ art[j]["fmg"] = IF loc[t].form.fmg THEN r ELSE 0
     /\ l \in {"branches", "report", "diff", "record"} => art[j]["main"] = r
     /\ l \in {"report", "diff", "record"} /\ cross => art[j]["branches"] = r
     /\ l \in {"diff", "record"} => art[j]["report"] = r
     /\ l = "record" /\ ~cross => art[j]["diff"] = r

(* A clean job between two steps of the only handler that is about it.     *)
CleanStep(t, j) ==
  /\ loc[t].own = None
  /\ loc[t].fd \in {"closed", "clean"}
  /\ \A u \in Threads : on[u] = j => u = t
  /\ CASE pc[t] = "register" -> dir[j]
       [] pc[t] = "pop" -> /\ jobs[j] # None
                           /\ life[j] = "doomed"
                           /\ json[j] = None /\ source[j] = None
                           /\ art[j] = NoArtifacts
       [] OTHER -> /\ Stored(j)
                   /\ life[j] = "given"
                   /\ pc[t] \in {"heal", "replay", "plan", "fmg", "main", "branches",
                                 "report", "diff", "record"} => json[j] = jobs[j]
                   /\ pc[t] \in Writing => loc[t].buf = jobs[j]
                   /\ pc[t] \in {"heal", "replay", "save_form", "save_form_write",
                                 "plan", "fmg", "save", "save_write"}
                        => ArtifactsMatch(j)
                   /\ pc[t] \in {"main", "branches", "report", "diff", "record"}
                        => Progress(t, j, pc[t])
                   /\ pc[t] \in Converting =>
                        jobs[j].form # None

CleanQuiet(j) ==
  IF jobs[j] = None
  THEN Gone(j)
  ELSE Stored(j) /\ json[j] = jobs[j] /\ life[j] = "given" /\ ArtifactsMatch(j)

CleanOK(j) ==
  /\ Quiet(j) => CleanQuiet(j)
  /\ \A t \in Threads : on[t] = j => CleanStep(t, j)

CleanInv == \A j \in Jobs \ dirty : CleanOK(j)

Serving == Converting \cup {"replay"}

RunsBound == \A t \in Threads : loc[t].run <= runs

(* The run a handler of a clean job serves is later than the one shown.    *)
RunsOK(j) ==
  /\ jobs[j] # None /\ jobs[j].result # None => jobs[j].result.run <= runs
  /\ \A t \in Threads :
       on[t] = j /\ pc[t] \in Serving /\ jobs[j].result # None
         => loc[t].run > jobs[j].result.run

RunsInv == RunsBound /\ \A j \in Jobs \ dirty : RunsOK(j)

JobStoreInv ==
  /\ TypeOK
  /\ LocalsInv
  /\ BirthInv
  /\ FilesInv
  /\ CleanInv
  /\ RunsInv
=============================================================================
