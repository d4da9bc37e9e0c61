------------------------------- MODULE AppDb --------------------------------
(***************************************************************************)
(* The App-ID database of fwforge: a bundled file, a user file             *)
(* ~/.fwforge/pan_apps.json that overrides it, and the tables every        *)
(* process builds from both when it imports parsers/pan_appid.py.          *)
(*                                                                         *)
(* Three parties work on them.  A gap analysis of the web UI (a request    *)
(* thread) merges researched entries into the user file and reloads the    *)
(* tables of the server; `fwforge applipedia import`, a process of its     *)
(* own, merges an export into the same file; a conversion in another       *)
(* thread of the server looks applications up.  Nobody takes a lock: each  *)
(* access to the file or the table is one step.  Any process may be        *)
(* stopped between two steps.                                              *)
(***************************************************************************)
EXTENDS Naturals, FiniteSets

CONSTANTS
  Names,      \* application names, as they are spelled
  Lower,      \* str.lower
  Base,       \* _norm: a lower-case name without -base, -video, ...
  Bundled,    \* the bundled apps: a function from names to entries
  Analyses,   \* what research_app_gaps may return: functions into {"ai"}
  Exports,    \* what a PAN export may hold: functions into {"pan"}
  Web,        \* request threads of the server, one for each request
  Cli,        \* `fwforge applipedia import` processes
  Absent,     \* the user file does not exist
  Torn,       \* it holds no complete document
  MaxStops    \* bound: processes stopped

Entries == {"bundled", "ai", "pan"}
Tables == UNION {[S -> Entries] : S \in SUBSET Names}
NoApps == [a \in {} |-> "bundled"]

ASSUME AppDbAssumption ==
  /\ Lower \in [Names -> Names]
  /\ Base \in [Names -> Names]
  /\ {Bundled} \cup Analyses \cup Exports \subseteq Tables
  /\ Web \cap Cli = {}
  /\ {Absent, Torn} \cap Tables = {}
  /\ Absent # Torn
  /\ MaxStops \in Nat

Procs == Web \cup Cli

VARIABLES
  file,       \* the user file: the apps in it, Absent or Torn
  up,         \* is the server running?
  table,      \* _DB of the server
  derived,    \* the tables _rebuild_tables derives from it, as one
  pc,         \* what the thread or process does next
  new,        \* its locals: entries, imported
  own,        \* its locals: existing, then new_db
  late,       \* who has changed what a process holds a copy of, or has open
  stops,      \* processes stopped so far
  kept,       \* history: apps that were written and not given up since
  unseen,     \* history: of these, what the copy of a writer is without
  behind,     \* history: who has left the table behind the file
  uneven,     \* history: may derived hold what is not in the table?
  missed      \* history: bundled apps a look-up did not find

vars == <<file, up, table, derived, pc, new, own, late, stops, kept, unseen, behind, uneven, missed>>

Rest == {"idle", "done"}
Label == Rest \cup {"read", "truncate", "write", "load", "clear", "fill",
                   "rebuild", "collect", "finish"}

TypeOK ==
  /\ file \in Tables \cup {Absent, Torn}
  /\ up \in BOOLEAN
  /\ table \in Tables
  /\ derived \in Tables
  /\ pc \in [Procs -> Label]
  /\ new \in [Procs -> Tables]
  /\ own \in [Procs -> Tables]
  /\ late \in [Procs -> SUBSET Procs]
  /\ stops \in 0 .. MaxStops
  /\ kept \subseteq Names
  /\ unseen \in [Procs -> SUBSET Names]
  /\ behind \subseteq Procs
  /\ uneven \in BOOLEAN
  /\ missed \subseteq Names

Updated(f, g) ==
  [a \in DOMAIN f \cup DOMAIN g |-> IF a \in DOMAIN g THEN g[a] ELSE f[a]]

Apps(f) == IF f \in {Absent, Torn} THEN NoApps ELSE f

(* _load_db of a file that is there or not; a torn one makes it raise.     *)
LoadDb(f) == Updated(Bundled, Apps(f))

(* _resolve: the exact lower-case name, else the suffix-stripped one.      *)
Resolves(db, a) == {Lower[a], Base[Lower[a]]} \cap DOMAIN db # {}

(* What an iteration over f yields if f becomes g meanwhile: some of each. *)
Mixed(f, g, some) ==
  [a \in (DOMAIN f \cap some) \cup (DOMAIN g \ some) |-> IF a \in some THEN f[a] ELSE g[a]]

Idle == \A p \in Procs : pc[p] \in Rest

Goto(p, l) == pc' = [pc EXCEPT ![p] = l]

(* The request of p is answered, or its process ends.                      *)
Return(p) ==
  /\ Goto(p, "done")
  /\ new' = [new EXCEPT ![p] = NoApps]
  /\ own' = [own EXCEPT ![p] = NoApps]

(* p changes what the others at these labels hold.                         *)
Overtakes(p, labels) ==
  late' = [q \in Procs |-> IF q = p THEN {}
                           ELSE IF pc[q] \in labels THEN late[q] \cup {p} ELSE late[q]]

-----------------------------------------------------------------------------
(* ai_feature "gaps": research_app_gaps answered with entries.  An answer  *)
(* without any merges and reloads nothing.                                 *)
Analyse(w) ==
  /\ up
  /\ pc[w] = "idle"
  /\ \E e \in Analyses :
       /\ DOMAIN e # {}
       /\ new' = [new EXCEPT ![w] = e]
  /\ Goto(w, "read")
  /\ UNCHANGED <<file, up, table, derived, own, late, stops, kept, unseen, behind, uneven, missed>>

(* p reads the user file and merges into its copy.                         *)
Read(p) ==
  /\ own' = [own EXCEPT ![p] = Updated(Apps(file), new[p])]
  /\ unseen' = [unseen EXCEPT ![p] = IF file = Torn THEN kept ELSE {}]
  /\ Goto(p, "truncate")

(* merge_to_user_db: a file that does not parse counts as empty.           *)
ReadUser(w) ==
  /\ pc[w] = "read"
  /\ Read(w)
  /\ UNCHANGED <<file, up, table, derived, new, late, stops, kept, behind, uneven, missed>>

(* Mutant: an app is stored as its name, not as its entry.                 *)
Import_Names(c) ==
  /\ pc[c] = "idle"
  /\ \E x \in Exports : new' = [new EXCEPT ![c] = [a \in {Lower[b] : b \in DOMAIN x} |-> a]]
  /\ Goto(c, "read")
  /\ UNCHANGED <<file, up, table, derived, own, late, stops, kept, unseen, behind, uneven, missed>>

(* import_applipedia: an export without an app is refused, its names are   *)
(* lower-cased; a user file that does not parse makes it raise.            *)
Import(c) ==
  /\ pc[c] = "idle"
  /\ \E x \in Exports :
       /\ DOMAIN x # {}
       /\ new' = [new EXCEPT ![c] = [a \in {Lower[b] : b \in DOMAIN x} |-> "pan"]]
  /\ Goto(c, "read")
  /\ UNCHANGED <<file, up, table, derived, own, late, stops, kept, unseen, behind, uneven, missed>>

ReadForImport(c) ==
  /\ pc[c] = "read"
  /\ IF file = Torn THEN Return(c) /\ UNCHANGED unseen ELSE Read(c) /\ UNCHANGED new
  /\ UNCHANGED <<file, up, table, derived, late, stops, kept, behind, uneven, missed>>

(* write_text truncates the file, then writes the document.                *)
Truncate(p) ==
  /\ pc[p] = "truncate"
  /\ file' = Torn
  /\ Goto(p, "write")
  /\ Overtakes(p, {"write"})
  /\ UNCHANGED <<up, table, derived, new, own, stops, kept, unseen, behind, uneven, missed>>

(* What the completed write of p does to the histories.                    *)
Written(p) ==
  /\ Overtakes(p, {"write", "clear", "fill"})
  /\ kept' = (kept \ unseen[p]) \cup DOMAIN new[p]
  /\ unseen' = [q \in Procs |->
       IF q = p THEN {}
       ELSE IF pc[q] \in {"truncate", "write"} THEN unseen[q] \cup DOMAIN new[p] ELSE unseen[q]]
  /\ behind' = IF p \in Cli THEN behind \cup {p} ELSE behind

(* Mutant: the new entries replace the apps of the file.                   *)
Write_Replaces(p) ==
  /\ pc[p] = "write"
  /\ file' = new[p] \/ (late[p] # {} /\ file' = Torn)
  /\ Written(p)
  /\ IF p \in Web THEN Goto(p, "load") /\ UNCHANGED <<new, own>> ELSE Return(p)
  /\ UNCHANGED <<up, table, derived, stops, uneven, missed>>

(* Mutant: the tables are not reloaded after the merge.                    *)
Write_NoReload(p) ==
  /\ pc[p] = "write"
  /\ file' = own[p] \/ (late[p] # {} /\ file' = Torn)
  /\ Written(p)
  /\ Return(p)
  /\ UNCHANGED <<up, table, derived, stops, uneven, missed>>

(* The document replaces what the file holds.  If another process has      *)
(* truncated or written the file since p opened it, the tail of the longer *)
(* document may stay behind the shorter one.                               *)
Write(p) ==
  /\ pc[p] = "write"
  /\ file' = own[p] \/ (late[p] # {} /\ file' = Torn)
  /\ Written(p)
  /\ IF p \in Web THEN Goto(p, "load") /\ UNCHANGED <<new, own>> ELSE Return(p)
  /\ UNCHANGED <<up, table, derived, stops, uneven, missed>>

-----------------------------------------------------------------------------
(* Mutant: reload() takes what the thread merged, not what the file holds. *)
Load_Merged(w) ==
  /\ pc[w] = "load"
  /\ IF file = Torn
     THEN Return(w) /\ behind' = behind \cup {w}
     ELSE /\ Goto(w, "clear")
          /\ own' = [own EXCEPT ![w] = LoadDb(own[w])]
          /\ UNCHANGED <<new, behind>>
  /\ UNCHANGED <<file, up, table, derived, late, stops, kept, unseen, uneven, missed>>

(* reload(): new_db is read before the live table is touched; a torn file  *)
(* raises here and the request answers 500.                                *)
Load(w) ==
  /\ pc[w] = "load"
  /\ IF file = Torn
     THEN Return(w) /\ behind' = behind \cup {w}
     ELSE /\ Goto(w, "clear")
          /\ own' = [own EXCEPT ![w] = LoadDb(file)]
          /\ UNCHANGED <<new, behind>>
  /\ UNCHANGED <<file, up, table, derived, late, stops, kept, unseen, uneven, missed>>

(* _DB.clear(); _DB.update(new_db): others may be deriving from _DB.       *)
Clear(w) ==
  /\ pc[w] = "clear"
  /\ table' = NoApps
  /\ Goto(w, "fill")
  /\ late' = [v \in Procs |-> IF v # w /\ pc[v] \in {"collect", "finish"} THEN late[v] \cup {w} ELSE late[v]]
  /\ behind' = {}
  /\ UNCHANGED <<file, up, derived, new, own, stops, kept, unseen, uneven, missed>>

(* _DB.update(new_db).  Who had changed the file since leaves w behind it. *)
Fill(w) ==
  /\ pc[w] = "fill"
  /\ table' = Updated(table, own[w])
  /\ Goto(w, "rebuild")
  /\ Overtakes(w, {"collect", "finish"})
  /\ behind' = behind \cup (IF late[w] = {} THEN {} ELSE late[w] \cup {w})
  /\ UNCHANGED <<file, up, derived, new, own, stops, kept, unseen, uneven, missed>>

(* _rebuild_tables empties the derived tables, as one, and iterates over   *)
(* _DB for what goes into them.                                            *)
Rebuild(w) ==
  /\ pc[w] = "rebuild"
  /\ derived' = NoApps
  /\ own' = [own EXCEPT ![w] = table]
  /\ Goto(w, "collect")
  /\ uneven' = FALSE
  /\ UNCHANGED <<file, up, table, new, late, stops, kept, unseen, behind, missed>>

(* The iteration raises RuntimeError when _DB changed its size under it.   *)
Collect(w) ==
  /\ pc[w] = "collect"
  /\ IF Cardinality(DOMAIN own[w]) = Cardinality(DOMAIN table)
     THEN /\ Goto(w, "finish")
          /\ \E some \in SUBSET Names : own' = [own EXCEPT ![w] = Mixed(own[w], table, some)]
          /\ UNCHANGED <<new, late, uneven>>
     ELSE /\ Return(w)
          /\ late' = [late EXCEPT ![w] = {}]
          /\ uneven' = TRUE
  /\ UNCHANGED <<file, up, table, derived, stops, kept, unseen, behind, missed>>

(* What it yielded goes into the tables; the request answers "reloaded".   *)
Finish(w) ==
  /\ pc[w] = "finish"
  /\ derived' = Updated(derived, own[w])
  /\ Return(w)
  /\ late' = [late EXCEPT ![w] = {}]
  /\ uneven' = (uneven \/ late[w] # {})
  /\ UNCHANGED <<file, up, table, stops, kept, unseen, behind, missed>>

(* A conversion looks up an application the bundled database knows.        *)
LookUp(a) ==
  /\ up
  /\ Resolves(Bundled, a)
  /\ missed' = IF Resolves(table, a) THEN missed ELSE missed \cup {a}
  /\ UNCHANGED <<file, up, table, derived, pc, new, own, late, stops, kept, unseen, behind, uneven>>

-----------------------------------------------------------------------------
(* The server is stopped.  A cut write leaves the file without a document. *)
StopServer ==
  /\ up
  /\ stops < MaxStops
  /\ stops' = stops + 1
  /\ up' = FALSE
  /\ pc' = [p \in Procs |-> IF p \in Web /\ pc[p] # "idle" THEN "done" ELSE pc[p]]
  /\ new' = [p \in Procs |-> IF p \in Web THEN NoApps ELSE new[p]]
  /\ own' = [p \in Procs |-> IF p \in Web THEN NoApps ELSE own[p]]
  /\ unseen' = [p \in Procs |-> IF p \in Web THEN {} ELSE unseen[p]]
  /\ late' = [p \in Procs |-> IF p \in Web THEN {} ELSE late[p]]
  /\ UNCHANGED <<file, table, derived, kept, behind, uneven, missed>>

StopImport(c) ==
  /\ pc[c] \notin Rest
  /\ stops < MaxStops
  /\ stops' = stops + 1
  /\ Return(c)
  /\ unseen' = [unseen EXCEPT ![c] = {}]
  /\ late' = [late EXCEPT ![c] = {}]
  /\ UNCHANGED <<file, up, table, derived, kept, behind, uneven, missed>>

(* Mutant: the tables are left empty until something asks for them.        *)
StartServer_Lazy ==
  /\ ~up
  /\ file # Torn
  /\ up' = TRUE
  /\ table' = NoApps
  /\ derived' = NoApps
  /\ behind' = {}
  /\ uneven' = FALSE
  /\ UNCHANGED <<file, pc, new, own, late, stops, kept, unseen, missed>>

(* Importing pan_appid builds the tables; a torn user file makes it raise  *)
(* and the process does not come up.                                       *)
StartServer ==
  /\ ~up
  /\ file # Torn
  /\ up' = TRUE
  /\ table' = LoadDb(file)
  /\ derived' = LoadDb(file)
  /\ behind' = {}
  /\ uneven' = FALSE
  /\ UNCHANGED <<file, pc, new, own, late, stops, kept, unseen, missed>>

(* The user deletes a user file that keeps the program from starting.      *)
DeleteTorn ==
  /\ ~up
  /\ file = Torn
  /\ Idle
  /\ file' = Absent
  /\ kept' = {}
  /\ UNCHANGED <<up, table, derived, pc, new, own, late, stops, unseen, behind, uneven, missed>>

-----------------------------------------------------------------------------
Init ==
  /\ file = Absent
  /\ up = TRUE
  /\ table = LoadDb(Absent)
  /\ derived = LoadDb(Absent)
  /\ pc = [p \in Procs |-> "idle"]
  /\ new = [p \in Procs |-> NoApps]
  /\ own = [p \in Procs |-> NoApps]
  /\ late = [p \in Procs |-> {}]
  /\ stops = 0
  /\ kept = {}
  /\ unseen = [p \in Procs |-> {}]
  /\ behind = {}
  /\ uneven = FALSE
  /\ missed = {}

WebStep(w) ==
  \/ ReadUser(w) \/ Truncate(w) \/ Write(w)
  \/ Load(w) \/ Clear(w) \/ Fill(w) \/ Rebuild(w) \/ Collect(w) \/ Finish(w)

CliStep(c) == ReadForImport(c) \/ Truncate(c) \/ Write(c)

Next ==
  \/ \E w \in Web : Analyse(w) \/ WebStep(w)
  \/ \E c \in Cli : Import(c) \/ CliStep(c) \/ StopImport(c)
  \/ \E a \in Names : LookUp(a)
  \/ StopServer \/ StartServer \/ DeleteTorn

Spec == Init /\ [][Next]_vars /\ \A w \in Web : WF_vars(WebStep(w))

(* Apps that merge_to_user_db or import_applipedia has written stay in the *)
(* user file, however writers overlap and whoever is stopped, until one    *)
(* writes that read the file before they were in it, or when it held no    *)
(* document, or the user deletes it: nothing else gives an app up.         *)
NothingForgotten == file # Torn => kept \subseteq DOMAIN Apps(file)

(* Between reloads the live tables are what a restart would load.  _DB is, *)
(* unless an import wrote since the last reload, the reload found no       *)
(* document, or it filled _DB with what it had read before another wrote;  *)
(* the tables derived from _DB are, unless another reload changed it while *)
(* _rebuild_tables was at work.                                            *)
TableFollowsFile ==
  LET reloading(labels) == \E w \in Web : pc[w] \in labels
  IN  up =>
        /\ file # Torn /\ behind = {} /\ ~reloading({"load", "clear", "fill"}) =>
             table = LoadDb(file)
        /\ ~uneven /\ ~reloading({"fill", "rebuild", "collect", "finish"}) => derived = table

(* A look-up misses a bundled app only while a reload is between clearing  *)
(* and refilling the table: _DB.clear(); _DB.update(new_db).               *)
MissedOnlyInReload == [][missed' # missed => \E w \in Web : pc[w] = "fill"]_vars

(* A gap analysis that writes its entries ends with all of them in effect, *)
(* or the server is stopped, or another process is in the way: it made the *)
(* file give them up, has written since, is writing, or is reloading.      *)
EntriesTakeEffect ==
  \A w \in Web, a \in UNION {DOMAIN e : e \in Analyses} :
    pc[w] = "write" /\ a \in DOMAIN new[w] ~>
      \/ ~up
      \/ /\ pc[w] = "done"
         /\ \/ Resolves(table, a)
            \/ a \notin kept \/ file = Torn \/ behind \ {w} # {}
            \/ \E v \in Web : pc[v] \in {"load", "clear", "fill"}
=============================================================================
