---------------------------- MODULE AppDbProofs -----------------------------
(***************************************************************************)
(* What the App-ID database promises, for any apps, names, answers and     *)
(* exports, and any number of processes and stops.                         *)
(*                                                                         *)
(* No order between the processes is assumed.  DbInv: the labels fit the   *)
(* server, and the live table holds the bundled apps unless a reload is    *)
(* filling it.  FileInv: what a writer holds has all that is kept but what *)
(* it has not seen.  FollowInv: what a reload holds is the file, or the    *)
(* table, unless another process has changed that since.                   *)
(***************************************************************************)
EXTENDS AppDb, TLAPS

-----------------------------------------------------------------------------
(* A table is a function from its names to entries.                        *)
LEMMA TableIsFunction ==
  ASSUME NEW t \in Tables
  PROVE  /\ DOMAIN t \subseteq Names
         /\ t \in [DOMAIN t -> Entries]
  BY DEF Tables

(* A function on some names with entries as values is a table.             *)
LEMMA FunctionIsTable ==
  ASSUME NEW S \in SUBSET Names, NEW t \in [S -> Entries]
  PROVE  t \in Tables
  BY DEF Tables

(* The file without entries is a table, the empty one.                     *)
LEMMA NoAppsIsTable == NoApps \in Tables /\ DOMAIN NoApps = {}
<1>1. NoApps \in [{} -> Entries]
  BY DEF NoApps
<1>2. NoApps \in Tables
  BY <1>1, FunctionIsTable
<1> QED
  BY <1>1, <1>2

(* Merging two tables gives a table with the names of both.                *)
LEMMA UpdatedIsTable ==
  ASSUME NEW f \in Tables, NEW g \in Tables
  PROVE  /\ Updated(f, g) \in Tables
         /\ DOMAIN Updated(f, g) = DOMAIN f \cup DOMAIN g
<1> DEFINE S == DOMAIN f \cup DOMAIN g
<1>1. S \subseteq Names
  BY TableIsFunction
<1>2. f \in [DOMAIN f -> Entries] /\ g \in [DOMAIN g -> Entries]
  BY TableIsFunction
<1>3. Updated(f, g) \in [S -> Entries]
  BY <1>2 DEF Updated
<1>4. Updated(f, g) \in Tables
  BY <1>1, <1>3, FunctionIsTable
<1> QED
  BY <1>4 DEF Updated

(* Filling an empty table gives what it is filled with.                    *)
LEMMA UpdatedEmpty ==
  ASSUME NEW g \in Tables
  PROVE  Updated(NoApps, g) = g
<1>1. g \in [DOMAIN g -> Entries]
  BY TableIsFunction
<1>2. Updated(NoApps, g) = [a \in DOMAIN g |-> IF a \in DOMAIN g THEN g[a] ELSE NoApps[a]]
  BY NoAppsIsTable DEF Updated
<1> QED
  BY <1>1, <1>2

(* Merging a table into itself changes nothing.                            *)
LEMMA UpdatedSame ==
  ASSUME NEW g \in Tables
  PROVE  Updated(g, g) = g
<1>1. g \in [DOMAIN g -> Entries]
  BY TableIsFunction
<1>2. Updated(g, g) = [a \in DOMAIN g |-> g[a]]
  BY DEF Updated
<1> QED
  BY <1>1, <1>2

(* An iteration over a table that changes yields a table ...               *)
LEMMA MixedIsTable ==
  ASSUME NEW f \in Tables, NEW g \in Tables, NEW some \in SUBSET Names
  PROVE  Mixed(f, g, some) \in Tables
<1> DEFINE S == (DOMAIN f \cap some) \cup (DOMAIN g \ some)
<1>1. S \subseteq Names
  BY TableIsFunction
<1>2. f \in [DOMAIN f -> Entries] /\ g \in [DOMAIN g -> Entries]
  BY TableIsFunction
<1>3. Mixed(f, g, some) \in [S -> Entries]
  BY <1>2 DEF Mixed
<1> QED
  BY <1>1, <1>3, FunctionIsTable

(* ... and over one that does not, the table itself.                       *)
LEMMA MixedSame ==
  ASSUME NEW f \in Tables, NEW some \in SUBSET Names
  PROVE  Mixed(f, f, some) = f
<1>1. f \in [DOMAIN f -> Entries]
  BY TableIsFunction
<1>2. Mixed(f, f, some) = [a \in DOMAIN f |-> f[a]]
  <2>1. (DOMAIN f \cap some) \cup (DOMAIN f \ some) = DOMAIN f
    OBVIOUS
  <2> QED
    BY <2>1 DEF Mixed
<1> QED
  BY <1>1, <1>2

(* What a file holds, and what a process loads from it.                    *)
LEMMA AppsIsTable ==
  ASSUME NEW f \in Tables \cup {Absent, Torn}
  PROVE  Apps(f) \in Tables
  BY NoAppsIsTable DEF Apps

(* What a load makes of any file is a table that keeps the bundled names.  *)
LEMMA LoadDbIsTable ==
  ASSUME NEW f \in Tables \cup {Absent, Torn}
  PROVE  /\ LoadDb(f) \in Tables
         /\ DOMAIN Bundled \subseteq DOMAIN LoadDb(f)
<1>1. Bundled \in Tables
  BY AppDbAssumption
<1>2. Apps(f) \in Tables
  BY AppsIsTable
<1> QED
  BY <1>1, <1>2, UpdatedIsTable DEF LoadDb

-----------------------------------------------------------------------------
(* The variables have their types at the start.                            *)
LEMMA TypeInit == Init => TypeOK
<1> SUFFICES ASSUME Init PROVE TypeOK
  OBVIOUS
<1>1. LoadDb(Absent) \in Tables
  BY LoadDbIsTable
<1>2. stops \in 0 .. MaxStops
  BY AppDbAssumption DEF Init
<1>3. missed \subseteq Names /\ kept \subseteq Names
  BY DEF Init
<1>4. late \in [Procs -> SUBSET Procs] /\ unseen \in [Procs -> SUBSET Names]
  BY DEF Init
<1> QED
  BY <1>1, <1>2, <1>3, <1>4, NoAppsIsTable DEF Init, TypeOK, Label, Rest

(* Every step of the program keeps the types of its variables.             *)
LEMMA TypeNext == TypeOK /\ [Next]_vars => TypeOK'
<1> SUFFICES ASSUME TypeOK, [Next]_vars PROVE TypeOK'
  OBVIOUS
<1> USE AppDbAssumption, NoAppsIsTable DEF TypeOK, Label, Rest
<1>p. Web \subseteq Procs /\ Cli \subseteq Procs
  BY DEF Procs
<1> USE <1>p
<1>r. ASSUME NEW p \in Procs, Return(p)
      PROVE  /\ pc' \in [Procs -> Label]
             /\ new' \in [Procs -> Tables]
             /\ own' \in [Procs -> Tables]
  BY <1>r DEF Return, Goto
<1>g. ASSUME NEW p \in Procs, NEW l \in Label, Goto(p, l)
      PROVE  pc' \in [Procs -> Label]
  BY <1>g DEF Goto
<1>o. ASSUME NEW p \in Procs, NEW labels, Overtakes(p, labels)
      PROVE  late' \in [Procs -> SUBSET Procs]
  BY <1>o DEF Overtakes
<1>u. ASSUME NEW p \in Procs, Read(p)
      PROVE  /\ pc' \in [Procs -> Label]
             /\ own' \in [Procs -> Tables]
             /\ unseen' \in [Procs -> SUBSET Names]
  <2>1. Updated(Apps(file), new[p]) \in Tables
    BY AppsIsTable, UpdatedIsTable
  <2> QED
    BY <1>u, <2>1, <1>g DEF Read
<1>1. ASSUME NEW w \in Web, Analyse(w) PROVE TypeOK'
  BY <1>1, <1>g DEF Analyse
<1>2. ASSUME NEW w \in Web, ReadUser(w) PROVE TypeOK'
  BY <1>2, <1>u DEF ReadUser
<1>3. ASSUME NEW c \in Cli, Import(c) PROVE TypeOK'
  <2>1. PICK x \in Exports : new' = [new EXCEPT ![c] = [a \in {Lower[b] : b \in DOMAIN x} |-> "pan"]]
    BY <1>3 DEF Import
  <2>2. DOMAIN x \subseteq Names
    BY TableIsFunction
  <2> DEFINE S == {Lower[b] : b \in DOMAIN x}
  <2>3. S \subseteq Names
    BY <2>2
  <2>4. [a \in S |-> "pan"] \in [S -> Entries]
    BY DEF Entries
  <2>5. [a \in S |-> "pan"] \in Tables
    BY <2>3, <2>4, FunctionIsTable
  <2>6. new' \in [Procs -> Tables]
    BY <2>1, <2>5
  <2> QED
    BY <1>3, <2>6, <1>g DEF Import
<1>4. ASSUME NEW c \in Cli, ReadForImport(c) PROVE TypeOK'
  <2>1. CASE file = Torn
    BY <1>4, <2>1, <1>r DEF ReadForImport
  <2>2. CASE file # Torn
    BY <1>4, <2>2, <1>u DEF ReadForImport
  <2> QED
    BY <2>1, <2>2
<1>5. ASSUME NEW p \in Procs, Truncate(p) PROVE TypeOK'
  BY <1>5, <1>o, <1>g DEF Truncate
<1>6. ASSUME NEW p \in Procs, Write(p) PROVE TypeOK'
  <2>1. kept' \subseteq Names
    BY <1>6, TableIsFunction DEF Write, Written
  <2>2. unseen' \in [Procs -> SUBSET Names]
    <3>1. DOMAIN new[p] \subseteq Names
      BY TableIsFunction
    <3> QED
      BY <1>6, <3>1 DEF Write, Written
  <2>3. late' \in [Procs -> SUBSET Procs] /\ behind' \subseteq Procs
    BY <1>6, <1>o DEF Write, Written
  <2>4. pc' \in [Procs -> Label] /\ new' \in [Procs -> Tables] /\ own' \in [Procs -> Tables]
    <3>1. CASE p \in Web
      BY <1>6, <3>1, <1>g DEF Write
    <3>2. CASE p \notin Web
      BY <1>6, <3>2, <1>r DEF Write
    <3> QED
      BY <3>1, <3>2
  <2> QED
    BY <1>6, <2>1, <2>2, <2>3, <2>4 DEF Write
<1>7. ASSUME NEW w \in Web, Load(w) PROVE TypeOK'
  <2>1. CASE file = Torn
    BY <1>7, <1>r, <2>1 DEF Load
  <2>2. CASE file # Torn
    <3>1. LoadDb(file) \in Tables
      BY LoadDbIsTable
    <3>2. own' \in [Procs -> Tables]
      BY <1>7, <2>2, <3>1 DEF Load
    <3>3. pc' \in [Procs -> Label]
      BY <1>7, <2>2, <1>g DEF Load
    <3> QED
      BY <1>7, <2>2, <3>2, <3>3 DEF Load
  <2> QED
    BY <2>1, <2>2
<1>8. ASSUME NEW w \in Web, Clear(w) PROVE TypeOK'
  <2>1. late' \in [Procs -> SUBSET Procs]
    BY <1>8 DEF Clear
  <2> QED
    BY <1>8, <2>1, <1>g DEF Clear
<1>9. ASSUME NEW w \in Web, Fill(w) PROVE TypeOK'
  <2>1. table' \in Tables
    BY <1>9, UpdatedIsTable DEF Fill
  <2>2. late' \in [Procs -> SUBSET Procs] /\ behind' \subseteq Procs
    BY <1>9, <1>o DEF Fill
  <2> QED
    BY <1>9, <2>1, <2>2, <1>g DEF Fill
<1>10. ASSUME NEW w \in Web, Rebuild(w) PROVE TypeOK'
  BY <1>10, <1>g DEF Rebuild
<1>11. ASSUME NEW w \in Web, Collect(w) PROVE TypeOK'
  <2>1. CASE pc' = [pc EXCEPT ![w] = "finish"] /\ UNCHANGED <<new, late, uneven>>
             /\ \E some \in SUBSET Names : own' = [own EXCEPT ![w] = Mixed(own[w], table, some)]
    <3>1. own' \in [Procs -> Tables]
      BY <2>1, MixedIsTable
    <3> QED
      BY <1>11, <2>1, <3>1 DEF Collect
  <2>2. CASE Return(w) /\ late' = [late EXCEPT ![w] = {}] /\ uneven'
    BY <1>11, <2>2, <1>r DEF Collect
  <2> QED
    BY <1>11, <2>1, <2>2 DEF Collect, Goto
<1>12. ASSUME NEW w \in Web, Finish(w) PROVE TypeOK'
  <2>1. derived' \in Tables
    BY <1>12, UpdatedIsTable DEF Finish
  <2> QED
    BY <1>12, <2>1, <1>r DEF Finish
<1>13. ASSUME NEW a \in Names, LookUp(a) PROVE TypeOK'
  BY <1>13 DEF LookUp
<1>14. CASE StopServer
  <2>1. stops' \in 0 .. MaxStops
    BY <1>14 DEF StopServer
  <2>2. /\ pc' \in [Procs -> Label] /\ own' \in [Procs -> Tables] /\ new' \in [Procs -> Tables]
        /\ late' \in [Procs -> SUBSET Procs] /\ unseen' \in [Procs -> SUBSET Names]
    BY <1>14 DEF StopServer
  <2> QED
    BY <1>14, <2>1, <2>2 DEF StopServer
<1>15. ASSUME NEW c \in Cli, StopImport(c) PROVE TypeOK'
  BY <1>15, <1>r DEF StopImport
<1>16. CASE StartServer
  BY <1>16, LoadDbIsTable DEF StartServer
<1>17. CASE DeleteTorn
  BY <1>17 DEF DeleteTorn
<1>18. CASE UNCHANGED vars
  BY <1>18 DEF vars
<1> QED
  BY <1>1, <1>2, <1>3, <1>4, <1>5, <1>6, <1>7, <1>8, <1>9, <1>10, <1>11,
     <1>12, <1>13, <1>14, <1>15, <1>16, <1>17, <1>18 DEF Next, WebStep, CliStep

(* Every variable keeps its type, whoever is at work and whatever is cut   *)
(* short: what is read, merged, loaded and filled are tables.              *)
THEOREM TypeCorrect == Spec => []TypeOK
  BY TypeInit, TypeNext, PTL DEF Spec
-----------------------------------------------------------------------------
(* Without any order between the processes: a request works only while the *)
(* server runs, what a reload has read holds the bundled apps, and so does *)
(* the live table unless a reload has cleared it.                          *)
UpInv == \A w \in Web : pc[w] \notin Rest => up
LoadedInv == \A w \in Web : pc[w] \in {"clear", "fill"} => DOMAIN Bundled \subseteq DOMAIN own[w]
WholeInv == up /\ (\A w \in Web : pc[w] # "fill") => DOMAIN Bundled \subseteq DOMAIN table
DbInv == TypeOK /\ UpInv /\ LoadedInv /\ WholeInv

(* The invariant of the live table and the file holds at the start.        *)
LEMMA DbInit == Init => DbInv
<1> SUFFICES ASSUME Init PROVE DbInv
  OBVIOUS
<1>1. TypeOK
  BY TypeInit
<1>2. DOMAIN Bundled \subseteq DOMAIN LoadDb(Absent)
  BY LoadDbIsTable
<1>3. \A w \in Web : pc[w] = "idle"
  BY DEF Init, Procs
<1> QED
  BY <1>1, <1>2, <1>3 DEF Init, DbInv, UpInv, LoadedInv, WholeInv, Rest

(* Every step keeps the invariant of the live table.                       *)
LEMMA DbNext == DbInv /\ [Next]_vars => DbInv'
<1> SUFFICES ASSUME DbInv, [Next]_vars PROVE DbInv'
  OBVIOUS
<1>t. TypeOK'
  BY TypeNext DEF DbInv
<1> SUFFICES UpInv' /\ LoadedInv' /\ WholeInv'
  BY <1>t DEF DbInv
<1> USE AppDbAssumption DEF DbInv, TypeOK, UpInv, LoadedInv, WholeInv, Goto, Procs, Rest
<1>1. ASSUME NEW w \in Web, Analyse(w) PROVE UpInv' /\ LoadedInv' /\ WholeInv'
  BY <1>1 DEF Analyse
<1>2. ASSUME NEW w \in Web, ReadUser(w) PROVE UpInv' /\ LoadedInv' /\ WholeInv'
  BY <1>2 DEF ReadUser, Read
<1>3. ASSUME NEW c \in Cli, Import(c) PROVE UpInv' /\ LoadedInv' /\ WholeInv'
  BY <1>3 DEF Import
<1>4. ASSUME NEW c \in Cli, ReadForImport(c) PROVE UpInv' /\ LoadedInv' /\ WholeInv'
  BY <1>4 DEF ReadForImport, Read, Return
<1>5. ASSUME NEW p \in Procs, Truncate(p) PROVE UpInv' /\ LoadedInv' /\ WholeInv'
  BY <1>5 DEF Truncate
<1>6. ASSUME NEW p \in Procs, Write(p) PROVE UpInv' /\ LoadedInv' /\ WholeInv'
  BY <1>6 DEF Write, Return
<1>7. ASSUME NEW w \in Web, Load(w) PROVE UpInv' /\ LoadedInv' /\ WholeInv'
  <2>1. DOMAIN Bundled \subseteq DOMAIN LoadDb(file)
    BY LoadDbIsTable
  <2> QED
    BY <1>7, <2>1 DEF Load, Return
<1>8. ASSUME NEW w \in Web, Clear(w) PROVE UpInv' /\ LoadedInv' /\ WholeInv'
  BY <1>8 DEF Clear
<1>9. ASSUME NEW w \in Web, Fill(w) PROVE UpInv' /\ LoadedInv' /\ WholeInv'
  <2>1. DOMAIN table' = DOMAIN table \cup DOMAIN own[w]
    BY <1>9, UpdatedIsTable DEF Fill
  <2> QED
    BY <1>9, <2>1 DEF Fill
<1>10. ASSUME NEW w \in Web, Rebuild(w) PROVE UpInv' /\ LoadedInv' /\ WholeInv'
  BY <1>10 DEF Rebuild
<1>11. ASSUME NEW w \in Web, Collect(w) PROVE UpInv' /\ LoadedInv' /\ WholeInv'
  <2>1. \A v \in Procs \ {w} : pc'[v] = pc[v] /\ own'[v] = own[v]
    BY <1>11 DEF Collect, Return
  <2>2. pc[w] = "collect" /\ pc'[w] \in {"done", "finish"} /\ UNCHANGED <<up, table>>
    BY <1>11 DEF Collect, Return
  <2> QED
    BY <2>1, <2>2
<1>12. ASSUME NEW w \in Web, Finish(w) PROVE UpInv' /\ LoadedInv' /\ WholeInv'
  BY <1>12 DEF Finish, Return
<1>13. ASSUME NEW a \in Names, LookUp(a) PROVE UpInv' /\ LoadedInv' /\ WholeInv'
  BY <1>13 DEF LookUp
<1>14. CASE StopServer
  BY <1>14 DEF StopServer
<1>15. ASSUME NEW c \in Cli, StopImport(c) PROVE UpInv' /\ LoadedInv' /\ WholeInv'
  BY <1>15 DEF StopImport, Return
<1>16. CASE StartServer
  <2>1. DOMAIN Bundled \subseteq DOMAIN LoadDb(file)
    BY LoadDbIsTable
  <2> QED
    BY <1>16, <2>1 DEF StartServer
<1>17. CASE DeleteTorn
  BY <1>17 DEF DeleteTorn
<1>18. CASE UNCHANGED vars
  BY <1>18 DEF vars
<1> QED
  BY <1>1, <1>2, <1>3, <1>4, <1>5, <1>6, <1>7, <1>8, <1>9, <1>10, <1>11,
     <1>12, <1>13, <1>14, <1>15, <1>16, <1>17, <1>18 DEF Next, WebStep, CliStep

(* A step that misses an app is a look-up while a reload fills the table.  *)
LEMMA MissNeedsReload ==
  ASSUME DbInv, Next, missed' # missed
  PROVE  \E w \in Web : pc[w] = "fill"
<1>1. PICK a \in Names : LookUp(a)
  BY DEF Next, WebStep, CliStep, Analyse, ReadUser, Import, ReadForImport, Truncate,
         Write, Written, Load, Clear, Fill, Rebuild, Collect, Finish, StopServer, StopImport, StartServer,
         DeleteTorn
<1>2. Resolves(Bundled, a) /\ ~Resolves(table, a) /\ up
  BY <1>1 DEF LookUp
<1>3. ~(DOMAIN Bundled \subseteq DOMAIN table)
  BY <1>2 DEF Resolves
<1> QED
  BY <1>2, <1>3 DEF DbInv, WholeInv

(* A look-up misses a bundled app only while a reload is between clearing  *)
(* and refilling the live table, whoever else is at work.                  *)
THEOREM MissesOnlyInReload == Spec => MissedOnlyInReload
<1>1. DbInv /\ [Next]_vars => [missed' # missed => \E w \in Web : pc[w] = "fill"]_vars
  BY MissNeedsReload
<1> QED
  BY <1>1, DbInit, DbNext, PTL DEF Spec, MissedOnlyInReload
-----------------------------------------------------------------------------
(* A writer holds all that is kept but what it has not seen, and its own.  *)
HoldsInv ==
  \A p \in Procs : pc[p] \in {"truncate", "write"} =>
    kept \ unseen[p] \subseteq DOMAIN own[p] /\ DOMAIN new[p] \subseteq DOMAIN own[p]
FileInv == HoldsInv /\ NothingForgotten

(* Nothing is kept at the start.                                           *)
LEMMA FileInit == Init => FileInv
  BY DEF Init, FileInv, HoldsInv, NothingForgotten

(* Every step keeps the invariant of the file and its writers.             *)
LEMMA FileNext ==
  ASSUME TypeOK, FileInv, [Next]_vars
  PROVE  FileInv'
<1> SUFFICES HoldsInv' /\ NothingForgotten'
  BY DEF FileInv
<1>a. \A f \in Tables : f # Torn /\ f # Absent /\ Apps(f) = f
  BY AppDbAssumption DEF Apps
<1>p. Web \subseteq Procs /\ Cli \subseteq Procs /\ Web \cap Cli = {}
  BY AppDbAssumption DEF Procs
<1> USE <1>p DEF FileInv, HoldsInv, NothingForgotten, TypeOK, Goto
<1>m. ASSUME NEW p \in Procs, Read(p), UNCHANGED <<file, new, kept>>
      PROVE  HoldsInv' /\ NothingForgotten'
  <2>1. DOMAIN own'[p] = DOMAIN Apps(file) \cup DOMAIN new[p]
    BY <1>m, AppsIsTable, UpdatedIsTable DEF Read
  <2>2. kept \ unseen'[p] \subseteq DOMAIN Apps(file)
    BY <1>m DEF Read
  <2> QED
    BY <1>m, <2>1, <2>2 DEF Read
<1>f. ASSUME NEW p \in Procs, NEW l \in Label \ {"truncate", "write"}, Goto(p, l),
             \A q \in Procs \ {p} : own'[q] = own[q] /\ new'[q] = new[q] /\ unseen'[q] = unseen[q],
             UNCHANGED <<file, kept>>
      PROVE  HoldsInv' /\ NothingForgotten'
  <2>1. pc' = [pc EXCEPT ![p] = l]
    BY <1>f
  <2> QED
    BY <1>f, <2>1
<1>1. ASSUME NEW w \in Web, Analyse(w) PROVE HoldsInv' /\ NothingForgotten'
  BY <1>1, <1>f DEF Analyse, Label, Rest
<1>2. ASSUME NEW w \in Web, ReadUser(w) PROVE HoldsInv' /\ NothingForgotten'
  BY <1>2, <1>m DEF ReadUser
<1>3. ASSUME NEW c \in Cli, Import(c) PROVE HoldsInv' /\ NothingForgotten'
  BY <1>3, <1>f DEF Import, Label, Rest
<1>4. ASSUME NEW c \in Cli, ReadForImport(c) PROVE HoldsInv' /\ NothingForgotten'
  <2>1. CASE file = Torn
    BY <1>4, <2>1, <1>f DEF ReadForImport, Return, Label, Rest
  <2>2. CASE file # Torn
    BY <1>4, <2>2, <1>m DEF ReadForImport
  <2> QED
    BY <2>1, <2>2
<1>5. ASSUME NEW p \in Procs, Truncate(p) PROVE HoldsInv' /\ NothingForgotten'
  BY <1>5 DEF Truncate
<1>6. ASSUME NEW p \in Procs, Write(p) PROVE HoldsInv' /\ NothingForgotten'
  <2>1. pc[p] = "write" /\ file' \in {own[p], Torn} /\ kept' = (kept \ unseen[p]) \cup DOMAIN new[p]
    BY <1>6 DEF Write, Written
  <2>2. \E l \in {"load", "done"} : pc' = [pc EXCEPT ![p] = l]
    BY <1>6 DEF Write, Return
  <2>3. NothingForgotten'
    <3>1. kept' \subseteq DOMAIN own[p]
      BY <2>1
    <3> QED
      BY <1>a, <2>1, <3>1
  <2>4. ASSUME NEW q \in Procs, pc'[q] \in {"truncate", "write"}
        PROVE  kept' \ unseen'[q] \subseteq DOMAIN own'[q] /\ DOMAIN new'[q] \subseteq DOMAIN own'[q]
    <3>1. q # p /\ pc[q] \in {"truncate", "write"}
      BY <2>2, <2>4
    <3>2. own'[q] = own[q] /\ new'[q] = new[q]
      BY <1>6, <3>1 DEF Write, Return
    <3>3. unseen'[q] = unseen[q] \cup DOMAIN new[p]
      BY <1>6, <3>1 DEF Write, Written
    <3> QED
      BY <2>1, <3>1, <3>2, <3>3
  <2> QED
    BY <2>3, <2>4
<1>7. ASSUME NEW w \in Web, Load(w) PROVE HoldsInv' /\ NothingForgotten'
  <2>1. CASE file = Torn
    BY <1>7, <2>1, <1>f DEF Load, Return, Label, Rest
  <2>2. CASE file # Torn
    BY <1>7, <2>2, <1>f DEF Load, Label, Rest
  <2> QED
    BY <2>1, <2>2
<1>8. ASSUME NEW w \in Web, Clear(w) PROVE HoldsInv' /\ NothingForgotten'
  BY <1>8, <1>f DEF Clear, Label, Rest
<1>9. ASSUME NEW w \in Web, Fill(w) PROVE HoldsInv' /\ NothingForgotten'
  BY <1>9, <1>f DEF Fill, Label, Rest
<1>10. ASSUME NEW w \in Web, Rebuild(w) PROVE HoldsInv' /\ NothingForgotten'
  BY <1>10, <1>f DEF Rebuild, Label, Rest
<1>11. ASSUME NEW w \in Web, Collect(w) PROVE HoldsInv' /\ NothingForgotten'
  <2>1. \A q \in Procs \ {w} : own'[q] = own[q] /\ new'[q] = new[q] /\ unseen'[q] = unseen[q]
    BY <1>11 DEF Collect, Return
  <2>2. UNCHANGED <<file, kept>> /\ \E l \in {"finish", "done"} : Goto(w, l)
    BY <1>11 DEF Collect, Return
  <2> QED
    BY <2>1, <2>2, <1>f DEF Label, Rest
<1>12. ASSUME NEW w \in Web, Finish(w) PROVE HoldsInv' /\ NothingForgotten'
  BY <1>12, <1>f DEF Finish, Return, Label, Rest
<1>13. ASSUME NEW a \in Names, LookUp(a) PROVE HoldsInv' /\ NothingForgotten'
  BY <1>13 DEF LookUp
<1>14. CASE StopServer
  <2>1. \A p \in Procs : pc'[p] = IF p \in Web /\ pc[p] # "idle" THEN "done" ELSE pc[p]
    BY <1>14 DEF StopServer
  <2>2. \A p \in Procs \ Web : own'[p] = own[p] /\ new'[p] = new[p] /\ unseen'[p] = unseen[p]
    BY <1>14 DEF StopServer
  <2>3. UNCHANGED <<file, kept>>
    BY <1>14 DEF StopServer
  <2> QED
    BY <2>1, <2>2, <2>3
<1>15. ASSUME NEW c \in Cli, StopImport(c) PROVE HoldsInv' /\ NothingForgotten'
  BY <1>15, <1>f DEF StopImport, Return, Label, Rest
<1>16. CASE StartServer
  BY <1>16 DEF StartServer
<1>17. CASE DeleteTorn
  BY <1>17 DEF DeleteTorn
<1>18. CASE UNCHANGED vars
  BY <1>18 DEF vars
<1> QED
  BY <1>1, <1>2, <1>3, <1>4, <1>5, <1>6, <1>7, <1>8, <1>9, <1>10, <1>11,
     <1>12, <1>13, <1>14, <1>15, <1>16, <1>17, <1>18 DEF Next, WebStep, CliStep

(* Apps that were written stay in the user file, however analyses and      *)
(* imports overlap and whoever is stopped, until one writes that read the  *)
(* file before they were in it, or when it held no document, or the user   *)
(* deletes it.                                                             *)
THEOREM NothingIsForgotten == Spec => []NothingForgotten
<1>1. Init => TypeOK /\ FileInv
  BY TypeInit, FileInit
<1>2. TypeOK /\ FileInv /\ [Next]_vars => (TypeOK /\ FileInv)'
  BY TypeNext, FileNext
<1>3. FileInv => NothingForgotten
  BY DEF FileInv
<1> QED
  BY <1>1, <1>2, <1>3, PTL DEF Spec
-----------------------------------------------------------------------------
(* What a reload has read is what a load of the file gives, and what it is *)
(* deriving from is the table, unless another has changed that since.      *)
At(labels) == \E w \in Web : pc[w] \in labels
ReadInv ==
  \A w \in Web : pc[w] \in {"clear", "fill"} /\ late[w] = {} /\ file # Torn => own[w] = LoadDb(file)
DeriveInv ==
  \A w \in Web :
    /\ pc[w] = "rebuild" => late[w] = {}
    /\ pc[w] \in {"collect", "finish"} /\ late[w] = {} => own[w] = table

(* The table is what a restart would load, or a reload is on its way to    *)
(* empty it, or has emptied it; the derived tables follow it likewise.     *)
TableInv ==
  up /\ behind = {} /\ file # Torn =>
    table = LoadDb(file) \/ At({"load", "clear"}) \/ (table = NoApps /\ At({"fill"}))
DerivedInv ==
  up /\ ~uneven =>
    \/ derived = table \/ At({"fill", "rebuild"})
    \/ derived = NoApps /\ \E w \in Web : pc[w] \in {"collect", "finish"} /\ late[w] = {}
FollowInv == ReadInv /\ DeriveInv /\ TableInv /\ DerivedInv

(* At the start nothing is reloading and the tables are those of the file. *)
LEMMA FollowInit == Init => FollowInv
  BY DEF Init, FollowInv, ReadInv, DeriveInv, TableInv, DerivedInv, Procs

(* A step of a process outside of reloads that leaves the file and the     *)
(* tables alone keeps the invariant.                                       *)
LEMMA FollowOutside ==
  ASSUME TypeOK, FollowInv,
         NEW p \in Procs, NEW l \in Rest \cup {"read", "truncate", "write"},
         pc[p] \in Rest \cup {"read", "truncate", "write"}, Goto(p, l),
         \A q \in Procs \ {p} : own'[q] = own[q] /\ late'[q] = late[q],
         UNCHANGED <<file, up, table, derived, behind, uneven>>
  PROVE  FollowInv'
<1>1. pc' = [pc EXCEPT ![p] = l]
  BY DEF Goto
<1> USE DEF Rest
<1>2. Web \subseteq Procs
  BY DEF Procs
<1>3. \A labels : labels \cap (Rest \cup {"read", "truncate", "write"}) = {} => At(labels)' = At(labels)
  BY <1>1, <1>2 DEF At, TypeOK
<1>4. ReadInv' /\ DeriveInv'
  BY <1>1, <1>2 DEF FollowInv, ReadInv, DeriveInv, TypeOK
<1>5. TableInv'
  BY <1>3 DEF FollowInv, TableInv
<1>6. DerivedInv'
  BY <1>1, <1>2, <1>3 DEF FollowInv, DerivedInv, TypeOK
<1> QED
  BY <1>4, <1>5, <1>6 DEF FollowInv

(* A write leaves those behind who have read the file; its own process     *)
(* reloads, or is an import.                                               *)
LEMMA FollowWrite ==
  ASSUME TypeOK, FollowInv, NEW p \in Procs, Write(p)
  PROVE  FollowInv'
<1> USE DEF TypeOK
<1>1. pc[p] = "write" /\ UNCHANGED <<up, table, derived, uneven>>
  BY DEF Write
<1>2. \E l \in {"load", "done"} : pc' = [pc EXCEPT ![p] = l]
  BY DEF Write, Return, Goto
<1>3. \A q \in Procs \ {p} : pc'[q] = pc[q] /\ own'[q] = own[q]
  BY <1>2 DEF Write, Return
<1>4. \A q \in Procs \ {p} :
        late'[q] = IF pc[q] \in {"write", "clear", "fill"} THEN late[q] \cup {p} ELSE late[q]
  BY DEF Write, Written, Overtakes
<1>5. Web \subseteq Procs
  BY DEF Procs
<1>6. ReadInv'
  BY <1>1, <1>2, <1>3, <1>4, <1>5 DEF ReadInv
<1>7. DeriveInv'
  BY <1>1, <1>2, <1>3, <1>4, <1>5 DEF DeriveInv, FollowInv
<1>8. TableInv'
  <2>1. CASE p \in Web
    <3>1. pc'[p] = "load"
      BY <2>1 DEF Write, Goto
    <3> QED
      BY <2>1, <3>1 DEF TableInv, At
  <2>2. CASE p \notin Web
    <3>1. behind' # {}
      BY <2>2 DEF Write, Written, Procs
    <3> QED
      BY <3>1 DEF TableInv
  <2> QED
    BY <2>1, <2>2
<1>9. DerivedInv'
  BY <1>1, <1>2, <1>3, <1>4, <1>5 DEF DerivedInv, FollowInv, At
<1> QED
  BY <1>6, <1>7, <1>8, <1>9 DEF FollowInv

(* reload() reads the file, or finds no document in it.                    *)
LEMMA FollowLoad ==
  ASSUME TypeOK, FollowInv, NEW w \in Web, Load(w)
  PROVE  FollowInv'
<1> USE DEF TypeOK, Procs
<1>1. pc[w] = "load" /\ UNCHANGED <<file, up, table, derived, late, uneven>>
  BY DEF Load
<1>2. \A v \in Web \ {w} : pc'[v] = pc[v] /\ own'[v] = own[v]
  BY DEF Load, Return, Goto
<1>3. pc'[w] \in {"done", "clear"}
  BY DEF Load, Return, Goto
<1>4. ReadInv'
  <2>1. file # Torn => own'[w] = LoadDb(file)
    BY DEF Load
  <2> QED
    BY <1>1, <1>2, <2>1 DEF ReadInv, FollowInv
<1>5. DeriveInv'
  BY <1>1, <1>2, <1>3 DEF DeriveInv, FollowInv
<1>6. TableInv'
  <2>1. CASE file = Torn
    BY <2>1, <1>1 DEF TableInv
  <2>2. CASE file # Torn
    <3>1. pc'[w] = "clear"
      BY <2>2 DEF Load, Goto
    <3> QED
      BY <3>1 DEF TableInv, At
  <2> QED
    BY <2>1, <2>2
<1>7. DerivedInv'
  BY <1>1, <1>2 DEF DerivedInv, FollowInv, At
<1> QED
  BY <1>4, <1>5, <1>6, <1>7 DEF FollowInv

(* _DB.clear() empties the table under those who derive from it.           *)
LEMMA FollowClear ==
  ASSUME TypeOK, FollowInv, NEW w \in Web, Clear(w)
  PROVE  FollowInv'
<1> USE DEF TypeOK, Procs
<1>1. pc[w] = "clear" /\ pc' = [pc EXCEPT ![w] = "fill"] /\ table' = NoApps
  BY DEF Clear, Goto
<1>2. UNCHANGED <<file, up, derived, own, uneven>>
  BY DEF Clear
<1>3. \A v \in Procs :
        late'[v] = IF v # w /\ pc[v] \in {"collect", "finish"} THEN late[v] \cup {w} ELSE late[v]
  BY DEF Clear
<1>4. ReadInv'
  BY <1>1, <1>2, <1>3 DEF ReadInv, FollowInv
<1>5. DeriveInv'
  BY <1>1, <1>2, <1>3 DEF DeriveInv, FollowInv
<1>6. TableInv' /\ DerivedInv'
  BY <1>1 DEF TableInv, DerivedInv, At
<1> QED
  BY <1>4, <1>5, <1>6 DEF FollowInv

(* _DB.update(new_db): what was read since the last change completes the   *)
(* table.                                                                  *)
LEMMA FollowFill ==
  ASSUME TypeOK, FollowInv, NEW w \in Web, Fill(w)
  PROVE  FollowInv'
<1> USE DEF TypeOK, Procs
<1>1. pc[w] = "fill" /\ pc' = [pc EXCEPT ![w] = "rebuild"] /\ table' = Updated(table, own[w])
  BY DEF Fill, Goto
<1>2. UNCHANGED <<file, up, derived, own, uneven>>
  BY DEF Fill
<1>3. \A v \in Procs :
        late'[v] = IF v = w THEN {}
                   ELSE IF pc[v] \in {"collect", "finish"} THEN late[v] \cup {w} ELSE late[v]
  BY DEF Fill, Overtakes
<1>4. ReadInv'
  BY <1>1, <1>2, <1>3 DEF ReadInv, FollowInv
<1>5. DeriveInv'
  BY <1>1, <1>2, <1>3 DEF DeriveInv, FollowInv
<1>6. TableInv'
  <2> SUFFICES ASSUME up, behind' = {}, file # Torn
               PROVE  table' = LoadDb(file) \/ At({"load", "clear"})'
    BY <1>2 DEF TableInv
  <2>1. behind = {} /\ late[w] = {}
    BY DEF Fill
  <2>2. own[w] = LoadDb(file) /\ LoadDb(file) \in Tables
    BY <1>1, <2>1, LoadDbIsTable DEF FollowInv, ReadInv
  <2>3. CASE At({"load", "clear"})
    BY <1>1, <2>3 DEF At
  <2>4. CASE ~At({"load", "clear"})
    <3>1. table = LoadDb(file) \/ table = NoApps
      BY <2>1, <2>4 DEF FollowInv, TableInv
    <3> QED
      BY <1>1, <2>2, <3>1, UpdatedEmpty, UpdatedSame
  <2> QED
    BY <2>3, <2>4
<1>7. DerivedInv'
  BY <1>1 DEF DerivedInv, At
<1> QED
  BY <1>4, <1>5, <1>6, <1>7 DEF FollowInv

(* _rebuild_tables empties the derived tables and goes over the table.     *)
LEMMA FollowRebuild ==
  ASSUME TypeOK, FollowInv, NEW w \in Web, Rebuild(w)
  PROVE  FollowInv'
<1> USE DEF TypeOK, Procs
<1>1. pc[w] = "rebuild" /\ pc' = [pc EXCEPT ![w] = "collect"] /\ derived' = NoApps
  BY DEF Rebuild, Goto
<1>2. UNCHANGED <<file, up, table, late, behind>> /\ own' = [own EXCEPT ![w] = table]
  BY DEF Rebuild
<1>3. ReadInv' /\ DeriveInv'
  BY <1>1, <1>2 DEF ReadInv, DeriveInv, FollowInv
<1>4. TableInv'
  BY <1>1, <1>2 DEF TableInv, FollowInv, At
<1>5. DerivedInv'
  <2>1. late'[w] = {} /\ pc'[w] = "collect"
    BY <1>1, <1>2 DEF DeriveInv, FollowInv
  <2> QED
    BY <1>1, <2>1 DEF DerivedInv
<1> QED
  BY <1>3, <1>4, <1>5 DEF FollowInv

(* The iteration over a table that has not changed yields the table.       *)
LEMMA FollowCollect ==
  ASSUME TypeOK, FollowInv, NEW w \in Web, Collect(w)
  PROVE  FollowInv'
<1> USE DEF TypeOK, Procs
<1>1. pc[w] = "collect" /\ UNCHANGED <<file, up, table, derived, behind>>
  BY DEF Collect
<1>2. \A v \in Web \ {w} : pc'[v] = pc[v] /\ own'[v] = own[v] /\ late'[v] = late[v]
  BY DEF Collect, Return, Goto
<1>3. ReadInv' /\ TableInv'
  <2>1. pc'[w] \in {"finish", "done"}
    BY DEF Collect, Return, Goto
  <2> QED
    BY <1>1, <1>2, <2>1 DEF ReadInv, TableInv, FollowInv, At
<1>4. CASE Cardinality(DOMAIN own[w]) = Cardinality(DOMAIN table)
  <2>1. pc'[w] = "finish" /\ late'[w] = late[w] /\ uneven' = uneven
    BY <1>4 DEF Collect, Goto
  <2>2. late[w] = {} => own'[w] = table
    <3>1. PICK some \in SUBSET Names : own' = [own EXCEPT ![w] = Mixed(own[w], table, some)]
      BY <1>4 DEF Collect
    <3>2. late[w] = {} => own[w] = table
      BY <1>1 DEF DeriveInv, FollowInv
    <3> QED
      BY <3>1, <3>2, MixedSame
  <2>3. DeriveInv'
    BY <1>1, <1>2, <2>1, <2>2 DEF DeriveInv, FollowInv
  <2>4. DerivedInv'
    BY <1>1, <1>2, <2>1 DEF DerivedInv, FollowInv, At
  <2> QED
    BY <1>3, <2>3, <2>4 DEF FollowInv
<1>5. CASE Cardinality(DOMAIN own[w]) # Cardinality(DOMAIN table)
  <2>1. pc'[w] = "done" /\ uneven'
    BY <1>5 DEF Collect, Return, Goto
  <2>2. DeriveInv'
    BY <1>1, <1>2, <2>1 DEF DeriveInv, FollowInv
  <2> QED
    BY <1>3, <2>1, <2>2 DEF FollowInv, DerivedInv
<1> QED
  BY <1>4, <1>5

(* What was collected since the last change completes the derived tables.  *)
LEMMA FollowFinish ==
  ASSUME TypeOK, FollowInv, NEW w \in Web, Finish(w)
  PROVE  FollowInv'
<1> USE DEF TypeOK, Procs
<1>1. pc[w] = "finish" /\ pc' = [pc EXCEPT ![w] = "done"] /\ derived' = Updated(derived, own[w])
  BY DEF Finish, Return, Goto
<1>2. UNCHANGED <<file, up, table, behind>>
  BY DEF Finish
<1>3. \A v \in Web \ {w} : own'[v] = own[v] /\ late'[v] = late[v]
  BY DEF Finish, Return
<1>4. ReadInv' /\ DeriveInv'
  BY <1>1, <1>2, <1>3 DEF ReadInv, DeriveInv, FollowInv
<1>5. TableInv'
  BY <1>1, <1>2 DEF TableInv, FollowInv, At
<1>6. DerivedInv'
  <2> SUFFICES ASSUME up, ~uneven'
               PROVE  derived' = table \/ At({"fill", "rebuild"})'
    BY <1>2 DEF DerivedInv
  <2>1. ~uneven /\ late[w] = {}
    BY DEF Finish
  <2>2. own[w] = table
    BY <1>1, <2>1 DEF DeriveInv, FollowInv
  <2>3. CASE At({"fill", "rebuild"})
    BY <1>1, <2>3 DEF At
  <2>4. CASE ~At({"fill", "rebuild"})
    <3>1. derived = table \/ derived = NoApps
      BY <2>1, <2>4 DEF DerivedInv, FollowInv
    <3> QED
      BY <1>1, <2>2, <3>1, UpdatedEmpty, UpdatedSame
  <2> QED
    BY <2>3, <2>4
<1> QED
  BY <1>4, <1>5, <1>6 DEF FollowInv

(* Every step keeps the tables following the file.                         *)
LEMMA FollowNext ==
  ASSUME DbInv, FollowInv, [Next]_vars
  PROVE  FollowInv'
<1>t. TypeOK /\ UpInv
  BY DEF DbInv
<1>p. Web \subseteq Procs /\ Cli \subseteq Procs /\ Web \cap Cli = {}
  BY AppDbAssumption DEF Procs
<1> USE <1>t, <1>p
<1>1. ASSUME NEW w \in Web, Analyse(w) PROVE FollowInv'
  BY <1>1, FollowOutside DEF Analyse, Rest
<1>2. ASSUME NEW w \in Web, ReadUser(w) PROVE FollowInv'
  BY <1>2, FollowOutside DEF ReadUser, Read, TypeOK, Rest
<1>3. ASSUME NEW c \in Cli, Import(c) PROVE FollowInv'
  BY <1>3, FollowOutside DEF Import, Rest
<1>4. ASSUME NEW c \in Cli, ReadForImport(c) PROVE FollowInv'
  <2>1. CASE file = Torn
    BY <1>4, <2>1, FollowOutside DEF ReadForImport, Return, TypeOK, Rest
  <2>2. CASE file # Torn
    BY <1>4, <2>2, FollowOutside DEF ReadForImport, Read, TypeOK, Rest
  <2> QED
    BY <2>1, <2>2
<1>5. ASSUME NEW p \in Procs, Truncate(p) PROVE FollowInv'
  <2>1. pc' = [pc EXCEPT ![p] = "write"] /\ pc[p] = "truncate"
    BY <1>5 DEF Truncate, Goto
  <2>2. file' = Torn /\ UNCHANGED <<up, table, derived, own, uneven>>
    BY <1>5 DEF Truncate
  <2>3. \A q \in Procs \ {p} : pc[q] # "write" => late'[q] = late[q]
    BY <1>5 DEF Truncate, Overtakes
  <2>4. ReadInv' /\ TableInv'
    BY <2>2 DEF ReadInv, TableInv
  <2>5. DeriveInv' /\ DerivedInv'
    BY <2>1, <2>2, <2>3 DEF DeriveInv, DerivedInv, FollowInv, At, TypeOK
  <2> QED
    BY <2>4, <2>5 DEF FollowInv
<1>6. ASSUME NEW p \in Procs, Write(p) PROVE FollowInv'
  BY <1>6, FollowWrite
<1>7. ASSUME NEW w \in Web, Load(w) PROVE FollowInv'
  BY <1>7, FollowLoad
<1>8. ASSUME NEW w \in Web, Clear(w) PROVE FollowInv'
  BY <1>8, FollowClear
<1>9. ASSUME NEW w \in Web, Fill(w) PROVE FollowInv'
  BY <1>9, FollowFill
<1>10. ASSUME NEW w \in Web, Rebuild(w) PROVE FollowInv'
  BY <1>10, FollowRebuild
<1>11. ASSUME NEW w \in Web, Collect(w) PROVE FollowInv'
  BY <1>11, FollowCollect
<1>12. ASSUME NEW w \in Web, Finish(w) PROVE FollowInv'
  BY <1>12, FollowFinish
<1> DEFINE Same == UNCHANGED <<file, up, table, derived, pc, own, late, behind, uneven>>
<1>s. Same => FollowInv'
  BY DEF FollowInv, ReadInv, DeriveInv, TableInv, DerivedInv, At
<1>13. ASSUME NEW a \in Names, LookUp(a) PROVE FollowInv'
  BY <1>13, <1>s DEF LookUp
<1>14. CASE StopServer
  <2>1. ~up' /\ \A w \in Web : pc'[w] \in Rest
    BY <1>14 DEF StopServer, TypeOK, Rest
  <2> QED
    BY <2>1 DEF FollowInv, ReadInv, DeriveInv, TableInv, DerivedInv, Rest
<1>15. ASSUME NEW c \in Cli, StopImport(c) PROVE FollowInv'
  <2>1. \A w \in Web : pc'[w] = pc[w] /\ own'[w] = own[w] /\ late'[w] = late[w]
    BY <1>15 DEF StopImport, Return, Goto, TypeOK
  <2>2. UNCHANGED <<file, up, table, derived, behind, uneven>>
    BY <1>15 DEF StopImport
  <2> QED
    BY <2>1, <2>2 DEF FollowInv, ReadInv, DeriveInv, TableInv, DerivedInv, At
<1>16. CASE StartServer
  <2>1. table' = LoadDb(file') /\ derived' = table'
    BY <1>16 DEF StartServer
  <2>2. \A w \in Web : pc'[w] \in Rest
    BY <1>16 DEF StartServer, UpInv
  <2> QED
    BY <2>1, <2>2 DEF FollowInv, ReadInv, DeriveInv, TableInv, DerivedInv, Rest
<1>17. CASE DeleteTorn
  <2>1. ~up' /\ \A w \in Web : pc'[w] \in Rest
    BY <1>17 DEF DeleteTorn, Idle
  <2> QED
    BY <2>1 DEF FollowInv, ReadInv, DeriveInv, TableInv, DerivedInv, Rest
<1>18. CASE UNCHANGED vars
  BY <1>18, <1>s DEF vars
<1> QED
  BY <1>1, <1>2, <1>3, <1>4, <1>5, <1>6, <1>7, <1>8, <1>9, <1>10, <1>11,
     <1>12, <1>13, <1>14, <1>15, <1>16, <1>17, <1>18 DEF Next, WebStep, CliStep

(* Between reloads the live tables are what a restart would load, however  *)
(* reloads, merges and imports overlap and whoever is stopped, but for an  *)
(* import since, a reload that found no document, and a reload that filled *)
(* a table with what it had read before another process changed it.        *)
THEOREM TablesFollowTheFile == Spec => []TableFollowsFile
<1>1. Init => DbInv /\ FollowInv
  BY DbInit, FollowInit
<1>2. DbInv /\ FollowInv /\ [Next]_vars => (DbInv /\ FollowInv)'
  BY DbNext, FollowNext
<1>3. FollowInv => TableFollowsFile
  BY DEF FollowInv, TableInv, DerivedInv, TableFollowsFile, At
<1> QED
  BY <1>1, <1>2, <1>3, PTL DEF Spec
=============================================================================
