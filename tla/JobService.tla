----------------------------- MODULE JobService -----------------------------
(***************************************************************************)
(* What the user of the web UI may rely on for a job that is used by one   *)
(* request at a time: an entry that only the job's own requests change,    *)
(* each in one step, and that no restart of the server touches.            *)
(*                                                                         *)
(* An entry holds the settings last submitted and the run number of the    *)
(* result shown.  "lapsed" stands for a job that left this regime: two of  *)
(* its requests overlapped, or one was cut short.                          *)
(***************************************************************************)
EXTENDS Naturals

CONSTANTS Jobs, Settings, None, MaxRuns

Entry == [state : {"unborn", "listed", "deleted", "lapsed"},
          settings : Settings \cup {None}, shown : 0 .. MaxRuns]

Blank(s) == [state |-> s, settings |-> None, shown |-> 0]

VARIABLE book

Init == book \in [Jobs -> {Blank("unborn"), Blank("listed")}]

Change(j, e) == book' = [book EXCEPT ![j] = e]

Listed(j) == book[j].state = "listed"

(* A loaded job starts with nothing submitted and nothing to show.         *)
Create(j) == book[j].state = "unborn" /\ Change(j, Blank("listed"))

Submit(j) ==
  /\ Listed(j)
  /\ \E f \in Settings : Change(j, [book[j] EXCEPT !.settings = f])

(* A result only ever gives way to the result of a later request.          *)
Show(j) ==
  /\ Listed(j)
  /\ book[j].settings # None
  /\ \E r \in 1 .. MaxRuns : /\ r > book[j].shown
                             /\ Change(j, [book[j] EXCEPT !.shown = r])

(* Re-analysis of an old job keeps the result and forgets the settings.    *)
Reanalyse(j) ==
  /\ Listed(j)
  /\ Change(j, [book[j] EXCEPT !.settings = None])

Delete(j) == Listed(j) /\ Change(j, Blank("deleted"))

(* A restart can cut several requests: several jobs lapse at once.         *)
Lapse ==
  \E S \in SUBSET Jobs :
    book' = [j \in Jobs |-> IF j \in S THEN Blank("lapsed") ELSE book[j]]

Next == \/ \E j \in Jobs : \/ Create(j) \/ Submit(j) \/ Show(j)
                           \/ Reanalyse(j) \/ Delete(j)
        \/ Lapse

Spec == Init /\ [][Next]_book
=============================================================================
