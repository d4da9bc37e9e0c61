----------------------------- MODULE RuleFixes -----------------------------
(* The Optimize tab: a conversion reports which rules are dead, the user    *)
(* clicks a fix, the fix is merged into the saved form, and the whole       *)
(* conversion is run again from the source with the form's fixes            *)
(* (src/fwforge/webui/app.py, webui/templates/result.html,                  *)
(* transforms/tuning.py, pipeline.py).                                      *)
EXTENDS RuleTable

CONSTANTS
  Names,        \* policy names
  Systems,      \* how many virtual systems the source may have: 1 .. Systems
  Sources,      \* the source configurations: one table and its rules for each
  Exclusions,   \* the sets of rules the user may deselect in the wizard
  OldTabs       \* whether a result page may be kept open over later runs

RuleTables == [order : Seq(Names), off : SUBSET Names]

Distinct(order) == \A i, j \in DOMAIN order : order[i] = order[j] => i = j

(* Parsed tables: within one virtual system the names are unique.           *)
ASSUME FixesAssumption ==
  /\ Systems \in Nat \ {0}
  /\ OldTabs \in BOOLEAN
  /\ \A s \in Sources : \A v \in 1 .. Systems :
       s[v].table \in RuleTables /\ Distinct(s[v].table.order)

VARIABLES
  source,   \* the uploaded configuration, [1 .. Systems -> [table, rules]]
  form,     \* last_form: [exclude, disable, reorder]
  out,      \* the converted tables, in the output configuration
  page,     \* what the Optimize tab of the current result offers
  old       \* what the tab of an earlier result, kept open, offers

vars == << source, form, out, page, old >>

NoFixes(excluded) == [exclude |-> excluded, disable |-> {}, reorder |-> << >>]
EmptyPage == [shadowed |-> {}, bypassed |-> << >>, unreachable |-> << >>]
-----------------------------------------------------------------------------
(* tuning.py, in the order of apply().                                      *)

(* The rules kept, one after the other.                                     *)
KeptUpTo(order, excluded) ==
  LET kept[k \in 0 .. Len(order)] ==
        IF k = 0 THEN << >>
        ELSE IF order[k] \in excluded THEN kept[k - 1] ELSE Append(kept[k - 1], order[k])
  IN  kept

Filtered(t, excluded) ==
  [order |-> KeptUpTo(t.order, excluded)[Len(t.order)], off |-> t.off \ excluded]

Disabled(t, names) ==
  [order |-> t.order, off |-> t.off \cup (names \cap ToSet(t.order))]

Position(order, n) == Min({ i \in DOMAIN order : order[i] = n } \cup { Len(order) + 1 })

\* Mutant: the moved rule is inserted and not taken out.
Lifted_Copied(order, pair) ==
  LET m == Position(order, pair[1])
      b == Position(order, pair[2])
  IN  IF m > Len(order) \/ b > Len(order) \/ m <= b
      THEN order ELSE InsertAt(order, b, pair[1])

(* One (move, before) pair: unknown names and a rule already at or above    *)
(* its target are left alone, else the rules from the target on make room.  *)
Lifted(order, pair) ==
  LET m == Position(order, pair[1])
      b == Position(order, pair[2])
  IN  IF m > Len(order) \/ b > Len(order) \/ m <= b
      THEN order
      ELSE [ i \in DOMAIN order |-> IF i = b THEN order[m]
                                   ELSE IF i \in b + 1 .. m THEN order[i - 1]
                                   ELSE order[i] ]

(* The pairs one after the other.                                           *)
LiftedUpTo(order, pairs) ==
  LET after[k \in 0 .. Len(pairs)] ==
        IF k = 0 THEN order ELSE Lifted(after[k - 1], pairs[k])
  IN  after

Replayed(order, pairs) == LiftedUpTo(order, pairs)[Len(pairs)]

Reordered(t, pairs) == [order |-> Replayed(t.order, pairs), off |-> t.off]

Tuned(t, fixes) ==
  Reordered(Disabled(Filtered(t, fixes.exclude), fixes.disable), fixes.reorder)

(* Every virtual system is converted with the same form.                    *)
Converted(src, fixes) ==
  [v \in 1 .. Systems |-> Tuned(src[v].table, fixes)]

(* The members of a finite set, by rank.                                    *)
Ranked(S, Before(_, _)) ==
  [ k \in 1 .. Cardinality(S) |->
      CHOOSE x \in S : Cardinality({ y \in S : Before(y, x) }) = k - 1 ]

(* The findings of all the virtual systems are one list: who to lift above  *)
(* whom, system by system and from the top down.                            *)
Findings(src, tables, act) ==
  UNION { {v} \X HiddenAt(src[v].rules, tables[v], act) : v \in 1 .. Systems }

Reported(x, y) == x[1] < y[1] \/ (x[1] = y[1] /\ x[2] < y[2])

Lifts(src, tables, act) ==
  LET at == Ranked(Findings(src, tables, act), Reported)
  IN  [ k \in DOMAIN at |->
          LET v == at[k][1]
              j == at[k][2]
          IN  << tables[v].order[j], HiddenBy(src[v].rules, tables[v], j) >> ]

Page(src, tables) ==
  [shadowed    |-> UNION { ShadowedRules(src[v].rules, tables[v]) : v \in 1 .. Systems },
   bypassed    |-> Lifts(src, tables, "deny"),
   unreachable |-> Lifts(src, tables, "accept")]
-----------------------------------------------------------------------------
Init ==
  /\ source \in Sources
  /\ form = NoFixes({})
  /\ out = Converted(source, form)
  /\ page = Page(source, out)
  /\ old = EmptyPage

(* convert(), after which the browser shows the new result.                 *)
Convert(fixes) ==
  /\ form' = fixes
  /\ out' = Converted(source, fixes)
  /\ page' = Page(source, out')
  /\ UNCHANGED source

\* Mutant: the new values replace the saved ones.
Merged_Latest(have, new) == new

(* apply_fix(): the values of one field are added to the saved form unless  *)
(* they are there.                                                          *)
Merged(have, new) ==
  LET fresh == { i \in DOMAIN new : /\ new[i] \notin ToSet(have)
                                   /\ \A j \in 1 .. i - 1 : new[j] # new[i] }
      at == Ranked(fresh, <)
  IN  have \o [ k \in DOMAIN at |-> new[at[k]] ]

FixDisable(names) == Convert([form EXCEPT !.disable = @ \cup names])
FixOrder(pairs) == Convert([form EXCEPT !.reorder = Merged(@, pairs)])

\* Mutant: the fixes survive another wizard run.
Wizard_KeepsFixes(excluded) == Convert([form EXCEPT !.exclude = excluded]) /\ UNCHANGED old

(* The wizard is submitted again: its form carries no earlier fix.          *)
Wizard(excluded) == Convert(NoFixes(excluded)) /\ UNCHANGED old

(* The result page stays open in a second tab.                              *)
KeepTab == OldTabs /\ old' = page /\ UNCHANGED << source, form, out, page >>

(* "Disable these rules": all the shadowed rules of the page at once.       *)
DisableDead(tab) ==
  /\ tab.shadowed # {}
  /\ FixDisable(tab.shadowed)
  /\ UNCHANGED old

(* "Fix": lift one bypassed deny above the accept that hides it.            *)
LiftDeny(tab, pair) == FixOrder(<< pair >>) /\ UNCHANGED old

(* "Move above": lift one unreachable accept above the deny that hides it.  *)
LiftAccept(tab, pair) == FixOrder(<< pair >>) /\ UNCHANGED old

(* "Fix all rule order".                                                    *)
FixAll(tab) ==
  /\ tab.bypassed \o tab.unreachable # << >>
  /\ FixOrder(tab.bypassed \o tab.unreachable)
  /\ UNCHANGED old

Click(tab) ==
  \/ DisableDead(tab)
  \/ \E i \in DOMAIN tab.bypassed : LiftDeny(tab, tab.bypassed[i])
  \/ \E i \in DOMAIN tab.unreachable : LiftAccept(tab, tab.unreachable[i])
  \/ FixAll(tab)

Next ==
  \/ \E excluded \in Exclusions : Wizard(excluded)
  \/ KeepTab
  \/ \E tab \in { page, old } : Click(tab)

Spec == Init /\ [][Next]_vars
-----------------------------------------------------------------------------
Traffic(v) == Accepted(source[v].rules, out[v])

(* A disable removes only names, a reorder only moves them: however many    *)
(* fixes have been replayed, each table still lists every rule of the       *)
(* source that was not deselected, once.                                    *)
TypeOK ==
  /\ source \in Sources
  /\ form.exclude \in Exclusions \cup {{}}
  /\ \A v \in 1 .. Systems :
       /\ out[v] \in RuleTables
       /\ Distinct(out[v].order)
       /\ ToSet(out[v].order) = ToSet(source[v].table.order) \ form.exclude

(* "A rule whose conditions are a subset of an earlier rule's conditions    *)
(* will NEVER fire": no traffic is decided by a rule the analysis of the    *)
(* converted table calls dead.                                              *)
DeadNeverFires ==
  \A v \in 1 .. Systems : \A j \in DeadAt(source[v].rules, out[v]) :
    \A f \in Flows : ~Fires(source[v].rules, out[v], f, j)

(* The disables that have piled up in the form stay harmless: enabling      *)
(* again what the user disabled would not change what is accepted, whatever *)
(* was lifted before or since on the result of the time.                    *)
DisabledStayHarmless ==
  \A v \in 1 .. Systems :
    Accepted(source[v].rules, [out[v] EXCEPT !.off = source[v].table.off]) = Traffic(v)

(* "They never match, so this is safe": the Disable button of the current   *)
(* result changes the verdict of no traffic.                                *)
DisableIsSafe ==
  [][ DisableDead(page) => \A v \in 1 .. Systems : Traffic(v)' = Traffic(v) ]_vars

(* Lifting a deny only tightens and lifting an accept only widens, from     *)
(* whatever tab and however the replayed pairs move the rules between.      *)
LiftsKeepTheirPromise ==
  [][ \A tab \in { page, old } : \A v \in 1 .. Systems :
        /\ \A i \in DOMAIN tab.bypassed :
             LiftDeny(tab, tab.bypassed[i]) => Traffic(v)' \subseteq Traffic(v)
        /\ \A i \in DOMAIN tab.unreachable :
             LiftAccept(tab, tab.unreachable[i]) => Traffic(v) \subseteq Traffic(v)' ]_vars

-----------------------------------------------------------------------------
(* Configurations the analysis is exact for, and whose virtual systems name *)
(* no two rules alike.                                                      *)
ExactSources ==
  \A s \in Sources : \A v \in 1 .. Systems : ExactTable(s[v].rules, s[v].table)

NamesApart ==
  \A s \in Sources : \A v, w \in 1 .. Systems :
    v # w => ToSet(s[v].table.order) \cap ToSet(s[w].table.order) = {}
=============================================================================
