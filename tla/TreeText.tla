------------------------------ MODULE TreeText ------------------------------
(***************************************************************************)
(* The FortiOS configuration reader and writer                             *)
(* (fwforge/parsers/fortios_tree.py): parse_config reads a text line by    *)
(* line into blocks, serialize writes the blocks back.  Reading, like the  *)
(* file, only ever appends to the innermost open block, so the tree built  *)
(* so far is kept as what serialize writes of it, plus the open blocks.    *)
(*                                                                         *)
(* A physical line is [head, arg, odd]: head is config, edit, next, end,   *)
(* set, comment or raw (anything else); odd says that it leaves a double   *)
(* quote open, or closes the one that is open.  An edit carries one name   *)
(* and an unset one attribute: of more, the code writes back the first.    *)
(***************************************************************************)
EXTENDS Naturals, SequencesExt

CONSTANTS
  Lines,      \* the lines a text is made of
  MaxLines,   \* the bound on a text's length
  Chars,      \* the characters of a line
  MaxChars    \* the bound on a line's length

(* The path of a config, which serialize writes without quotes, is made of  *)
(* the CLI's keywords and needs none.                                       *)
ASSUME LinesAssumption ==
  \A l \in Lines : l.odd \in BOOLEAN /\ (l.head = "config" => ~l.odd)

VARIABLES
  text,       \* the lines read so far
  reader,     \* parse_config's state
  line,       \* the characters of one line read so far
  scan        \* split_line's state

vars == <<text, reader, line, scan>>

(* stack   the open blocks, innermost last: [head, arg]                    *)
(* pending the lines of a logical line whose quote is still open           *)
(* out     what serialize writes of the tree so far                        *)
(* sets    the settings in the tree: <<path, logical line>>                *)
(* warned  the number of warnings                                          *)
Start == [stack |-> <<>>, pending |-> <<>>, out |-> <<>>, sets |-> <<>>, warned |-> 0]

Line(h, a) == [head |-> h, arg |-> a, odd |-> FALSE]
Innermost(r) == IF r.stack = <<>> THEN "tree" ELSE Last(r.stack).head
Warn(r) == [r EXCEPT !.warned = @ + 1]
Write(r, ls) == [r EXCEPT !.out = @ \o ls]
Open(r, ls) ==
  [Write(r, ls) EXCEPT !.stack = Append(@, [head |-> Head(ls).head, arg |-> Head(ls).arg])]
Pop(r) == [r EXCEPT !.stack = Front(@)]

(* serialize closes an edit with next and a config with end.               *)
Closer(b) == Line(IF b.head = "edit" THEN "next" ELSE "end", "")
Close(r) == Pop(Write(r, <<Closer(Last(r.stack))>>))

CloseEdit(r) == IF Innermost(r) = "edit" THEN Close(r) ELSE r

(* "closing an unclosed edit first mirrors FortiOS CLI tolerance"; an edit *)
(* is only ever opened right under a config.                               *)
EndLine(r) ==
  LET closed == CloseEdit(r)
  IN  IF Innermost(closed) = "config" THEN Close(closed) ELSE Warn(closed)

(* Mutant: a stray next is written back.                                   *)
NextLine_Kept(r, l) ==
  IF Innermost(r) = "edit" THEN Close(r) ELSE Write(Warn(r), <<l>>)

NextLine(r, l) == IF Innermost(r) = "edit" THEN Close(r) ELSE Warn(r)

(* Mutant: an edit opens a block wherever it stands.                       *)
Logical_AnyEdit(r, ls, closed) ==
  LET l == Head(ls)
      kept == Write(r, ls)
  IN  IF ~closed THEN Warn(kept)
      ELSE CASE l.head \in {"config", "edit"} -> Open(r, ls)
             [] l.head = "next" -> NextLine(r, l)
             [] l.head = "end" -> EndLine(r)
             [] l.head = "set" -> [kept EXCEPT !.sets = Append(@, <<r.stack, ls>>)]
             [] OTHER -> kept

(* Mutant: a line that is not understood is not kept.                      *)
Logical_KnownOnly(r, ls, closed) ==
  LET l == Head(ls)
      kept == Write(r, ls)
  IN  IF ~closed THEN Warn(kept)
      ELSE CASE l.head = "config" -> Open(r, ls)
             [] l.head = "edit" /\ Innermost(r) = "config" -> Open(r, ls)
             [] l.head = "next" -> NextLine(r, l)
             [] l.head = "end" -> EndLine(r)
             [] l.head = "set" -> [kept EXCEPT !.sets = Append(@, <<r.stack, ls>>)]
             [] OTHER -> r

(* parse_config on one logical line, a sequence of physical ones; a line   *)
(* whose quote never closes is kept as it stands.                          *)
Logical(r, ls, closed) ==
  LET l == Head(ls)
      kept == Write(r, ls)
  IN  IF ~closed THEN Warn(kept)
      ELSE CASE l.head = "config" -> Open(r, ls)
             [] l.head = "edit" /\ Innermost(r) = "config" -> Open(r, ls)
             [] l.head = "next" -> NextLine(r, l)
             [] l.head = "end" -> EndLine(r)
             [] l.head = "set" -> [kept EXCEPT !.sets = Append(@, <<r.stack, ls>>)]
             [] OTHER -> kept

(* Mutant: a comment may open a quoted value as well.                      *)
Read_QuotedComment(r, l) ==
  LET joined == Append(r.pending, l)
  IN  IF l.odd = (r.pending = <<>>)
      THEN [r EXCEPT !.pending = joined]
      ELSE Logical([r EXCEPT !.pending = <<>>], joined, TRUE)

(* _logical_lines: physical lines are joined while a quote is open, but a  *)
(* comment never opens one.                                                *)
Read(r, l) ==
  LET joined == Append(r.pending, l)
      opens == r.pending = <<>> /\ l.odd /\ l.head # "comment"
      stays == r.pending # <<>> /\ ~l.odd
  IN  IF opens \/ stays
      THEN [r EXCEPT !.pending = joined]
      ELSE Logical([r EXCEPT !.pending = <<>>], joined, TRUE)

(* The end of the file: an unterminated line as it is, then the blocks     *)
(* that are still open, each with a warning.                               *)
Flush(r) ==
  IF r.pending = <<>> THEN r ELSE Logical([r EXCEPT !.pending = <<>>], r.pending, FALSE)

Unwind(r) == IF r.stack = <<>> THEN r ELSE Warn(Close(r))

UnwindUpTo(r) ==
  LET closed[k \in 0 .. Len(r.stack)] == IF k = 0 THEN r ELSE Unwind(closed[k - 1])
  IN  closed

Eof(r) == UnwindUpTo(Flush(r))[Len(Flush(r).stack)]

(* parse_config: line after line, then the end.                            *)
ReadUpTo(ls) ==
  LET after[k \in 0 .. Len(ls)] == IF k = 0 THEN Start ELSE Read(after[k - 1], ls[k])
  IN  after

Parse(ls) == Eof(ReadUpTo(ls)[Len(ls)])

-----------------------------------------------------------------------------
(* Within a line: split_line reads tokens, format_token writes one.  The   *)
(* scanner's buf is the token it is in, toks those behind it.              *)
Blank == " "
Quote == "\""
Backslash == "\\"
Apostrophe == "'"

StartScan == [mode |-> "between", buf |-> <<>>, toks |-> <<>>]
Push(s, quoted) ==
  [mode |-> "between", buf |-> <<>>,
   toks |-> Append(s.toks, [value |-> s.buf, quoted |-> quoted])]
Into(s, mode, buf) == [s EXCEPT !.mode = mode, !.buf = buf]

(* A backslash counts in quotes only, a quote only where a token starts.   *)
Scan(s, c) ==
  CASE s.mode = "between" /\ c = Blank -> s
    [] s.mode = "between" /\ c = Quote -> Into(s, "quoted", <<>>)
    [] s.mode = "between" /\ c \notin {Blank, Quote} -> Into(s, "bare", <<c>>)
    [] s.mode = "bare" /\ c = Blank -> Push(s, FALSE)
    [] s.mode = "quoted" /\ c = Backslash -> Into(s, "escape", s.buf)
    [] s.mode = "quoted" /\ c = Quote -> Push(s, TRUE)
    [] s.mode = "escape" -> Into(s, "quoted", Append(s.buf, c))
    [] OTHER -> Into(s, s.mode, Append(s.buf, c))

Balanced(s) == s.mode \in {"between", "bare"}
Tokens(s) == IF s.mode = "bare" THEN Push(s, FALSE).toks ELSE s.toks

ScanUpTo(cs) ==
  LET after[k \in 0 .. Len(cs)] == IF k = 0 THEN StartScan ELSE Scan(after[k - 1], cs[k])
  IN  after

SplitLine(cs) == Tokens(ScanUpTo(cs)[Len(cs)])

(* str.replace, for a single character.                                    *)
Replaced(x, c, by) == IF x = c THEN by ELSE <<x>>

SubstituteUpTo(cs, c, by) ==
  LET done[k \in 0 .. Len(cs)] ==
        IF k = 0 THEN <<>> ELSE done[k - 1] \o Replaced(cs[k], c, by)
  IN  done

Substitute(cs, c, by) == SubstituteUpTo(cs, c, by)[Len(cs)]
Safe(c) == c \notin {Blank, Quote, Backslash, Apostrophe, "="}

(* Mutant: backslashes are doubled last, those of the escapes included.    *)
FormatToken_LateBackslash(t) ==
  IF ~t.quoted /\ t.value # <<>> /\ \A i \in DOMAIN t.value : Safe(t.value[i])
  THEN t.value
  ELSE <<Quote>> \o Substitute(Substitute(Substitute(t.value, Quote, <<Backslash, Quote>>),
         Apostrophe, <<Backslash, Apostrophe>>), Backslash, <<Backslash, Backslash>>) \o <<Quote>>

(* format_token: bare if it may be, else in quotes with \, " and ' escaped *)
FormatToken(t) ==
  IF ~t.quoted /\ t.value # <<>> /\ \A i \in DOMAIN t.value : Safe(t.value[i])
  THEN t.value
  ELSE <<Quote>> \o Substitute(Substitute(Substitute(t.value, Backslash, <<Backslash, Backslash>>),
         Quote, <<Backslash, Quote>>), Apostrophe, <<Backslash, Apostrophe>>) \o <<Quote>>

FormatUpTo(ts) ==
  LET done[k \in 0 .. Len(ts)] ==
        IF k = 0 THEN <<>> ELSE done[k - 1] \o <<Blank>> \o FormatToken(ts[k])
  IN  done

FormatLine(ts) == FormatUpTo(ts)[Len(ts)]

-----------------------------------------------------------------------------
(* A text is read line by line, or else one line is read in detail.        *)
Init == text = <<>> /\ reader = Start /\ line = <<>> /\ scan = StartScan

ReadLine(l) ==
  /\ line = <<>> /\ Len(text) < MaxLines
  /\ text' = Append(text, l)
  /\ reader' = Read(reader, l)
  /\ UNCHANGED <<line, scan>>

ReadChar(c) ==
  /\ text = <<>> /\ Len(line) < MaxChars
  /\ line' = Append(line, c)
  /\ scan' = Scan(scan, c)
  /\ UNCHANGED <<text, reader>>

Next == (\E l \in Lines : ReadLine(l)) \/ (\E c \in Chars : ReadChar(c))

Spec == Init /\ [][Next]_vars

-----------------------------------------------------------------------------
Tree == Eof(reader)
IsCloser(l) == l.head \in {"next", "end"}
QuotesIn(ls) == \E i \in DOMAIN ls : ls[i].odd /\ ls[i].head # "comment"

(* The open blocks nest: an edit is always right under a config.           *)
TypeOK ==
  /\ \A i \in DOMAIN reader.stack :
       reader.stack[i].head = "edit" => i > 1 /\ reader.stack[i - 1].head = "config"
  /\ Tree.stack = <<>> /\ Tree.pending = <<>>
  /\ scan.mode \in {"between", "bare", "quoted", "escape"}

(* Migrating twice, or normalising an output again, changes nothing: what  *)
(* serialize writes is read back as the same tree, without a warning.  (A  *)
(* quote still open at the end of the text, which is warned about, is left *)
(* out: the closers written behind it are inside it.)                      *)
WrittenReadsBack ==
  reader.pending = <<>> =>
    LET again == Parse(Tree.out)
    IN  again.out = Tree.out /\ again.sets = Tree.sets /\ again.warned = 0

(* What is left of a text without its closers.                             *)
WithOther(kept, l) == IF IsCloser(l) THEN kept ELSE Append(kept, l)

OthersUpTo(ls) ==
  LET kept[k \in 0 .. Len(ls)] == IF k = 0 THEN <<>> ELSE WithOther(kept[k - 1], ls[k])
  IN  kept

Others(ls) == OthersUpTo(ls)[Len(ls)]

(* "keep everything, including sections this tool knows nothing about":    *)
(* only closers are ever dropped or added.                                 *)
NothingElseDropped == ~QuotesIn(text) => Others(Tree.out) = Others(text)

(* The blocks that are open behind a line: edits up to their next, configs *)
(* up to their end, a comment changing nothing.                            *)
OpenBehind(path, l) ==
  CASE l.head = "config" \/ (l.head = "edit" /\ path # <<>> /\ Last(path).head = "config")
         -> Append(path, [head |-> l.head, arg |-> l.arg])
    [] l.head = "next" /\ path # <<>> /\ Last(path).head = "edit" -> Front(path)
    [] l.head = "end" /\ path # <<>>
         -> SubSeq(path, 1, Max({j \in DOMAIN path : path[j].head = "config"}) - 1)
    [] OTHER -> path

(* The settings of a text, each with the blocks it stands in.              *)
StartContext == [path |-> <<>>, sets |-> <<>>]
InContext(c, l) ==
  [path |-> OpenBehind(c.path, l),
   sets |-> IF l.head = "set" THEN Append(c.sets, <<c.path, <<l>>>>) ELSE c.sets]

ContextUpTo(ls) ==
  LET found[k \in 0 .. Len(ls)] ==
        IF k = 0 THEN StartContext ELSE InContext(found[k - 1], ls[k])
  IN  found

SettingsIn(ls) == ContextUpTo(ls)[Len(ls)].sets

(* A setting is found under the blocks that are open at its line.          *)
SettingsKeepTheirPath ==
  ~QuotesIn(text) => Tree.sets = SettingsIn(text)

(* The values of a line survive being written and read again, whatever     *)
(* quotes, backslashes and blanks they hold; only the quoting may change.  *)
TokensReadBack ==
  Balanced(scan) =>
    LET back == SplitLine(FormatLine(Tokens(scan)))
    IN  Len(back) = Len(Tokens(scan))
          /\ \A i \in DOMAIN back : back[i].value = Tokens(scan)[i].value
=============================================================================
