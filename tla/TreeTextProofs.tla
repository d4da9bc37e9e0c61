--------------------------- MODULE TreeTextProofs ---------------------------
(* What is proved of the reader and the writer of configuration texts, for  *)
(* texts of any length over any set of lines.                               *)
EXTENDS TreeText, RecursionTheorems

(* What the reader's fields hold: Written is the lines read and the closers *)
(* serialize adds.                                                          *)
Written == Lines \cup {Line("next", ""), Line("end", "")}
Blocks == [head : {"config", "edit"}, arg : {l.arg : l \in Written}]
Settings == Seq(Blocks) \X Seq(Written)
Readers == [stack : Seq(Blocks), pending : Seq(Written), out : Seq(Written),
            sets : Seq(Settings), warned : Nat]

(* The first line of a logical line is a line.                              *)
LEMMA WrittenHead ==
  ASSUME NEW ls \in Seq(Written), ls # <<>>
  PROVE  Head(ls) \in Written
OBVIOUS

(* The fields of parse_config's state.                                      *)
LEMMA ReaderFields ==
  ASSUME NEW r \in Readers
  PROVE  /\ r.stack \in Seq(Blocks)
         /\ r.pending \in Seq(Written)
         /\ r.out \in Seq(Written)
         /\ r.sets \in Seq(Settings)
         /\ r.warned \in Nat
BY DEF Readers

(* The reader starts as one.                                                *)
LEMMA StartIsReader == Start \in Readers
BY DEF Start, Readers

(* A warning leaves a reader.                                               *)
LEMMA WarnIsReader ==
  ASSUME NEW r \in Readers
  PROVE  Warn(r) \in Readers
<1>1. r.warned + 1 \in Nat
  BY DEF Readers
<1> QED BY <1>1 DEF Warn, Readers

(* So does keeping a logical line.                                          *)
LEMMA WriteIsReader ==
  ASSUME NEW r \in Readers, NEW ls \in Seq(Written)
  PROVE  Write(r, ls) \in Readers
<1>1. r.out \o ls \in Seq(Written)
  BY DEF Readers
<1> QED BY <1>1 DEF Write, Readers

(* Every block that is open can be closed, and becomes one block less.      *)
LEMMA CloseIsReader ==
  ASSUME NEW r \in Readers, r.stack # <<>>
  PROVE  /\ Close(r) \in Readers
         /\ Last(r.stack) \in Blocks
         /\ Closer(Last(r.stack)) \in Written
         /\ Len(Close(r).stack) = Len(r.stack) - 1
<1>1. r.stack \in Seq(Blocks) /\ Len(r.stack) \in Nat /\ Len(r.stack) # 0
  BY DEF Readers
<1>2. Last(r.stack) \in Blocks
  BY <1>1 DEF Last
<1>3. Closer(Last(r.stack)) \in Written
  BY DEF Closer, Written
<1>4. Front(r.stack) \in Seq(Blocks) /\ Len(Front(r.stack)) = Len(r.stack) - 1
  BY <1>1 DEF Front
<1>5. Write(r, <<Closer(Last(r.stack))>>) \in Readers
  <2>1. <<Closer(Last(r.stack))>> \in Seq(Written)
    BY <1>3
  <2> QED BY <2>1, WriteIsReader
<1>6. Write(r, <<Closer(Last(r.stack))>>).stack = r.stack
  BY DEF Write, Readers
<1>7. Close(r) \in Readers /\ Close(r).stack = Front(r.stack)
  BY <1>4, <1>5, <1>6 DEF Close, Pop, Readers
<1> QED BY <1>2, <1>3, <1>4, <1>7

(* So does opening a block.                                                 *)
LEMMA OpenIsReader ==
  ASSUME NEW r \in Readers, NEW ls \in Seq(Written), ls # <<>>,
         Head(ls).head \in {"config", "edit"}
  PROVE  Open(r, ls) \in Readers
<1>1. [head |-> Head(ls).head, arg |-> Head(ls).arg] \in Blocks
  BY WrittenHead DEF Blocks
<1>2. Write(r, ls) \in Readers
  BY WriteIsReader
<1>3. Append(Write(r, ls).stack, [head |-> Head(ls).head, arg |-> Head(ls).arg]) \in Seq(Blocks)
  BY <1>1, <1>2 DEF Readers
<1> QED BY <1>2, <1>3 DEF Open, Readers

(* The innermost block is the tree, or one that is open.                    *)
LEMMA OpenOrNot ==
  ASSUME NEW r \in Readers
  PROVE  /\ r.stack = <<>> <=> Innermost(r) = "tree"
         /\ r.stack # <<>> => Innermost(r) = Last(r.stack).head /\ Last(r.stack) \in Blocks
         /\ Innermost(r) \in {"tree", "config", "edit"}
<1>1. r.stack # <<>> => Last(r.stack).head \in {"config", "edit"}
  BY CloseIsReader DEF Blocks
<1> QED BY <1>1, CloseIsReader DEF Innermost

(* So does a logical line, whatever it starts with.                         *)
LEMMA LogicalIsReader ==
  ASSUME NEW r \in Readers, NEW ls \in Seq(Written), ls # <<>>, NEW closed \in BOOLEAN
  PROVE  Logical(r, ls, closed) \in Readers
<1>1. Write(r, ls) \in Readers
  BY WriteIsReader
<1>2. Warn(Write(r, ls)) \in Readers
  BY <1>1, WarnIsReader
<1>3. Head(ls).head \in {"config", "edit"} => Open(r, ls) \in Readers
  BY OpenIsReader
<1>4. NextLine(r, Head(ls)) \in Readers
  BY OpenOrNot, CloseIsReader, WarnIsReader DEF NextLine
<1>5. EndLine(r) \in Readers
  <2>1. CloseEdit(r) \in Readers
    BY OpenOrNot, CloseIsReader DEF CloseEdit
  <2>2. Innermost(CloseEdit(r)) = "config" => CloseEdit(r).stack # <<>>
    BY <2>1, OpenOrNot
  <2> QED BY <2>1, <2>2, CloseIsReader, WarnIsReader DEF EndLine
<1>6. [Write(r, ls) EXCEPT !.sets = Append(@, <<r.stack, ls>>)] \in Readers
  <2>1. <<r.stack, ls>> \in Settings
    BY DEF Readers, Settings
  <2>2. Append(Write(r, ls).sets, <<r.stack, ls>>) \in Seq(Settings)
    BY <1>1, <2>1 DEF Readers
  <2> QED BY <1>1, <2>2 DEF Readers
<1> QED BY <1>1, <1>2, <1>3, <1>4, <1>5, <1>6 DEF Logical

(* So does a physical line.                                                 *)
LEMMA ReadIsReader ==
  ASSUME NEW r \in Readers, NEW l \in Written
  PROVE  /\ Read(r, l) \in Readers
         /\ Append(r.pending, l) \in Seq(Written)
         /\ Append(r.pending, l) # <<>>
         /\ [r EXCEPT !.pending = <<>>] \in Readers
<1>1. Append(r.pending, l) \in Seq(Written) /\ Append(r.pending, l) # <<>>
  BY ReaderFields
<1>2. [r EXCEPT !.pending = <<>>] \in Readers
  <2>1. <<>> \in Seq(Written)
    OBVIOUS
  <2> QED BY <2>1 DEF Readers
<1>3. [r EXCEPT !.pending = Append(r.pending, l)] \in Readers
  BY <1>1 DEF Readers
<1> QED BY <1>1, <1>2, <1>3, LogicalIsReader DEF Read

(* So does the unterminated line at the end.                                *)
LEMMA FlushIsReader ==
  ASSUME NEW r \in Readers
  PROVE  Flush(r) \in Readers
<1>1. [r EXCEPT !.pending = <<>>] \in Readers
  <2>1. <<>> \in Seq(Written)
    OBVIOUS
  <2> QED BY <2>1 DEF Readers
<1>2. r.pending \in Seq(Written)
  BY ReaderFields
<1> QED BY <1>1, <1>2, LogicalIsReader DEF Flush

(* So does closing a block at the end: one fewer is open.                   *)
LEMMA UnwindIsReader ==
  ASSUME NEW r \in Readers
  PROVE  /\ Unwind(r) \in Readers
         /\ r.stack # <<>> => Len(Unwind(r).stack) = Len(r.stack) - 1
<1>1. CASE r.stack = <<>>
  BY <1>1 DEF Unwind
<1>2. CASE r.stack # <<>>
  <2>1. Close(r) \in Readers /\ Len(Close(r).stack) = Len(r.stack) - 1
    BY <1>2, CloseIsReader
  <2>2. Warn(Close(r)).stack = Close(r).stack
    BY <2>1 DEF Warn, Readers
  <2> QED BY <1>2, <2>1, <2>2, WarnIsReader DEF Unwind
<1> QED BY <1>1, <1>2

(* The loop over a text.                                                    *)
ReadStep == [s \in Readers \X Written |-> Read(s[1], s[2])]

(* parse_config's loop over the lines takes readers to readers.             *)
LEMMA ReadStepIsStep == IsStep(ReadStep, Readers, Written)
BY ReadIsReader DEF ReadStep, IsStep

(* ReadUpTo is that loop.                                                   *)
LEMMA ReadingIsALoop ==
  ASSUME NEW ls \in Seq(Written)
  PROVE  IsLoop(ReadUpTo(ls), Readers, Written, Start, ReadStep, ls)
<1> DEFINE n == Len(ls)
           Rec(f) == f = [k \in 0 .. n |-> IF k = 0 THEN Start ELSE Read(f[k - 1], ls[k])]
<1>1. n \in Nat
  OBVIOUS
<1>2. PICK f \in [0 .. n -> Readers] : IsLoopTo(f, Start, ReadStep, ls, n)
  BY StartIsReader, ReadStepIsStep, LoopExists
<1>3. \A k \in 1 .. n : k - 1 \in 0 .. n /\ ls[k] \in Written
  BY <1>1
<1>4. Rec(f)
  <2>1. ASSUME NEW k \in 0 .. n PROVE f[k] = IF k = 0 THEN Start ELSE Read(f[k - 1], ls[k])
    <3>1. CASE k = 0
      BY <1>2, <3>1 DEF IsLoopTo
    <3>2. CASE k # 0
      <4>1. k \in 1 .. n
        BY <1>1, <3>2
      <4>2. f[k - 1] \in Readers /\ ls[k] \in Written
        BY <1>3, <4>1
      <4>3. f[k] = ReadStep[<<f[k - 1], ls[k]>>]
        BY <1>2, <4>1 DEF IsLoopTo
      <4> QED BY <3>2, <4>2, <4>3 DEF ReadStep
    <3> QED BY <3>1, <3>2
  <2>2. f = [k \in 0 .. n |-> f[k]]
    BY <1>2
  <2> QED BY <2>1, <2>2
<1>5. ReadUpTo(ls) = CHOOSE g : Rec(g)
  BY DEF ReadUpTo
<1>6. Rec(ReadUpTo(ls))
  <2> HIDE DEF Rec
  <2> QED BY <1>4, <1>5
<1>7. \A k \in 1 .. n : ReadUpTo(ls)[k] = Read(ReadUpTo(ls)[k - 1], ls[k])
  BY <1>1, <1>6
<1>8. ReadUpTo(ls)[0] = Start
  BY <1>1, <1>6
<1>9. ReadUpTo(ls) = [k \in 0 .. n |-> ReadUpTo(ls)[k]]
  BY <1>6
<1> HIDE DEF Rec
<1> QED BY <1>3, <1>7, <1>8, <1>9 DEF IsLoop, ReadStep

(* The reader behind a text, by its last line.                              *)
After(ls) == ReadUpTo(ls)[Len(ls)]

(* So one more line is read by the reader behind the others.                *)
LEMMA ReadOn ==
  /\ After(<<>>) = Start
  /\ \A ls \in Seq(Written) :
       /\ After(ls) \in Readers
       /\ \A l \in Written : After(Append(ls, l)) = Read(After(ls), l)
<1>1. ASSUME NEW ls \in Seq(Written)
      PROVE  After(ls) = Looped(Readers, Written, Start, ReadStep, ls)
  BY StartIsReader, ReadStepIsStep, ReadingIsALoop, LoopReturns DEF After
<1>2. After(<<>>) = Start
  <2>1. <<>> \in Seq(Written)
    OBVIOUS
  <2> QED BY <1>1, <2>1, StartIsReader, ReadStepIsStep, LoopStarts
<1>3. ASSUME NEW ls \in Seq(Written) PROVE After(ls) \in Readers
  <2>1. Looped(Readers, Written, Start, ReadStep, ls) \in Readers
    BY StartIsReader, ReadStepIsStep, LoopEnds
  <2> QED BY <1>1, <2>1
<1>4. ASSUME NEW ls \in Seq(Written), NEW l \in Written
      PROVE  After(Append(ls, l)) = Read(After(ls), l)
  <2>1. Append(ls, l) \in Seq(Written)
    OBVIOUS
  <2>2. Looped(Readers, Written, Start, ReadStep, Append(ls, l))
          = Stepped(ReadStep, Looped(Readers, Written, Start, ReadStep, ls), l)
    BY StartIsReader, ReadStepIsStep, LoopAppend
  <2>3. After(Append(ls, l)) = Stepped(ReadStep, After(ls), l)
    BY <1>1, <2>1, <2>2
  <2> QED BY <1>3, <2>3 DEF ReadStep, Stepped
<1> QED BY <1>2, <1>3, <1>4

(* The loop that closes the open blocks.                                    *)
UnwindStep == [s \in Readers \X Blocks |-> Unwind(s[1])]

(* UnwindUpTo is the loop that closes block after block.                    *)
LEMMA UnwindingIsALoop ==
  ASSUME NEW r \in Readers
  PROVE  /\ UnwindUpTo(r)[0] = r
         /\ \A k \in 1 .. Len(r.stack) : UnwindUpTo(r)[k] = Unwind(UnwindUpTo(r)[k - 1])
<1> DEFINE n == Len(r.stack)
           Rec(f) == f = [k \in 0 .. n |-> IF k = 0 THEN r ELSE Unwind(f[k - 1])]
<1>1. n \in Nat /\ r.stack \in Seq(Blocks)
  BY ReaderFields
<1>2. PICK f \in [0 .. n -> Readers] : IsLoopTo(f, r, UnwindStep, r.stack, n)
  <2>1. IsStep(UnwindStep, Readers, Blocks)
    BY UnwindIsReader DEF UnwindStep, IsStep
  <2> QED BY <1>1, <2>1, LoopExists
<1>3. \A k \in 1 .. n : k - 1 \in 0 .. n /\ r.stack[k] \in Blocks
  BY <1>1
<1>4. Rec(f)
  <2>1. ASSUME NEW k \in 0 .. n PROVE f[k] = IF k = 0 THEN r ELSE Unwind(f[k - 1])
    <3>1. CASE k = 0
      BY <1>2, <3>1 DEF IsLoopTo
    <3>2. CASE k # 0
      <4>1. k \in 1 .. n
        BY <1>1, <3>2
      <4>2. f[k - 1] \in Readers /\ r.stack[k] \in Blocks
        BY <1>3, <4>1
      <4>3. f[k] = UnwindStep[<<f[k - 1], r.stack[k]>>]
        BY <1>2, <4>1 DEF IsLoopTo
      <4> QED BY <3>2, <4>2, <4>3 DEF UnwindStep
    <3> QED BY <3>1, <3>2
  <2>2. f = [k \in 0 .. n |-> f[k]]
    BY <1>2
  <2> QED BY <2>1, <2>2
<1>5. UnwindUpTo(r) = CHOOSE g : Rec(g)
  BY DEF UnwindUpTo
<1>6. Rec(UnwindUpTo(r))
  <2> HIDE DEF Rec
  <2> QED BY <1>4, <1>5
<1> DEFINE g == UnwindUpTo(r)
<1>7. \A k \in 0 .. n : g[k] = IF k = 0 THEN r ELSE Unwind(g[k - 1])
  <2>1. Rec(g)
    BY <1>6
  <2> HIDE DEF n, g
  <2> QED BY <2>1
<1>8. \A k \in 1 .. n : k \in 0 .. n /\ k # 0
  BY <1>1
<1>9. 0 \in 0 .. n
  BY <1>1
<1> HIDE DEF n, g
<1>10. \A k \in 1 .. n : g[k] = Unwind(g[k - 1])
  BY <1>7, <1>8
<1>11. g[0] = r
  BY <1>7, <1>9
<1> QED BY <1>10, <1>11 DEF g, n

(* What unwinding keeps holds at the end of the file, where no block is     *)
(* open any more.                                                           *)
LEMMA UnwindEnds ==
  ASSUME NEW r \in Readers, NEW T, r \in T,
         \A s \in Readers : s \in T => Unwind(s) \in T
  PROVE  LET end == UnwindUpTo(r)[Len(r.stack)]
         IN  end \in Readers /\ end \in T /\ end.stack = <<>>
<1> DEFINE n == Len(r.stack)
           u == UnwindUpTo(r)
           K == {k \in 0 .. n : u[k] \in Readers /\ u[k] \in T /\ Len(u[k].stack) = n - k}
<1>1. n \in Nat
  BY ReaderFields
<1>2. u[0] = r /\ \A k \in 1 .. n : u[k] = Unwind(u[k - 1])
  BY UnwindingIsALoop
<1> HIDE DEF u
<1>3. 0 \in K
  BY <1>1, <1>2
<1>4. ASSUME NEW k \in 0 .. n, k \in K, k # n PROVE k + 1 \in K
  <2>1. k + 1 \in 1 .. n /\ k + 1 \in 0 .. n /\ (k + 1) - 1 = k
    BY <1>1, <1>4
  <2>2. u[k + 1] = Unwind(u[k])
    BY <1>2, <2>1
  <2>3. u[k] \in Readers /\ u[k] \in T /\ Len(u[k].stack) = n - k
    BY <1>4
  <2>4. u[k].stack # <<>>
    BY <1>1, <1>4, <2>3
  <2>5. Unwind(u[k]) \in Readers /\ Len(Unwind(u[k]).stack) = (n - k) - 1
    BY <2>3, <2>4, UnwindIsReader
  <2>6. (n - k) - 1 = n - (k + 1)
    BY <1>1
  <2> QED BY <2>1, <2>2, <2>3, <2>5, <2>6
<1>5. 0 .. n \subseteq K
  <2> HIDE DEF K, n
  <2> QED BY <1>1, <1>3, <1>4, IntervalInduction
<1>6. n \in K
  BY <1>1, <1>5
<1>7. u[n] \in Readers /\ u[n] \in T /\ Len(u[n].stack) = 0
  BY <1>1, <1>6
<1>8. u[n].stack \in Seq(Blocks)
  BY <1>7, ReaderFields
<1> QED BY <1>7, <1>8 DEF u

(* So does the end of the file, whatever closing a block keeps.             *)
LEMMA EofEnds ==
  ASSUME NEW r \in Readers, NEW T, Flush(r) \in T,
         \A s \in Readers : s \in T => Unwind(s) \in T
  PROVE  Eof(r) \in Readers /\ Eof(r) \in T /\ Eof(r).stack = <<>>
BY FlushIsReader, UnwindEnds DEF Eof

-----------------------------------------------------------------------------
(* What is written is read back: a file that has been written reads as the  *)
(* reader that wrote it, but for the warnings and a line not complete yet.  *)
Quiet(r) == [r EXCEPT !.pending = <<>>, !.warned = 0]
Silent(r) == [r EXCEPT !.warned = 0]

(* But for its warnings and its pending line, a reader is as it was.        *)
LEMMA QuietIsReader ==
  ASSUME NEW r \in Readers
  PROVE  /\ Quiet(r) \in Readers
         /\ Quiet(r).stack = r.stack /\ Quiet(r).out = r.out /\ Quiet(r).sets = r.sets
         /\ Quiet(r).pending = <<>> /\ Quiet(r).warned = 0
         /\ Innermost(Quiet(r)) = Innermost(r)
<1>1. <<>> \in Seq(Written) /\ 0 \in Nat
  OBVIOUS
<1>2. Quiet(r).stack = r.stack
  BY DEF Quiet, Readers
<1>3. Quiet(r) \in Readers
  BY <1>1 DEF Quiet, Readers
<1>4. /\ Quiet(r).out = r.out /\ Quiet(r).sets = r.sets
      /\ Quiet(r).pending = <<>> /\ Quiet(r).warned = 0
  BY DEF Quiet, Readers
<1> QED BY <1>2, <1>3, <1>4 DEF Innermost

(* A warning does not show in it.                                           *)
LEMMA QuietWarn ==
  ASSUME NEW r \in Readers
  PROVE  Quiet(Warn(r)) = Quiet(r) /\ Warn(r).out = r.out
BY DEF Quiet, Warn, Readers

(* Keeping a line does.                                                     *)
LEMMA QuietWrite ==
  ASSUME NEW r \in Readers, NEW ls \in Seq(Written)
  PROVE  Quiet(Write(r, ls)) = Write(Quiet(r), ls) /\ Write(r, ls).out = r.out \o ls
BY DEF Quiet, Write, Readers

(* So does closing a block, which writes its closer.                        *)
LEMMA QuietClose ==
  ASSUME NEW r \in Readers, r.stack # <<>>
  PROVE  /\ Quiet(Close(r)) = Close(Quiet(r))
         /\ Close(r).out = Append(r.out, Closer(Last(r.stack)))
<1> DEFINE c == Closer(Last(r.stack))
<1>1. <<c>> \in Seq(Written) /\ c \in Written /\ r.out \in Seq(Written)
  BY CloseIsReader, ReaderFields
<1>2. Write(r, <<c>>) \in Readers
  BY <1>1, WriteIsReader
<1> HIDE DEF c
<1>3. Quiet(Write(r, <<c>>)) = Write(Quiet(r), <<c>>)
  BY <1>1, QuietWrite
<1>4. ASSUME NEW w \in Readers PROVE Quiet(Pop(w)) = Pop(Quiet(w)) /\ Pop(w).out = w.out
  BY DEF Quiet, Pop, Readers
<1>5. Close(r) = Pop(Write(r, <<c>>)) /\ Close(Quiet(r)) = Pop(Write(Quiet(r), <<c>>))
  BY QuietIsReader DEF Close, c
<1>6. Close(r).out = r.out \o <<c>>
  BY <1>1, <1>2, <1>4, <1>5, QuietWrite
<1> QED BY <1>1, <1>2, <1>3, <1>4, <1>5, <1>6 DEF c

(* A line without an open quote is a logical line of its own.               *)
LEMMA ReadsOneLine ==
  ASSUME NEW r \in Readers, r.pending = <<>>, NEW l \in Written,
         l.odd => l.head = "comment"
  PROVE  Read(r, l) = Logical(r, <<l>>, TRUE)
<1>1. [r EXCEPT !.pending = <<>>] = r
  BY DEF Readers
<1>2. Append(r.pending, l) = <<l>>
  OBVIOUS
<1> QED BY <1>1, <1>2 DEF Read

(* Closing a block is read back, whichever of the two closers it takes.     *)
LEMMA CloserIsRead ==
  ASSUME NEW r \in Readers, r.stack # <<>>, r.pending = <<>>
  PROVE  Read(r, Closer(Last(r.stack))) = Close(r)
<1> DEFINE c == Closer(Last(r.stack))
<1>1. c \in Written /\ c.odd = FALSE
      /\ c.head = IF Last(r.stack).head = "edit" THEN "next" ELSE "end"
  BY CloseIsReader DEF Closer, Line
<1>2. Innermost(r) = Last(r.stack).head /\ Innermost(r) \in {"config", "edit"}
  BY OpenOrNot
<1> HIDE DEF c
<1>3. Read(r, c) = Logical(r, <<c>>, TRUE) /\ Head(<<c>>) = c
  <2>1. c \in Written /\ ~c.odd
    BY <1>1
  <2>2. c.odd => c.head = "comment"
    BY <2>1
  <2>3. Head(<<c>>) = c
    OBVIOUS
  <2> QED BY <2>1, <2>2, <2>3, ReadsOneLine
<1>4. CASE Innermost(r) = "edit"
  BY <1>1, <1>2, <1>3, <1>4 DEF c, Logical, NextLine
<1>5. CASE Innermost(r) = "config"
  <2>1. c.head = "end" /\ EndLine(r) = Close(r)
    BY <1>1, <1>2, <1>5 DEF EndLine, CloseEdit
  <2> QED BY <1>3, <2>1 DEF c, Logical
<1> QED BY <1>2, <1>4, <1>5

(* Closing a block is read back from its closer.                            *)
LEMMA CloseReadsBack ==
  ASSUME NEW r \in Readers, r.stack # <<>>, After(r.out) = Quiet(r)
  PROVE  After(Close(r).out) = Quiet(Close(r))
<1>1. After(Close(r).out) = Read(Quiet(r), Closer(Last(r.stack)))
  BY CloseIsReader, QuietClose, ReaderFields, ReadOn
<1>2. Read(Quiet(r), Closer(Last(r.stack))) = Close(Quiet(r))
  BY QuietIsReader, CloserIsRead
<1> QED BY <1>1, <1>2, QuietClose

(* So is an end line, which may close an edit first.                        *)
LEMMA EndReadsBack ==
  ASSUME NEW r \in Readers, After(r.out) = Quiet(r)
  PROVE  After(EndLine(r).out) = Quiet(EndLine(r))
<1>1. CloseEdit(r) \in Readers /\ After(CloseEdit(r).out) = Quiet(CloseEdit(r))
  BY OpenOrNot, CloseIsReader, CloseReadsBack DEF CloseEdit
<1>2. Innermost(CloseEdit(r)) = "config" => CloseEdit(r).stack # <<>>
  BY <1>1, OpenOrNot
<1> QED BY <1>1, <1>2, CloseReadsBack, QuietWarn DEF EndLine

(* So is a next line.                                                       *)
LEMMA NextReadsBack ==
  ASSUME NEW r \in Readers, After(r.out) = Quiet(r), NEW l
  PROVE  After(NextLine(r, l).out) = Quiet(NextLine(r, l))
BY OpenOrNot, CloseReadsBack, QuietWarn DEF NextLine

(* A logical line that is written as it stands reads back as it was read.   *)
LEMMA LogicalReadsBack ==
  ASSUME NEW r \in Readers, NEW ls \in Seq(Written), ls # <<>>,
         After(r.out) = Quiet(r), After(r.out \o ls) = Logical(Quiet(r), ls, TRUE)
  PROVE  After(Logical(r, ls, TRUE).out) = Quiet(Logical(r, ls, TRUE))
<1> DEFINE l == Head(ls)
           opens == l.head = "config" \/ (l.head = "edit" /\ Innermost(r) = "config")
<1>1. Innermost(Quiet(r)) = Innermost(r) /\ Quiet(r).stack = r.stack
  BY QuietIsReader
<1>2. Write(r, ls) \in Readers /\ Write(r, ls).out = r.out \o ls
      /\ Quiet(Write(r, ls)) = Write(Quiet(r), ls)
  BY WriteIsReader, QuietWrite
<1>3. CASE opens
  <2>1. Logical(r, ls, TRUE) = Open(r, ls) /\ Logical(Quiet(r), ls, TRUE) = Open(Quiet(r), ls)
    BY <1>1, <1>3 DEF Logical
  <2>2. Open(r, ls).out = r.out \o ls /\ Quiet(Open(r, ls)) = Open(Quiet(r), ls)
    <3> DEFINE b == [head |-> l.head, arg |-> l.arg]
               w == Write(r, ls)
    <3>1. Open(r, ls) = [w EXCEPT !.stack = Append(w.stack, b)]
          /\ Open(Quiet(r), ls) = [Quiet(w) EXCEPT !.stack = Append(Quiet(w).stack, b)]
      BY <1>2 DEF Open
    <3>2. w \in Readers /\ w.out = r.out \o ls
      BY <1>2
    <3> HIDE DEF w, b
    <3>3. [w EXCEPT !.stack = Append(w.stack, b)].out = w.out
      BY <3>2 DEF Readers
    <3>4. Quiet([w EXCEPT !.stack = Append(w.stack, b)])
            = [Quiet(w) EXCEPT !.stack = Append(Quiet(w).stack, b)]
      BY <3>2 DEF Readers, Quiet
    <3> QED BY <3>1, <3>2, <3>3, <3>4
  <2> QED BY <2>1, <2>2
<1>4. CASE l.head = "next"
  <2>1. Logical(r, ls, TRUE) = NextLine(r, l)
    BY <1>4 DEF Logical
  <2> QED BY <2>1, NextReadsBack
<1>5. CASE l.head = "end"
  <2>1. Logical(r, ls, TRUE) = EndLine(r)
    BY <1>5 DEF Logical
  <2> QED BY <2>1, EndReadsBack
<1>6. CASE l.head = "set"
  <2>1. Logical(r, ls, TRUE) = [Write(r, ls) EXCEPT !.sets = Append(@, <<r.stack, ls>>)]
        /\ Logical(Quiet(r), ls, TRUE)
             = [Write(Quiet(r), ls) EXCEPT !.sets = Append(@, <<r.stack, ls>>)]
    BY <1>1, <1>6 DEF Logical
  <2>2. ASSUME NEW w \in Readers, NEW e
        PROVE  /\ [w EXCEPT !.sets = Append(@, e)].out = w.out
               /\ Quiet([w EXCEPT !.sets = Append(@, e)]) = [Quiet(w) EXCEPT !.sets = Append(@, e)]
    BY DEF Readers, Quiet
  <2> QED BY <1>2, <2>1, <2>2
<1>7. CASE ~opens /\ l.head \notin {"next", "end", "set"}
  <2>1. Logical(r, ls, TRUE) = Write(r, ls) /\ Logical(Quiet(r), ls, TRUE) = Write(Quiet(r), ls)
    BY <1>1, <1>7 DEF Logical
  <2> QED BY <1>2, <2>1
<1> QED BY <1>3, <1>4, <1>5, <1>6, <1>7

(* A logical line leaves nothing pending.                                   *)
LEMMA LogicalKeepsPending ==
  ASSUME NEW r \in Readers, NEW ls \in Seq(Written), ls # <<>>, NEW closed \in BOOLEAN
  PROVE  Logical(r, ls, closed).pending = r.pending
<1>1. ASSUME NEW w \in Readers
      PROVE  /\ Warn(w).pending = w.pending
             /\ Write(w, ls).pending = w.pending /\ Open(w, ls).pending = w.pending
             /\ w.stack # <<>> => Close(w).pending = w.pending
             /\ \A e : [w EXCEPT !.sets = Append(@, e)].pending = w.pending
  BY DEF Readers, Warn, Write, Open, Close, Pop
<1>2. NextLine(r, Head(ls)).pending = r.pending
  BY <1>1, OpenOrNot DEF NextLine
<1>3. EndLine(r).pending = r.pending
  <2>1. CloseEdit(r) \in Readers /\ CloseEdit(r).pending = r.pending
    BY <1>1, OpenOrNot, CloseIsReader DEF CloseEdit
  <2>2. Innermost(CloseEdit(r)) = "config" => CloseEdit(r).stack # <<>>
    BY <2>1, OpenOrNot
  <2> QED BY <1>1, <2>1, <2>2 DEF EndLine
<1>4. Write(r, ls) \in Readers
  BY WriteIsReader
<1> QED BY <1>1, <1>2, <1>3, <1>4 DEF Logical

(* Appending to the second of two sequences appends to both.                *)
LEMMA ConcatAppend ==
  ASSUME NEW S, NEW s \in Seq(S), NEW t \in Seq(S), NEW x \in S
  PROVE  s \o Append(t, x) = Append(s \o t, x) /\ s \o t \in Seq(S)
<1>1. s \o t \in Seq(S) /\ Append(t, x) \in Seq(S)
  OBVIOUS
<1>2. s \o Append(t, x) \in Seq(S) /\ Append(s \o t, x) \in Seq(S)
  BY <1>1
<1>3. Len(s \o Append(t, x)) = Len(Append(s \o t, x))
  BY <1>1
<1>4. ASSUME NEW k \in 1 .. Len(s \o Append(t, x))
      PROVE  (s \o Append(t, x))[k] = Append(s \o t, x)[k]
  BY <1>1
<1> QED BY <1>1, <1>2, <1>3, <1>4

(* The file so far reads as the reader, and so does the file with the lines *)
(* of a logical line that is not complete.                                  *)
ReadsBack(r) ==
  /\ After(r.out) = Quiet(r)
  /\ After(r.out \o r.pending) = Silent(r)

(* What has been written stays readable, line after line.                   *)
LEMMA ReadKeepsReadsBack ==
  ASSUME NEW r \in Readers, ReadsBack(r), NEW l \in Written
  PROVE  ReadsBack(Read(r, l))
<1> DEFINE joined == Append(r.pending, l)
           r0 == [r EXCEPT !.pending = <<>>]
           q == [r EXCEPT !.pending = joined]
           waits == \/ r.pending = <<>> /\ l.odd /\ l.head # "comment"
                    \/ r.pending # <<>> /\ ~l.odd
<1>1. joined \in Seq(Written) /\ joined # <<>> /\ r0 \in Readers
  BY ReadIsReader
<1>2. r.out \in Seq(Written) /\ r.pending \in Seq(Written)
  BY ReaderFields
<1>3. r.out \o joined = Append(r.out \o r.pending, l) /\ r.out \o r.pending \in Seq(Written)
  BY <1>2, ConcatAppend
<1>4. After(r.out \o joined) = Read(Silent(r), l)
  BY <1>3, ReadOn DEF ReadsBack
<1>5. Silent(r).pending = r.pending /\ Silent(r).stack = r.stack
  BY DEF Silent, Readers
<1>6. CASE waits
  <2>1. Read(r, l) = q
    BY <1>6 DEF Read
  <2>2. Read(Silent(r), l) = [Silent(r) EXCEPT !.pending = joined]
    BY <1>5, <1>6 DEF Read
  <2>3. [Silent(r) EXCEPT !.pending = joined] = Silent(q) /\ Quiet(q) = Quiet(r)
        /\ q.out = r.out /\ q.pending = joined
    BY DEF Silent, Quiet, Readers
  <2> QED BY <1>4, <2>1, <2>2, <2>3 DEF ReadsBack
<1>7. CASE ~waits
  <2>1. Read(r, l) = Logical(r0, joined, TRUE)
    BY <1>7 DEF Read
  <2>2. Read(Silent(r), l) = Logical([Silent(r) EXCEPT !.pending = <<>>], joined, TRUE)
    BY <1>5, <1>7 DEF Read
  <2>3. [Silent(r) EXCEPT !.pending = <<>>] = Quiet(r0) /\ r0.out = r.out /\ Quiet(r0) = Quiet(r)
        /\ r0.pending = <<>>
    BY DEF Silent, Quiet, Readers
  <2> DEFINE s == Logical(r0, joined, TRUE)
  <2>4. s \in Readers /\ s.pending = <<>>
    BY <1>1, <2>3, LogicalIsReader, LogicalKeepsPending
  <2>5. After(s.out) = Quiet(s)
    <3> HIDE DEF r0, joined
    <3>1. After(r0.out) = Quiet(r0)
      BY <2>3 DEF ReadsBack
    <3>2. After(r0.out \o joined) = Logical(Quiet(r0), joined, TRUE)
      BY <1>4, <2>2, <2>3
    <3> QED BY <1>1, <3>1, <3>2, LogicalReadsBack
  <2> HIDE DEF s
  <2>6. s.out \o s.pending = s.out
    BY <2>4, ReaderFields
  <2>7. Silent(s) = Quiet(s)
    BY <2>4 DEF Silent, Quiet, Readers
  <2> QED BY <2>1, <2>5, <2>6, <2>7 DEF ReadsBack, s
<1> QED BY <1>6, <1>7

(* Unwinding keeps it, so that the whole file reads as the tree.            *)
LEMMA FileReadsBack ==
  ASSUME NEW r \in Readers, ReadsBack(r), r.pending = <<>>
  PROVE  LET again == Parse(Eof(r).out)
         IN  again.out = Eof(r).out /\ again.sets = Eof(r).sets /\ again.warned = 0
<1> DEFINE T == {s \in Readers : After(s.out) = Quiet(s)}
<1>1. Flush(r) \in T
  BY DEF ReadsBack, Flush
<1>2. ASSUME NEW s \in Readers, s \in T PROVE Unwind(s) \in T
  <2>1. Unwind(s) \in Readers /\ After(s.out) = Quiet(s)
    BY <1>2, UnwindIsReader
  <2>2. CASE s.stack = <<>>
    BY <2>1, <2>2 DEF Unwind
  <2>3. CASE s.stack # <<>>
    BY <2>1, <2>3, CloseIsReader, CloseReadsBack, QuietWarn DEF Unwind
  <2> QED BY <2>2, <2>3
<1>3. Eof(r) \in Readers /\ Eof(r) \in T /\ Eof(r).stack = <<>>
  <2> HIDE DEF T
  <2> QED BY <1>1, <1>2, EofEnds
<1> DEFINE w == Eof(r)
           q == Quiet(w)
<1>4. After(w.out) = q
  BY <1>3
<1> HIDE DEF w
<1>5. /\ q \in Readers /\ q.stack = <<>> /\ q.pending = <<>>
      /\ q.out = w.out /\ q.sets = w.sets /\ q.warned = 0
  BY <1>3, QuietIsReader DEF w
<1> HIDE DEF q
<1>6. Eof(q) = q
  <2>1. Flush(q) = q
    BY <1>5 DEF Flush
  <2>2. UnwindUpTo(q)[0] = q
    BY <1>5, UnwindingIsALoop
  <2> QED BY <1>5, <2>1, <2>2 DEF Eof
<1>7. Parse(w.out) = q
  BY <1>4, <1>6 DEF Parse, After
<1> QED BY <1>5, <1>7 DEF w

-----------------------------------------------------------------------------
(* What is left without the closers.                                        *)
OtherStep == [s \in Seq(Written) \X Written |-> WithOther(s[1], s[2])]

(* Leaving the closers out is a loop over the lines.                        *)
LEMMA OtherStepIsStep == IsStep(OtherStep, Seq(Written), Written)
<1>1. ASSUME NEW kept \in Seq(Written), NEW l \in Written
      PROVE  WithOther(kept, l) \in Seq(Written)
  BY DEF WithOther
<1> QED BY <1>1 DEF OtherStep, IsStep

(* OthersUpTo is that loop.                                                 *)
LEMMA OthersAreALoop ==
  ASSUME NEW ls \in Seq(Written)
  PROVE  IsLoop(OthersUpTo(ls), Seq(Written), Written, <<>>, OtherStep, ls)
<1> DEFINE n == Len(ls)
           Rec(f) == f = [k \in 0 .. n |-> IF k = 0 THEN <<>> ELSE WithOther(f[k - 1], ls[k])]
<1>1. n \in Nat
  OBVIOUS
<1>2. PICK f \in [0 .. n -> Seq(Written)] : IsLoopTo(f, <<>>, OtherStep, ls, n)
  <2>1. <<>> \in Seq(Written)
    OBVIOUS
  <2> QED BY <2>1, OtherStepIsStep, LoopExists
<1>3. \A k \in 1 .. n : k - 1 \in 0 .. n /\ ls[k] \in Written
  BY <1>1
<1>4. Rec(f)
  <2>1. ASSUME NEW k \in 0 .. n
        PROVE  f[k] = IF k = 0 THEN <<>> ELSE WithOther(f[k - 1], ls[k])
    <3>1. CASE k = 0
      BY <1>2, <3>1 DEF IsLoopTo
    <3>2. CASE k # 0
      <4>1. k \in 1 .. n
        BY <1>1, <3>2
      <4>2. f[k - 1] \in Seq(Written) /\ ls[k] \in Written
        BY <1>3, <4>1
      <4>3. f[k] = OtherStep[<<f[k - 1], ls[k]>>]
        BY <1>2, <4>1 DEF IsLoopTo
      <4> QED BY <3>2, <4>2, <4>3 DEF OtherStep
    <3> QED BY <3>1, <3>2
  <2>2. f = [k \in 0 .. n |-> f[k]]
    BY <1>2
  <2> QED BY <2>1, <2>2
<1>5. OthersUpTo(ls) = CHOOSE g : Rec(g)
  BY DEF OthersUpTo
<1>6. Rec(OthersUpTo(ls))
  <2> HIDE DEF Rec
  <2> QED BY <1>4, <1>5
<1>7. \A k \in 1 .. n : OthersUpTo(ls)[k] = WithOther(OthersUpTo(ls)[k - 1], ls[k])
  BY <1>1, <1>6
<1>8. OthersUpTo(ls)[0] = <<>>
  BY <1>1, <1>6
<1>9. OthersUpTo(ls) = [k \in 0 .. n |-> OthersUpTo(ls)[k]]
  BY <1>6
<1> HIDE DEF Rec
<1> QED BY <1>3, <1>7, <1>8, <1>9 DEF IsLoop, OtherStep

(* So one more line is kept unless it is a closer.                          *)
LEMMA OthersOn ==
  /\ Others(<<>>) = <<>>
  /\ \A ls \in Seq(Written) :
       /\ Others(ls) \in Seq(Written)
       /\ \A l \in Written : Others(Append(ls, l)) = WithOther(Others(ls), l)
<1>1. <<>> \in Seq(Written)
  OBVIOUS
<1>2. ASSUME NEW ls \in Seq(Written)
      PROVE  Others(ls) = Looped(Seq(Written), Written, <<>>, OtherStep, ls)
  BY <1>1, OtherStepIsStep, OthersAreALoop, LoopReturns DEF Others
<1>3. Others(<<>>) = <<>>
  BY <1>1, <1>2, OtherStepIsStep, LoopStarts
<1>4. ASSUME NEW ls \in Seq(Written) PROVE Others(ls) \in Seq(Written)
  <2>1. Looped(Seq(Written), Written, <<>>, OtherStep, ls) \in Seq(Written)
    BY <1>1, OtherStepIsStep, LoopEnds
  <2> QED BY <1>2, <2>1
<1>5. ASSUME NEW ls \in Seq(Written), NEW l \in Written
      PROVE  Others(Append(ls, l)) = WithOther(Others(ls), l)
  <2>1. Append(ls, l) \in Seq(Written)
    OBVIOUS
  <2>2. Looped(Seq(Written), Written, <<>>, OtherStep, Append(ls, l))
          = Stepped(OtherStep, Looped(Seq(Written), Written, <<>>, OtherStep, ls), l)
    <3>1. ASSUME NEW S, NEW b \in S, IsStep(OtherStep, S, Written)
          PROVE  Looped(S, Written, b, OtherStep, Append(ls, l))
                   = Stepped(OtherStep, Looped(S, Written, b, OtherStep, ls), l)
      BY <3>1, LoopAppend
    <3> QED BY <1>1, <3>1, OtherStepIsStep
  <2>3. Others(Append(ls, l)) = Stepped(OtherStep, Others(ls), l)
    BY <1>2, <2>1, <2>2
  <2> QED BY <1>4, <2>3 DEF OtherStep, Stepped
<1> QED BY <1>3, <1>4, <1>5

(* Closing a block writes a closer and nothing else.                        *)
LEMMA CloseKeepsOthers ==
  ASSUME NEW r \in Readers, r.stack # <<>>
  PROVE  Others(Close(r).out) = Others(r.out)
<1> DEFINE c == Closer(Last(r.stack))
<1>1. Close(r).out = Append(r.out, c) /\ c \in Written /\ r.out \in Seq(Written)
  BY QuietClose, CloseIsReader, ReaderFields
<1>2. IsCloser(c)
  BY DEF Closer, Line, IsCloser
<1> HIDE DEF c
<1> QED BY <1>1, <1>2, OthersOn DEF WithOther

(* So does an end line.                                                     *)
LEMMA EndKeepsOthers ==
  ASSUME NEW r \in Readers
  PROVE  Others(EndLine(r).out) = Others(r.out)
<1>1. CloseEdit(r) \in Readers /\ Others(CloseEdit(r).out) = Others(r.out)
  BY OpenOrNot, CloseIsReader, CloseKeepsOthers DEF CloseEdit
<1>2. Innermost(CloseEdit(r)) = "config" => CloseEdit(r).stack # <<>>
  BY <1>1, OpenOrNot
<1> QED BY <1>1, <1>2, CloseKeepsOthers, QuietWarn DEF EndLine

(* A logical line of one line is kept unless it is a closer.                *)
LEMMA LineKeepsOthers ==
  ASSUME NEW r \in Readers, NEW l \in Written
  PROVE  Others(Logical(r, <<l>>, TRUE).out) = WithOther(Others(r.out), l)
<1> DEFINE ls == <<l>>
           w == Write(r, ls)
<1>1. ls \in Seq(Written) /\ Head(ls) = l /\ ls # <<>>
  OBVIOUS
<1>2. w \in Readers /\ w.out = r.out \o ls
  BY <1>1, WriteIsReader, QuietWrite
<1>3. r.out \o ls = Append(r.out, l) /\ r.out \in Seq(Written)
  BY ReaderFields
<1>4. Others(w.out) = WithOther(Others(r.out), l)
  BY <1>2, <1>3, OthersOn
<1>5. Open(r, ls).out = w.out /\ \A e : [w EXCEPT !.sets = Append(@, e)].out = w.out
  BY <1>2 DEF Open, Readers
<1> HIDE DEF w, ls
<1>6. CASE l.head = "next"
  <2>1. Logical(r, ls, TRUE) = NextLine(r, l)
    BY <1>1, <1>6 DEF Logical
  <2>2. Others(NextLine(r, l).out) = Others(r.out)
    BY OpenOrNot, CloseKeepsOthers, QuietWarn DEF NextLine
  <2> QED BY <1>6, <2>1, <2>2 DEF ls, WithOther, IsCloser
<1>7. CASE l.head = "end"
  <2>1. Logical(r, ls, TRUE) = EndLine(r)
    BY <1>1, <1>7 DEF Logical
  <2> QED BY <1>7, <2>1, EndKeepsOthers DEF ls, WithOther, IsCloser
<1>8. CASE l.head \notin {"next", "end"}
  <2>1. Logical(r, ls, TRUE) \in {Open(r, ls), [w EXCEPT !.sets = Append(@, <<r.stack, ls>>)], w}
    BY <1>1, <1>8 DEF Logical, w
  <2>2. Logical(r, ls, TRUE).out = w.out
    BY <1>5, <2>1
  <2> QED BY <1>4, <2>2 DEF ls
<1> QED BY <1>6, <1>7, <1>8

(* Closing a block at the end of the file drops nothing.                    *)
LEMMA UnwindKeepsOthers ==
  ASSUME NEW r \in Readers
  PROVE  Others(Unwind(r).out) = Others(r.out)
BY CloseIsReader, CloseKeepsOthers, QuietWarn DEF Unwind

(* So the end of the file does not.                                         *)
LEMMA EofKeepsOthers ==
  ASSUME NEW r \in Readers, r.pending = <<>>
  PROVE  Others(Eof(r).out) = Others(r.out)
<1> DEFINE T == {s \in Readers : Others(s.out) = Others(r.out)}
<1>1. Flush(r) \in T
  BY DEF Flush
<1>2. \A s \in Readers : s \in T => Unwind(s) \in T
  BY UnwindIsReader, UnwindKeepsOthers
<1>3. Eof(r) \in T
  <2> HIDE DEF T
  <2> QED BY <1>1, <1>2, EofEnds
<1> QED BY <1>3

(* A text without quotes is read line by line.                              *)
LEMMA QuotesAppend ==
  ASSUME NEW ls \in Seq(Lines), NEW l \in Lines, ~QuotesIn(Append(ls, l))
  PROVE  ~QuotesIn(ls) /\ (l.odd => l.head = "comment")
<1> DEFINE ms == Append(ls, l)
<1>1. /\ Len(ls) + 1 \in DOMAIN ms /\ ms[Len(ls) + 1] = l
      /\ \A i \in DOMAIN ls : i \in DOMAIN ms /\ ms[i] = ls[i]
  OBVIOUS
<1> HIDE DEF ms
<1>2. \A i \in DOMAIN ms : ~(ms[i].odd /\ ms[i].head # "comment")
  BY DEF QuotesIn, ms
<1> QED BY <1>1, <1>2 DEF QuotesIn

-----------------------------------------------------------------------------
(* The open blocks nest, and a line opens and closes the blocks that a      *)
(* reader of the text sees it open and close.                               *)
Nested(path) ==
  \A i \in DOMAIN path : path[i].head = "edit" => i > 1 /\ path[i - 1].head = "config"

(* The outer blocks of nested ones nest.                                    *)
LEMMA NestedFront ==
  ASSUME NEW p \in Seq(Blocks), Nested(p), NEW n \in 0 .. Len(p)
  PROVE  SubSeq(p, 1, n) \in Seq(Blocks) /\ Nested(SubSeq(p, 1, n))
<1> DEFINE q == SubSeq(p, 1, n)
<1>1. n \in Nat /\ n <= Len(p) /\ Len(p) \in Nat
  OBVIOUS
<1>2. q \in Seq(Blocks) /\ Len(q) = n /\ \A i \in 1 .. n : q[i] = p[i]
  BY <1>1
<1> HIDE DEF q
<1>3. ASSUME NEW i \in DOMAIN q, q[i].head = "edit" PROVE i > 1 /\ q[i - 1].head = "config"
  <2>1. i \in 1 .. n /\ i \in DOMAIN p
    BY <1>1, <1>2, <1>3
  <2>2. i > 1 /\ p[i - 1].head = "config"
    BY <1>2, <1>3, <2>1 DEF Nested
  <2>3. i - 1 \in 1 .. n
    BY <2>1, <2>2
  <2> QED BY <1>2, <2>2, <2>3
<1> QED BY <1>2, <1>3 DEF Nested, q

(* So they do with one opened in the innermost, an edit in a config.        *)
LEMMA NestedAppend ==
  ASSUME NEW p \in Seq(Blocks), Nested(p), NEW b \in Blocks,
         b.head = "edit" => p # <<>> /\ Last(p).head = "config"
  PROVE  Append(p, b) \in Seq(Blocks) /\ Nested(Append(p, b))
<1> DEFINE q == Append(p, b)
           n == Len(p)
<1>1. /\ n \in Nat /\ DOMAIN p = 1 .. n /\ q \in Seq(Blocks) /\ DOMAIN q = 1 .. n + 1
      /\ q[n + 1] = b /\ \A i \in 1 .. n : q[i] = p[i]
      /\ (p # <<>> => n # 0)
  OBVIOUS
<1>2. p # <<>> => Last(p) = p[n]
  BY DEF Last
<1> HIDE DEF q, n
<1>3. ASSUME NEW i \in DOMAIN q, q[i].head = "edit" PROVE i > 1 /\ q[i - 1].head = "config"
  <2>1. CASE i = n + 1
    <3>1. n # 0 /\ p[n].head = "config"
      BY <1>1, <1>2, <1>3, <2>1
    <3>2. n \in 1 .. n /\ i - 1 = n /\ i > 1
      BY <1>1, <2>1, <3>1
    <3> QED BY <1>1, <3>1, <3>2
  <2>2. CASE i # n + 1
    <3>1. i \in 1 .. n
      BY <1>1, <2>2
    <3>2. i > 1 /\ p[i - 1].head = "config"
      BY <1>1, <1>3, <3>1 DEF Nested
    <3>3. i - 1 \in 1 .. n
      BY <1>1, <3>1, <3>2
    <3> QED BY <1>1, <3>2, <3>3
  <2> QED BY <2>1, <2>2
<1> QED BY <1>1, <1>3 DEF Nested, q

(* The innermost config is the last block, or the one before it.            *)
Configs(path) == {j \in DOMAIN path : path[j].head = "config"}

(* The innermost config is the last block or right above it.                *)
LEMMA InnermostConfig ==
  ASSUME NEW p \in Seq(Blocks), Nested(p), p # <<>>
  PROVE  /\ Max(Configs(p)) = IF Last(p).head = "edit" THEN Len(p) - 1 ELSE Len(p)
         /\ Max(Configs(p)) \in 1 .. Len(p)
<1> DEFINE n == Len(p)
           m == IF Last(p).head = "edit" THEN n - 1 ELSE n
<1>1. n \in Nat /\ n # 0 /\ DOMAIN p = 1 .. n /\ n \in DOMAIN p /\ Last(p) = p[n]
  BY DEF Last
<1>2. \A j \in DOMAIN p : p[j].head \in {"config", "edit"}
  <2>1. \A j \in DOMAIN p : p[j] \in Blocks
    OBVIOUS
  <2> QED BY <2>1 DEF Blocks
<1> HIDE DEF n
<1>3. m \in 1 .. n /\ p[m].head = "config" /\ \A j \in 1 .. n : p[j].head = "config" => j <= m
  <2>1. CASE p[n].head = "edit"
    <3>1. n > 1 /\ p[n - 1].head = "config"
      BY <1>1, <2>1 DEF Nested
    <3>2. m = n - 1
      BY <1>1, <2>1
    <3>3. \A j \in 1 .. n : p[j].head = "config" => j <= n - 1
      BY <1>1, <2>1
    <3> QED BY <1>1, <3>1, <3>2, <3>3
  <2>2. CASE p[n].head = "config"
    BY <1>1, <2>2
  <2> QED BY <1>1, <1>2, <2>1, <2>2
<1> HIDE DEF m
<1>4. Configs(p) \subseteq Nat /\ m \in Configs(p) /\ m \in Nat
      /\ \A j \in Configs(p) : j <= m
  BY <1>1, <1>3 DEF Configs
<1>5. Max(Configs(p)) = m
  <2>1. \A y \in Configs(p) : m >= y
    BY <1>4
  <2>2. Max(Configs(p)) \in Configs(p) /\ \A y \in Configs(p) : Max(Configs(p)) >= y
    BY <1>4, <2>1 DEF Max
  <2> QED BY <1>4, <2>2
<1> QED BY <1>3, <1>5 DEF m, n

(* What a line does to the open blocks.                                     *)
LEMMA CloseStack ==
  ASSUME NEW r \in Readers, r.stack # <<>>
  PROVE  Close(r).stack = Front(r.stack) /\ Close(r).sets = r.sets
<1>1. <<Closer(Last(r.stack))>> \in Seq(Written)
  BY CloseIsReader
<1>2. Write(r, <<Closer(Last(r.stack))>>) \in Readers
  BY <1>1, WriteIsReader
<1>3. Write(r, <<Closer(Last(r.stack))>>).stack = r.stack
      /\ Write(r, <<Closer(Last(r.stack))>>).sets = r.sets
  BY DEF Write, Readers
<1> QED BY <1>2, <1>3 DEF Close, Pop, Readers

(* An end line closes up to there.                                          *)
LEMMA EndStack ==
  ASSUME NEW r \in Readers, Nested(r.stack)
  PROVE  /\ EndLine(r).sets = r.sets
         /\ EndLine(r).stack = IF r.stack = <<>> THEN <<>>
                               ELSE SubSeq(r.stack, 1, Max(Configs(r.stack)) - 1)
<1> DEFINE p == r.stack
           n == Len(p)
<1>1. p \in Seq(Blocks) /\ n \in Nat
  BY ReaderFields
<1>2. CASE p = <<>>
  <2>1. Innermost(r) = "tree"
    BY <1>2, OpenOrNot
  <2>2. EndLine(r) = Warn(r)
    BY <2>1 DEF EndLine, CloseEdit
  <2> QED BY <1>2, <2>2 DEF Warn, Readers
<1>3. CASE p # <<>> /\ Last(p).head = "config"
  <2>1. Innermost(r) = "config"
    BY <1>3, OpenOrNot
  <2>2. EndLine(r) = Close(r)
    BY <2>1 DEF EndLine, CloseEdit
  <2>3. Max(Configs(p)) = n
    BY <1>1, <1>3, InnermostConfig
  <2> QED BY <1>3, <2>2, <2>3, CloseStack DEF Front
<1>4. CASE p # <<>> /\ Last(p).head = "edit"
  <2>1. Max(Configs(p)) = n - 1 /\ n - 1 \in 1 .. n
    BY <1>1, <1>4, InnermostConfig
  <2> DEFINE c == Close(r)
  <2>2. CloseEdit(r) = c
    BY <1>4, OpenOrNot DEF CloseEdit
  <2>3. c \in Readers /\ c.stack = SubSeq(p, 1, n - 1) /\ c.sets = r.sets
    BY <1>4, CloseIsReader, CloseStack DEF Front
  <2> HIDE DEF c
  <2>4. n - 1 \in DOMAIN p /\ n \in DOMAIN p /\ p[n].head = "edit"
    BY <1>1, <1>4, <2>1 DEF Last
  <2>5. p[n - 1].head = "config"
    BY <2>4 DEF Nested
  <2>6. Len(c.stack) = n - 1 /\ c.stack # <<>> /\ Last(c.stack) = p[n - 1]
    BY <1>1, <2>1, <2>3 DEF Last
  <2>7. Innermost(c) = "config"
    BY <2>3, <2>5, <2>6, OpenOrNot
  <2>8. EndLine(r) = Close(c)
    BY <2>2, <2>7 DEF EndLine
  <2>9. Close(c).stack = SubSeq(c.stack, 1, (n - 1) - 1) /\ Close(c).sets = r.sets
    BY <2>3, <2>6, CloseStack DEF Front
  <2>10. SubSeq(SubSeq(p, 1, n - 1), 1, (n - 1) - 1) = SubSeq(p, 1, (n - 1) - 1)
    BY <1>1, <2>1
  <2> QED BY <1>4, <2>1, <2>3, <2>8, <2>9, <2>10
<1> QED BY <1>2, <1>3, <1>4, CloseIsReader DEF Blocks

(* The blocks open behind a line nest if those before it do.                *)
LEMMA OpenBehindNests ==
  ASSUME NEW p \in Seq(Blocks), Nested(p), NEW l \in Written
  PROVE  OpenBehind(p, l) \in Seq(Blocks) /\ Nested(OpenBehind(p, l))
<1>1. ASSUME l.head \in {"config", "edit"},
             l.head = "edit" => p # <<>> /\ Last(p).head = "config"
      PROVE  LET q == Append(p, [head |-> l.head, arg |-> l.arg])
             IN  q \in Seq(Blocks) /\ Nested(q)
  <2>1. [head |-> l.head, arg |-> l.arg] \in Blocks
    BY <1>1 DEF Blocks
  <2> QED BY <1>1, <2>1, NestedAppend
<1>2. ASSUME p # <<>> PROVE Front(p) \in Seq(Blocks) /\ Nested(Front(p))
  <2>1. Len(p) - 1 \in 0 .. Len(p)
    BY <1>2
  <2> QED BY <2>1, NestedFront DEF Front
<1>3. ASSUME p # <<>>
      PROVE  LET q == SubSeq(p, 1, Max(Configs(p)) - 1)
             IN  q \in Seq(Blocks) /\ Nested(q)
  <2>1. Max(Configs(p)) \in 1 .. Len(p)
    BY <1>3, InnermostConfig
  <2>2. Max(Configs(p)) - 1 \in 0 .. Len(p)
    BY <2>1
  <2> QED BY <2>2, NestedFront
<1> QED BY <1>1, <1>2, <1>3 DEF OpenBehind, Configs

(* And they are those that parse_config has open.                           *)
LEMMA LogicalStack ==
  ASSUME NEW r \in Readers, Nested(r.stack), NEW ls \in Seq(Written), ls # <<>>
  PROVE  /\ Logical(r, ls, FALSE).stack = r.stack
         /\ Logical(r, ls, TRUE).stack = OpenBehind(r.stack, Head(ls))
         /\ Logical(r, ls, TRUE).sets = IF Head(ls).head = "set"
                                        THEN Append(r.sets, <<r.stack, ls>>) ELSE r.sets
<1> DEFINE l == Head(ls)
           w == Write(r, ls)
           p == r.stack
           opens == l.head = "config" \/ (l.head = "edit" /\ Innermost(r) = "config")
<1>1. w \in Readers /\ w.stack = p /\ w.sets = r.sets
  <2>1. w.stack = p /\ w.sets = r.sets
    BY DEF Write, Readers
  <2> QED BY <2>1, WriteIsReader
<1>2. Innermost(r) = IF p = <<>> THEN "tree" ELSE Last(p).head
  BY DEF Innermost
<1>3. ASSUME NEW e
      PROVE  /\ [w EXCEPT !.stack = Append(@, e)].stack = Append(p, e)
             /\ [w EXCEPT !.stack = Append(@, e)].sets = r.sets
             /\ [w EXCEPT !.sets = Append(@, e)].sets = Append(r.sets, e)
             /\ [w EXCEPT !.sets = Append(@, e)].stack = p
  BY <1>1 DEF Readers
<1>10. Warn(w).stack = p /\ Warn(r).stack = p /\ Warn(r).sets = r.sets
  BY <1>1 DEF Readers, Warn
<1> DEFINE b == [head |-> l.head, arg |-> l.arg]
<1>4. Open(r, ls) = [w EXCEPT !.stack = Append(@, b)]
  BY DEF Open
<1> HIDE DEF w, b
<1>5. Logical(r, ls, FALSE).stack = p
  <2>1. Logical(r, ls, FALSE) = Warn(w)
    BY DEF Logical, w
  <2> QED BY <1>10, <2>1
<1>6. CASE opens
  <2>1. Logical(r, ls, TRUE) = Open(r, ls)
    BY <1>6 DEF Logical
  <2>2. OpenBehind(p, l) = Append(p, b)
    BY <1>2, <1>6 DEF OpenBehind, b
  <2> QED BY <1>3, <1>4, <1>5, <1>6, <2>1, <2>2
<1>7. CASE l.head = "next"
  <2>1. Logical(r, ls, TRUE) = NextLine(r, l)
    BY <1>7 DEF Logical
  <2>2. CASE Innermost(r) = "edit"
    <3>1. p # <<>> /\ Last(p).head = "edit"
      BY <1>2, <2>2
    <3>2. OpenBehind(p, l) = Front(p)
      BY <1>7, <3>1 DEF OpenBehind
    <3>3. NextLine(r, l).stack = Front(p) /\ NextLine(r, l).sets = r.sets
      BY <2>2, <3>1, CloseStack DEF NextLine
    <3> QED BY <1>5, <1>7, <2>1, <3>2, <3>3
  <2>3. CASE Innermost(r) # "edit"
    <3>1. OpenBehind(p, l) = p
      BY <1>2, <1>7, <2>3 DEF OpenBehind
    <3> QED BY <1>5, <1>7, <1>10, <2>1, <2>3, <3>1 DEF NextLine
  <2> QED BY <2>2, <2>3
<1>8. CASE l.head = "end"
  <2>1. Logical(r, ls, TRUE) = EndLine(r)
    BY <1>8 DEF Logical
  <2>2. OpenBehind(p, l) = IF p = <<>> THEN <<>> ELSE SubSeq(p, 1, Max(Configs(p)) - 1)
    BY <1>8 DEF OpenBehind, Configs
  <2> QED BY <1>5, <1>8, <2>1, <2>2, EndStack
<1>9. CASE ~opens /\ l.head \notin {"next", "end"}
  <2>1. OpenBehind(p, l) = p
    BY <1>2, <1>9 DEF OpenBehind
  <2>2. CASE l.head = "set"
    <3>1. Logical(r, ls, TRUE) = [w EXCEPT !.sets = Append(@, <<r.stack, ls>>)]
      BY <2>2 DEF Logical, w
    <3> QED BY <1>3, <1>5, <2>1, <2>2, <3>1
  <2>3. CASE l.head # "set"
    <3>1. Logical(r, ls, TRUE) = w
      BY <1>9, <2>3 DEF Logical, w
    <3> QED BY <1>1, <1>5, <2>1, <2>3, <3>1
  <2> QED BY <2>2, <2>3
<1> QED BY <1>6, <1>7, <1>8, <1>9

(* So its open blocks nest.                                                 *)
LEMMA ReadKeepsNesting ==
  ASSUME NEW r \in Readers, Nested(r.stack), NEW l \in Written
  PROVE  Nested(Read(r, l).stack)
<1> DEFINE joined == Append(r.pending, l)
           r0 == [r EXCEPT !.pending = <<>>]
<1>1. /\ r0 \in Readers /\ r0.stack = r.stack /\ joined \in Seq(Written) /\ joined # <<>>
      /\ [r EXCEPT !.pending = joined].stack = r.stack
  <2>1. r0.stack = r.stack /\ [r EXCEPT !.pending = joined].stack = r.stack
    BY DEF Readers
  <2> QED BY <2>1, ReadIsReader
<1>2. Read(r, l) = [r EXCEPT !.pending = joined] \/ Read(r, l) = Logical(r0, joined, TRUE)
  BY DEF Read
<1> HIDE DEF joined, r0
<1>3. Nested(Logical(r0, joined, TRUE).stack)
  <2>1. Head(joined) \in Written /\ r0.stack \in Seq(Blocks)
    BY <1>1, WrittenHead, ReaderFields
  <2> QED BY <1>1, <2>1, LogicalStack, OpenBehindNests
<1> QED BY <1>1, <1>2, <1>3

(* What a reader of a text knows of it: the open blocks, and the settings.  *)
Contexts == {c \in [path : Seq(Blocks), sets : Seq(Settings)] : Nested(c.path)}
ContextStep == [s \in Contexts \X Written |-> InContext(s[1], s[2])]

(* A text starts outside any block.                                         *)
LEMMA StartIsContext == StartContext \in Contexts
<1>1. <<>> \in Seq(Blocks) /\ <<>> \in Seq(Settings)
  OBVIOUS
<1> QED BY <1>1 DEF StartContext, Contexts, Nested

(* A line leads from context to context.                                    *)
LEMMA InContextIsContext ==
  ASSUME NEW c \in Contexts, NEW l \in Written
  PROVE  InContext(c, l) \in Contexts
<1>1. c.path \in Seq(Blocks) /\ Nested(c.path) /\ c.sets \in Seq(Settings)
  BY DEF Contexts
<1>2. OpenBehind(c.path, l) \in Seq(Blocks) /\ Nested(OpenBehind(c.path, l))
  BY <1>1, OpenBehindNests
<1>3. <<l>> \in Seq(Written)
  OBVIOUS
<1>4. <<c.path, <<l>>>> \in Settings
  BY <1>1, <1>3 DEF Settings
<1>5. Append(c.sets, <<c.path, <<l>>>>) \in Seq(Settings)
  BY <1>1, <1>4
<1> QED BY <1>1, <1>2, <1>5 DEF InContext, Contexts

(* Finding the settings of a text is a loop over its lines.                 *)
LEMMA ContextStepIsStep == IsStep(ContextStep, Contexts, Written)
BY InContextIsContext DEF ContextStep, IsStep

(* ContextUpTo is that loop.                                                *)
LEMMA ContextsAreALoop ==
  ASSUME NEW ls \in Seq(Written)
  PROVE  IsLoop(ContextUpTo(ls), Contexts, Written, StartContext, ContextStep, ls)
<1> DEFINE n == Len(ls)
           Rec(f) == f = [k \in 0 .. n |-> IF k = 0 THEN StartContext
                                           ELSE InContext(f[k - 1], ls[k])]
<1>1. n \in Nat
  OBVIOUS
<1>2. PICK f \in [0 .. n -> Contexts] : IsLoopTo(f, StartContext, ContextStep, ls, n)
  BY StartIsContext, ContextStepIsStep, LoopExists
<1>3. \A k \in 1 .. n : k - 1 \in 0 .. n /\ ls[k] \in Written
  BY <1>1
<1>4. Rec(f)
  <2>1. ASSUME NEW k \in 0 .. n
        PROVE  f[k] = IF k = 0 THEN StartContext ELSE InContext(f[k - 1], ls[k])
    <3>1. CASE k = 0
      BY <1>2, <3>1 DEF IsLoopTo
    <3>2. CASE k # 0
      <4>1. k \in 1 .. n
        BY <1>1, <3>2
      <4>2. f[k - 1] \in Contexts /\ ls[k] \in Written
        BY <1>3, <4>1
      <4>3. f[k] = ContextStep[<<f[k - 1], ls[k]>>]
        BY <1>2, <4>1 DEF IsLoopTo
      <4> QED BY <3>2, <4>2, <4>3 DEF ContextStep
    <3> QED BY <3>1, <3>2
  <2>2. f = [k \in 0 .. n |-> f[k]]
    BY <1>2
  <2> QED BY <2>1, <2>2
<1>5. ContextUpTo(ls) = CHOOSE g : Rec(g)
  BY DEF ContextUpTo
<1>6. Rec(ContextUpTo(ls))
  <2> HIDE DEF Rec
  <2> QED BY <1>4, <1>5
<1>7. \A k \in 1 .. n : ContextUpTo(ls)[k] = InContext(ContextUpTo(ls)[k - 1], ls[k])
  BY <1>1, <1>6
<1>8. ContextUpTo(ls)[0] = StartContext
  BY <1>1, <1>6
<1>9. ContextUpTo(ls) = [k \in 0 .. n |-> ContextUpTo(ls)[k]]
  BY <1>6
<1> HIDE DEF Rec
<1> QED BY <1>3, <1>7, <1>8, <1>9 DEF IsLoop, ContextStep

Context(ls) == ContextUpTo(ls)[Len(ls)]

(* So one more line adds its own context.                                   *)
LEMMA ContextOn ==
  /\ Context(<<>>) = StartContext
  /\ \A ls \in Seq(Written), l \in Written : Context(Append(ls, l)) = InContext(Context(ls), l)
<1>1. ASSUME NEW ls \in Seq(Written)
      PROVE  Context(ls) = Looped(Contexts, Written, StartContext, ContextStep, ls)
  BY StartIsContext, ContextStepIsStep, ContextsAreALoop, LoopReturns DEF Context
<1>2. Context(<<>>) = StartContext
  <2>1. <<>> \in Seq(Written)
    OBVIOUS
  <2> QED BY <1>1, <2>1, StartIsContext, ContextStepIsStep, LoopStarts
<1>3. ASSUME NEW ls \in Seq(Written), NEW l \in Written
      PROVE  Context(Append(ls, l)) = InContext(Context(ls), l)
  <2>1. Append(ls, l) \in Seq(Written)
    OBVIOUS
  <2>2. Looped(Contexts, Written, StartContext, ContextStep, Append(ls, l))
          = Stepped(ContextStep, Looped(Contexts, Written, StartContext, ContextStep, ls), l)
    BY StartIsContext, ContextStepIsStep, LoopAppend
  <2>3. Context(Append(ls, l)) = Stepped(ContextStep, Context(ls), l)
    BY <1>1, <2>1, <2>2
  <2>4. Looped(Contexts, Written, StartContext, ContextStep, ls) \in Contexts
    BY StartIsContext, ContextStepIsStep, LoopEnds
  <2>5. Context(ls) \in Contexts
    BY <1>1, <2>4
  <2> QED BY <2>3, <2>5 DEF ContextStep, Stepped
<1> QED BY <1>2, <1>3

-----------------------------------------------------------------------------
(* The specification: what holds of the reader behind every text.           *)
ReaderInv ==
  /\ text \in Seq(Lines)
  /\ reader \in Readers
  /\ Nested(reader.stack)
  /\ ReadsBack(reader)
  /\ ~QuotesIn(text) =>
       /\ reader.pending = <<>>
       /\ Others(reader.out) = Others(text)
       /\ Context(text) = [path |-> reader.stack, sets |-> reader.sets]

(* The lines of a text are lines that may be written.                       *)
LEMMA TextIsWritten ==
  ASSUME NEW ls \in Seq(Lines)
  PROVE  ls \in Seq(Written)
<1>1. Lines \subseteq Written
  BY DEF Written
<1> QED BY <1>1

(* The empty text is read as one should be.                                 *)
LEMMA ReaderInvStarts == Init => ReaderInv
<1> SUFFICES ASSUME Init PROVE ReaderInv
  OBVIOUS
<1>1. text = <<>> /\ reader = Start
  BY DEF Init
<1>2. /\ Start.stack = <<>> /\ Start.pending = <<>> /\ Start.out = <<>>
      /\ Start.sets = <<>> /\ Start.warned = 0
      /\ Quiet(Start) = Start /\ Silent(Start) = Start
  <2>1. /\ Start.stack = <<>> /\ Start.pending = <<>> /\ Start.out = <<>>
        /\ Start.sets = <<>> /\ Start.warned = 0
    BY DEF Start
  <2>2. Quiet(Start) = Start /\ Silent(Start) = Start
    BY <2>1, StartIsReader DEF Readers, Quiet, Silent
  <2> QED BY <2>1, <2>2
<1>3. After(<<>>) = Start /\ Others(<<>>) = <<>> /\ Context(<<>>) = StartContext
  BY ReadOn, OthersOn, ContextOn
<1>4. <<>> \o <<>> = <<>>
  OBVIOUS
<1>5. ReadsBack(Start)
  BY <1>2, <1>3, <1>4 DEF ReadsBack
<1>6. Nested(Start.stack)
  BY <1>2 DEF Nested
<1> QED BY <1>1, <1>2, <1>3, <1>5, <1>6, StartIsReader DEF ReaderInv, StartContext

(* Reading one more line keeps it so.                                       *)
LEMMA ReadKeepsInv == ReaderInv /\ [Next]_vars => ReaderInv'
<1> SUFFICES ASSUME ReaderInv, [Next]_vars PROVE ReaderInv'
  OBVIOUS
<1>1. CASE UNCHANGED vars \/ \E c \in Chars : ReadChar(c)
  BY <1>1 DEF vars, ReadChar, ReaderInv
<1>2. ASSUME NEW l \in Lines, ReadLine(l) PROVE ReaderInv'
  <2>1. text' = Append(text, l) /\ reader' = Read(reader, l)
    BY <1>2 DEF ReadLine
  <2>2. /\ text \in Seq(Lines) /\ text \in Seq(Written) /\ l \in Written
        /\ reader \in Readers /\ Nested(reader.stack) /\ ReadsBack(reader)
    BY TextIsWritten DEF ReaderInv, Written
  <2>3. text' \in Seq(Lines)
    BY <2>1, <2>2
  <2>4. reader' \in Readers /\ Nested(reader'.stack) /\ ReadsBack(reader')
    BY <2>1, <2>2, ReadIsReader, ReadKeepsNesting, ReadKeepsReadsBack
  <2>5. ASSUME ~QuotesIn(text')
        PROVE  /\ reader'.pending = <<>>
               /\ Others(reader'.out) = Others(text')
               /\ Context(text') = [path |-> reader'.stack, sets |-> reader'.sets]
    <3>1. ~QuotesIn(text) /\ (l.odd => l.head = "comment")
      BY <2>1, <2>2, <2>5, QuotesAppend
    <3>2. /\ reader.pending = <<>>
          /\ Others(reader.out) = Others(text)
          /\ Context(text) = [path |-> reader.stack, sets |-> reader.sets]
      BY <3>1 DEF ReaderInv
    <3> DEFINE ls == <<l>>
    <3>3. ls \in Seq(Written) /\ ls # <<>> /\ Head(ls) = l
      BY <2>2
    <3>4. reader' = Logical(reader, ls, TRUE)
      BY <2>1, <2>2, <3>1, <3>2, ReadsOneLine
    <3>5. reader'.pending = <<>>
      BY <2>2, <3>2, <3>3, <3>4, LogicalKeepsPending
    <3>6. Others(reader'.out) = Others(text')
      <4>1. Others(reader'.out) = WithOther(Others(reader.out), l)
        BY <2>2, <3>4, LineKeepsOthers
      <4>2. Others(text') = WithOther(Others(text), l)
        BY <2>1, <2>2, OthersOn
      <4> QED BY <3>2, <4>1, <4>2
    <3>7. /\ reader'.stack = OpenBehind(reader.stack, l)
          /\ reader'.sets = IF l.head = "set" THEN Append(reader.sets, <<reader.stack, ls>>)
                            ELSE reader.sets
      <4> HIDE DEF ls
      <4> QED BY <2>2, <3>3, <3>4, LogicalStack
    <3>8. Context(text') = InContext(Context(text), l)
      BY <2>1, <2>2, ContextOn
    <3>9. InContext(Context(text), l)
            = [path |-> OpenBehind(reader.stack, l),
               sets |-> IF l.head = "set" THEN Append(reader.sets, <<reader.stack, ls>>)
                        ELSE reader.sets]
      BY <3>2 DEF InContext
    <3> QED BY <3>5, <3>6, <3>7, <3>8, <3>9
  <2> QED BY <2>3, <2>4, <2>5 DEF ReaderInv
<1> QED BY <1>1, <1>2 DEF Next

(* So every text is.                                                        *)
LEMMA ReaderInvHolds == Spec => []ReaderInv
<1>1. Init => ReaderInv
  BY ReaderInvStarts
<1>2. ReaderInv /\ [Next]_vars => ReaderInv'
  BY ReadKeepsInv
<1> QED BY <1>1, <1>2, PTL DEF Spec

(* Migrating a file twice, or normalising an output again, changes nothing: *)
(* whatever lines a text holds, what serialize writes of it is read back as *)
(* the same tree, without a warning.                                        *)
THEOREM WritingReadsBack == Spec => []WrittenReadsBack
<1>1. ReaderInv => WrittenReadsBack
  BY FileReadsBack DEF ReaderInv, WrittenReadsBack, Tree
<1> QED BY <1>1, ReaderInvHolds, PTL

(* "keep everything, including sections this tool knows nothing about":     *)
(* parse_config and serialize drop and add only next and end lines.         *)
THEOREM OnlyClosersChange == Spec => []NothingElseDropped
<1>1. ReaderInv => NothingElseDropped
  BY EofKeepsOthers DEF ReaderInv, NothingElseDropped, Tree
<1> QED BY <1>1, ReaderInvHolds, PTL

(* Closing a block at the end of the file finds no setting.                 *)
LEMMA UnwindKeepsSettings ==
  ASSUME NEW r \in Readers
  PROVE  Unwind(r).sets = r.sets
<1>1. CASE r.stack # <<>>
  <2>1. Close(r) \in Readers /\ Close(r).sets = r.sets
    BY <1>1, CloseIsReader, CloseStack
  <2>2. Warn(Close(r)).sets = Close(r).sets
    BY <2>1 DEF Warn, Readers
  <2> QED BY <1>1, <2>1, <2>2 DEF Unwind
<1> QED BY <1>1 DEF Unwind

(* A setting is migrated under the blocks its line stands in: an edit up to *)
(* its next, a config up to its end, whatever else is between.              *)
THEOREM SettingsStayInPlace == Spec => []SettingsKeepTheirPath
<1>1. ReaderInv => SettingsKeepTheirPath
  <2> SUFFICES ASSUME ReaderInv, ~QuotesIn(text) PROVE Tree.sets = SettingsIn(text)
    BY DEF SettingsKeepTheirPath
  <2>1. /\ reader \in Readers /\ reader.pending = <<>>
        /\ Context(text) = [path |-> reader.stack, sets |-> reader.sets]
    BY DEF ReaderInv
  <2> DEFINE T == {s \in Readers : s.sets = reader.sets}
  <2>2. Flush(reader) \in T
    BY <2>1 DEF Flush
  <2>3. \A s \in Readers : s \in T => Unwind(s) \in T
    BY UnwindIsReader, UnwindKeepsSettings
  <2>4. Eof(reader) \in T
    <3> HIDE DEF T
    <3> QED BY <2>1, <2>2, <2>3, EofEnds
  <2>5. SettingsIn(text) = reader.sets
    BY <2>1 DEF SettingsIn, Context
  <2> QED BY <2>4, <2>5 DEF Tree
<1> QED BY <1>1, ReaderInvHolds, PTL

-----------------------------------------------------------------------------
(* Within a line: what the scanner and the escaping of a token do.          *)
Letters == Chars \cup {Blank, Quote, Backslash, Apostrophe}
ScanModes == {"between", "bare", "quoted", "escape"}
TokenSet == [value : Seq(Letters), quoted : BOOLEAN]
Scanners == [mode : ScanModes, buf : Seq(Letters), toks : Seq(TokenSet)]

(* The characters with a meaning are different ones.                        *)
LEMMA LettersDiffer ==
  /\ Blank # Quote /\ Blank # Backslash /\ Blank # Apostrophe
  /\ Quote # Backslash /\ Quote # Apostrophe /\ Backslash # Apostrophe
BY DEF Blank, Quote, Backslash, Apostrophe

(* Completing a token leaves a scanner.                                     *)
LEMMA PushIsScanner ==
  ASSUME NEW s \in Scanners, NEW q \in BOOLEAN
  PROVE  Push(s, q) \in Scanners
<1>1. s.buf \in Seq(Letters) /\ s.toks \in Seq(TokenSet)
  BY DEF Scanners
<1>2. [value |-> s.buf, quoted |-> q] \in TokenSet
  BY <1>1 DEF TokenSet
<1>3. Append(s.toks, [value |-> s.buf, quoted |-> q]) \in Seq(TokenSet) /\ <<>> \in Seq(Letters)
  BY <1>1, <1>2
<1> QED BY <1>3 DEF Push, Scanners, ScanModes

(* So does a character.                                                     *)
LEMMA ScanIsScanner ==
  ASSUME NEW s \in Scanners, NEW c \in Letters
  PROVE  Scan(s, c) \in Scanners
<1>1. ASSUME NEW m \in ScanModes, NEW b \in Seq(Letters) PROVE Into(s, m, b) \in Scanners
  BY DEF Into, Scanners
<1>2. s.mode \in ScanModes /\ s.buf \in Seq(Letters) /\ Append(s.buf, c) \in Seq(Letters)
      /\ <<>> \in Seq(Letters) /\ <<c>> \in Seq(Letters)
  <2>1. s.mode \in ScanModes /\ s.buf \in Seq(Letters)
    BY DEF Scanners
  <2> QED BY <2>1
<1>3. {"bare", "quoted", "escape"} \subseteq ScanModes
  BY DEF ScanModes
<1>4. Into(s, "quoted", <<>>) \in Scanners /\ Into(s, "bare", <<c>>) \in Scanners
      /\ Into(s, "escape", s.buf) \in Scanners /\ Into(s, "quoted", Append(s.buf, c)) \in Scanners
      /\ Into(s, s.mode, Append(s.buf, c)) \in Scanners
  BY <1>1, <1>2, <1>3
<1>5. Push(s, FALSE) \in Scanners /\ Push(s, TRUE) \in Scanners
  BY PushIsScanner
<1> QED BY <1>4, <1>5 DEF Scan

(* The scanner starts as one.                                               *)
LEMMA StartIsScanner == StartScan \in Scanners
<1>1. <<>> \in Seq(Letters) /\ <<>> \in Seq(TokenSet)
  OBVIOUS
<1> QED BY <1>1 DEF StartScan, Scanners, ScanModes

ScanStep == [s \in Scanners \X Letters |-> Scan(s[1], s[2])]

(* split_line's loop over the characters takes scanners to scanners.        *)
LEMMA ScanStepIsStep == IsStep(ScanStep, Scanners, Letters)
BY ScanIsScanner DEF ScanStep, IsStep

(* ScanUpTo is that loop.                                                   *)
LEMMA ScanningIsALoop ==
  ASSUME NEW cs \in Seq(Letters)
  PROVE  IsLoop(ScanUpTo(cs), Scanners, Letters, StartScan, ScanStep, cs)
<1> DEFINE n == Len(cs)
           Rec(f) == f = [k \in 0 .. n |-> IF k = 0 THEN StartScan ELSE Scan(f[k - 1], cs[k])]
<1>1. n \in Nat
  OBVIOUS
<1>2. PICK f \in [0 .. n -> Scanners] : IsLoopTo(f, StartScan, ScanStep, cs, n)
  BY StartIsScanner, ScanStepIsStep, LoopExists
<1>3. \A k \in 1 .. n : k - 1 \in 0 .. n /\ cs[k] \in Letters
  BY <1>1
<1>4. Rec(f)
  <2>1. ASSUME NEW k \in 0 .. n
        PROVE  f[k] = IF k = 0 THEN StartScan ELSE Scan(f[k - 1], cs[k])
    <3>1. CASE k = 0
      BY <1>2, <3>1 DEF IsLoopTo
    <3>2. CASE k # 0
      <4>1. k \in 1 .. n
        BY <1>1, <3>2
      <4>2. f[k - 1] \in Scanners /\ cs[k] \in Letters
        BY <1>3, <4>1
      <4>3. f[k] = ScanStep[<<f[k - 1], cs[k]>>]
        BY <1>2, <4>1 DEF IsLoopTo
      <4> QED BY <3>2, <4>2, <4>3 DEF ScanStep
    <3> QED BY <3>1, <3>2
  <2>2. f = [k \in 0 .. n |-> f[k]]
    BY <1>2
  <2> QED BY <2>1, <2>2
<1>5. ScanUpTo(cs) = CHOOSE g : Rec(g)
  BY DEF ScanUpTo
<1>6. Rec(ScanUpTo(cs))
  <2> HIDE DEF Rec
  <2> QED BY <1>4, <1>5
<1>7. \A k \in 1 .. n : ScanUpTo(cs)[k] = Scan(ScanUpTo(cs)[k - 1], cs[k])
  BY <1>1, <1>6
<1>8. ScanUpTo(cs)[0] = StartScan
  BY <1>1, <1>6
<1>9. ScanUpTo(cs) = [k \in 0 .. n |-> ScanUpTo(cs)[k]]
  BY <1>6
<1> HIDE DEF Rec
<1> QED BY <1>3, <1>7, <1>8, <1>9 DEF IsLoop, ScanStep

Scanned(cs) == ScanUpTo(cs)[Len(cs)]

(* So scanning one more character is scanning it behind the others.         *)
LEMMA ScanOn ==
  /\ Scanned(<<>>) = StartScan
  /\ \A cs \in Seq(Letters) :
       /\ Scanned(cs) \in Scanners
       /\ \A c \in Letters : Scanned(Append(cs, c)) = Scan(Scanned(cs), c)
<1>1. ASSUME NEW cs \in Seq(Letters)
      PROVE  Scanned(cs) = Looped(Scanners, Letters, StartScan, ScanStep, cs)
  BY StartIsScanner, ScanStepIsStep, ScanningIsALoop, LoopReturns DEF Scanned
<1>2. Scanned(<<>>) = StartScan
  <2>1. <<>> \in Seq(Letters)
    OBVIOUS
  <2> QED BY <1>1, <2>1, StartIsScanner, ScanStepIsStep, LoopStarts
<1>3. ASSUME NEW cs \in Seq(Letters) PROVE Scanned(cs) \in Scanners
  <2>1. Looped(Scanners, Letters, StartScan, ScanStep, cs) \in Scanners
    BY StartIsScanner, ScanStepIsStep, LoopEnds
  <2> QED BY <1>1, <2>1
<1>4. ASSUME NEW cs \in Seq(Letters), NEW c \in Letters
      PROVE  Scanned(Append(cs, c)) = Scan(Scanned(cs), c)
  <2>1. Append(cs, c) \in Seq(Letters)
    OBVIOUS
  <2>2. Looped(Scanners, Letters, StartScan, ScanStep, Append(cs, c))
          = Stepped(ScanStep, Looped(Scanners, Letters, StartScan, ScanStep, cs), c)
    BY StartIsScanner, ScanStepIsStep, LoopAppend
  <2>3. Scanned(Append(cs, c)) = Stepped(ScanStep, Scanned(cs), c)
    BY <1>1, <2>1, <2>2
  <2> QED BY <1>3, <2>3 DEF ScanStep, Stepped
<1> QED BY <1>2, <1>3, <1>4

(* str.replace goes character by character.                                 *)
SubstStep(c, by) == [s \in Seq(Letters) \X Letters |-> s[1] \o Replaced(s[2], c, by)]

(* A replacement takes sequences of characters to such.                     *)
LEMMA SubstStepIsStep ==
  ASSUME NEW c \in Letters, NEW by \in Seq(Letters)
  PROVE  IsStep(SubstStep(c, by), Seq(Letters), Letters)
<1>1. ASSUME NEW done \in Seq(Letters), NEW x \in Letters
      PROVE  done \o Replaced(x, c, by) \in Seq(Letters)
  <2>1. Replaced(x, c, by) \in Seq(Letters)
    BY DEF Replaced
  <2> QED BY <2>1
<1> QED BY <1>1 DEF SubstStep, IsStep

(* SubstituteUpTo is a loop of them.                                        *)
LEMMA SubstitutingIsALoop ==
  ASSUME NEW cs \in Seq(Letters), NEW c \in Letters, NEW by \in Seq(Letters)
  PROVE  IsLoop(SubstituteUpTo(cs, c, by), Seq(Letters), Letters, <<>>, SubstStep(c, by), cs)
<1> DEFINE n == Len(cs)
           Rec(f) == f = [k \in 0 .. n |-> IF k = 0 THEN <<>>
                                           ELSE f[k - 1] \o Replaced(cs[k], c, by)]
<1>1. n \in Nat
  OBVIOUS
<1>2. PICK f \in [0 .. n -> Seq(Letters)] : IsLoopTo(f, <<>>, SubstStep(c, by), cs, n)
  <2>1. <<>> \in Seq(Letters)
    OBVIOUS
  <2> QED BY <2>1, SubstStepIsStep, LoopExists
<1>3. \A k \in 1 .. n : k - 1 \in 0 .. n /\ cs[k] \in Letters
  BY <1>1
<1>4. Rec(f)
  <2>1. ASSUME NEW k \in 0 .. n
        PROVE  f[k] = IF k = 0 THEN <<>> ELSE f[k - 1] \o Replaced(cs[k], c, by)
    <3>1. CASE k = 0
      BY <1>2, <3>1 DEF IsLoopTo
    <3>2. CASE k # 0
      <4>1. k \in 1 .. n
        BY <1>1, <3>2
      <4>2. f[k - 1] \in Seq(Letters) /\ cs[k] \in Letters
        BY <1>3, <4>1
      <4>3. f[k] = SubstStep(c, by)[<<f[k - 1], cs[k]>>]
        BY <1>2, <4>1 DEF IsLoopTo
      <4> QED BY <3>2, <4>2, <4>3 DEF SubstStep
    <3> QED BY <3>1, <3>2
  <2>2. f = [k \in 0 .. n |-> f[k]]
    BY <1>2
  <2> QED BY <2>1, <2>2
<1>5. SubstituteUpTo(cs, c, by) = CHOOSE g : Rec(g)
  BY DEF SubstituteUpTo
<1> DEFINE u == SubstituteUpTo(cs, c, by)
<1>6. Rec(u)
  <2> HIDE DEF Rec
  <2> QED BY <1>4, <1>5
<1> HIDE DEF u
<1>7. ASSUME NEW k \in 1 .. n PROVE u[k] = u[k - 1] \o Replaced(cs[k], c, by)
  <2>1. k \in 0 .. n /\ k # 0
    BY <1>1
  <2>2. \A j \in 0 .. n : u[j] = IF j = 0 THEN <<>> ELSE u[j - 1] \o Replaced(cs[j], c, by)
    BY <1>6
  <2> HIDE DEF Rec
  <2> QED BY <2>1, <2>2
<1>8. u[0] = <<>>
  BY <1>1, <1>6
<1>9. u = [k \in 0 .. n |-> u[k]]
  BY <1>6
<1> HIDE DEF Rec
<1>10. IsLoop(u, Seq(Letters), Letters, <<>>, SubstStep(c, by), cs)
  BY <1>3, <1>7, <1>8, <1>9 DEF IsLoop, SubstStep
<1> QED BY <1>10 DEF u

(* So one more character is replaced behind the others.                     *)
LEMMA SubstituteOn ==
  ASSUME NEW c \in Letters, NEW by \in Seq(Letters)
  PROVE  /\ Substitute(<<>>, c, by) = <<>>
         /\ \A cs \in Seq(Letters) :
              /\ Substitute(cs, c, by) \in Seq(Letters)
              /\ \A x \in Letters :
                   Substitute(Append(cs, x), c, by) = Substitute(cs, c, by) \o Replaced(x, c, by)
<1> DEFINE S == Seq(Letters)
           step == SubstStep(c, by)
<1>1. <<>> \in S /\ IsStep(step, S, Letters)
  BY SubstStepIsStep
<1>2. ASSUME NEW cs \in Seq(Letters)
      PROVE  Substitute(cs, c, by) = Looped(S, Letters, <<>>, step, cs)
  <2>1. IsLoop(SubstituteUpTo(cs, c, by), S, Letters, <<>>, step, cs)
    BY SubstitutingIsALoop
  <2> HIDE DEF S, step
  <2> QED BY <1>1, <2>1, LoopReturns DEF Substitute
<1> HIDE DEF step
<1>3. Substitute(<<>>, c, by) = <<>>
  <2>1. Looped(S, Letters, <<>>, step, <<>>) = <<>>
    BY <1>1, LoopStarts
  <2> QED BY <1>1, <1>2, <2>1
<1>4. ASSUME NEW cs \in Seq(Letters) PROVE Substitute(cs, c, by) \in Seq(Letters)
  <2>1. Looped(S, Letters, <<>>, step, cs) \in S
    BY <1>1, LoopEnds
  <2> QED BY <1>2, <2>1
<1>5. ASSUME NEW cs \in Seq(Letters), NEW x \in Letters
      PROVE  Substitute(Append(cs, x), c, by) = Substitute(cs, c, by) \o Replaced(x, c, by)
  <2>1. Append(cs, x) \in Seq(Letters)
    OBVIOUS
  <2>2. Looped(S, Letters, <<>>, step, Append(cs, x))
          = Stepped(step, Looped(S, Letters, <<>>, step, cs), x)
    <3>1. ASSUME NEW SS, NEW b \in SS, IsStep(step, SS, Letters)
          PROVE  Looped(SS, Letters, b, step, Append(cs, x))
                   = Stepped(step, Looped(SS, Letters, b, step, cs), x)
      BY <3>1, LoopAppend
    <3> QED BY <1>1, <3>1
  <2>3. Substitute(Append(cs, x), c, by) = Stepped(step, Substitute(cs, c, by), x)
    BY <1>2, <2>1, <2>2
  <2> QED BY <1>4, <2>3 DEF step, SubstStep, Stepped
<1> QED BY <1>3, <1>4, <1>5

(* Escaping goes character by character as well: the three replacements,    *)
(* backslashes first, never touch what another one put in.                  *)
Escaped(v) ==
  Substitute(Substitute(Substitute(v, Backslash, <<Backslash, Backslash>>),
    Quote, <<Backslash, Quote>>), Apostrophe, <<Backslash, Apostrophe>>)
EscapeOf(c) == IF c \in {Backslash, Quote, Apostrophe} THEN <<Backslash, c>> ELSE <<c>>

(* Concatenating one or two characters appends them.                        *)
LEMMA PairAppends ==
  ASSUME NEW s \in Seq(Letters), NEW a \in Letters, NEW b \in Letters
  PROVE  /\ s \o <<a>> = Append(s, a) /\ Append(s, a) \in Seq(Letters)
         /\ s \o <<a, b>> = Append(Append(s, a), b)
<1>1. s \o <<a>> = Append(s, a) /\ Append(s, a) \in Seq(Letters)
  OBVIOUS
<1>2. <<a, b>> = Append(<<a>>, b) /\ <<a>> \in Seq(Letters)
  OBVIOUS
<1>3. s \o Append(<<a>>, b) = Append(s \o <<a>>, b)
  BY <1>2, ConcatAppend
<1> QED BY <1>1, <1>2, <1>3

(* Escaping one character puts a backslash before it, others stay.          *)
LEMMA SubstituteOne ==
  ASSUME NEW c \in Letters, NEW s \in Seq(Letters), NEW x \in Letters
  PROVE  Substitute(Append(s, x), c, <<Backslash, c>>)
           = IF x = c THEN Append(Append(Substitute(s, c, <<Backslash, c>>), Backslash), c)
             ELSE Append(Substitute(s, c, <<Backslash, c>>), x)
<1> DEFINE by == <<Backslash, c>>
<1>1. Backslash \in Letters /\ by \in Seq(Letters)
  BY DEF Letters
<1>2. /\ Substitute(s, c, by) \in Seq(Letters)
      /\ Substitute(Append(s, x), c, by) = Substitute(s, c, by) \o Replaced(x, c, by)
  <2> HIDE DEF by
  <2> QED BY <1>1, SubstituteOn
<1>3. CASE x = c
  BY <1>1, <1>2, <1>3, PairAppends DEF Replaced
<1>4. CASE x # c
  BY <1>2, <1>4, PairAppends DEF Replaced
<1> QED BY <1>3, <1>4

(* So escaping all three puts a backslash before any of them, once.         *)
LEMMA EscapedOn ==
  /\ Escaped(<<>>) = <<>>
  /\ \A v \in Seq(Letters) :
       /\ Escaped(v) \in Seq(Letters)
       /\ \A c \in Letters : Escaped(Append(v, c)) = Escaped(v) \o EscapeOf(c)
<1> DEFINE S1(v) == Substitute(v, Backslash, <<Backslash, Backslash>>)
           S2(v) == Substitute(v, Quote, <<Backslash, Quote>>)
           S3(v) == Substitute(v, Apostrophe, <<Backslash, Apostrophe>>)
<1>1. /\ Backslash \in Letters /\ Quote \in Letters /\ Apostrophe \in Letters
      /\ <<Backslash, Backslash>> \in Seq(Letters) /\ <<Backslash, Quote>> \in Seq(Letters)
      /\ <<Backslash, Apostrophe>> \in Seq(Letters)
  BY DEF Letters
<1>2. /\ S1(<<>>) = <<>> /\ S2(<<>>) = <<>> /\ S3(<<>>) = <<>>
      /\ \A v \in Seq(Letters) : S1(v) \in Seq(Letters)
      /\ \A v \in Seq(Letters) : S2(v) \in Seq(Letters)
      /\ \A v \in Seq(Letters) : S3(v) \in Seq(Letters)
  BY <1>1, SubstituteOn
<1>3. \A v \in Seq(Letters), x \in Letters :
         /\ S1(Append(v, x)) = IF x = Backslash THEN Append(Append(S1(v), Backslash), Backslash)
                               ELSE Append(S1(v), x)
         /\ S2(Append(v, x)) = IF x = Quote THEN Append(Append(S2(v), Backslash), Quote)
                               ELSE Append(S2(v), x)
         /\ S3(Append(v, x)) = IF x = Apostrophe THEN Append(Append(S3(v), Backslash), Apostrophe)
                               ELSE Append(S3(v), x)
  BY <1>1, SubstituteOne
<1>4. \A v : Escaped(v) = S3(S2(S1(v)))
  BY DEF Escaped
<1>5. \A v \in Seq(Letters), x \in Letters : Append(v, x) \in Seq(Letters)
  OBVIOUS
<1> HIDE DEF S1, S2, S3
<1>6. ASSUME NEW v \in Seq(Letters), NEW c \in Letters
      PROVE  Escaped(Append(v, c)) = Escaped(v) \o EscapeOf(c)
  <2> DEFINE a == S1(v)
             b == S2(a)
             d == S3(b)
  <2>1. a \in Seq(Letters) /\ b \in Seq(Letters) /\ d \in Seq(Letters) /\ Escaped(v) = d
    BY <1>2, <1>4
  <2>2. Escaped(Append(v, c)) = S3(S2(S1(Append(v, c))))
    BY <1>4
  <2>3. S1(Append(v, c)) = IF c = Backslash THEN Append(Append(a, Backslash), Backslash)
                           ELSE Append(a, c)
    BY <1>3
  <2>4. \A x \in Letters : S2(Append(a, x)) = IF x = Quote THEN Append(Append(b, Backslash), Quote)
                                             ELSE Append(b, x)
    BY <1>3, <2>1
  <2>5. \A x \in Letters :
          S3(Append(b, x)) = IF x = Apostrophe THEN Append(Append(d, Backslash), Apostrophe)
                             ELSE Append(d, x)
    BY <1>3, <2>1
  <2>6. Append(a, Backslash) \in Seq(Letters) /\ Append(b, Backslash) \in Seq(Letters)
    BY <1>1, <1>5, <2>1
  <2> HIDE DEF a, b, d
  <2>7. CASE c = Backslash
    <3>1. S1(Append(v, c)) = Append(Append(a, Backslash), Backslash)
      BY <2>3, <2>7
    <3>2. S2(Append(a, Backslash)) = Append(b, Backslash)
      BY <1>1, <2>4, LettersDiffer
    <3>3. S2(Append(Append(a, Backslash), Backslash)) = Append(Append(b, Backslash), Backslash)
      BY <1>1, <1>3, <2>6, <3>2, LettersDiffer
    <3>4. S3(Append(b, Backslash)) = Append(d, Backslash)
      BY <1>1, <2>5, LettersDiffer
    <3>5. S3(Append(Append(b, Backslash), Backslash)) = Append(Append(d, Backslash), Backslash)
      BY <1>1, <1>3, <2>6, <3>4, LettersDiffer
    <3>6. EscapeOf(c) = <<Backslash, Backslash>>
      BY <2>7 DEF EscapeOf
    <3>7. d \o <<Backslash, Backslash>> = Append(Append(d, Backslash), Backslash)
      BY <1>1, <2>1, PairAppends
    <3> QED BY <2>1, <2>2, <3>1, <3>3, <3>5, <3>6, <3>7
  <2>8. CASE c = Quote
    <3>1. S1(Append(v, c)) = Append(a, Quote)
      BY <2>3, <2>8, LettersDiffer
    <3>2. S2(Append(a, Quote)) = Append(Append(b, Backslash), Quote)
      BY <1>1, <2>4
    <3>3. S3(Append(b, Backslash)) = Append(d, Backslash)
      BY <1>1, <2>5, LettersDiffer
    <3>4. S3(Append(Append(b, Backslash), Quote)) = Append(Append(d, Backslash), Quote)
      BY <1>1, <1>3, <2>6, <3>3, LettersDiffer
    <3>5. EscapeOf(c) = <<Backslash, Quote>>
      BY <2>8 DEF EscapeOf
    <3>6. d \o <<Backslash, Quote>> = Append(Append(d, Backslash), Quote)
      BY <1>1, <2>1, PairAppends
    <3> QED BY <2>1, <2>2, <3>1, <3>2, <3>4, <3>5, <3>6
  <2>9. CASE c = Apostrophe
    <3>1. S1(Append(v, c)) = Append(a, Apostrophe)
      BY <2>3, <2>9, LettersDiffer
    <3>2. S2(Append(a, Apostrophe)) = Append(b, Apostrophe)
      BY <1>1, <2>4, LettersDiffer
    <3>3. S3(Append(b, Apostrophe)) = Append(Append(d, Backslash), Apostrophe)
      BY <1>1, <2>5
    <3>4. EscapeOf(c) = <<Backslash, Apostrophe>>
      BY <2>9 DEF EscapeOf
    <3>5. d \o <<Backslash, Apostrophe>> = Append(Append(d, Backslash), Apostrophe)
      BY <1>1, <2>1, PairAppends
    <3> QED BY <2>1, <2>2, <3>1, <3>2, <3>3, <3>4, <3>5
  <2>10. CASE c \notin {Backslash, Quote, Apostrophe}
    <3>1. S1(Append(v, c)) = Append(a, c)
      BY <2>3, <2>10
    <3>2. S2(Append(a, c)) = Append(b, c)
      BY <2>4, <2>10
    <3>3. S3(Append(b, c)) = Append(d, c)
      BY <2>5, <2>10
    <3>4. EscapeOf(c) = <<c>>
      BY <2>10 DEF EscapeOf
    <3> QED BY <2>1, <2>2, <3>1, <3>2, <3>3, <3>4, PairAppends
  <2> QED BY <2>7, <2>8, <2>9, <2>10
<1>7. Escaped(<<>>) = <<>>
  BY <1>2, <1>4
<1>8. ASSUME NEW v \in Seq(Letters) PROVE Escaped(v) \in Seq(Letters)
  BY <1>2, <1>4
<1> QED BY <1>6, <1>7, <1>8

(* A quoted token: the scanner is in quotes, with what it has read of the   *)
(* value, until the closing quote.                                          *)
LEMMA IntoIs ==
  ASSUME NEW s \in Scanners, NEW m \in ScanModes, NEW b \in Seq(Letters)
  PROVE  Into(s, m, b) = [mode |-> m, buf |-> b, toks |-> s.toks]
<1>1. s.toks \in Seq(TokenSet)
  BY DEF Scanners
<1>2. [mode |-> m, buf |-> b, toks |-> s.toks] \in Scanners
  BY <1>1 DEF Scanners
<1>3. Into(s, m, b).mode = m /\ Into(s, m, b).buf = b /\ Into(s, m, b).toks = s.toks
  BY DEF Into, Scanners
<1>4. Into(s, m, b) \in Scanners
  BY <1>1 DEF Into, Scanners
<1>5. \A t \in Scanners : t = [mode |-> t.mode, buf |-> t.buf, toks |-> t.toks]
  BY DEF Scanners
<1>6. Into(s, m, b) = [mode |-> Into(s, m, b).mode, buf |-> Into(s, m, b).buf, toks |-> Into(s, m, b).toks]
  BY <1>4, <1>5
<1> QED BY <1>3, <1>6

(* The fields of split_line's state.                                        *)
LEMMA ScannerFields ==
  ASSUME NEW s \in Scanners
  PROVE  s.mode \in ScanModes /\ s.buf \in Seq(Letters) /\ s.toks \in Seq(TokenSet)
BY DEF Scanners

(* In quotes, what a character is escaped as is scanned as itself.          *)
LEMMA EscapeIsScanned ==
  ASSUME NEW s \in Scanners, s.mode = "quoted", NEW c \in Letters
  PROVE  LET t == [mode |-> "quoted", buf |-> Append(s.buf, c), toks |-> s.toks]
         IN  IF c \in {Backslash, Quote, Apostrophe} THEN Scan(Scan(s, Backslash), c) = t
             ELSE Scan(s, c) = t
<1> DEFINE t == [mode |-> "quoted", buf |-> Append(s.buf, c), toks |-> s.toks]
           e == Into(s, "escape", s.buf)
<1>1. Scan(s, Backslash) = e
  BY LettersDiffer DEF Scan
<1>2. s.buf \in Seq(Letters) /\ Append(s.buf, c) \in Seq(Letters)
      /\ "quoted" \in ScanModes /\ "escape" \in ScanModes
  <2>1. s.buf \in Seq(Letters)
    BY ScannerFields
  <2> QED BY <2>1 DEF ScanModes
<1>3. Into(s, "quoted", Append(s.buf, c)) = t
  BY <1>2, IntoIs
<1>4. e = [mode |-> "escape", buf |-> s.buf, toks |-> s.toks]
  BY <1>2, IntoIs
<1>5. e.mode = "escape" /\ e.buf = s.buf /\ e.toks = s.toks
  BY <1>4
<1>6. e \in Scanners
  BY <1>2, <1>4, ScannerFields DEF Scanners
<1> HIDE DEF e
<1>7. Scan(e, c) = Into(e, "quoted", Append(e.buf, c))
  BY <1>5 DEF Scan
<1>8. Into(e, "quoted", Append(e.buf, c)) = t
  BY <1>2, <1>5, <1>6, IntoIs
<1>9. c \notin {Backslash, Quote} => Scan(s, c) = Into(s, "quoted", Append(s.buf, c))
  BY DEF Scan
<1> QED BY <1>1, <1>3, <1>7, <1>8, <1>9

(* Scanning one or two characters more.                                     *)
LEMMA ScanTwo ==
  ASSUME NEW cs \in Seq(Letters), NEW a \in Letters, NEW b \in Letters
  PROVE  /\ Scanned(cs \o <<a>>) = Scan(Scanned(cs), a)
         /\ Scanned(cs \o <<a, b>>) = Scan(Scan(Scanned(cs), a), b)
BY PairAppends, ScanOn

(* Concatenation is associative.                                            *)
LEMMA ConcatTwice ==
  ASSUME NEW s \in Seq(Letters), NEW t \in Seq(Letters), NEW u \in Seq(Letters)
  PROVE  (s \o t) \o u = s \o (t \o u) /\ s \o t \in Seq(Letters)
<1>1. s \o t \in Seq(Letters) /\ t \o u \in Seq(Letters)
  OBVIOUS
<1>2. (s \o t) \o u \in Seq(Letters) /\ s \o (t \o u) \in Seq(Letters)
  BY <1>1
<1>3. Len((s \o t) \o u) = Len(s \o (t \o u))
  BY <1>1
<1>4. ASSUME NEW k \in 1 .. Len((s \o t) \o u)
      PROVE  ((s \o t) \o u)[k] = (s \o (t \o u))[k]
  BY <1>1
<1> QED BY <1>1, <1>2, <1>3, <1>4

(* A longer front of a sequence is a shorter one and an item.               *)
LEMMA PrefixAppends ==
  ASSUME NEW S, NEW v \in Seq(S), NEW k \in 0 .. Len(v), k # Len(v)
  PROVE  /\ SubSeq(v, 1, k) \in Seq(S) /\ v[k + 1] \in S
         /\ SubSeq(v, 1, k + 1) = Append(SubSeq(v, 1, k), v[k + 1])
<1>1. k + 1 \in 1 .. Len(v) /\ k \in Nat
  OBVIOUS
<1>2. SubSeq(v, 1, k) \in Seq(S) /\ SubSeq(v, 1, k + 1) \in Seq(S) /\ v[k + 1] \in S
  BY <1>1
<1>3. Len(SubSeq(v, 1, k)) = k /\ Len(SubSeq(v, 1, k + 1)) = k + 1
  BY <1>1
<1>4. ASSUME NEW i \in 1 .. k + 1
      PROVE  SubSeq(v, 1, k + 1)[i] = Append(SubSeq(v, 1, k), v[k + 1])[i]
  BY <1>1, <1>2, <1>3
<1> QED BY <1>2, <1>3, <1>4

(* So a quoted token is read back with its value.                           *)
LEMMA QuotedIsScanned ==
  ASSUME NEW pre \in Seq(Letters), Scanned(pre).mode = "between", NEW v \in Seq(Letters)
  PROVE  LET cs == <<Quote>> \o Escaped(v) \o <<Quote>>
             s == Scanned(pre \o cs)
         IN  /\ pre \o cs \in Seq(Letters)
             /\ s.mode = "between"
             /\ s.toks = Append(Scanned(pre).toks, [value |-> v, quoted |-> TRUE])
<1> DEFINE n == Len(v)
           open == pre \o <<Quote>>
           toks == Scanned(pre).toks
           In(k) == [mode |-> "quoted", buf |-> SubSeq(v, 1, k), toks |-> toks]
           K == {k \in 0 .. n : Scanned(open \o Escaped(SubSeq(v, 1, k))) = In(k)}
<1>1. n \in Nat /\ Quote \in Letters /\ Backslash \in Letters /\ <<Quote>> \in Seq(Letters)
      /\ Scanned(pre) \in Scanners
  BY ScanOn DEF Letters
<1>2. open \in Seq(Letters)
  BY <1>1, PairAppends
<1>3. Scanned(open) = [mode |-> "quoted", buf |-> <<>>, toks |-> toks]
  <2>1. Scanned(open) = Scan(Scanned(pre), Quote)
    BY <1>1, ScanTwo
  <2>2. Scan(Scanned(pre), Quote) = Into(Scanned(pre), "quoted", <<>>)
    BY LettersDiffer DEF Scan
  <2> QED BY <1>1, <2>1, <2>2 DEF Into, Scanners
<1> HIDE DEF open, toks
<1>4. 0 \in K
  <2>1. SubSeq(v, 1, 0) = <<>>
    OBVIOUS
  <2>2. open \o <<>> = open
    BY <1>2
  <2>3. open \o Escaped(SubSeq(v, 1, 0)) = open
    BY <2>1, <2>2, EscapedOn
  <2>4. In(0) = [mode |-> "quoted", buf |-> <<>>, toks |-> toks] /\ 0 \in 0 .. n
    BY <1>1, <2>1
  <2>5. Scanned(open \o Escaped(SubSeq(v, 1, 0))) = In(0)
    BY <1>3, <2>3, <2>4
  <2> QED BY <2>4, <2>5
<1>5. ASSUME NEW k \in 0 .. n, k \in K, k # n PROVE k + 1 \in K
  <2> DEFINE w == SubSeq(v, 1, k)
             c == v[k + 1]
  <2>1. w \in Seq(Letters) /\ c \in Letters /\ SubSeq(v, 1, k + 1) = Append(w, c)
    BY <1>5, PrefixAppends
  <2>2. k + 1 \in 0 .. n
    BY <1>1, <1>5
  <2>3. Scanned(open \o Escaped(w)) = [mode |-> "quoted", buf |-> w, toks |-> toks]
    BY <1>5
  <2> HIDE DEF w, c
  <2> DEFINE m == open \o Escaped(w)
  <2>4. Escaped(w) \in Seq(Letters) /\ EscapeOf(c) \in Seq(Letters)
        /\ Escaped(Append(w, c)) = Escaped(w) \o EscapeOf(c)
    BY <1>1, <2>1, EscapedOn DEF EscapeOf
  <2>5. open \o Escaped(Append(w, c)) = m \o EscapeOf(c) /\ m \in Seq(Letters)
    <3>1. (open \o Escaped(w)) \o EscapeOf(c) = open \o (Escaped(w) \o EscapeOf(c))
          /\ open \o Escaped(w) \in Seq(Letters)
      <4> HIDE DEF m
      <4> QED BY <1>2, <2>4, ConcatTwice
    <3> QED BY <2>4, <3>1
  <2> DEFINE s == Scanned(m)
  <2>6. s \in Scanners /\ s.mode = "quoted" /\ s.buf = w /\ s.toks = toks
    <3>1. s \in Scanners
      BY <2>5, ScanOn
    <3>2. s = [mode |-> "quoted", buf |-> w, toks |-> toks]
      BY <2>3
    <3> QED BY <3>1, <3>2
  <2> HIDE DEF m
  <2>7. Scanned(m \o EscapeOf(c)) = [mode |-> "quoted", buf |-> Append(s.buf, c), toks |-> s.toks]
    <3>1. CASE c \in {Backslash, Quote, Apostrophe}
      <4>1. EscapeOf(c) = <<Backslash, c>>
        BY <3>1 DEF EscapeOf
      <4>2. Scanned(m \o <<Backslash, c>>) = Scan(Scan(s, Backslash), c)
        BY <1>1, <2>1, <2>5, ScanTwo
      <4> HIDE DEF s
      <4>3. Scan(Scan(s, Backslash), c)
              = [mode |-> "quoted", buf |-> Append(s.buf, c), toks |-> s.toks]
        BY <2>1, <2>6, <3>1, EscapeIsScanned
      <4> QED BY <4>1, <4>2, <4>3
    <3>2. CASE c \notin {Backslash, Quote, Apostrophe}
      BY <2>1, <2>5, <2>6, <3>2, ScanTwo, EscapeIsScanned DEF EscapeOf
    <3> QED BY <3>1, <3>2
  <2> QED BY <2>1, <2>2, <2>5, <2>6, <2>7
<1>6. n \in K
  <2> HIDE DEF K, n
  <2>1. 0 .. n \subseteq K
    BY <1>1, <1>4, <1>5, IntervalInduction
  <2> QED BY <1>1, <2>1
<1>7. Scanned(open \o Escaped(v)) = [mode |-> "quoted", buf |-> v, toks |-> toks]
  <2>1. SubSeq(v, 1, n) = v
    OBVIOUS
  <2> QED BY <1>6, <2>1
<1> DEFINE cs == <<Quote>> \o Escaped(v) \o <<Quote>>
           m == open \o Escaped(v)
<1>8. Escaped(v) \in Seq(Letters)
  BY EscapedOn
<1>9. pre \o cs = m \o <<Quote>> /\ m \in Seq(Letters) /\ m \o <<Quote>> \in Seq(Letters)
  <2> DEFINE q == <<Quote>>
             e == Escaped(v)
  <2> HIDE DEF q, e
  <2>1. q \in Seq(Letters) /\ e \in Seq(Letters) /\ pre \in Seq(Letters)
    BY <1>1, <1>8 DEF q, e
  <2>2. q \o e \in Seq(Letters) /\ pre \o q \in Seq(Letters)
    BY <2>1
  <2>3. pre \o ((q \o e) \o q) = (pre \o (q \o e)) \o q
    <3> DEFINE f == q \o e
    <3>1. f \in Seq(Letters)
      BY <2>2
    <3> HIDE DEF f
    <3>2. pre \o (f \o q) = (pre \o f) \o q
      BY <2>1, <3>1, ConcatTwice, SMTT(30)
    <3> QED BY <3>2 DEF f
  <2>4. (pre \o q) \o e = pre \o (q \o e) /\ (pre \o q) \o e \in Seq(Letters)
    BY <2>1, <2>2, ConcatTwice, SMTT(30)
  <2>5. ((pre \o q) \o e) \o q \in Seq(Letters)
    BY <2>1, <2>4
  <2> QED BY <2>3, <2>4, <2>5 DEF q, e, open
<1> DEFINE t == Scanned(m)
<1>10. t.mode = "quoted" /\ t.buf = v /\ t.toks = toks
  BY <1>7
<1>11. Scanned(m \o <<Quote>>) = Scan(t, Quote)
  BY <1>1, <1>9, ScanTwo
<1> HIDE DEF m, t
<1>12. Scan(t, Quote) = Push(t, TRUE)
  BY <1>10, LettersDiffer DEF Scan
<1>13. Push(t, TRUE).mode = "between" /\ Push(t, TRUE).toks = Append(toks, [value |-> v, quoted |-> TRUE])
  BY <1>10 DEF Push
<1> QED BY <1>9, <1>11, <1>12, <1>13 DEF toks

(* A bare token: the scanner has read so much of it.                        *)
LEMMA BareIsScanned ==
  ASSUME NEW pre \in Seq(Letters), Scanned(pre).mode = "between",
         NEW v \in Seq(Letters), v # <<>>, \A i \in DOMAIN v : Safe(v[i])
  PROVE  /\ pre \o v \in Seq(Letters)
         /\ Scanned(pre \o v) = [mode |-> "bare", buf |-> v, toks |-> Scanned(pre).toks]
<1> DEFINE n == Len(v)
           toks == Scanned(pre).toks
           In(k) == [mode |-> "bare", buf |-> SubSeq(v, 1, k), toks |-> toks]
           K == {k \in 0 .. n : k = 0 \/ Scanned(pre \o SubSeq(v, 1, k)) = In(k)}
<1>1. n \in Nat /\ n # 0 /\ Scanned(pre) \in Scanners
  BY ScanOn
<1>2. 0 \in K
  BY <1>1
<1> HIDE DEF toks
<1>3. ASSUME NEW k \in 0 .. n, k \in K, k # n PROVE k + 1 \in K
  <2> DEFINE w == SubSeq(v, 1, k)
             c == v[k + 1]
             s == Scanned(pre \o w)
  <2>1. w \in Seq(Letters) /\ c \in Letters /\ SubSeq(v, 1, k + 1) = Append(w, c)
    BY <1>3, PrefixAppends
  <2>2. k + 1 \in 0 .. n /\ k + 1 \in DOMAIN v
    BY <1>1, <1>3
  <2>3. c \notin {Blank, Quote}
    BY <2>2 DEF Safe
  <2>4. /\ pre \o w \in Seq(Letters)
        /\ pre \o Append(w, c) = Append(pre \o w, c)
    BY <2>1, ConcatAppend
  <2>5. Scanned(pre \o SubSeq(v, 1, k + 1)) = Scan(s, c) /\ s \in Scanners
    BY <2>1, <2>4, ScanOn
  <2>6. Scan(s, c) = In(k + 1)
    <3>1. CASE k = 0
      <4>1. w = <<>>
        BY <3>1
      <4>2. s = Scanned(pre) /\ Append(w, c) = <<c>> /\ <<c>> \in Seq(Letters)
        <5>1. pre \o <<>> = pre
          OBVIOUS
        <5>2. s = Scanned(pre)
          BY <4>1, <5>1
        <5>3. \A x : Append(<<>>, x) = <<x>>
          OBVIOUS
        <5>4. <<c>> \in Seq(Letters)
          BY <2>1
        <5> HIDE DEF s, w, c
        <5> QED BY <4>1, <5>2, <5>3, <5>4
      <4> HIDE DEF s, w, c
      <4>3. Scan(s, c) = Into(s, "bare", <<c>>)
        BY <2>3, <4>2 DEF Scan
      <4>4. Into(s, "bare", <<c>>) = [mode |-> "bare", buf |-> <<c>>, toks |-> s.toks]
        BY <2>5, <4>2, IntoIs DEF ScanModes
      <4> QED BY <2>1, <4>2, <4>3, <4>4 DEF toks
    <3>2. CASE k # 0
      <4>1. s = [mode |-> "bare", buf |-> w, toks |-> toks]
        BY <1>3, <3>2
      <4>2. s.mode = "bare" /\ s.buf = w /\ s.toks = toks
        BY <4>1
      <4>3. Append(w, c) \in Seq(Letters)
        BY <2>1
      <4> HIDE DEF s, w, c
      <4>4. Scan(s, c) = Into(s, "bare", Append(w, c))
        BY <2>3, <4>2 DEF Scan
      <4>5. Into(s, "bare", Append(w, c)) = [mode |-> "bare", buf |-> Append(w, c), toks |-> toks]
        BY <2>5, <4>2, <4>3, IntoIs DEF ScanModes
      <4> QED BY <2>1, <4>4, <4>5
    <3> QED BY <3>1, <3>2
  <2> HIDE DEF s, w, c
  <2> QED BY <2>2, <2>5, <2>6
<1>4. n \in K
  <2> HIDE DEF K, n
  <2>1. 0 .. n \subseteq K
    BY <1>1, <1>2, <1>3, IntervalInduction
  <2> QED BY <1>1, <2>1
<1>5. SubSeq(v, 1, n) = v
  OBVIOUS
<1>6. pre \o v \in Seq(Letters)
  OBVIOUS
<1> QED BY <1>1, <1>4, <1>5, <1>6 DEF toks

(* A token that is written after a blank is read back: the scanner ends in  *)
(* no quote, one token further.                                             *)
LEMMA TokenIsWritten ==
  ASSUME NEW t \in TokenSet
  PROVE  FormatToken(t) \in Seq(Letters)
<1>1. t.value \in Seq(Letters)
  BY DEF TokenSet
<1>2. Escaped(t.value) \in Seq(Letters)
  BY <1>1, EscapedOn
<1>3. <<Quote>> \in Seq(Letters)
  BY DEF Letters
<1>4. <<Quote>> \o Escaped(t.value) \o <<Quote>> \in Seq(Letters)
  BY <1>2, <1>3, ConcatTwice
<1> QED BY <1>1, <1>4 DEF FormatToken, Escaped

(* A token is read back with its value, bare or quoted.                     *)
LEMMA TokenIsScanned ==
  ASSUME NEW pre \in Seq(Letters), Scanned(pre).mode = "between", NEW t \in TokenSet
  PROVE  LET s == Scanned(pre \o FormatToken(t))
         IN  /\ Balanced(s)
             /\ \E q \in BOOLEAN :
                  Tokens(s) = Append(Scanned(pre).toks, [value |-> t.value, quoted |-> q])
<1> DEFINE v == t.value
           bare == ~t.quoted /\ v # <<>> /\ \A i \in DOMAIN v : Safe(v[i])
<1>1. v \in Seq(Letters)
  BY DEF TokenSet
<1>2. CASE bare
  <2>1. FormatToken(t) = v
    BY <1>2 DEF FormatToken
  <2>2. Scanned(pre \o v) = [mode |-> "bare", buf |-> v, toks |-> Scanned(pre).toks]
    BY <1>1, <1>2, BareIsScanned
  <2> DEFINE s == Scanned(pre \o v)
  <2>3. s.mode = "bare" /\ s.buf = v /\ s.toks = Scanned(pre).toks
    BY <2>2
  <2> HIDE DEF s
  <2>4. Tokens(s) = Append(Scanned(pre).toks, [value |-> v, quoted |-> FALSE])
    BY <2>3 DEF Tokens, Push
  <2>5. Balanced(s)
    BY <2>3 DEF Balanced
  <2> QED BY <2>1, <2>4, <2>5 DEF s
<1>3. CASE ~bare
  <2> DEFINE cs == <<Quote>> \o Escaped(v) \o <<Quote>>
  <2>1. FormatToken(t) = cs
    BY <1>3 DEF FormatToken, Escaped
  <2>2. /\ Scanned(pre \o cs).mode = "between"
        /\ Scanned(pre \o cs).toks = Append(Scanned(pre).toks, [value |-> v, quoted |-> TRUE])
    BY <1>1, QuotedIsScanned
  <2> HIDE DEF cs
  <2> QED BY <2>1, <2>2 DEF Balanced, Tokens
<1> QED BY <1>2, <1>3

(* A blank ends a bare token and changes nothing between tokens.            *)
LEMMA BlankIsScanned ==
  ASSUME NEW s \in Scanners, Balanced(s)
  PROVE  Scan(s, Blank).mode = "between" /\ Scan(s, Blank).toks = Tokens(s)
<1>1. CASE s.mode = "between"
  <2>1. Scan(s, Blank) = s
    BY <1>1, LettersDiffer DEF Scan
  <2> QED BY <1>1, <2>1 DEF Tokens
<1>2. CASE s.mode = "bare"
  BY <1>2 DEF Scan, Tokens, Push
<1> QED BY <1>1, <1>2 DEF Balanced

(* The tokens of a scanner are tokens.                                      *)
LEMMA TokensAreTokens ==
  ASSUME NEW s \in Scanners
  PROVE  Tokens(s) \in Seq(TokenSet)
BY PushIsScanner, ScannerFields DEF Tokens

(* A line is written token by token, a blank before each.                   *)
WithToken(cs, t) == cs \o <<Blank>> \o FormatToken(t)
FormatStep == [s \in Seq(Letters) \X TokenSet |-> WithToken(s[1], s[2])]

(* Writing a token more is a step of a loop.                                *)
LEMMA FormatStepIsStep == IsStep(FormatStep, Seq(Letters), TokenSet)
<1>1. ASSUME NEW cs \in Seq(Letters), NEW t \in TokenSet
      PROVE  WithToken(cs, t) \in Seq(Letters)
  <2>1. FormatToken(t) \in Seq(Letters) /\ <<Blank>> \in Seq(Letters)
    BY TokenIsWritten DEF Letters
  <2> QED BY <2>1, ConcatTwice DEF WithToken
<1> QED BY <1>1 DEF FormatStep, IsStep

(* FormatUpTo is that loop.                                                 *)
LEMMA FormattingIsALoop ==
  ASSUME NEW ts \in Seq(TokenSet)
  PROVE  IsLoop(FormatUpTo(ts), Seq(Letters), TokenSet, <<>>, FormatStep, ts)
<1> DEFINE n == Len(ts)
           Rec(f) == f = [k \in 0 .. n |-> IF k = 0 THEN <<>> ELSE WithToken(f[k - 1], ts[k])]
<1>1. n \in Nat
  OBVIOUS
<1>2. PICK f \in [0 .. n -> Seq(Letters)] : IsLoopTo(f, <<>>, FormatStep, ts, n)
  <2>1. <<>> \in Seq(Letters)
    OBVIOUS
  <2> QED BY <2>1, FormatStepIsStep, LoopExists
<1>3. \A k \in 1 .. n : k - 1 \in 0 .. n /\ ts[k] \in TokenSet
  BY <1>1
<1>4. Rec(f)
  <2>1. ASSUME NEW k \in 0 .. n
        PROVE  f[k] = IF k = 0 THEN <<>> ELSE WithToken(f[k - 1], ts[k])
    <3>1. CASE k = 0
      BY <1>2, <3>1 DEF IsLoopTo
    <3>2. CASE k # 0
      <4>1. k \in 1 .. n
        BY <1>1, <3>2
      <4>2. f[k - 1] \in Seq(Letters) /\ ts[k] \in TokenSet
        BY <1>3, <4>1
      <4>3. f[k] = FormatStep[<<f[k - 1], ts[k]>>]
        BY <1>2, <4>1 DEF IsLoopTo
      <4> QED BY <3>2, <4>2, <4>3 DEF FormatStep
    <3> QED BY <3>1, <3>2
  <2>2. f = [k \in 0 .. n |-> f[k]]
    BY <1>2
  <2> QED BY <2>1, <2>2
<1>5. FormatUpTo(ts) = CHOOSE g : Rec(g)
  BY DEF FormatUpTo, WithToken
<1> DEFINE u == FormatUpTo(ts)
<1>6. Rec(u)
  <2> HIDE DEF Rec
  <2> QED BY <1>4, <1>5
<1> HIDE DEF u
<1>7. ASSUME NEW k \in 1 .. n PROVE u[k] = WithToken(u[k - 1], ts[k])
  <2>1. k \in 0 .. n /\ k # 0
    BY <1>1
  <2>2. \A j \in 0 .. n : u[j] = IF j = 0 THEN <<>> ELSE WithToken(u[j - 1], ts[j])
    BY <1>6
  <2> HIDE DEF Rec
  <2> QED BY <2>1, <2>2
<1>8. u[0] = <<>>
  BY <1>1, <1>6
<1>9. u = [k \in 0 .. n |-> u[k]]
  BY <1>6
<1> HIDE DEF Rec
<1>10. IsLoop(u, Seq(Letters), TokenSet, <<>>, FormatStep, ts)
  BY <1>3, <1>7, <1>8, <1>9 DEF IsLoop, FormatStep
<1> QED BY <1>10 DEF u

(* So a line of one token more ends with it.                                *)
LEMMA FormatOn ==
  /\ FormatLine(<<>>) = <<>>
  /\ \A ts \in Seq(TokenSet) :
       /\ FormatLine(ts) \in Seq(Letters)
       /\ \A t \in TokenSet : FormatLine(Append(ts, t)) = WithToken(FormatLine(ts), t)
<1> DEFINE S == Seq(Letters)
<1>1. <<>> \in S /\ IsStep(FormatStep, S, TokenSet)
  BY FormatStepIsStep
<1>2. ASSUME NEW ts \in Seq(TokenSet)
      PROVE  FormatLine(ts) = Looped(S, TokenSet, <<>>, FormatStep, ts)
  <2>1. IsLoop(FormatUpTo(ts), S, TokenSet, <<>>, FormatStep, ts)
    BY FormattingIsALoop
  <2> HIDE DEF S
  <2> QED BY <1>1, <2>1, LoopReturns DEF FormatLine
<1>3. FormatLine(<<>>) = <<>>
  <2>1. <<>> \in Seq(TokenSet)
    OBVIOUS
  <2> HIDE DEF S
  <2>2. Looped(S, TokenSet, <<>>, FormatStep, <<>>) = <<>>
    BY <1>1, LoopStarts
  <2> QED BY <1>2, <2>1, <2>2
<1>4. ASSUME NEW ts \in Seq(TokenSet) PROVE FormatLine(ts) \in Seq(Letters)
  <2>1. Looped(S, TokenSet, <<>>, FormatStep, ts) \in S
    BY <1>1, LoopEnds
  <2> QED BY <1>2, <2>1
<1>5. ASSUME NEW ts \in Seq(TokenSet), NEW t \in TokenSet
      PROVE  FormatLine(Append(ts, t)) = WithToken(FormatLine(ts), t)
  <2>1. Append(ts, t) \in Seq(TokenSet)
    OBVIOUS
  <2>2. Looped(S, TokenSet, <<>>, FormatStep, Append(ts, t))
          = Stepped(FormatStep, Looped(S, TokenSet, <<>>, FormatStep, ts), t)
    <3>1. ASSUME NEW SS, NEW b \in SS, IsStep(FormatStep, SS, TokenSet)
          PROVE  Looped(SS, TokenSet, b, FormatStep, Append(ts, t))
                   = Stepped(FormatStep, Looped(SS, TokenSet, b, FormatStep, ts), t)
      BY <3>1, LoopAppend
    <3> QED BY <1>1, <3>1
  <2>3. FormatLine(Append(ts, t)) = Stepped(FormatStep, FormatLine(ts), t)
    BY <1>2, <2>1, <2>2
  <2> QED BY <1>4, <2>3 DEF FormatStep, Stepped
<1> QED BY <1>3, <1>4, <1>5

(* What is written of so many tokens is read back as so many, each with its *)
(* value.                                                                   *)
SameValues(us, ts) ==
  Len(us) = Len(ts) /\ \A i \in 1 .. Len(ts) : us[i].value = ts[i].value

(* One token more on either side, of the same value.                        *)
LEMMA OneMoreValue ==
  ASSUME NEW us \in Seq(TokenSet), NEW ts \in Seq(TokenSet), SameValues(us, ts),
         NEW u \in TokenSet, NEW t \in TokenSet, u.value = t.value
  PROVE  SameValues(Append(us, u), Append(ts, t))
<1> DEFINE n == Len(ts)
           vs == Append(us, u)
           ws == Append(ts, t)
<1>1. n \in Nat /\ Len(us) = n /\ Len(vs) = n + 1 /\ Len(ws) = n + 1
  BY DEF SameValues
<1>2. ASSUME NEW i \in 1 .. n + 1 PROVE vs[i].value = ws[i].value
  <2>1. CASE i \in 1 .. n
    <3>1. vs[i] = us[i] /\ ws[i] = ts[i]
      BY <1>1, <2>1
    <3> HIDE DEF vs, ws
    <3> QED BY <2>1, <3>1 DEF SameValues
  <2>2. CASE i = n + 1
    <3>1. vs[i] = u /\ ws[i] = t
      BY <1>1, <2>2
    <3> HIDE DEF vs, ws
    <3> QED BY <3>1
  <2> QED BY <1>1, <2>1, <2>2
<1> HIDE DEF vs, ws
<1>3. SameValues(vs, ws)
  BY <1>1, <1>2 DEF SameValues
<1> QED BY <1>3 DEF vs, ws

SurvivesWriting(ts) ==
  /\ Balanced(Scanned(FormatLine(ts)))
  /\ SameValues(Tokens(Scanned(FormatLine(ts))), ts)

(* A token written behind others is read back behind them.                  *)
LEMMA OneMoreSurvives ==
  ASSUME NEW ts \in Seq(TokenSet), SurvivesWriting(ts), NEW t \in TokenSet
  PROVE  SurvivesWriting(Append(ts, t))
<1> DEFINE f == FormatLine(ts)
           pre == f \o <<Blank>>
           s == Scanned(f)
<1>1. Blank \in Letters /\ f \in Seq(Letters)
  BY FormatOn DEF Letters
<1> HIDE DEF f
<1>2. pre \in Seq(Letters) /\ Scanned(pre) = Scan(s, Blank) /\ s \in Scanners
  BY <1>1, PairAppends, ScanTwo, ScanOn
<1> HIDE DEF pre
<1>3. Balanced(s) /\ SameValues(Tokens(s), ts)
  BY DEF SurvivesWriting, f
<1> HIDE DEF s
<1>4. Scanned(pre).mode = "between" /\ Scanned(pre).toks = Tokens(s)
  BY <1>2, <1>3, BlankIsScanned
<1> DEFINE z == Scanned(pre \o FormatToken(t))
<1>5. /\ Balanced(z)
      /\ \E q \in BOOLEAN : Tokens(z) = Append(Tokens(s), [value |-> t.value, quoted |-> q])
  BY <1>2, <1>4, TokenIsScanned
<1>6. FormatLine(Append(ts, t)) = pre \o FormatToken(t)
  BY FormatOn DEF WithToken, pre, f
<1> HIDE DEF z
<1>7. SameValues(Tokens(z), Append(ts, t))
  <2>1. PICK q \in BOOLEAN : Tokens(z) = Append(Tokens(s), [value |-> t.value, quoted |-> q])
    BY <1>5
  <2> DEFINE u == [value |-> t.value, quoted |-> q]
  <2>2. u \in TokenSet /\ u.value = t.value
    BY DEF TokenSet
  <2>3. Tokens(s) \in Seq(TokenSet)
    BY <1>2, TokensAreTokens
  <2> HIDE DEF u
  <2>4. SameValues(Append(Tokens(s), u), Append(ts, t))
    BY <1>3, <2>2, <2>3, OneMoreValue
  <2> QED BY <2>1, <2>4 DEF u
<1> QED BY <1>5, <1>6, <1>7 DEF SurvivesWriting, z

(* So all the tokens of a line are.                                         *)
LEMMA AllSurviveWriting ==
  ASSUME NEW ts \in Seq(TokenSet)
  PROVE  SurvivesWriting(ts)
<1> DEFINE n == Len(ts)
           K == {k \in 0 .. n : SurvivesWriting(SubSeq(ts, 1, k))}
<1>1. n \in Nat /\ SubSeq(ts, 1, 0) = <<>> /\ SubSeq(ts, 1, n) = ts
  OBVIOUS
<1>2. SurvivesWriting(<<>>)
  <2>1. Scanned(FormatLine(<<>>)) = StartScan
    BY FormatOn, ScanOn
  <2>2. StartScan.mode = "between" /\ StartScan.toks = <<>>
    BY DEF StartScan
  <2>3. Balanced(StartScan) /\ Tokens(StartScan) = <<>>
    BY <2>2 DEF Balanced, Tokens
  <2>4. SameValues(<<>>, <<>>)
    BY DEF SameValues
  <2> QED BY <2>1, <2>3, <2>4 DEF SurvivesWriting
<1>3. 0 \in K
  <2>1. SurvivesWriting(SubSeq(ts, 1, 0))
    BY <1>1, <1>2
  <2>2. 0 \in 0 .. n
    BY <1>1
  <2> QED BY <2>1, <2>2
<1>4. ASSUME NEW k \in 0 .. n, k \in K, k # n PROVE k + 1 \in K
  <2>1. /\ SubSeq(ts, 1, k) \in Seq(TokenSet) /\ ts[k + 1] \in TokenSet
        /\ SubSeq(ts, 1, k + 1) = Append(SubSeq(ts, 1, k), ts[k + 1])
    BY <1>4, PrefixAppends
  <2>2. k + 1 \in 0 .. n
    <3>1. n \in Nat
      OBVIOUS
    <3> HIDE DEF K, n
    <3> QED BY <1>4, <3>1
  <2>3. SurvivesWriting(SubSeq(ts, 1, k))
    BY <1>4
  <2> QED BY <2>1, <2>2, <2>3, OneMoreSurvives
<1>5. n \in K
  <2> HIDE DEF K, n
  <2>1. 0 .. n \subseteq K
    BY <1>1, <1>3, <1>4, IntervalInduction
  <2> QED BY <1>1, <2>1
<1> QED BY <1>1, <1>5

(* The scanner of the specification is one of those.                        *)
LEMMA ScannerHolds == Spec => [](scan \in Scanners)
<1>1. Init => scan \in Scanners
  BY StartIsScanner DEF Init
<1>2. scan \in Scanners /\ [Next]_vars => (scan \in Scanners)'
  BY ScanIsScanner DEF Next, vars, ReadLine, ReadChar, Letters
<1> QED BY <1>1, <1>2, PTL DEF Spec

(* The values of a line survive being written and read again, whatever      *)
(* quotes, backslashes and blanks they hold: format_token escapes what      *)
(* split_line gives a meaning, once, and leaves bare only what is none.     *)
THEOREM TokensSurvive == Spec => []TokensReadBack
<1>1. ASSUME scan \in Scanners PROVE TokensReadBack
  <2> DEFINE ts == Tokens(scan)
  <2>1. ts \in Seq(TokenSet)
    BY <1>1, TokensAreTokens
  <2> HIDE DEF ts
  <2>2. SameValues(SplitLine(FormatLine(ts)), ts)
    BY <2>1, AllSurviveWriting DEF SurvivesWriting, SplitLine, Scanned
  <2>3. SplitLine(FormatLine(ts)) \in Seq(TokenSet)
    <3>1. FormatLine(ts) \in Seq(Letters)
      BY <2>1, FormatOn
    <3> QED BY <3>1, ScanOn, TokensAreTokens DEF SplitLine, Scanned
  <2> QED BY <2>2, <2>3 DEF TokensReadBack, SameValues, ts
<1> QED BY <1>1, ScannerHolds, PTL

-----------------------------------------------------------------------------
(* The end of the file completes the line and closes all the blocks.        *)
LEMMA EofCompletes ==
  ASSUME NEW r \in Readers
  PROVE  Eof(r).pending = <<>> /\ Eof(r).stack = <<>>
<1> DEFINE T == {s \in Readers : s.pending = <<>>}
<1>1. Flush(r) \in T
  <2>1. CASE r.pending = <<>>
    BY <2>1 DEF Flush
  <2>2. CASE r.pending # <<>>
    <3> DEFINE w == [r EXCEPT !.pending = <<>>]
    <3>1. w \in Readers /\ w.pending = <<>>
      <4>1. <<>> \in Seq(Written)
        OBVIOUS
      <4> QED BY <4>1 DEF Readers
    <3>2. r.pending \in Seq(Written)
      BY ReaderFields
    <3> HIDE DEF w
    <3>3. Logical(w, r.pending, FALSE).pending = <<>>
      BY <2>2, <3>1, <3>2, LogicalKeepsPending
    <3>4. Flush(r) = Logical(w, r.pending, FALSE)
      BY <2>2 DEF Flush, w
    <3> QED BY <3>3, <3>4, FlushIsReader
  <2> QED BY <2>1, <2>2
<1>2. ASSUME NEW s \in Readers, s \in T PROVE Unwind(s) \in T
  <2>1. CASE s.stack = <<>>
    BY <1>2, <2>1 DEF Unwind
  <2>2. CASE s.stack # <<>>
    <3>1. Close(s) \in Readers /\ Close(s).pending = s.pending
      BY <2>2, CloseIsReader DEF Close, Pop, Write, Readers
    <3>2. Warn(Close(s)) \in Readers /\ Warn(Close(s)).pending = Close(s).pending
      BY <3>1, WarnIsReader DEF Warn, Readers
    <3> QED BY <1>2, <2>2, <3>1, <3>2 DEF Unwind
  <2> QED BY <2>1, <2>2
<1> HIDE DEF T
<1>3. Eof(r) \in T /\ Eof(r).stack = <<>>
  BY <1>1, <1>2, EofEnds
<1> QED BY <1>3 DEF T

(* Behind any text the open blocks nest, the end of the file closes all of  *)
(* them and completes the line, and the scanner is in one of its modes.     *)
THEOREM ReaderTypes == Spec => []TypeOK
<1>1. ReaderInv /\ scan \in Scanners => TypeOK
  BY EofCompletes DEF ReaderInv, Nested, Tree, TypeOK, Scanners, ScanModes
<1> QED BY <1>1, ReaderInvHolds, ScannerHolds, PTL
=============================================================================
