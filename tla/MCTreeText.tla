----------------------------- MODULE MCTreeText -----------------------------
(* Texts of nested sections with stray and missing closers, comments,      *)
(* unknown lines, names and values that span lines; lines of six           *)
(* characters.                                                             *)
EXTENDS TreeText

Quoting(l) == [l EXCEPT !.odd = TRUE]
MCLines ==
  {Line("config", "a"), Line("edit", "1"), Quoting(Line("edit", "2")), Line("next", ""),
   Line("end", ""), Line("set", "x"), Quoting(Line("set", "y")),
   Quoting(Line("comment", "")), Line("raw", "z")}
MCChars == {" ", "\"", "\\", "'", "=", "x"}
=============================================================================
