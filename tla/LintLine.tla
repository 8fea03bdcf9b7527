------------------------------ MODULE LintLine ------------------------------
(***************************************************************************)
(* A line of a C++ file as src/cpplint.py looks at it.  The script         *)
(* recognises what it needs with regular expressions; a line is here the   *)
(* record of what they find:                                               *)
(*   dir     the preprocessor directive, "none" on a line of code          *)
(*   arg     what the directive names: a header, or the macro of a guard   *)
(*   indent  the number of leading spaces                                  *)
(*   toks    the words and punctuation once comments and strings are taken *)
(*           out (clean_lines.elided); a directive starts with "#"           *)
(*   notes   what comments and raw characters show                         *)
(*   nolint  the category the first NOLINT of the line names               *)
(*   uses    the standard headers whose templates the line uses            *)
(***************************************************************************)
EXTENDS Integers, Sequences, SequencesExt, FiniteSets, FiniteSetsExt

EmptyLine == [dir |-> "none", arg |-> "none", indent |-> 0, toks |-> <<>>,
              notes |-> {}, nolint |-> <<>>, uses |-> {}]

\* What the lines of a multi-line comment are replaced by.
DummyLine == [EmptyLine EXCEPT !.notes = {"line"}]

\* IsBlankLine and the blank-line patterns of the checks.
Blank(l) == l = EmptyLine

\* The lines without comments have nothing left.
NoCode(l) == l.toks = <<>>

CountOf(l, t) == Cardinality({i \in DOMAIN l.toks : l.toks[i] = t})
HasToken(l, t) == Contains(l.toks, t)
FirstIs(l, words) == l.toks # <<>> /\ l.toks[1] \in words

\* A call of error(), and the calls of a check that makes one or none.
Error(linenum, category, confidence) ==
  [line |-> linenum, category |-> category, confidence |-> confidence]
When(condition, error) == IF condition THEN <<error>> ELSE <<>>
=============================================================================
