---------------------------- MODULE BlockChecks -----------------------------
(***************************************************************************)
(* The checks of CheckStyle in src/cpplint.py that depend on the block a   *)
(* line is in.  s is the nesting stack after the line.                     *)
(***************************************************************************)
EXTENDS NestingState

LineBefore(lines, linenum) == IF linenum = 1 THEN DummyLine ELSE lines[linenum - 1]
LineAfter(lines, linenum) == IF linenum = Len(lines) THEN DummyLine ELSE lines[linenum + 1]

\* CheckAccess: DISALLOW macros belong to the private section.
AccessErrors(s, lines, linenum) ==
  When(FirstIs(lines[linenum], {"DISALLOW"}) /\ TopIs(s, Classes) /\ Last(s).access # "private:",
       Error(linenum, <<"readability", "constructors">>, 3))

(***************************************************************************)
(* The blank lines of CheckSpacing.                                        *)
(***************************************************************************)
LeavesOpen(l) == \E i \in DOMAIN l.toks : /\ l.toks[i] = "{"
                                          /\ \A j \in i + 1 .. Len(l.toks) : l.toks[j] \notin {"{", "}"}

IsWord(l, indent) == l.indent = indent /\ FirstIs(l, {"x"})
Initializers(l) == l.indent = 4 /\ FirstIs(l, {":"})

\* The last line of a function header, or an initializer list before the brace.
EndsHeader(l) ==
  \/ Initializers(l)
  \/ /\ IsWord(l, 4)
     /\ \E i \in DOMAIN l.toks :
          /\ l.toks[i] = ")" /\ \A j \in 1 .. i : l.toks[j] # "("
          /\ SubSeq(l.toks, i + 1, Len(l.toks)) = <<"{">> \/ (i < Len(l.toks) /\ l.toks[i + 1] = ":")

InitializersEnd(lines, linenum) ==
  LET others == {n \in 1 .. linenum - 2 : ~IsWord(lines[n], 6)}
  IN others # {} /\ Initializers(lines[Max(others)])

HeaderException(lines, linenum) ==
  LET before == LineBefore(lines, linenum) IN
  IF IsWord(before, 6) THEN InitializersEnd(lines, linenum) ELSE EndsHeader(before)

EndsBlock(l) == FirstIs(l, {"}"}) /\ ~(Len(l.toks) > 1 /\ l.toks[2] = "else")

BlankLineErrors(s, lines, linenum) ==
  LET before == LineBefore(lines, linenum)
      blank(condition, confidence) ==
        When(condition, Error(linenum, <<"whitespace", "blank_line">>, confidence))
  IN IF ~Blank(lines[linenum]) \/ TopIs(s, {"namespace", "extern"}) THEN <<>>
     ELSE blank(LeavesOpen(before) /\ ~HeaderException(lines, linenum), 2)
          \o blank(EndsBlock(LineAfter(lines, linenum)), 3)
          \o blank(FirstIs(before, Labels), 3)

(***************************************************************************)
(* CheckSectionSpacing, for the innermost class around the line.           *)
(***************************************************************************)
HeadEnd(lines, start, linenum) ==
  LET braces == {n \in start .. linenum - 1 : ~NoCode(lines[n]) /\ Last(lines[n].toks) = "{"}
  IN IF braces = {} THEN start ELSE Min(braces)

SectionErrors(s, lines, linenum) ==
  LET classes == InnermostClass(s)
      class == Last(classes)
      before == LineBefore(lines, linenum)
      spaced == NoCode(before) \/ \E word \in Classes : HasToken(before, word)
  IN IF classes = <<>> THEN <<>>
     ELSE When(/\ class.last - class.start > SmallClass
               /\ linenum > class.start
               /\ FirstIs(lines[linenum], Labels)
               /\ ~spaced
               /\ HeadEnd(lines, class.start, linenum) < linenum - 1,
               Error(linenum, <<"whitespace", "blank_line">>, 3))

StyleErrors(s, lines, linenum) ==
  AccessErrors(s, lines, linenum) \o BlankLineErrors(s, lines, linenum)
  \o SectionErrors(s, lines, linenum)
=============================================================================
