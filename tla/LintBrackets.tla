---------------------------- MODULE LintBrackets ----------------------------
(***************************************************************************)
(* How src/cpplint.py finds the other end of an expression in ( ), [ ],    *)
(* { } or < >.  text is a sequence of lines, a line a sequence of tokens.  *)
(* A position is an index of a token; NotFound is the code's -1.           *)
(***************************************************************************)
EXTENDS Integers, Sequences, SequencesExt, FiniteSetsExt, TLC

NotFound == -1
Opening == {"(", "[", "{"}
ClosedBy == ("(" :> ")") @@ ("[" :> "]") @@ ("{" :> "}") @@ ("<" :> ">")
Closing == {")", "]", "}"}

Before(line, i) == IF i > 1 THEN line[i - 1] ELSE ""

\* A mutant: angle brackets are never operators.
KeepAngles(stack, angle) == stack

\* The pending angle brackets on top of the stack turn out to be operators.
DropAngles(stack, angle) ==
  SubSeq(stack, 1, Max({0} \union {i \in DOMAIN stack : stack[i] # angle}))

Searching(stack) == [stack |-> stack, end |-> 0]
GiveUp == [stack |-> <<>>, end |-> NotFound]

\* The stack once its top is popped; an empty one ends the search at end.
Pop(stack, end) == [stack |-> Front(stack), end |-> IF Len(stack) = 1 THEN end ELSE 0]

\* FindEndOfExpressionInLine: end is the position just past the expression.
FindEnd(line, startpos, stack0) ==
  LET Step(acc, i) ==
        LET s == acc.stack
            c == line[i]
            bare == DropAngles(s, "<")
            angle == s # <<>> /\ Last(s) = "<"
        IN CASE acc.end # 0 -> acc
             [] c \in Opening -> Searching(Append(s, c))
             [] c = "<" /\ Before(line, i) = "<" -> IF angle THEN Pop(s, NotFound) ELSE acc
             [] c = "<" /\ Before(line, i) \notin {"<", "operator"} -> Searching(Append(s, c))
             [] c \in Closing ->
                  IF bare # <<>> /\ ClosedBy[Last(bare)] = c THEN Pop(bare, i + 1) ELSE GiveUp
             [] c = ">" /\ angle /\ Before(line, i) # "-" /\ Before(line, i - 1) # "operator" ->
                  Pop(s, i + 1)
             [] c = ";" -> IF bare = <<>> THEN GiveUp ELSE Searching(bare)
             [] OTHER -> acc
  IN FoldLeft(Step, Searching(stack0), [k \in 1 .. Len(line) - startpos + 1 |-> startpos + k - 1])

\* The answer of a search: where it ended, or none, past the text at line none.
Found(r, none) == IF r.end <= 0 THEN [line |-> none, pos |-> NotFound]
                  ELSE [line |-> r.line, pos |-> r.end]

\* A search goes on to the next line while a bracket is open.
Ended(acc, m, linenum) == m # linenum /\ (acc.end # 0 \/ acc.stack = <<>>)

\* << and <= are operators.
IsShift(line, pos) == line[pos] = "<" /\ pos < Len(line) /\ line[pos + 1] \in {"<", "="}

\* CloseExpression
CloseExpression(text, linenum, pos) ==
  LET Scan(acc, m) == IF Ended(acc, m, linenum) THEN acc
                      ELSE FindEnd(text[m], IF m = linenum THEN pos ELSE 1, acc.stack) @@ [line |-> m]
      none == Len(text) + 1
  IN IF text[linenum][pos] \notin Opening \union {"<"} \/ IsShift(text[linenum], pos)
     THEN [line |-> none, pos |-> NotFound]
     ELSE Found(FoldLeft(Scan, Searching(<<>>), [k \in 1 .. none - linenum |-> linenum + k - 1]), none)

\* FindStartOfExpressionInLine: end is the position of the opening bracket.
\* skip says that the character is part of an operator already looked at.
FindStart(line, endpos, stack0) ==
  LET Skip(acc) == [acc EXCEPT !.skip = TRUE]
      Go(r) == r @@ [skip |-> FALSE]
      Step(acc, i) ==
        LET s == acc.stack
            c == line[i]
            bare == DropAngles(s, ">")
            angle == s # <<>> /\ Last(s) = ">"
        IN CASE acc.end # 0 -> acc
             [] acc.skip -> [acc EXCEPT !.skip = FALSE]
             [] c \in Closing -> Go(Searching(Append(s, c)))
             [] c = ">" -> IF Before(line, i) \in {"-", "operator"} THEN Skip(acc)
                           ELSE Go(Searching(Append(s, c)))
             [] c = "<" /\ Before(line, i) = "<" -> Skip(acc)
             [] c = "<" /\ Before(line, i) # "<" /\ angle -> Go(Pop(s, i))
             [] c \in Opening ->
                  IF bare # <<>> /\ Last(bare) = ClosedBy[c] THEN Go(Pop(bare, i)) ELSE Go(GiveUp)
             [] c = ";" -> IF bare = <<>> THEN Go(GiveUp) ELSE Go(Searching(bare))
             [] OTHER -> acc
  IN FoldLeft(Step, Go(Searching(stack0)), [k \in 1 .. endpos |-> endpos - k + 1])

\* ReverseCloseExpression
ReverseCloseExpression(text, linenum, pos) ==
  LET Scan(acc, m) ==
        IF Ended(acc, m, linenum) THEN acc
        ELSE FindStart(text[m], IF m = linenum THEN pos ELSE Len(text[m]), acc.stack) @@ [line |-> m]
  IN IF text[linenum][pos] \notin Closing \union {">"} THEN [line |-> 0, pos |-> NotFound]
     ELSE Found(FoldLeft(Scan, Searching(<<>>), [k \in 1 .. linenum |-> linenum - k + 1]), 0)

\* A mutant: a closing angle bracket tells nothing.
TellingLess == {"{", "}", ";", "=", "[", "]", ".", "<"}

\* What tells whether a class is declared or an argument.
Telling == {"{", "}", ";", "=", "[", "]", ".", "<", ">"}

\* InTemplateArgumentList: pos is just past a suspected argument.
InTemplateArgumentList(text, linenum, pos) ==
  LET f[p \in Nat \X Nat] ==
        LET n == p[1]
            at == {i \in p[2] .. Len(text[n]) : text[n][i] \in Telling}
            After(close) == close.pos # NotFound /\ f[<<close.line, close.pos>>]
            From(i) == IF text[n][i] # "<" THEN text[n][i] \notin {"{", "}", ";"}
                       ELSE After(CloseExpression(text, n, i))
        IN CASE n > Len(text) -> FALSE
             [] n <= Len(text) /\ at = {} -> f[<<n + 1, 1>>]
             [] n <= Len(text) /\ at # {} -> From(Min(at))
  IN f[<<linenum, pos>>]
=============================================================================
