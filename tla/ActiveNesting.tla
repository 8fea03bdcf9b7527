--------------------------- MODULE ActiveNesting ----------------------------
(***************************************************************************)
(* What NestingState of src/cpplint.py promises about the preprocessor: a  *)
(* condition is taken to hold up to the first #else, #elif or #endif and   *)
(* to fail from there to the #endif, so the open blocks are those of the   *)
(* lines whose conditions all hold, read as if there were no others.       *)
(***************************************************************************)
EXTENDS Sequences, SequencesExt

CONSTANT After(_, _, _) \* the open blocks after a line, from those before it

VARIABLES
  lines, linenum, \* the file, and the line that comes next
  stack,          \* the open blocks of the lines that count
  seen            \* for each #if around the line, whether its #else was met

vars == <<stack, seen>>

Init == stack = <<>> /\ seen = <<>>

Branch(l) ==
  CASE l.dir \in {"if", "ifdef", "ifndef"} -> Append(seen, FALSE)
    [] l.dir = "else" /\ seen # <<>> -> Append(Front(seen), TRUE)
    [] l.dir = "endif" /\ seen # <<>> -> Front(seen)
    [] OTHER -> seen

Counts(branches) == \A i \in DOMAIN branches : ~branches[i]

\* A line that counts is read; one that does not leaves the blocks alone.
Read ==
  /\ linenum \in 1 .. Len(lines)
  /\ linenum' = linenum + 1
  /\ seen' = Branch(lines[linenum])
  /\ stack' = IF Counts(seen') THEN After(stack, lines, linenum) ELSE stack

\* The next file starts with no block open.
Reset == linenum' = 1 /\ stack' = <<>> /\ seen' = <<>>

Next == Read \/ Reset

Spec == Init /\ [][Next]_vars
=============================================================================
