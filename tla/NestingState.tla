---------------------------- MODULE NestingState ----------------------------
(***************************************************************************)
(* NestingState of src/cpplint.py: the blocks open around a line, followed *)
(* from brace to brace and from one preprocessor branch to the next.       *)
(* lines is the file without comments; Update is the one operation.        *)
(***************************************************************************)
EXTENDS LintLine, LintBrackets

CONSTANTS
  ShortNamespace, \* lines under which a namespace needs no closing comment
  SmallClass      \* lines up to which the sections of a class are not looked at

ASSUME NestingConstants == ShortNamespace \in Nat /\ SmallClass \in Nat

VARIABLES
  stack,              \* the open blocks, and the heads that still await their brace
  pp_stack,           \* the branches the line is in
  previous_stack_top  \* the class of the top before the line

nestingVars == <<stack, pp_stack, previous_stack_top>>

Classes == {"class", "struct"}
Labels == {"public:", "protected:", "private:"}
NoTop == "none"

\* _BlockInfo and the classes derived from it.
Block == [kind |-> "block", seen_open_brace |-> TRUE, open_parentheses |-> 0,
          inline_asm |-> "no", access |-> "", indent |-> 0, start |-> 0, last |-> 0]
ExternCInfo == [Block EXCEPT !.kind = "extern"]
NamespaceInfo(linenum, open) ==
  [Block EXCEPT !.kind = "namespace", !.seen_open_brace = open, !.start = linenum]

\* The first line on which the braces opened since the class balance.
LastLine(lines, linenum) ==
  LET Depth(n) == MapThenSumSet(LAMBDA m : CountOf(lines[m], "{") - CountOf(lines[m], "}"),
                                linenum .. n)
      even == {n \in linenum .. Len(lines) : Depth(n) = 0}
  IN IF even = {} THEN 0 ELSE Min(even)

ClassInfo(lines, linenum, word) ==
  [Block EXCEPT !.kind = word, !.seen_open_brace = FALSE, !.start = linenum,
                !.access = IF word = "struct" THEN "public:" ELSE "private:",
                !.indent = lines[linenum].indent, !.last = LastLine(lines, linenum)]

SeenOpenBrace(s) == s = <<>> \/ Last(s).seen_open_brace
TopIs(s, kinds) == s # <<>> /\ Last(s).kind \in kinds
InAsmBlock(s) == s # <<>> /\ Last(s).inline_asm # "no"

InnermostClass(s) == SelectSeq(s, LAMBDA b : b.kind \in Classes)

(***************************************************************************)
(* UpdatePreprocessor: the state r after the directive of a line.  What a  *)
(* branch does before its #else is what counts after its #endif.           *)
(***************************************************************************)
PreprocessorInfo(s) == [stack_before_if |-> s, stack_before_else |-> <<>>, seen_else |-> FALSE]

\* A mutant: every #else saves the stack, not the first alone.
AtElseAgain(s, pp) ==
  [stack |-> Last(pp).stack_before_if,
   pp |-> Append(Front(pp), [Last(pp) EXCEPT !.seen_else = TRUE, !.stack_before_else = s])]

AtElse(s, pp) ==
  LET top == Last(pp)
      info == IF top.seen_else THEN top
              ELSE [top EXCEPT !.seen_else = TRUE, !.stack_before_else = s]
  IN [stack |-> top.stack_before_if, pp |-> Append(Front(pp), info)]

\* A mutant: the stack of the last branch goes on.
AtEndifGoesOn(s, pp) == [stack |-> s, pp |-> Front(pp)]

AtEndif(s, pp) ==
  [stack |-> IF Last(pp).seen_else THEN Last(pp).stack_before_else ELSE s, pp |-> Front(pp)]

UpdatePreprocessor(s, pp, l) ==
  CASE l.dir \in {"if", "ifdef", "ifndef"} ->
         [stack |-> s, pp |-> Append(pp, PreprocessorInfo(s))]
    [] l.dir = "else" /\ pp # <<>> -> AtElse(s, pp)
    [] l.dir = "endif" /\ pp # <<>> -> AtEndif(s, pp)
    [] OTHER -> [stack |-> s, pp |-> pp]

(***************************************************************************)
(* The rest of Update, on the stack the directive left.                    *)
(***************************************************************************)
StartsAsm(head) == Len(head) >= 2 /\ head[1] = "asm" /\ head[2] \in {"(", "{"}

\* Parentheses are counted in the innermost block; asm ( ... ) is followed with them.
AsmAfter(asm, change, depth, l) ==
  CASE asm \in {"no", "end"} -> IF change # 0 /\ depth = 1 /\ StartsAsm(l.toks) THEN "inside" ELSE "no"
    [] asm = "inside" /\ depth = 0 -> "end"
    [] OTHER -> asm

Counted(top, change, l) ==
  [top EXCEPT !.open_parentheses = @ + change,
              !.inline_asm = AsmAfter(@, change, top.open_parentheses + change, l)]

Parenthesized(s, l) ==
  IF s = <<>> THEN s
  ELSE Append(Front(s), Counted(Last(s), CountOf(l, "(") - CountOf(l, ")"), l))

\* Nothing but a brace is looked for between a namespace and what follows it.
\* r has the open blocks, the errors so far, and where the rest of the line is.
Namespaces(r0, l, linenum) ==
  LET Entered(r, braces) ==
        [r EXCEPT !.stack = Append(@, NamespaceInfo(linenum, braces # {})),
                  !.at = IF braces = {} THEN @ + 1 ELSE Min(braces) + 1]
      Step(r, i) ==
        IF r.at > Len(l.toks) \/ l.toks[r.at] # "namespace" THEN r
        ELSE Entered(r, {j \in r.at .. Len(l.toks) : l.toks[j] = "{"})
  IN FoldLeft(Step, r0, l.toks)

\* CheckEnd: what is reported when the block b is closed on line l.
CheckEnd(b, l, linenum) ==
  LET starts == l.toks # <<>> /\ l.toks[1] = "}"
      commented == starts /\ l.indent = 0 /\ l.notes \intersect {"namespace", "wrong"} # {}
      right == commented /\ "namespace" \in l.notes
  IN CASE b.kind \in Classes ->
            When(starts /\ l.indent # b.indent, Error(linenum, <<"whitespace", "indent">>, 3))
       [] b.kind = "namespace" ->
            When((linenum - b.start >= ShortNamespace \/ commented) /\ ~right,
                 Error(linenum, <<"readability", "namespace">>, 5))
       [] OTHER -> <<>>

\* The access label of the line, if it has one: the last.
Labelled(r, l, linenum, i) ==
  IF i = 0 \/ ~TopIs(r.stack, Classes) THEN r
  ELSE [r EXCEPT !.stack = Append(Front(@), [Last(@) EXCEPT !.access = l.toks[i]]),
                 !.errors = @ \o When(i = 1 /\ l.indent # Last(r.stack).indent + 1,
                                      Error(linenum, <<"whitespace", "indent">>, 3))]

Accessed(r, l, linenum) ==
  Labelled(r, l, linenum, Max({0} \union {i \in r.at .. Len(l.toks) : l.toks[i] \in Labels}))

\* Braces, semicolons and closing parentheses, one after the other.  head is
\* what the line has between the last of them and the next.
OpensExtern(head, l, first) == head = <<"extern">> /\ (first => l.indent = 0)

Opened(s, head, l, first) ==
  IF ~SeenOpenBrace(s) THEN Append(Front(s), [Last(s) EXCEPT !.seen_open_brace = TRUE])
  ELSE IF OpensExtern(head, l, first) THEN Append(s, ExternCInfo)
  ELSE Append(s, [Block EXCEPT !.inline_asm =
                    IF StartsAsm(Append(head, "{")) THEN "block" ELSE "no"])

Consume(r, l, linenum) ==
  LET Step(acc, t) ==
        LET s == acc.stack
            past == [acc EXCEPT !.head = <<>>, !.first = FALSE]
        IN CASE t = "{" -> [past EXCEPT !.stack = Opened(s, acc.head, l, acc.first)]
             [] t \in {";", ")"} -> [past EXCEPT !.stack = IF SeenOpenBrace(s) THEN s ELSE Front(s)]
             [] t = "}" /\ s = <<>> -> past
             [] t = "}" /\ s # <<>> ->
                  [past EXCEPT !.stack = Front(s), !.errors = @ \o CheckEnd(Last(s), l, linenum)]
             [] OTHER -> [acc EXCEPT !.head = Append(@, t)]
  IN FoldLeft(Step, [stack |-> r.stack, errors |-> r.errors, head |-> <<>>, first |-> r.at = 1],
              SubSeq(l.toks, r.at, Len(l.toks)))

\* A class head.  The position given to InTemplateArgumentList is counted from
\* what is left of the line after its namespaces: just past its first token.
Declares(r, lines, linenum) ==
  /\ r.at <= Len(lines[linenum].toks) /\ lines[linenum].toks[r.at] \in Classes
  /\ r.stack = <<>> \/ Last(r.stack).open_parentheses = 0
  /\ ~InTemplateArgumentList([n \in DOMAIN lines |-> lines[n].toks], linenum, 2)

Declared(r, lines, linenum) ==
  IF ~Declares(r, lines, linenum) THEN r
  ELSE [r EXCEPT !.stack = Append(@, ClassInfo(lines, linenum, lines[linenum].toks[r.at])),
                 !.at = @ + 1]

Rest(s, lines, linenum) ==
  LET l == lines[linenum]
      start == [stack |-> Parenthesized(s, l), errors |-> <<>>, at |-> 1]
  IN Consume(Accessed(Declared(Namespaces(start, l, linenum), lines, linenum), l, linenum), l, linenum)

NestingInit ==
  /\ stack = <<>>
  /\ pp_stack = <<>>
  /\ previous_stack_top = NoTop

\* The errors Update reports; it is read before the step.
UpdateErrors(lines, linenum) ==
  Rest(UpdatePreprocessor(stack, pp_stack, lines[linenum]).stack, lines, linenum).errors

Update(lines, linenum) ==
  /\ previous_stack_top' = IF stack = <<>> THEN NoTop ELSE Last(stack).kind
  /\ pp_stack' = UpdatePreprocessor(stack, pp_stack, lines[linenum]).pp
  /\ stack' = Rest(UpdatePreprocessor(stack, pp_stack, lines[linenum]).stack, lines, linenum).stack

NestingReset == stack' = <<>> /\ pp_stack' = <<>> /\ previous_stack_top' = NoTop

\* CheckCompletedBlocks
CompletedBlocksErrors ==
  FlattenSeq([i \in DOMAIN stack |->
     When(stack[i].kind \in Classes, Error(stack[i].start, <<"build", "class">>, 5))
     \o When(stack[i].kind = "namespace", Error(stack[i].start, <<"build", "namespaces">>, 5))])
=============================================================================
