------------------------------ MODULE LintFile ------------------------------
(***************************************************************************)
(* A run of src/cpplint.py over files: main, ProcessFile, ProcessFileData  *)
(* and ProcessLine, composed of the nesting state, the function state, the *)
(* include state and the reports.                                          *)
(*                                                                         *)
(* A file has a name, whether it can be read, its lines, whether a newline *)
(* ends the last, and disk, the includes of the headers that can be read   *)
(* from where it is.                                                       *)
(***************************************************************************)
EXTENDS BlockChecks, FunctionState, IncludeState, ErrorReport

CONSTANTS
  Features,         \* the parts of the script to be exercised
  Runs(_),          \* the command lines for a part: options and files
  ValidExtensions,  \* _valid_extensions
  CopyrightLines    \* lines searched for a copyright notice

\* A line as it is written down (LintLine), and the files and options of a command line.
IsList(s) == s \in Seq(ToSet(s))
IsLine(l) ==
  /\ l = [dir |-> l.dir, arg |-> l.arg, indent |-> l.indent, toks |-> l.toks,
          notes |-> l.notes, nolint |-> l.nolint, uses |-> l.uses]
  /\ IsList(l.toks) /\ IsFiniteSet(l.uses)
IsRun(r) ==
  /\ IsList(r.options) /\ IsList(r.files)
  /\ \A i \in DOMAIN r.options :
       /\ r.options[i].name = "verbose" => r.options[i].value \in Nat
       /\ r.options[i].name = "filter" => IsList(r.options[i].value)
  /\ \A i \in DOMAIN r.files :
       IsList(r.files[i].lines) /\ \A n \in DOMAIN r.files[i].lines : IsLine(r.files[i].lines[n])

ASSUME RunAssumption ==
  CopyrightLines \in Nat /\ \A f \in Features : \A r \in Runs(f) : IsRun(r)

VARIABLES
  run,      \* the command line of this run
  pc,       \* "arguments", "file", "line", or what the script ended with
  current,  \* the file being read
  lines,    \* its lines, as the checks have left them
  linenum   \* the line to be looked at

driverVars == <<run, pc, current, lines, linenum>>
vars == <<driverVars, nestingVars, functionVars, includeVars, reportVars>>

File == run.files[current]

Init ==
  /\ \E f \in Features : run \in Runs(f)
  /\ pc = "arguments"
  /\ current = 1
  /\ lines = <<>>
  /\ linenum = 0
  /\ NestingInit /\ FunctionInit /\ IncludeInit /\ ReportInit

\* ParseArguments
ParseArguments ==
  LET asked == Parsed(run.options, Len(run.files)) IN
  /\ pc = "arguments"
  /\ IF asked.exit = "" THEN pc' = "file" /\ SetOptions(asked)
     ELSE pc' = asked.exit /\ UNCHANGED reportVars
  /\ UNCHANGED <<run, current, lines, linenum, nestingVars, functionVars, includeVars>>

(***************************************************************************)
(* What is checked before the lines are.                                   *)
(***************************************************************************)
\* What split gives: an empty line follows a final newline.
Split(file) == file.lines \o (IF file.newline THEN <<EmptyLine>> ELSE <<>>)

\* The lines without their carriage returns; the last line is not looked at.
CrlfLines(file) == {n \in 1 .. Len(Split(file)) - 1 : "cr" \in Split(file)[n].notes}
LfLines(file) == 1 .. Len(Split(file)) - 1 \ CrlfLines(file)
ReadLines(file) ==
  [n \in DOMAIN Split(file) |-> [Split(file)[n] EXCEPT !.notes = IF n \in CrlfLines(file)
                                                               THEN @ \ {"cr"} ELSE @]]

\* CheckForCopyright
CopyrightErrors(ls) ==
  When(\A n \in 1 .. Min({Len(ls), CopyrightLines}) : "copyright" \notin ls[n].notes,
       Error(0, <<"legal", "copyright">>, 5))

\* CheckForHeaderGuard: a guard is right, of the older form, or something else.
GuardLevel(arg) == IF arg = "guard_" THEN 0 ELSE 5
GuardErrors(ls) ==
  LET At(dir) == {n \in DOMAIN ls : ls[n].dir = dir /\ (dir = "endif" => ls[n].indent = 0)}
      ifndef == Min(At("ifndef"))
      define == Min(At("define"))
      endif == Max({0} \union At("endif"))
      guard == Error(0, <<"build", "header_guard">>, 5)
      tail == IF endif = 0 THEN "none" ELSE ls[endif].arg
      Wrong(n, arg) == (IF n = 0 THEN <<>> ELSE Nolint(n, ls[n]))
                       \o <<Error(n, <<"build", "header_guard">>, GuardLevel(arg))>>
      style == IF ls[ifndef].arg = "guard" THEN <<>> ELSE Wrong(ifndef, ls[ifndef].arg)
  IN CASE At("ifndef") = {} -> <<guard>>
       [] At("ifndef") # {} /\ At("define") = {} -> <<guard>>
       [] OTHER -> style \o
            (IF ls[define].arg # ls[ifndef].arg THEN <<guard>>
             ELSE IF tail = "guard" THEN <<>> ELSE Wrong(endif, tail))

(***************************************************************************)
(* RemoveMultiLineComments.  A comment starts on a line that starts with   *)
(* its mark and does not close it, and ends on the first line from there   *)
(* on that ends with the closing mark.                                     *)
(***************************************************************************)
Closes(ls, n) == {m \in n .. Len(ls) : "close" \in ls[m].notes}

\* The lines of comments, and the one, if any, that starts a comment without an end.
Comments(ls) ==
  LET Step(acc, n) ==
        IF n < acc.next \/ "open" \notin ls[n].notes THEN acc
        ELSE IF Closes(ls, n) = {} THEN [acc EXCEPT !.next = Len(ls) + 1, !.unended = n]
        ELSE [acc EXCEPT !.next = Min(Closes(ls, n)) + 1,
                         !.removed = @ \union n .. Min(Closes(ls, n))]
  IN FoldLeft(Step, [removed |-> {}, unended |-> 0, next |-> 1], [n \in DOMAIN ls |-> n])

Uncommented(ls) ==
  LET found == Comments(ls) IN
  [lines |-> [n \in DOMAIN ls |-> IF n \in found.removed THEN DummyLine ELSE ls[n]],
   errors |-> When(found.unended # 0,
                   Error(found.unended + 1, <<"readability", "multiline_comment">>, 5))]

FirstErrors(file, ls) ==
  CopyrightErrors(ls) \o (IF file.name.ext = "h" THEN GuardErrors(ls) ELSE <<>>)
  \o Uncommented(ls).errors

NextFile == pc' = "file" /\ current' = current + 1

\* ProcessFile: a file that cannot be read, or has another extension, is skipped.
SkipFile ==
  /\ pc = "file" /\ current <= Len(run.files)
  /\ ~File.readable \/ File.name.ext \notin ValidExtensions
  /\ NextFile
  /\ UNCHANGED <<run, lines, linenum, nestingVars, functionVars, includeVars, reportVars>>

\* ProcessFileData up to its loop.
OpenFile ==
  LET ls == ReadLines(File) IN
  /\ pc = "file" /\ current <= Len(run.files)
  /\ File.readable /\ File.name.ext \in ValidExtensions
  /\ NestingReset /\ FunctionReset /\ IncludeReset
  /\ Handle(Forgotten(current), FirstErrors(File, ls))
  /\ lines' = Uncommented(ls).lines
  /\ linenum' = 1
  /\ pc' = "line"
  /\ UNCHANGED <<run, current>>

\* CheckForMultilineCommentsAndStrings, for comments.
MultilineErrors(l) ==
  When("open" \in l.notes /\ "close" \notin l.notes,
       Error(linenum, <<"readability", "multiline_comment">>, 5))

LineErrors(l, s) ==
  FunctionErrors(lines, linenum, verbose_level) \o MultilineErrors(l)
  \o StyleErrors(s, lines, linenum)
  \o LanguageErrors(File.name, l, LineBefore(lines, linenum), linenum)

\* ProcessLine: within inline assembly nothing but the nesting is followed.
ProcessLine ==
  LET l == lines[linenum]
      first == Nolint(linenum, l) \o UpdateErrors(lines, linenum)
  IN /\ pc = "line" /\ linenum \in 1 .. Len(lines)
     /\ Update(lines, linenum)
     /\ \/ /\ InAsmBlock(stack')
           /\ Handle(Current(current), first)
           /\ UNCHANGED <<functionVars, includeVars>>
        \/ /\ ~InAsmBlock(stack')
           /\ CheckForFunctionLengths(lines, linenum)
           /\ CheckLanguage(File.name, l)
           /\ Handle(Current(current), first \o LineErrors(l, stack'))
     /\ linenum' = linenum + 1
     /\ UNCHANGED <<run, pc, current, lines>>

(***************************************************************************)
(* What is checked once the lines have been.                               *)
(***************************************************************************)
\* CheckForBadCharacters
BadCharacterErrors(ls) ==
  FlattenSeq([n \in DOMAIN ls |->
                When("bad" \in ls[n].notes, Error(n, <<"readability", "utf8">>, 5))])

\* CheckForNewlineAtEOF
NewlineErrors(ls) ==
  When(ls = <<>> \/ ~Blank(Last(ls)), Error(Len(ls), <<"whitespace", "ending_newline">>, 5))

\* The end of ProcessFile: carriage returns are reported when only some lines have them.
MixedNewlineErrors(file) ==
  FlattenSeq([n \in DOMAIN Split(file) |->
                When(n \in CrlfLines(file) /\ LfLines(file) # {},
                     Error(n, <<"whitespace", "newline">>, 1))])

CloseFile ==
  /\ pc = "line" /\ linenum > Len(lines)
  /\ Handle(Current(current), CompletedBlocksErrors \o WhatYouUseErrors(File.name, lines, File.disk)
                     \o BadCharacterErrors(lines) \o NewlineErrors(lines)
                     \o MixedNewlineErrors(File))
  /\ NextFile
  /\ UNCHANGED <<run, lines, linenum, nestingVars, functionVars, includeVars>>

\* The end of main: the exit status says whether anything was printed.
Exit ==
  /\ pc = "file" /\ current > Len(run.files)
  /\ pc' = IF error_count > 0 THEN "failure" ELSE "success"
  /\ UNCHANGED <<run, current, lines, linenum, nestingVars, functionVars, includeVars, reportVars>>

Next == ParseArguments \/ SkipFile \/ OpenFile \/ ProcessLine \/ CloseFile \/ Exit

Spec == Init /\ [][Next]_vars
=============================================================================
