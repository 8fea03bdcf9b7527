------------------------------- MODULE MCLint -------------------------------
(***************************************************************************)
(* LintProperties on small files.  A feature of the script has a profile:  *)
(* the lines that matter to it, in every order.                            *)
(***************************************************************************)
EXTENDS LintProperties

CONSTANTS NestingLength, BranchLength, FunctionLength, IncludeLength, ReportLength, BracketLength

Code(toks) == [EmptyLine EXCEPT !.toks = toks]
In(indent, toks) == [Code(toks) EXCEPT !.indent = indent]
Directive(dir, toks) == [EmptyLine EXCEPT !.dir = dir, !.toks = <<"#">> \o toks]
Guard(dir, arg) == [Directive(dir, <<>>) EXCEPT !.arg = arg]
Note(l, notes) == [l EXCEPT !.notes = notes]
Excuse(l, category) == [l EXCEPT !.nolint = category]
Using(l, paths) == [l EXCEPT !.uses = paths]
Comment == Note(EmptyLine, {"line"})
Copyright == Note(EmptyLine, {"copyright"})

Name(ext) == [dir |-> <<"src">>, stem |-> "foo", suffix |-> "", ext |-> ext]
Lint(options, files) == [options |-> options, files |-> files]

\* The files of n lines of an alphabet, which differ in nothing else.
Files(name, disk, alphabet, n) ==
  [name : {name}, readable : {TRUE}, newline : {TRUE}, disk : {disk}, lines : [1 .. n -> alphabet]]
\* The command lines with one of the files.
Single(options, files) == [options : options, files : [1 .. 1 -> files]]
Verbose(v) == [name |-> "verbose", value |-> v]
Filter(fs) == [name |-> "filter", value |-> fs]
Counting(style) == [name |-> "counting", value |-> style]
Plus(prefix) == [sign |-> "+", prefix |-> prefix]
Minus(prefix) == [sign |-> "-", prefix |-> prefix]

(***************************************************************************)
(* Blocks and branches.                                                    *)
(***************************************************************************)
NestingLines ==
  {Directive("if", <<"(", ")">>), Directive("else", <<>>), Directive("endif", <<>>),
   Code(<<"class">>), Code(<<"struct", "{", "public:">>), Code(<<"namespace", "{">>), Code(<<"{">>),
   Code(<<"}", ";">>), Code(<<"asm", "(">>), Code(<<")", ";">>)}
BranchLines ==
  {Directive("ifdef", <<>>), Directive("else", <<>>), Directive("endif", <<>>), Code(<<"{">>),
   Code(<<"}">>)}
ClassLines ==
  {Code(<<"class", "{">>), In(1, <<"public:">>), In(2, <<"private:">>), EmptyLine, Code(<<"}", ";">>),
   In(2, <<"DISALLOW">>), In(2, <<"x", ";">>), In(4, <<"x", ")", "{">>), Code(<<"extern", "{">>)}
OneLiners ==
  {Code(<<"namespace", "{", "namespace", "{", "class", ";", "}", "}">>),
   Code(<<"asm", "{">>), Code(<<"<", "class", ">", "x", ";">>), Code(<<"class", ">", "x", ";">>),
   Note(Code(<<"}">>), {"namespace"}), Note(Code(<<"}">>), {"wrong"}), Note(Code(<<"namespace">>), {}),
   Code(<<"}", "else", "{">>), In(6, <<"x", "{">>), In(4, <<":">>), EmptyLine,
   Code(<<"MACRO", "(", ")", "{">>)}

(***************************************************************************)
(* Functions.                                                              *)
(***************************************************************************)
FunctionLines ==
  {Code(<<"x", "x", "(", ")", "{">>), Code(<<"TEST", "(", ")">>),
   In(2, <<"x", ";">>), Code(<<"}">>), Excuse(Code(<<"}">>), AllCategories)}
(***************************************************************************)
(* Includes.                                                               *)
(***************************************************************************)
Path(dir, stem, suffix, ext) == [dir |-> dir, stem |-> stem, suffix |-> suffix, ext |-> ext]
Vector == Path(<<>>, "vector", "", "")
Stdio == Path(<<>>, "stdio", "", "h")
Iostream == Path(<<>>, "iostream", "", "")
Own == Path(<<"src">>, "foo", "", "h")
OwnInl == Path(<<"src">>, "foo", "-inl", "h")
Near == Path(<<"lib">>, "foo", "_bar", "h")
Other == Path(<<"lib">>, "bar", "", "h")

MCRank(p) == CASE p = Vector -> 7 [] p = Stdio -> 5 [] p = Iostream -> 2 [] p = Own -> 4
               [] p = OwnInl -> 4 [] p = Near -> 3 [] p = Other -> 1

Include(sys, path) == [Directive("include", <<>>) EXCEPT !.arg = [sys |-> sys, path |-> path]]
IncludeLines ==
  {Include(TRUE, Vector), Include(TRUE, Stdio), Include(TRUE, Iostream), Include(FALSE, Own),
   Include(FALSE, Near), Include(FALSE, Other), EmptyLine, Directive("ifdef", <<>>),
   Directive("if", <<>>), Using(Code(<<"x", "<", "x", ">", ";">>), {Vector})}
Disk == (Own :> {Iostream})
ForTest == <<Include(FALSE, OwnInl)>>
TestFiles == {[name |-> [Name("cc") EXCEPT !.suffix = "_test"], readable |-> TRUE, newline |-> TRUE,
               disk |-> <<>>, lines |-> ForTest \o f] : f \in [1 .. 2 -> IncludeLines]}

(***************************************************************************)
(* Reports: comments, NOLINT, guards, bad characters, carriage returns,    *)
(* over the files and options of a command line.                           *)
(***************************************************************************)
ReportLines ==
  {Note(EmptyLine, {"open"}), Excuse(Note(EmptyLine, {"open"}), AllCategories),
   Note(Code(<<"}">>), {"close"}), Excuse(Note(EmptyLine, {"bad"}), AllCategories), Note(EmptyLine, {"bad"}),
   Excuse(Note(EmptyLine, {"line"}), <<"unknown">>), Note(Comment, {"cr"}), Copyright,
   Excuse(Note(Code(<<"class">>), {"cr"}), <<"build", "class">>)}
GuardLines ==
  {Guard("ifndef", "guard"), Excuse(Guard("ifndef", "other"), <<"build", "header_guard">>),
   Guard("define", "guard"), Guard("define", "other"), Guard("endif", "guard"),
   Excuse(Guard("endif", "guard_"), AllCategories), Excuse(Guard("endif", "none"), <<"unknown">>)}
\* Guards, and comments without an end or around them.
CommentLines ==
  {Note(EmptyLine, {"open"}), Note(Guard("define", "other"), {"close"}), EmptyLine,
   Excuse(Note(Guard("ifndef", "other"), {"cr"}), AllCategories),
   Excuse(Guard("endif", "none"), AllCategories)}
Options ==
  {<<>>, <<Verbose(0), Counting("detailed")>>, <<Verbose(5), Verbose(2), Counting("toplevel")>>,
   <<Filter(<<Minus(<<"build">>), Plus(<<"build", "class">>)>>)>>,
   <<Filter(<<Minus(<<"legal">>), Minus(<<"readability">>)>>), Counting("toplevel")>>}
Second == [name |-> Name("cpp"), readable |-> TRUE, newline |-> FALSE, disk |-> <<>>,
           lines |-> <<Copyright, Note(EmptyLine, {"bad"}), EmptyLine>>]
Reports(options, ext, alphabet, n) ==
  {Lint(o, <<f, Second>>) : o \in options, f \in Files(Name(ext), <<>>, alphabet, n)}
Endings ==
  {Lint(<<[name |-> "help", value |-> ""], Verbose(0)>>, <<Second>>),
   Lint(<<Filter(<<>>)>>, <<Second>>), Lint(<<Verbose(0)>>, <<>>), Lint(<<Counting("all")>>, <<Second>>),
   Lint(<<Filter(<<[sign |-> "", prefix |-> <<"build">>]>>)>>, <<Second>>),
   Lint(<<>>, <<[Second EXCEPT !.name.ext = "py"], [Second EXCEPT !.readable = FALSE], Second>>)}

(***************************************************************************)
(* Brackets, on one line and on two.                                       *)
(***************************************************************************)
BracketTokens == {"(", ")", "{", "}", "<", ">", ";"}
Texts(tokens, n, k) ==
  Files(Name("cpp"), <<>>, {Code(t) : t \in [1 .. k -> tokens]}, n)
OneLine == Texts(BracketTokens, 1, BracketLength)
TwoLines == Texts(BracketTokens \union {"[", "]", "-"}, 2, BracketLength \div 2)

MCRuns(feature) ==
  LET Alone(alphabet, n) == Single({<<>>}, Files(Name("cpp"), <<>>, alphabet, n))
      Never == {<<[name |-> "help", value |-> ""]>>}
  IN CASE feature = "blocks" -> Alone(NestingLines, NestingLength)
       [] feature = "branches" -> Alone(BranchLines, BranchLength)
       [] feature = "classes" -> Alone(ClassLines, NestingLength)
       [] feature = "one_liners" -> Alone(OneLiners, NestingLength - 1)
       [] feature = "functions" ->
            Single({<<Verbose(v)>> : v \in 0 .. 1}, Files(Name("cpp"), <<>>, FunctionLines, FunctionLength))
       [] feature = "includes" ->
            Single({<<Filter(<<Plus(<<"build">>)>>)>>}, Files(Name("cc"), Disk, IncludeLines, IncludeLength))
       [] feature = "tests" -> Single({<<Verbose(0)>>}, TestFiles)
       [] feature = "reports" -> Reports(Options, "cpp", ReportLines, ReportLength)
       [] feature = "guards" ->
            Reports(Options, "h", GuardLines, ReportLength)
              \union Reports({<<>>}, "h", CommentLines, ReportLength + 1)
       [] feature = "endings" -> Endings
       [] feature = "one_line" -> Single(Never, OneLine)
       [] feature = "two_lines" -> Single(Never, TwoLines)

MCCppHeaders == {Vector, Iostream}
MCCategories == RaisedCategories
=============================================================================
