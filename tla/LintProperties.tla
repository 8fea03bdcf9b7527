--------------------------- MODULE LintProperties ---------------------------
(***************************************************************************)
(* What src/cpplint.py should do over whole files, stated against the text *)
(* of the files and the command line rather than the state it keeps.       *)
(***************************************************************************)
EXTENDS LintFile

(***************************************************************************)
(* The preprocessor.                                                       *)
(***************************************************************************)
\* The blocks of the lines that count: those open when the outermost #if
\* whose #else was met met it.
ActiveStack ==
  LET dead == {i \in DOMAIN pp_stack : pp_stack[i].seen_else}
  IN IF dead = {} THEN stack ELSE pp_stack[Min(dead)].stack_before_else

SeenElse == [i \in DOMAIN pp_stack |-> pp_stack[i].seen_else]

AfterLine(s, ls, n) == Rest(s, ls, n).stack

Active == INSTANCE ActiveNesting
            WITH After <- AfterLine, stack <- ActiveStack, seen <- SeenElse

\* Saving and restoring the nesting stack around directives (UpdatePreprocessor)
\* amounts to reading the lines of the first branches alone, however the
\* directives nest and whether or not they match.
SkipsElseBranches == Active!Spec

(***************************************************************************)
(* Reports.                                                                *)
(***************************************************************************)
\* Every category there is an error of is in the list of categories.
RaisedCategories ==
  {<<"build", "class">>, <<"build", "header_guard">>, <<"build", "include">>,
   <<"build", "include_alpha">>, <<"build", "include_order">>,
   <<"build", "include_what_you_use">>, <<"build", "namespaces">>, <<"legal", "copyright">>,
   <<"readability", "constructors">>, <<"readability", "fn_size">>,
   <<"readability", "multiline_comment">>, <<"readability", "namespace">>,
   <<"readability", "nolint">>, <<"readability", "streams">>, <<"readability", "utf8">>,
   <<"whitespace", "blank_line">>, <<"whitespace", "ending_newline">>,
   <<"whitespace", "indent">>, <<"whitespace", "newline">>}

ASSUME CategoriesAssumption == RaisedCategories \subseteq ErrorCategories

AskedFor(name, default) ==
  LET at == {i \in DOMAIN run.options : run.options[i].name = name}
  IN IF at = {} THEN default ELSE run.options[Max(at)].value

AskedFilters == DEFAULT_FILTERS \o AskedFor("filter", <<>>)

LetThrough(e) ==
  LET naming == {i \in DOMAIN AskedFilters : IsPrefix(AskedFilters[i].prefix, e.category)}
  IN naming = {} \/ AskedFilters[Max(naming)].sign = "+"

InComment(file, n) == LET ls == ReadLines(file) IN
  n \in DOMAIN ls /\ Uncommented(ls).lines[n] = DummyLine /\ ls[n] # DummyLine

\* The check of the header guard looks at the file as it was read, and has
\* looked for a NOLINT on the lines it reports.
GuardsReported(rs, f) ==
  {x.line : x \in {y \in ToSet(rs) : y.file = f /\ y.category = <<"build", "header_guard">>}}

\* The end of a comment is looked for before any other NOLINT is read.
UnendedComment(rs, i) ==
  LET unended == Uncommented(ReadLines(run.files[rs[i].file])).errors
  IN /\ unended # <<>> /\ rs[i] = InFile(unended[1], rs[i].file)
     /\ \A j \in 1 .. i - 1 : rs[j] # rs[i]

\* The i-th error raised is on a line with a NOLINT for it, which was read.
Excused(rs, i) ==
  LET e == rs[i]
      file == run.files[e.file]
  IN /\ e.line \in DOMAIN Split(file)
     /\ Split(file)[e.line].nolint \in {AllCategories, e.category}
     /\ \/ e.line \in GuardsReported(SubSeq(rs, 1, i), e.file)
        \/ ~InComment(file, e.line) /\ ~UnendedComment(rs, i)

Wanted(rs, i) ==
  /\ rs[i].confidence >= AskedFor("verbose", 1)
  /\ LetThrough(rs[i])
  /\ ~Excused(rs, i)

\* What is printed is what the command line and the NOLINT comments of the
\* same file and line let through, all of it and in order (Error,
\* _ShouldPrintError, ParseNolintSuppressions, ResetNolintSuppressions).
PrintedExact ==
  LET wanted == {i \in DOMAIN raised : Wanted(raised, i)} IN
  /\ Len(printed) = Cardinality(wanted)
  /\ \A i \in wanted : printed[Cardinality({j \in wanted : j <= i})] = raised[i]

\* The counts that are written last, in total and by category, and the exit
\* status agree with what was printed over all files (IncrementErrorCount, main).
CountsAgree ==
  /\ error_count = Len(printed)
  /\ counting \in {"toplevel", "detailed"} =>
       /\ BagToSet(errors_by_category) = {CountedAs(printed[i]) : i \in DOMAIN printed}
       /\ \A c \in BagToSet(errors_by_category) :
            errors_by_category[c] = Cardinality({i \in DOMAIN printed : CountedAs(printed[i]) = c})
  /\ pc = "success" => printed = <<>>
  /\ pc = "failure" => printed # <<>>

RaisedAt(n, category) ==
  {i \in DOMAIN raised : /\ raised[i].file = current
                         /\ raised[i].line = n /\ raised[i].category = category}

(***************************************************************************)
(* Functions, in files without inline assembly.                            *)
(***************************************************************************)
Plain == pc = "line" /\ \A n \in DOMAIN lines : ~HasToken(lines[n], "asm")

Starts == {n \in DOMAIN lines : StartsFunction(lines[n]) /\ HasBody(lines, n)}
Ends == {n \in DOMAIN lines : ~StartsFunction(lines[n]) /\ EndsFunction(lines[n])}

\* The lines of the function that starts on line s, up to its end.
BodyOf(s) ==
  LET e == Min({n \in Ends : n > s} \union {Len(lines) + 1})
  IN {n \in s + 1 .. e - 1 : ~StartsFunction(lines[n]) /\ ~NoCode(lines[n])}

TooLong(s) == Cardinality(BodyOf(s)) > BaseTrigger(FunctionName(lines[s])) * Power[verbose_level]

\* The lone brace that ends the last function that started before it.
IsEndOf(n, before) == before # {} /\ \A e \in Ends : ~(Max(before) < e /\ e < n)

\* The line that ends a function is reported exactly when the function is longer
\* than allowed, and then with a confidence that the verbosity lets through; a
\* lone brace before any function is not (_FunctionState.Count and Check).
FunctionSizesExact ==
  Plain => \A n \in Ends : n < linenum =>
    LET before == {s \in Starts : s < n}
        reports == RaisedAt(n, <<"readability", "fn_size">>)
    IN /\ IsEndOf(n, before) => (TooLong(Max(before)) <=> reports # {})
       /\ before = {} => reports = {}
       /\ verbose_level <= MaxLevel =>
            \A i \in reports : raised[i].confidence >= verbose_level

(***************************************************************************)
(* Includes, in files without inline assembly.                             *)
(***************************************************************************)
IncludeAt(n) == n \in DOMAIN lines /\ lines[n].dir = "include"
NewAt(n) == IncludeAt(n) /\ \A m \in 1 .. n - 1 : IncludeAt(m) => lines[m].arg.path # lines[n].arg.path
KindAt(n) == ClassifyInclude(File.name, lines[n].arg.path, lines[n].arg.sys)

\* The headers before line n in its group: the includes since the last #ifdef,
\* #else or #endif.
GroupBefore(n) ==
  {m \in 1 .. n - 1 : NewAt(m) /\ \A k \in m .. n : lines[k].dir \notin {"ifdef", "else", "endif"}}

\* The place of a header: its own first, then C, C++, and the others.
PlaceOf(n) ==
  CASE KindAt(n) = "c" -> C_SECTION
    [] KindAt(n) = "cpp" -> CPP_SECTION
    [] KindAt(n) \in {"likely", "possible"}
       /\ (\A m \in GroupBefore(n) : KindAt(m) \in {"likely", "possible"}) -> MY_H_SECTION
    [] OTHER -> OTHER_H_SECTION

\* A system header is reported as misplaced exactly when a header of a later
\* place came before it in its group, and a header that the file has before, in
\* whatever branch, is reported as a second one (CheckNextIncludeOrder).
IncludesExact ==
  Plain => \A n \in 1 .. linenum - 1 : IncludeAt(n) =>
    /\ RaisedAt(n, <<"build", "include_order">>) # {} <=>
         /\ NewAt(n)
         /\ KindAt(n) \in {"c", "cpp"}
         /\ \E m \in GroupBefore(n) : PlaceOf(m) > PlaceOf(n)
    /\ ~NewAt(n) => RaisedAt(n, <<"build", "include">>) # {}

(***************************************************************************)
(* Braces.                                                                 *)
(***************************************************************************)
\* Whether line n counts: walking back from it, every #else met belongs to
\* a conditional that the line is not in.
LineCounts(n) ==
  LET Walk(acc, m) ==
        CASE lines[m].dir \in {"if", "ifdef", "ifndef"} -> Append(acc, FALSE)
          [] lines[m].dir = "else" /\ acc # <<>> -> Append(Front(acc), TRUE)
          [] lines[m].dir = "endif" /\ acc # <<>> -> Front(acc)
          [] OTHER -> acc
  IN TRUE \notin ToSet(FoldLeft(Walk, <<>>, [m \in 1 .. n |-> m]))

Depth ==
  LET Brace(d, t) == CASE t = "{" -> d + 1
                       [] t = "}" -> Max({0, d - 1})
                       [] OTHER -> d
      Line(d, n) == IF LineCounts(n) THEN FoldLeft(Brace, d, lines[n].toks) ELSE d
  IN FoldLeft(Line, 0, [n \in 1 .. linenum - 1 |-> n])

OpenBlocks == Cardinality({i \in DOMAIN ActiveStack : ActiveStack[i].seen_open_brace})
HasHead == \E n \in DOMAIN lines : \E w \in Classes \union {"namespace"} : HasToken(lines[n], w)

\* No block is lost: as many blocks are open as braces of the lines that count,
\* and only the head of a class or namespace that a brace closes instead of its
\* block can leave more; a head whose brace has not come has no block above it
\* (Update).
DepthKept ==
  pc = "line" => /\ OpenBlocks >= Depth
                 /\ ~HasHead => OpenBlocks = Depth
                 /\ \A i \in 1 .. Len(stack) - 1 :
                      stack[i].seen_open_brace \/ stack[i + 1].kind # "block"

(***************************************************************************)
(* Brackets, over the text of the first file.                              *)
(***************************************************************************)
\* Texts of up to MaxBrackets tokens, and the words of n pairs that balance.
MaxBrackets == 6
Balanced ==
  LET f[n \in Nat] ==
        IF n = 0 THEN {<<>>}
        ELSE {<<o>> \o u \o <<ClosedBy[o]>> \o v : o \in Opening, u \in UNION {f[k] : k \in 0 .. n - 1},
                                                  v \in UNION {f[k] : k \in 0 .. n - 1}}
  IN [n \in 0 .. MaxBrackets \div 2 |-> {w \in f[n] : Len(w) = 2 * n}]

Text == [n \in DOMAIN run.files[1].lines |-> run.files[1].lines[n].toks]
Reading == FlattenSeq([n \in DOMAIN Text |-> [i \in DOMAIN Text[n] |-> <<n, i>>]])
Places == ToSet(Reading)
BracketText == pc = "arguments" /\ run.files # <<>> /\ Cardinality(Places) <= MaxBrackets
TokenAt(p) == Text[p[1]][p[2]]
NotAfter(p, q) == p[1] < q[1] \/ (p[1] = q[1] /\ p[2] <= q[2])
Between(p, q) == {r \in Places : NotAfter(p, r) /\ NotAfter(r, q)}

BracketsBetween(p, q) ==
  LET places == SelectSeq(Reading, LAMBDA r : r \in Between(p, q) /\ TokenAt(r) \in Opening \union Closing)
  IN [k \in DOMAIN places |-> TokenAt(places[k])]

Place(c, back) == <<c.line, c.pos - back>>
Closed(p) == Place(CloseExpression(Text, p[1], p[2]), 1)
Reversed(q) == Place(ReverseCloseExpression(Text, q[1], q[2]), 0)
Matched(p) == CloseExpression(Text, p[1], p[2]).pos # NotFound
\* The second half of << is no bracket.
IsBracket(p) == TokenAt(p) # "<" \/ Before(Text[p[1]], p[2]) # "<"

IsBalanced(w) == w # <<>> /\ w \in Balanced[Len(w) \div 2]
FirstBalanced(p, end) ==
  /\ end \in Places /\ IsBalanced(BracketsBetween(p, end))
  /\ \A q \in Places : IsBalanced(BracketsBetween(p, q)) => NotAfter(end, q)

\* The end of an expression in parentheses, brackets or braces is the one
\* that balances it, whatever < and > stand between (CloseExpression).
ClosesBalanced ==
  BracketText =>
    \A p \in Places : TokenAt(p) \in Opening =>
      IF \E q \in Places : IsBalanced(BracketsBetween(p, q))
      THEN FirstBalanced(p, Closed(p))
      ELSE ~Matched(p)

\* From the end that was found, the search backwards finds the start again,
\* for every kind of bracket (ReverseCloseExpression).
CloseInverse ==
  BracketText =>
    \A p \in Places : IsBracket(p) /\ Matched(p) => Reversed(Closed(p)) = p

ArgumentsWithin(p, end) ==
  \A r \in Between(p, end) \ {p, end} :
    (\A x \in Between(r, end) : TokenAt(x) \notin {"{", "}", ";", "<"})
      => InTemplateArgumentList(Text, r[1], r[2])

\* A position inside < and > that match, with nothing but words, commas and
\* matching brackets up to the end, is in a template argument list.
ArgumentsRecognised ==
  BracketText =>
    \A p \in Places : TokenAt(p) = "<" /\ IsBracket(p) /\ Matched(p) =>
      ArgumentsWithin(p, Closed(p))
=============================================================================
