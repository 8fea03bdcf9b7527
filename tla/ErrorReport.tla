---------------------------- MODULE ErrorReport -----------------------------
(***************************************************************************)
(* How src/cpplint.py reports errors: _CppLintState, the NOLINT comments   *)
(* of the current file and Error().  The checks hand over a sequence of    *)
(* events, errors and NOLINT comments met on the way, in the order of the  *)
(* code.                                                                   *)
(***************************************************************************)
EXTENDS LintLine, Bags

CONSTANT ErrorCategories \* _ERROR_CATEGORIES

VARIABLES
  verbose_level, counting, filters,  \* the settings of _CppLintState
  error_count, errors_by_category,   \* its counts
  error_suppressions,                \* _error_suppressions, as pairs of a category and a line
  raised,                            \* every error raised so far, for the properties
  printed                            \* those written out

settingVars == <<verbose_level, counting, filters>>
countVars == <<error_count, errors_by_category>>
reportVars == <<settingVars, countVars, error_suppressions, raised, printed>>

AllCategories == <<"*">>
DEFAULT_FILTERS == << [sign |-> "-", prefix |-> <<"build", "include_alpha">>] >>
UnknownNolint(linenum) == Error(linenum, <<"readability", "nolint">>, 5)

Nolint(linenum, l) == << [line |-> linenum, nolint |-> l.nolint] >>
IsNolint(e) == "nolint" \in DOMAIN e

\* IsErrorSuppressedByNolint
Suppressed(suppressions, e) ==
  suppressions \intersect {<<e.category, e.line>>, <<AllCategories, e.line>>} # {}

\* The last filter that names the category decides.
Filtered(e) ==
  LET Step(out, f) == IF IsPrefix(f.prefix, e.category) THEN f.sign = "-" ELSE out
  IN FoldLeft(Step, FALSE, filters)

\* _ShouldPrintError
ShouldPrint(suppressions, e) ==
  /\ ~Suppressed(suppressions, e)
  /\ e.confidence >= verbose_level
  /\ ~Filtered(e)

\* The name an error is counted under, when errors are counted by category.
CountedAs(e) == IF counting = "detailed" THEN e.category ELSE <<e.category[1]>>

\* A mutant: the whole category is counted whatever the style.
IncrementWhole(r, e) ==
  [r EXCEPT !.count = @ + 1,
            !.by = IF counting \in {"toplevel", "detailed"} THEN @ (+) SetToBag({e.category}) ELSE @]

\* IncrementErrorCount
Increment(r, e) ==
  [r EXCEPT !.count = @ + 1,
            !.by = IF counting \in {"toplevel", "detailed"} THEN @ (+) SetToBag({CountedAs(e)}) ELSE @]

\* The error e, of a file.
InFile(e, file) ==
  [line |-> e.line, category |-> e.category, confidence |-> e.confidence, file |-> file]

\* Error(), for the file r.file
Report(r, e) ==
  LET named == InFile(e, r.file)
      seen == [r EXCEPT !.raised = Append(@, named)]
  IN IF ShouldPrint(r.suppressions, e) THEN [Increment(seen, e) EXCEPT !.printed = Append(@, named)]
     ELSE seen

\* ParseNolintSuppressions
ParseNolint(r, e) ==
  IF e.nolint = <<>> THEN r
  ELSE IF e.nolint = AllCategories \/ e.nolint \in ErrorCategories
  THEN [r EXCEPT !.suppressions = @ \union {<<e.nolint, e.line>>}]
  ELSE Report(r, UnknownNolint(e.line))

Met(r, e) == IF IsNolint(e) THEN ParseNolint(r, e) ELSE Report(r, e)

Reported(r, events) == FoldLeft(Met, r, events)

Current(file) == [file |-> file, suppressions |-> error_suppressions, count |-> error_count,
                  by |-> errors_by_category, raised |-> raised, printed |-> printed]
\* A mutant: the NOLINT comments of the file before are kept.
Remembered(file) == Current(file)

\* ResetNolintSuppressions, at the start of a file.
Forgotten(file) == [Current(file) EXCEPT !.suppressions = {}]

Recorded(r) ==
  /\ error_suppressions' = r.suppressions
  /\ error_count' = r.count
  /\ errors_by_category' = r.by
  /\ raised' = r.raised
  /\ printed' = r.printed
  /\ UNCHANGED settingVars

Handle(before, events) == Recorded(Reported(before, events))

ReportInit ==
  /\ verbose_level = 1
  /\ counting = "total"
  /\ filters = DEFAULT_FILTERS
  /\ error_count = 0
  /\ errors_by_category = EmptyBag
  /\ error_suppressions = {}
  /\ raised = <<>>
  /\ printed = <<>>

(***************************************************************************)
(* ParseArguments: the options are looked at in turn, and set nothing      *)
(* until all of them have been.  exit is what the script ends with, "" if  *)
(* it goes on.                                                             *)
(***************************************************************************)
Option(acc, o) ==
  CASE acc.exit # "" -> acc
    [] acc.exit = "" /\ o.name = "help" -> [acc EXCEPT !.exit = "usage"]
    [] acc.exit = "" /\ o.name = "verbose" -> [acc EXCEPT !.verbosity = o.value]
    [] acc.exit = "" /\ o.name = "filter" ->
         IF o.value = <<>> THEN [acc EXCEPT !.exit = "categories"]
         ELSE [acc EXCEPT !.filters = o.value]
    [] acc.exit = "" /\ o.name = "counting" ->
         IF o.value \in {"total", "toplevel", "detailed"} THEN [acc EXCEPT !.counting = o.value]
         ELSE [acc EXCEPT !.exit = "usage"]
    [] OTHER -> [acc EXCEPT !.exit = "usage"]

\* SetFilters raises ValueError when a filter has no sign.
Parsed(options, nfiles) ==
  LET asked == FoldLeft(Option, [exit |-> "", verbosity |-> verbose_level, filters |-> <<>>,
                                 counting |-> ""], options)
      unsigned == \E i \in DOMAIN asked.filters : asked.filters[i].sign \notin {"+", "-"}
  IN [asked EXCEPT !.exit = CASE asked.exit # "" -> asked.exit
                              [] asked.exit = "" /\ nfiles = 0 -> "usage"
                              [] asked.exit = "" /\ nfiles > 0 /\ unsigned -> "ValueError"
                              [] OTHER -> ""]

SetOptions(asked) ==
  /\ verbose_level' = asked.verbosity
  /\ filters' = DEFAULT_FILTERS \o asked.filters
  /\ counting' = asked.counting
  /\ UNCHANGED <<countVars, error_suppressions, raised, printed>>
=============================================================================
