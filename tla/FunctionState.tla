--------------------------- MODULE FunctionState ----------------------------
(***************************************************************************)
(* _FunctionState and CheckForFunctionLengths of src/cpplint.py: the lines *)
(* of a function are counted from its brace to the first line that is a    *)
(* lone closing brace in the first column.                                 *)
(***************************************************************************)
EXTENDS LintLine

CONSTANTS
  NormalTrigger, \* _NORMAL_TRIGGER: lines of a function at verbosity 0
  TestTrigger    \* _TEST_TRIGGER: the same for a test

ASSUME Triggers == NormalTrigger \in Nat \ {0} /\ TestTrigger \in Nat \ {0}

VARIABLES
  in_a_function,
  lines_in_function,
  current_function    \* "" before the first, "TEST" for a test, else "function"

functionVars == <<in_a_function, lines_in_function, current_function>>

Words == {"x", "class", "struct", "namespace", "asm", "extern", "MACRO", "TEST"}
MaxLevel == 5

\* A line starts a function when words of its first column run up to a
\* parenthesis and the last is no macro.
StartsFunction(l) ==
  /\ l.indent = 0
  /\ \E k \in 1 .. Len(l.toks) - 1 :
       /\ l.toks[k + 1] = "("
       /\ \A i \in 1 .. k : l.toks[i] \in Words
       /\ l.toks[k] # "MACRO"

\* The first line from linenum on that shows whether there is a body.
BodyLines(lines, linenum) ==
  {n \in linenum .. Len(lines) : \E t \in {";", "}", "{"} : HasToken(lines[n], t)}

HasBody(lines, linenum) ==
  /\ BodyLines(lines, linenum) # {}
  /\ LET l == lines[Min(BodyLines(lines, linenum))] IN ~HasToken(l, ";") /\ ~HasToken(l, "}")

EndsFunction(l) == l.indent = 0 /\ l.toks = <<"}">>

FunctionName(l) == IF l.toks[SelectInSeq(l.toks, LAMBDA t : t = "(") - 1] = "TEST"
                   THEN "TEST" ELSE "function"

Power[n \in Nat] == IF n = 0 THEN 1 ELSE 2 * Power[n - 1]

\* _FunctionState.Check
BaseTrigger(name) == IF name = "TEST" THEN TestTrigger ELSE NormalTrigger

ErrorLevel(count, base) == Max({k \in 0 .. MaxLevel : Power[k] <= count \div base})

CheckLength(name, count, verbosity, linenum) ==
  LET base == BaseTrigger(name) IN
  IF count <= base * Power[verbosity] THEN <<>>
  ELSE <<Error(linenum, <<"readability", "fn_size">>, ErrorLevel(count, base))>>

FunctionInit ==
  /\ in_a_function = FALSE
  /\ lines_in_function = 0
  /\ current_function = ""

FunctionReset ==
  /\ in_a_function' = FALSE
  /\ lines_in_function' = 0
  /\ current_function' = ""

FunctionErrors(lines, linenum, verbosity) ==
  LET l == lines[linenum] IN
  CASE StartsFunction(l) ->
         When(BodyLines(lines, linenum) = {}, Error(linenum, <<"readability", "fn_size">>, 5))
    [] ~StartsFunction(l) /\ EndsFunction(l) ->
         CheckLength(current_function, lines_in_function, verbosity, linenum)
    [] OTHER -> <<>>

\* A mutant: the lines of the function before are kept.
BeginKept(name) ==
  /\ in_a_function' = TRUE
  /\ current_function' = name
  /\ UNCHANGED lines_in_function

\* _FunctionState.Begin
Begin(name) ==
  /\ in_a_function' = TRUE
  /\ lines_in_function' = 0
  /\ current_function' = name

\* _FunctionState.End
End == in_a_function' = FALSE /\ UNCHANGED <<lines_in_function, current_function>>

\* _FunctionState.Count
Count ==
  /\ lines_in_function' = lines_in_function + IF in_a_function THEN 1 ELSE 0
  /\ UNCHANGED <<in_a_function, current_function>>

CheckForFunctionLengths(lines, linenum) ==
  LET l == lines[linenum] IN
  \/ StartsFunction(l) /\ HasBody(lines, linenum) /\ Begin(FunctionName(l))
  \/ StartsFunction(l) /\ ~HasBody(lines, linenum) /\ UNCHANGED functionVars
  \/ ~StartsFunction(l) /\ EndsFunction(l) /\ End
  \/ ~StartsFunction(l) /\ ~EndsFunction(l) /\ ~NoCode(l) /\ Count
  \/ NoCode(l) /\ UNCHANGED functionVars
=============================================================================
