# A TLA+ model of spaction

spaction computes the bound of a formula of *CLTL* over a model. CLTL is LTL with
two cost operators, `UN` (an until that may fail `N` times) and `RN` (its dual);
the value of a formula of CLTL[<=] on a word is the least `N` it holds at, that of a
formula of CLTL[>] the greatest. The program translates the formula to a Büchi
automaton with counters, multiplies it with the model, and looks for the supremum of
the values of the accepting runs of the product. Everything runs in one thread;
what is hard is the algorithms, the order in which they work, arithmetic on
`unsigned int` and the objects they share. The repository also holds the program its
sources are checked with, `src/cpplint.py`, the longest file of all: a state machine
over the lines of a file, in Python.

Paths below are relative to `src/spaction/` unless they start with `src/`.

## 1. Inventory

### The system and how its parts interact

```
 src/spactiontest/main.cpp ── cltlparse ──> CltlFormulaFactory ──> formulae
        │                                                            │ to_nnf, to_dnf
        ▼                                                            ▼
 find_bound_max (spotcheck.cc) ── DIRECT ──> CltlTranslator ──> CounterAutomaton
        │  CEGAR: InstantiateSup, spot emptiness check                │
        │                                                            ▼
        └──────────────> SupremumFinder <── MinMaxConfigTS <── CounterAutomatonProduct
                                                                     ▲
                                             model (spot) ── TGBA2CA ┘
```

All interaction is by calls. Shared state is the factory's index of formulae, the
transitions a transition system owns and its handles count, and transition systems
that are views of others (products, configurations, adapters) and compute their
transitions when an iterator asks for them.

| Component | State it keeps | Operations | What is hard | What makes it correct |
|---|---|---|---|---|
| Search for the maximum, `find_bound_max`, `find_max_direct`, `find_max_cegar` (`src/spotcheck.cc`) | the value so far, the formula of the next pass | one exploration, or passes: check, value of the counterexample, new formula | the value has to grow; a bound that wraps; formulae the translator refuses | returns the supremum, ends, asserts only past the bound |
| Dichotomies `find_bound_{min,max}_dichoto` | `min`, `max` | doubling, bisecting | doubling wraps to 0; `min + max`; thresholds 0 and 1; a formula spot cannot read | the last bound before the check changes its answer; ends |
| `SupremumFinder` | DFS stack, components, arcs, orders of visit, removals remembered | visit, ignore, merge, backtrack and remove, early return | what was computed when a configuration was seen is used after others merged with it | stacks match; dead configurations lead nowhere; the answer is the supremum |
| `MinMaxConfigTS` (`ConfigurationAutomaton.h`) | none: a configuration holds state, value, counters | successors | increments, checks and resets of one transition, in that order; wrap | finite; a component has one value |
| `CltlTranslator` | nodes, two stacks, counters and acceptance sets, transitions | map, reduce, fire, close | order of the work; inconsistent nodes; the removal of epsilon transitions; counters shared by instances | accepts at each bound the words of the formula; ends |
| Formulae (`CltlFormula`, `UnaryOperator`, `BinaryOperator`, …) | height, fragment | `to_nnf`, `to_dnf`, `is_infltl`, … | the two fragments swap under negation | equivalent results, in form, in the same fragment |
| Instantiators | the bound | instance at `n` | operators nested in operators | the instance holds where the formula does at `n` |
| `CltlFormulaFactory` | index of live formulae | constructors, abbreviations, deleter | entries that expire while others are made | one live object per formula |
| `TransitionSystemProduct` | none | iterators over transitions, over states | two iterators that advance as one, and end together | each compatible pair once |
| `CounterAutomatonProduct` | sizes of the left operand | build and split labels | renumbering | a label built and split is the same |
| `UndeterministicTransitionSystem` | states, transitions by label | add, successors | a label is looked up exactly | |
| `CounterAutomaton`, labels | a letter, operations, a cached hash | | a hash not invalidated | |
| Transition handles (`TransitionPtr`, `ControlBlock`, `SmartBlock`) | blocks with a count and a pointer, the pool of a view's transitions | look at an iterator, copy, move, assign, destroy, end of the system | an assignment that counts twice or not at all; addresses given out again; the owner gone first | no handle dangles; freed once, with the last handle |
| Adapters `TGBA2CA`, `CA2tgba`, `cltl2spot` | spot objects | conversions | BDD variables, memory | |
| `RegisterAutomaton` | states, registers | add and follow transitions | references to temporaries | |
| Parser, logger, printers, hash, command line, build files | – | – | – | – |

The style checker, `src/cpplint.py`:

```
 main ── ParseArguments ──> _CppLintState <── Error <── every check
   └─ ProcessFile ── ProcessFileData ── ProcessLine ──┬─ NestingState.Update
                          │                           ├─ CheckForFunctionLengths (_FunctionState)
   before and after the loop: guards, copyright,      ├─ CheckStyle, which reads the nesting
   comments, headers required, ends of files          └─ CheckLanguage (_IncludeState)
```

| Component | State it keeps | Operations | What is hard | What makes it correct |
|---|---|---|---|---|
| Driver | the file, its lines | options, skip, open, line, close, exit | lines rewritten before they are read; inline assembly; several files | every line in order, all state reset between files |
| Reports (`_CppLintState`, `Error`, NOLINT) | filters, verbosity, counts, the suppressions by line number | set, suppress, reset, report, count | suppressions are global and by line number; the last filter wins | printed is what is asked for and not excused; counts agree |
| Nesting (`NestingState`) | stack of blocks, stack of conditionals, the previous top | `Update`, `CheckCompletedBlocks` | `#else` and `#endif` take the stack back; heads without their brace; several blocks on a line | the blocks are those of the lines of the first branches |
| Functions (`_FunctionState`) | in a function, its lines, its name | `Begin`, `Count`, `Check`, `End` | nothing is reset by `End`; any lone brace ends | a report for each function that is too long |
| Includes (`_IncludeState`) | headers so far, section, last header | order, duplicates, headers required | the section starts anew at each directive, the headers do not | a header misplaced or repeated is reported, no other |
| Brackets | none | `CloseExpression`, `ReverseCloseExpression`, `InTemplateArgumentList` | `<` and `>` are brackets or operators, told apart only later | the end found balances; forwards and backwards agree |
| Checks that read the nesting | none | `CheckAccess`, blank lines, sections, `CheckStyle` | | |
| Patterns on a line | none | some forty functions | | |

`PROJECT.json` lists every component with what is modelled of it, and under
`hazards` the places where it can go wrong that a test would hardly reach.

### Facts about the code that shape the model

* One thread, no persistence, no timeouts. The nondeterminism that is left: which
  counterexample spot returns; which value is met first when one is past the
  bound; the order of formulae of one height in a node, which is the order of
  their addresses (`CltlFormula.h` height comparison, then pointers); whether the
  build keeps assertions.
* `unsigned int` wraps. Every width is a constant `Wrap`, the number of values.
* The style checker is one process that reads each file once, in order; what it
  keeps between lines and files is module-level Python objects. Its input is any text:
  the model ranges over all files of a few lines, legal C++ or not.
* `find_bound_min` (`include/spotcheck.h:50`) is declared and defined nowhere. The
  dichotomies are defined, and nothing calls them.
* Undefined behaviour met: `successors()` keeps a pointer to a state wrapper that
  dies with the statement (`src/automata/CltlTranslator.cpp:355`, `:367`,
  `TransitionSystemPrinter.h:58`). It is modelled by the outcome where the storage
  is intact; the others read memory outside of the program's state.

## 2. Modules

| Module | Models | How state and actions correspond |
|---|---|---|
| `BoundFinder` | what `find_bound_max` promises | abstract: from a bound, one answer, once |
| `BoundSearch` | both dichotomies | `min`, `max`, `result` are the code's; a probe per action: `ProbeZero`, `Grow`, `Bisect`, `Return`. The checker is its threshold: the first bound at which it changes its answer (fragments are monotone in the bound, `FragmentMonotone`). `Exit` is the parse error of `spot_dve_check`: only `spot_check_inf` rewrites the quotes of the propositions |
| `MaxSearch` | `find_bound_max` and the two strategies | `res`, `first`, `required` (the `n` of `phi`); `Direct`; `Check`, `Throw`, `Refine` for one pass of the CEGAR loop. A word is the values of its runs |
| `ConfigurationAutomaton` | `MinMaxConfigTS` | `Successor(c, e)`: increments, check, reset of each counter, then the minimum; counters modulo `Wrap` |
| `SupremumFinder` | `find_supremum` | `todo`, `root`, `arc`, `h`, `num` and `max_val`. One action per branch of the loop: `Backtrack` (with `remove_component`, both ways), `Visit`, `Ignore`, `Merge` (with the acceptance test and the early return), `Finish`. `AnswerExact` is the reference definition of the supremum |
| `MCSupremumFinder` | – | automata to search |
| `CltlFormula` | the factory's constructors | a formula is a tuple `<<operator, operands>>`; equality of tuples is that of the shared objects |
| `FormulaRewriting` | `to_nnf`, `to_dnf`, fragments, heights, instantiators | recursive operators with the case analysis of the code |
| `LassoWord` | – | reference semantics of CLTL at a bound on ultimately periodic words, from the docs of the formulae |
| `FormulaCalls`, `MCFormulaCalls` | the calls a client makes of a formula | `CallNnf`, `CallDnf`, `CallInf`, `CallSup` |
| `CltlTranslator` | the translator | `MapOperator` (counters and acceptance sets), `Reduce`, `Fire`, `Close` (the removal of epsilon transitions from one state), each with its exception or assertion; `rank` is the order of addresses |
| `CounterRuns`, `MCCltlTranslator` | – | whether a counter automaton accepts a lasso at a bound; the formulae |
| `LabelProduct` | labels of `CounterAutomatonProduct` | `Build`, `Lhs`, `Rhs`, `IsFalse` |
| `SystemProduct`, `MCSystemProduct` | iterators of `TransitionSystemProduct` | `i`, `j` are `_lhs`, `_rhs`; `Begin` (constructor), `Skip` (its loop), `Take` (dereference and `++`), `Land` (states), `End`. `right` is the kind of the right operand: one that stores its transitions by label, or `TGBA2CA`, which adapts a model and delivers all of them whatever the label |
| `TransitionHandles`, `MCTransitionHandles` | `TransitionPtr`, both control blocks, the transitions of a view or a stored system | `data` is `_data` of each handle; `heap` what exists; `Dereference` (`operator*` of an iterator), `CopyConstruct`, `MoveConstruct`, `CopyAssign`, `MoveAssign`, `Destroy`, `Store`, `End`. `UseFreed` is an operation on a block that is gone, whose effect is not followed. History variables: `forgotten`, an assignment dropped a handle without counting it; `overdrawn`, the blocks on which a move assignment left a handle that they do not count |
| `LintLine` | a line of C++ | the record of what the regular expressions find in it: directive, indentation, tokens, marks of comments, NOLINT, headers it needs |
| `LintBrackets` | the searches for the other end of a bracket | `CloseExpression`, `ReverseCloseExpression`, `InTemplateArgumentList` |
| `NestingState` | the class of that name | `stack`, `pp_stack`, `previous_stack_top` as in the code; `Update` is `UpdatePreprocessor` and then a pipeline over the tokens of the line, as its loop is |
| `ActiveNesting` | – | abstract: a reader that knows beforehand which lines count |
| `FunctionState`, `IncludeState` | `_FunctionState`, `_IncludeState`, the checks that keep them | the variables are the code's fields |
| `ErrorReport` | `_CppLintState`, NOLINT, `Error` | checks hand over events, errors and NOLINT comments met on the way, in the order of the code; `Handle` goes through them |
| `BlockChecks` | `CheckAccess`, blank lines of `CheckSpacing`, `CheckSectionSpacing`, labels of `CheckStyle` | operators from the nesting and the lines to errors |
| `LintFile` | `main` to `ProcessLine` | `ParseArguments`, `SkipFile`, `OpenFile`, `ProcessLine`, `CloseFile`, `Exit` |
| `LintProperties`, `MCLint` | – | what the script should do, stated against the text of the files; the files, by feature |
| `NatLemmas`, `*_proof` | – | lemmas and proofs |

`MaxSearch` composes two components by what they promise: `find_supremum` returns
what `AnswerExact` of `SupremumFinder` says, and a word has the values
that `LanguageExact` (checked in `MCCltlTranslator`) says its automaton gives.
`MaxSearch` is shown to implement `BoundFinder`. The dichotomies do not: what they return is next to the bound (section 4). `LintFile`
composes the parts of the style checker: an action of it is a step of each of them, in
the order of the code, and `LintFile` is shown to implement `ActiveNesting` under the
mapping `ActiveStack`, `SeenElse`: the blocks of the lines that count are those open
when the outermost conditional whose `#else` was met met it. The operators introduced
as a mutant, or as a "Variant with a bug", are used by no specification: they are
mistakes the properties are known to catch (`mutants` in `PROJECT.json`).

### The plan

Done, in this order: dichotomies; the configuration automaton and the supremum
search; formulae; the translator; the maximum search; the products; their proofs;
handles on transitions, with their proofs; the style checker, and the proof that its
nesting follows the first branches; the answer of the supremum search, the
completeness of the translation and the refinement by the maximum search, proved;
the counts of the style checker, the functions and the includes it reports, that
what it prints is what is wanted, and that its nesting loses no block, proved.

Next:

1. `FormulaIndex`: the factory's index with objects that expire; one live object
   per formula (refined by the tuples of `CltlFormula`).
2. An end to end composition, translator to product to configuration automaton to
   search, for a formula and a small model: the supremum of the formula itself.
3. `RegisterAutomaton`.

## 3. Runs

Each run is `tlc -config <cfg> <module>`; all finish in seconds but `supremum`
and `handles` (a minute or so each) and `lint` (two minutes or so).

| Run | What it asks | Bounds, and why they are enough |
|---|---|---|
| `bound_search` | Does a dichotomy return the last bound before the check changes its answer, and end; where does its arithmetic wrap? | `Wrap = 32`, all 33 thresholds, both functions, formulae with and without propositions. The doubling passes through every power of two up to the wrap, and a bisection has several steps. The proofs are for every power of two |
| `supremum` | Is the answer the supremum, over every way components are found, merged and removed? | Two families. *Counting*: all automata of two states, up to two transitions each, with a counter that is left alone, incremented or checked and reset; `Wrap = 3` so that counters wrap and bound 1 so that values pass it. *Merging*: after one value, all graphs of three states, up to two transitions from two of them and one from the third, two acceptance sets (up to the symmetry of the sets). Three states are the least at which a component merges twice, and a transition into a removed one comes after a merge. Both ways of removing |
| `formula_calls` | Are rewritten formulae equivalent and in their fragment? Are instances exact? | Every formula of height up to three over two propositions (right operands of the top operator from a smaller set), all lassos of up to two letters and those of three with a stem. Every case of `to_nnf` and `to_dnf` is met with every operator under it |
| `formula_nnf` | Is `to_nnf` equivalent for every formula? | Same. Violated: finding 1 |
| `formula_nested` | Are instances of nested cost operators exact? | One formula, lassos of three letters. Violated: finding 2 |
| `translator` | Does the automaton accept at each bound exactly the words of the formula; does the translation end and lose no state? | 18 formulae (7 CLTL[<=], 6 CLTL[>], 5 LTL) chosen so that each rule of reduction meets each other, with every order of addresses and both builds, two formulae that are not translated (one throws, one recurses for ever), and one with a contradiction that only its rewriting would show; all lassos of up to three letters, bounds 0 to 2 |
| `translator_restarted` | The same for a release that is started again while pending | `(G^N a) U b`. Violated: finding 4 |
| `max_search` | Do both strategies return the supremum, and end? | `Wrap = 8`. All models of two words with up to two values of 0..3, finite or not, under bounds that fit; and models with words of every value, under bounds that do not |
| `max_search_repeating` | Does a search always end with an answer? | One model. Violated: finding 3 |
| `system_product` | Is each compatible pair delivered once, with both iterators ending together? | All pairs of sequences of up to two transitions of any label, or three of different ones, including none; four labels left, three right with counters and four without; every label of the product asked for, of a right operand that stores its transitions and of one that adapts a model |
| `handles` | Does any order of copies, moves, assignments and ends of life leave a handle on what is gone, free twice or leak? | Three handles, three blocks, three transitions, counts from -4 to 4 (one below 0 stands for one that wrapped), a view and a stored system; addresses and handles up to symmetry. Three handles are the least at which a block is shared by two while a third takes it or leaves it, and a count can be above the number of handles; addresses are given out again. The proofs are for any number of each |
| `lint` | Are the reports, the counts, the nesting, the functions, the includes and the brackets of the style checker those its text asks for? | Every file of 3 to 5 lines (two lines or one for brackets) over the lines that matter to a feature, twelve features: `blocks`, `branches`, `classes`, `one_liners` for the nesting, `functions`, `includes`, `tests` (the header of a test), `reports` and `guards` (two files, all options), `endings` (what `main` ends with), `one_line` (texts of up to five tokens) and `two_lines` (of up to two on each of two lines). Thresholds that are large in the code (`_NORMAL_TRIGGER`, lines of a namespace or a class, lines searched for a copyright) are constants, given 1 or 2, so that files of these lengths pass them. Five lines take a conditional with two branches and a block in each; five tokens the least text in which a `<` is met before its fate is known and a bracket closes past it |

Type correctness is a theorem (`TypeCorrect` of four modules) and not run again. Action
properties: `Raises` (each pass of the loop raises the value). Refinements: `AnswersOnce` of
`MaxSearch`, `SkipsElseBranches` of the style checker. `lint` states all else against
the text: for instance `IncludesExact` looks for a misplaced header among the lines of
its group, and knows nothing of sections.

### Fairness

The program is one thread that nothing else holds up: it always takes its next
step, so every specification with a liveness property has weak fairness of its
whole next-state relation and of no part of it. What is nondeterministic in a
step (which counterexample, which order) stays free. `FormulaCalls`, `TransitionHandles`
and `LintFile` have no fairness: a call or a line is one step, what the clients of the
handles do is up to them, and no property of these is about what must come.

Every system but two ends by stuttering at its last state (`Terminated`, `Stopped`,
`Returned`), so that deadlock is checked: a state in which the code has something to
do and the model has no step would be reported. `handles` and `lint` really stop, at the
end of the transition system and of the script, and are not checked for it.

Liveness has two preconditions. `Terminates` of `BoundSearch` is for thresholds
of at most half the range: past it the doubling wraps and the search goes on for
ever, which `LargeBoundsDiverge` proves. `Terminates` of `MaxSearch` is for models
whose values the bound covers: with values past every number the CEGAR loop has
no last counterexample. `Terminates` of `CltlTranslator` counts a recursion
without end as an end (`pc = "overflow"`): the property is that every other loop ends.

## 4. Findings

Each is a run that TLC reports violated, in `PROJECT.json`:

1. `src/UnaryOperator.cpp:57`: the normal form of a negated binary operator is
   its dual over operands that are not negated.
2. `src/Instantiator.cpp:107`: an instance unrolls the outer cost operator
   at smaller bounds, and takes the inner ones at these bounds too. The comment
   inside the function restricts it to LTL operands; the doc of the class does not.
3. `src/spotcheck.cc:341`: the CEGAR loop conjoins the formula and an instance
   of it, which share the untils without cost; the translator throws on
   the second occurrence of one.
4. `src/automata/CltlTranslator.cpp:229`: the instances of one cost release that
   are pending share a counter, which counts from the oldest: in `(G^N a) U b` the
   automaton accepts words at bounds the formula does not hold at.

The passing runs exclude what these are about and nothing more: `KeepsFragment`
speaks of every formula; `FlatInstanceExact` of cost operators
not nested; `OneUseOfACounter` of tableaux in which no contradiction was fired; `LanguageExact` is run on CLTL[>] formulae whose releases are not
restarted while pending. `DnfEquivalent` is about formulae in negation normal form.

Seen, and not made a run:

* `src/automata/CltlTranslator.cpp:302`: a node none of whose reductions is consistent is
  fired as if it were reduced, and a trace goes on through it. What it holds is then
  reduced a second time on the way, and the assertion at 386, that a counter meets at
  most one operation between two letters, fails: on `F^N(X b) && (!a && (a && a))`
  every build with assertions stops. `ContradictionFired` is this case.
* `include/automata/SupremumFinder.h:231`: an accepting component past the bound is
  answered by a finite value; the comment at 219 calls it infinity. `AnswerExact` says
  nothing of automata with such a value, nor could it of both readings.
* `src/spotcheck.cc:448`: infinity is returned as -1, which as an `unsigned int` is
  also the largest value; callers cannot tell.
* `src/spotcheck.cc:164`: `find_bound_min_dichoto` returns the last bound at which no
  execution satisfies the instance, so one less than the inf of `include/spotcheck.h:49`
  (but 0 for 0, so that 0 stands for 0 and 1); for `find_bound_max_dichoto` the todo at
  180 says that a +1 is probably missing. `ResultExact` states what is returned, not
  that it is the bound.
* `src/spotcheck.cc:175`: `spot_check_sup` leaves the single quotes that `dump` puts
  around propositions, which `spot_check_inf` replaces "to please spot" (131): the
  search for a maximum then ends the program at its first probe, whatever the formula,
  unless it has no proposition.
* `include/automata/CounterAutomatonProduct.h:326`: the successors of a label are asked
  of each component with the letter of the product, so those of other letters that join
  to it are missed, as the todo there says; and `TGBA2CA.h:295` does not select by label
  at all, so more may come than asked for. `AskedDelivered` says what is left: no false
  transition, the left part as asked, and nothing of the very letter missed.
* `src/BinaryOperator.cpp:78`: the left conjunct is distributed over a disjunction only
  if the right one is no binary operator, so the result of `to_dnf` need not be in
  disjunctive form.
* `src/spotcheck.cc:184`: the comment exchanges true and false.
* `src/spactiontest/main.cpp:194`: the usage says `direct` and `cegar` where the code
  compares with capitals.
* `include/automata/TransitionSystem.h:357`: a move onto one of several handles of
  another block leaves that handle on a block that no longer counts it, where a
  `shared_ptr` (314) would take the other block: the block goes with a handle still on
  it, and what that handle does next is undefined (`UseFreed`). Nothing in the
  repository assigns so. The block is then `overdrawn`, and the properties of
  `TransitionHandles` are about all the others.
* `src/cpplint.py`, lines of the file: the count of a function is kept after its end, so
  that the next lone brace reports it again (853), a NOLINT on its last line (2586)
  notwithstanding: `FunctionSizesExact` says nothing of lone braces after the end; after a
  misplaced header `_last_header` is not the header before, as 612 says; an unended
  comment is reported a line below (1154), and a NOLINT on the line it is reported on is
  not read, though the usage (69) speaks of any line; a NOLINT or a bad character inside a
  comment of several lines is never seen (1635), but that a header guard reported there
  obeys its NOLINT and makes it count for later errors of the line (1560); `_previous_stack_top` is an alias of
  what it should preserve (2189); a filter without a sign is in the usage and refused
  (`SetFilters`); a verbosity past 5 hides `fn_size` whatever the length; `/*/` counts
  as a whole comment; the head of a class whose brace is on a later line is its last
  line too, so `CheckSectionSpacing` skips it; the parentheses of `#if defined(X)`
  end the head of a class that has no brace yet.

## 5. Proofs

`NatLemmas` holds what these need of numbers: least and greatest elements, an
induction over sets of naturals (`NatSetInduction`) and the existence and uniqueness of a
sequence of iterates (`Iteration`), the library's own inductions being out of the provers'
reach.

All theorems hold for every value of the constants under the named assumptions,
which TLC evaluates on each run: `WrapAssumption` (`Wrap` is a power of two, as
the number of values of an unsigned type is), `ConfigurationAssumption` (at least
one counter, finitely many), `AutomataAssumption`, `MaxSearchAssumption` (typed
inputs), `OffsetAssumption`, `OperandsAssumption` (labels have as many lists of
operations as their automaton has counters: what the code asserts when it builds one) and
`HandlesAssumption` (finitely many handles, as a program has; null is no address), `AcceptanceAssumption` (a
transition is in acceptance sets its automaton declares, of which there are
finitely many: they are numbers below its size in every class that makes
one, `src/automata/CltlTranslator.cpp:414`, `TGBA2CA.h:73`,
`CounterAutomatonProduct.h:158`) and `InputsAssumption` (the order of the formulae of a
node is one of the finitely many subformulae of the input, in which an operand is below
its operator: heights first, then the addresses of objects that the factory shares,
`src/automata/CltlTranslator.cpp:75`), `RunAssumption` (files are lists of lines as they
are written down, and a verbosity is a natural number, as in the usage,
`src/cpplint.py:84`), `CategoriesAssumption` (there is no error of a category that is
not listed, `src/cpplint.py:140`: a NOLINT can name each), `Triggers` and `PathAssumption` (the limits of a function and the
order of the headers are positive). `Power` stands for `2 **` and the comments of a file
are found by one fold, because the provers know neither `2 ^ n` nor how to follow a
record that is rebuilt at every line.

* `BoundSearch_proof`. The bracket is not inductive alone: where it starts depends on
  the doubling. `Inv` adds that, while the bound grows, `max` is below the threshold
  and is 0 or such that `2 * max` divides `Wrap`; so the only wrap of the doubling is
  the one to 0, right after `Half`, `max` is at most `Half` in the bisection, and a
  threshold past `Half` is never bracketed. From it `TypeCorrect`,
  `BracketCorrect`, `ResultCorrect`, `NoWrapInBisection` and `LargeBoundsDiverge`.
* `SupremumFinder_proof`. Four invariants, each on the one before. `StackDiscipline`
  is not inductive: that a component is left under every merge comes from the first
  one having index 1 and only the initial configuration being visited first. `Inv` adds
  that (`Orders`, `Path`). From it `TypeCorrect` and `StacksCorrect`: no top is read off
  an empty stack. `Shape` is the depth-first search: the path goes along transitions
  and its components are the segments of the order of visit, what was looked at of a
  configuration was visited, and what a component removes is exactly what it has
  visited (`RemovedExact`: the walk of `remove_component` reaches the whole
  component and nothing else). `Linked` adds that the configurations of a component lead
  to each other; as values only ever decrease along a path (`LeadsBelow`), they have one
  value. From these `DeadComponentsClosed` and `ComponentsHaveOneValue`. `Account` says
  what the maximum stands for: the conditions of a component are carried by transitions
  inside of it and an arc by one between two (`Carried`, `Arcs`), every accepting
  component closed so far is counted, on the stack (`Recorded`) or gone
  (`DeadRecorded`), and nothing else is (`Attained`). When the path is empty all
  components are gone, and `AnswerIsTheSupremum` follows: the answer is the one of
  the definition over reachable components, for every automaton, width and bound that
  covers the values (past it, the search answers by the first value it meets).
* `MaxSearch_proof`. `Inv` adds that the value known is one of the model and
  that `required` is the next one, and that the counterexample has what was
  required. When no word satisfies `required`, no value is above the one known. From
  it `TypeCorrect`, `SupremumCorrect`, `AbortCorrect`, `PassesRaise`, and `Refinement`:
  the step that answers is the return of `BoundFinder`, with the bound it is given, and
  every other step a stutter. The existence of a greatest value is `GreatestNat` in
  `NatLemmas`, by the well-foundedness of the naturals.
* `CltlTranslator_proof`. `Inv` says that what an edge of the tableau or a transition leads
  to was processed or waits on a stack (`NoneLost`, by which `AutomatonIsComplete`),
  and that an edge is a reduction of its source, or the firing of a node that has none
  (`Built`). `TrailDescends` is the heart of `CountersUsedOnce`: on a way down each
  formula reduced is below the one before in the order of the node, since a reduction
  takes the highest and adds operands of it, and what it postpones is never reduced. So
  none is reduced twice and a transition does to a counter what one reduction does. The
  lemma is false without `~ContradictionFired`: the finding of section 4 came of the
  attempt to prove it.
* `SystemProduct_proof`. `Inv` says where the iterators stand in each phase
  and that what was delivered is exactly the compatible pairs before
  that position, in order; `NextPosition` is the lemma that an increment moves to the
  very next pair. `PartsOfBuilt` and `BuiltOfParts` show that building and
  splitting labels are inverse. From these `TypeCorrect`, `EndsTogether`,
  `EveryPairVisited`, `NoPairTwice`, `ApartCorrect`, and `AskedCorrect`, which counts
  the pairs that answer a label in both operands against those delivered.

* `TransitionHandles_proof`. That no handle dangles needs the counts: `Fits` says that
  every block pointed to exists and that its count is at least the number of its
  handles, unless the block is `overdrawn`. It is kept by every operation, the assignments that forget a handle
  included, because those only leave a count too high. `Exact` says more, that the
  counts are equal and every such block has a handle, and lasts until `forgotten`. `Owned`
  ties blocks to transitions: in a view each transition has one block and the pool is
  all of them, so a release finds what it frees and no address is refused. This holds of overdrawn
  blocks too, as long as no block that is gone is used: only those can be, which
  `UseFreedCorrect` shows. `DropKeeps`, `AddKeeps`, `MoveKeeps`, `LowerKeeps` and
  `LeaveKeeps` are one lemma for each thing an operation does to a handle; an
  assignment is a drop followed by one of the others.
  From it `NoHandleDangles`, `LastHandleFrees` and `EachFreedOnce`.
* `LintProperties_proof`. Six theorems on the style checker, for files and command
  lines of any size. `FirstBranchesAlone`: every step is a step of `ActiveNesting` or
  leaves its state alone. The reading of a line (`Rest`) is never expanded: the theorem
  is about the two stacks of `UpdatePreprocessor`, for any code between the directives.
  What a directive may do is `Follows`, proved for `#if`, `#else` and `#elif`, `#endif`
  each: when the next line counts, the stack is the abstract one, and when it does not,
  the abstract one stays where it is saved, whatever becomes of the stack.

  `CountsAgreeWithPrinted` comes from `CountInv`: `Shapes` (the report state is of the
  type the checks hand over), `RaisedBefore` (what is raised is of the files read so far),
  `Counts` (total and bag are those of what is printed) and `Outcome`. A step handles
  all events of a line at once, by a fold; `ReportedFacts` follows the fold event by
  event, and `BagGrows` is the bag after one more error.

  The next two say what is reported on a line and so need to know which checks report
  what: `Watched` are the three categories of the two properties, and each other check
  hands over errors of the `Common` ones alone, on its own lines (`Own`), proved check
  by check. Without inline assembly no block of
  the stack is one of assembly (`NoAsmBlock`, `Kept`), so every line is read.
  `FunctionInv` reads the fields of `_FunctionState` off the text of the file
  (`Followed`): the last start before the line, the lines of its body counted so far,
  and whether its end came; `FunctionsReported` says what is reported at every lone brace
  already processed, and `LongFunctionsReported` follows, which speaks of the ends of
  functions. `IncludeInv` does the same for
  `_IncludeState` (`Included`): the headers it has are those of the lines before, and
  its section is the greatest place in the group since the last `#ifdef`, `#else` or
  `#endif`; `MisplacedIncludesReported` follows.

  `WantedIsPrinted` is about every event of a step in turn. `PrintInv` says that the
  errors printed are those wanted of the ones raised (`Selected`), that the settings are
  those of the last option of each name (`Settings`; `ParsedFacts` and `FilteredIs` follow
  the two folds of the options and of the filters), and, while a file is read, that the
  NOLINT comments noted are those of the lines before the one to be looked at, but for
  the lines of comments, and of the guards that were reported (`PrintFollowed`). That
  suffices because an error comes after the NOLINT that counts for it and before any
  other that would (`Timely`): an error of `ProcessLine` is on the line it reads and
  follows the NOLINT of that line, those after the last line find all of them noted, and
  of those before the first the guard is the only one on a line whose NOLINT is read, by
  that check itself (`StartingGuard`); the end of a comment is looked for before the
  lines are (`StartingEnd`). The proof uses `CategoriesAssumption`: an error of a
  category that is not listed could not be silenced. A first form of the property was
  false, and the attempt to prove it showed why: the check of the guard reads the NOLINT
  of a line within a comment.

  `NoBlockLost` compares the stack with the braces of the text. Of one stack and one
  number of open braces, `Keeps` says that no fewer blocks are open, that as many are
  when no head of a class or a namespace is about, and that nothing is above a head that
  awaits its brace but other heads; the last is what makes `{` open the right block and `;`
  drop the right one. `RestKeeps` carries it through a line, token by token, against the
  braces open after each (`Depths`): the namespaces, which skip to a brace, the class
  head, the label, then `Consume`, where a head that `}` removes is the one way for a
  block to stay too long. `DepthInv` is `Keeps` for the stack of the lines that count;
  which lines those are comes from the conditionals around them, so it also says that
  the `#else`s the checker has met are those found by walking the text, and uses
  `UpdateReads`, the step of `FirstBranchesAlone`, for the rest: a line that does not
  count leaves that stack alone.
  The folds over lines, directives, tokens and namespaces are each unfolded to a list of
  states (`LineStates` to `ConsumeSteps`), which is what an induction can be about.

### Only model-checked

* Liveness, which needs ENABLED: every `Terminates`.
* What recursion over formulae, words and automata computes: `FormulaRewriting`,
  `LassoWord` and `CounterRuns` declare recursive operators, so the properties of
  `FormulaCalls` and `LanguageExact`, which are about them, are checked alone.
* `ClosesBalanced`, `CloseInverse` and `ArgumentsRecognised` are about every text of a
  bounded number of brackets. For longer texts the first needs an induction over
  balanced words. The other two hold of the tokens of the run and not of every text:
  before a `>`, `FindEndOfExpressionInLine` looks for the word `operator` in a text one
  character too short (`src/cpplint.py:1325`), where `FindStartOfExpressionInLine` takes
  it whole (`src/cpplint.py:1421`), so the two do not agree on `operator>`. There is then
  no theorem for all texts to state.

## 6. Not modelled

* spot, divine and what adapts them (`TGBA2CA`, most of `CA2tgba`, `cltl2spot`): their
  code is not in the repository. A model is the words it has, a check is whether one
  satisfies a formula.
* The index of the factory and the deleter of its formulae: planned. The formulae
  are tuples, equal when the shared objects are.
* Clients that end a transition system before the handles on its transitions: the doc of
  `operator*` forbids it (`TransitionSystem.h:149`).
* Of the style checker, the checks that compare one line with a pattern (operators, casts,
  commas, `printf` formats and the like), the wording and the formats of the output,
  the error for NUL bytes, the exemption of lines that end with a backslash from
  `CheckSectionSpacing`,
  raw strings and the name of a header guard, which are part of how a line is
  written down.
* `DeterministicTransitionSystem`: nothing built includes it, and it overrides a class
  that `TransitionSystem` no longer has.
* `RegisterAutomaton`: `main` does not run it. Planned last.
* Parser (generated by bison and flex), logger, printers, hash values, statistics,
  option parsing, build files: no behaviour of the above depends on them.
