---------------------------- MODULE CltlTranslator ----------------------------
(***************************************************************************)
(* CltlTranslator (src/spaction/src/automata/CltlTranslator.cpp): a        *)
(* tableau of the formula, whose nodes are sets of formulae, is built by   *)
(* reducing the highest formula of each node and firing the nodes reduced; *)
(* then every path of reductions up to a firing becomes one transition of  *)
(* a counter automaton.  One action is one turn of a loop.                 *)
(*                                                                         *)
(* A node is the set of its terms, which the code sorts and makes unique.  *)
(* A counter, and an acceptance set, is named by the formula it is for.    *)
(* Heights are compared, and addresses when they are equal: rank.          *)
(***************************************************************************)
EXTENDS CltlFormula, Integers, FiniteSets

CONSTANT Inputs  \* the translations: records [formula, rank, debug]

Operands(f) ==
  IF IsBinary(f) THEN <<Left(f), Right(f)>>
  ELSE IF IsUnary(f) THEN <<Operand(f)>> ELSE <<>>

BinaryOperators == {"or", "and", "until", "release", "costuntil", "costrelease"}

(* The order ranks all the subformulae, a binary one above its operands,   *)
(* and no two binary ones the same, since one pointer is one formula.      *)
Orders(r, f) ==
  LET subformulae == DOMAIN r IN
  /\ f \in subformulae
  /\ \A g \in subformulae :
       /\ r[g] \in 0 .. Cardinality(subformulae)
       /\ \A i \in DOMAIN Operands(g) : Operands(g)[i] \in subformulae
       /\ IsBinary(g) => /\ Operator(g) \in BinaryOperators
                         /\ r[Left(g)] < r[g] /\ r[Right(g)] < r[g]
                         /\ \A h \in subformulae : IsBinary(h) /\ r[h] = r[g] => h = g

ASSUME InputsAssumption ==
  \A i \in Inputs :
    i.debug \in BOOLEAN /\ IsFiniteSet(DOMAIN i.rank) /\ Orders(i.rank, i.formula)

Operation == {"increment", "check", "reset"}

VARIABLES
  formula,      \* the formula, in negation normal form
  rank,         \* the order of its subformulae, by height first
  debug,        \* the build checks its assertions
  pc,           \* "map", "reduce", "fire", "close", "done"; "thrown" for an
                \* exception, "aborted" for an assertion, "overflow" for a
                \* recursion without end
  toMap,        \* subformulae map_costop_to_counters has still to visit
  counters,     \* the formulae given a counter
  acceptances,  \* the formulae given an acceptance set
  toReduce,     \* stack of the nodes to reduce
  toFire,       \* stack of the nodes to fire
  processed,    \* nodes that were reduced
  edges,        \* transitions of the tableau
  toClose,      \* states whose transitions are to be built
  closed,       \* states whose transitions are built
  transitions   \* transitions of the counter automaton

input == <<formula, rank, debug>>
tableau == <<toReduce, toFire, processed, edges>>
automaton == <<toClose, closed, transitions>>
vars == <<input, pc, toMap, counters, acceptances, tableau, automaton>>

Init ==
  /\ \E i \in Inputs : formula = i.formula /\ rank = i.rank /\ debug = i.debug
  /\ pc = "map"
  /\ toMap = <<formula>> /\ counters = {} /\ acceptances = {}
  /\ toReduce = <<{formula}>> /\ toFire = <<>> /\ processed = {} /\ edges = {}
  /\ toClose = {{formula}} /\ closed = {} /\ transitions = {}

-----------------------------------------------------------------------------
(* map_costop_to_counters: a counter for each cost operator, an acceptance *)
(* set for each of them and for each until.  A formula met twice throws.   *)
MapOperator ==
  /\ pc = "map" /\ toMap # <<>>
  /\ LET f == Head(toMap)
         postponable == IsCost(f) \/ Operator(f) = "until"
     IN /\ counters' = IF IsCost(f) THEN counters \cup {f} ELSE counters
        /\ acceptances' = IF postponable THEN acceptances \cup {f} ELSE acceptances
        /\ toMap' = Operands(f) \o Tail(toMap)
        /\ pc' = IF postponable /\ f \in acceptances THEN "thrown" ELSE pc
  /\ UNCHANGED <<input, tableau, automaton>>

Mapped ==
  /\ pc = "map" /\ toMap = <<>> /\ pc' = "reduce"
  /\ UNCHANGED <<input, toMap, counters, acceptances, tableau, automaton>>

-----------------------------------------------------------------------------
(* Node::is_consistent: no constant false, no formula with its negation.   *)
Consistent(node) ==
  /\ False \notin node
  /\ \A f \in node : Operator(f) = "not" => Operand(f) \notin node

Binaries(node) == {f \in node : IsBinary(f)}

(* Node::is_reduced. *)
Reduced(node) == Binaries(node) = {}

(* Variant with a bug: the first one is.                                   *)
Lowest(node) == CHOOSE f \in Binaries(node) : \A g \in Binaries(node) : rank[f] <= rank[g]

(* Terms are sorted by height and the last binary one is reduced.          *)
Highest(node) == CHOOSE f \in Binaries(node) : \A g \in Binaries(node) : rank[g] <= rank[f]

(* The alternatives a formula is reduced to: the terms that replace it,    *)
(* the operations on its counter, and whether it is postponed.             *)
Alternative(terms, ops, postponed) == [terms |-> terms, ops |-> ops, postponed |-> postponed]
Plain(terms) == Alternative(terms, {}, FALSE)

Expansion(f) ==
  LET l == Left(f) r == Right(f) later == Next(f) IN
  CASE Operator(f) = "or" -> <<Plain({l}), Plain({r})>>
    [] Operator(f) = "and" -> <<Plain({l, r})>>
    [] Operator(f) = "until" -> <<Plain({r}), Alternative({l, later}, {}, TRUE)>>
    [] Operator(f) = "release" -> <<Plain({l, r}), Plain({r, later})>>
    [] Operator(f) = "costuntil" ->
         <<Alternative({r}, {"reset"}, FALSE), Alternative({l, later}, {}, TRUE),
           Alternative({later}, {"increment", "check"}, TRUE)>>
    [] Operator(f) = "costrelease" ->
         <<Alternative({l, r}, {"check", "reset"}, FALSE), Plain({r, later}),
           Alternative({l, r, later}, {"increment"}, FALSE)>>

(* Variant with a bug: the formula postponed is not recorded.              *)
ReductionForgets(node, f, alt) ==
  [src |-> node, dst |-> (node \ {f}) \cup alt.terms,
   props |-> {}, acts |-> {<<f, op>> : op \in alt.ops}, postponed |-> {}]

Reduction(node, f, alt) ==
  [src |-> node, dst |-> (node \ {f}) \cup alt.terms,
   props |-> {}, acts |-> {<<f, op>> : op \in alt.ops},
   postponed |-> IF alt.postponed THEN {f} ELSE {}]

IfConsistent(e) == IF Consistent(e.dst) THEN <<e>> ELSE <<>>

(* _build_epsilon_successors: the consistent reductions of the node, in    *)
(* the order they are built.                                               *)
Reductions(node) ==
  IF Reduced(node) THEN <<>>
  ELSE LET f == Highest(node)
           alts == Expansion(f)
           Built(i) == IF i \in DOMAIN alts THEN IfConsistent(Reduction(node, f, alts[i])) ELSE <<>>
       IN Built(1) \o Built(2) \o Built(3)

Targets(es) == [i \in DOMAIN es |-> es[i].dst]

(* Variant with a bug: no node is known, and all are reduced again.        *)
UnknownNode(s) == FALSE

(* Node::is_processed.                                                     *)
Known(s) == s \in processed

(* A turn of _process_reduce.  A node without a successor, because it is   *)
(* reduced or because none is consistent, is to be fired.                  *)
Reduce ==
  /\ pc = "reduce" /\ toReduce # <<>>
  /\ LET s == toReduce[Len(toReduce)]
         rest == SubSeq(toReduce, 1, Len(toReduce) - 1)
         es == Reductions(s)
     IN \/ Known(s) /\ toReduce' = rest /\ UNCHANGED <<toFire, processed, edges>>
        \/ /\ ~Known(s)
           /\ processed' = processed \cup {s}
           /\ edges' = edges \cup {es[i] : i \in DOMAIN es}
           /\ \/ es = <<>> /\ toFire' = Append(toFire, s) /\ toReduce' = rest
              \/ es # <<>> /\ toReduce' = rest \o Targets(es) /\ UNCHANGED toFire
  /\ UNCHANGED <<input, pc, toMap, counters, acceptances, automaton>>

AllReduced ==
  /\ pc = "reduce" /\ toReduce = <<>> /\ pc' = "fire"
  /\ UNCHANGED <<input, toMap, counters, acceptances, tableau, automaton>>

(* _build_actual_successor: the operands of the next formulae, reached     *)
(* under the other terms.  The transition system asserts that both ends    *)
(* are states of it; only consistent nodes are, so that a build with       *)
(* assertions stops here, and one without goes on.                         *)
Firing(node) ==
  LET nexts == {f \in node : Operator(f) = "next"} IN
  [src |-> node, dst |-> {Operand(f) : f \in nexts},
   props |-> node \ nexts, acts |-> {}, postponed |-> {}]

Fire ==
  /\ pc = "fire" /\ toFire # <<>>
  /\ LET e == Firing(toFire[Len(toFire)])
         fails == debug /\ ~(Consistent(e.src) /\ Consistent(e.dst))
     IN /\ toFire' = SubSeq(toFire, 1, Len(toFire) - 1)
        /\ edges' = edges \cup {e}
        /\ toReduce' = Append(toReduce, e.dst)
        /\ pc' = IF fails THEN "aborted" ELSE pc
  /\ UNCHANGED <<input, toMap, counters, acceptances, processed, automaton>>

(* Variant with a bug: the construction stops when either stack is empty.  *)
AllFiredStops ==
  /\ pc = "fire" /\ toFire = <<>> /\ pc' = "close"
  /\ UNCHANGED <<input, toMap, counters, acceptances, tableau, automaton>>

AllFired ==
  /\ pc = "fire" /\ toFire = <<>>
  /\ pc' = IF toReduce = <<>> THEN "close" ELSE "reduce"
  /\ UNCHANGED <<input, toMap, counters, acceptances, tableau, automaton>>

-----------------------------------------------------------------------------
(* _process_remove_epsilon goes down from a state until it leaves a        *)
(* reduced node; the edges it took are a trace.  Descents gives, for a     *)
(* number n, those that have taken n edges more than the first one.  When one is  *)
(* longer than there are nodes it comes back where it was, and the         *)
(* recursion has no end.                                                   *)
Out(node) == {e \in edges : e.src = node}
Source(t) == t[Len(t)].src
Sink(t) == t[Len(t)].dst

Descents(s) ==
  LET Longer[n \in Nat] ==
        IF n = 0 THEN {<<e>> : e \in Out(s)}
        ELSE UNION {{Append(t, e) : e \in Out(Sink(t))} :
                      t \in {u \in Longer[n-1] : ~Reduced(Source(u))}}
  IN Longer

Traces(s) ==
  {t \in UNION {Descents(s)[n] : n \in 0 .. Cardinality(processed)} : Reduced(Source(t))}

RecursesForever(s) == \E t \in Descents(s)[Cardinality(processed)] : ~Reduced(Source(t))

Indices(t) == 1 .. Len(t)
ActsOf(t) == UNION {t[i].acts : i \in Indices(t)}

(* The letter is that of the first edge that has one, without true.        *)
Lettered(t) == {i \in Indices(t) : t[i].props # {}}
LetterOf(t) ==
  IF Lettered(t) = {} THEN {}
  ELSE t[CHOOSE i \in Lettered(t) : \A j \in Lettered(t) : i <= j].props \ {True}

(* _add_nonepsilon_transition.                                             *)
TransitionOf(s, t) ==
  [src |-> s, dst |-> Sink(t), letter |-> LetterOf(t), acts |-> ActsOf(t),
   accs |-> acceptances \ UNION {t[i].postponed : i \in Indices(t)}]

(* Its assertions: a counter is acted on once, and the last edge only has  *)
(* propositions.                                                           *)
TraceFails(t) ==
  \/ \E i, j \in Indices(t) : i # j /\ \E a \in t[i].acts, b \in t[j].acts : a[1] = b[1]
  \/ Lettered(t) \notin {{}, {Len(t)}}

(* The sinks to be closed in their turn.                                   *)
Unclosed(built) == {t.dst : t \in built} \ closed

Close ==
  /\ pc = "close"
  /\ \E s \in toClose :
       IF RecursesForever(s)
       THEN pc' = "overflow" /\ UNCHANGED automaton
       ELSE LET ts == Traces(s)
                built == {TransitionOf(s, t) : t \in ts}
            IN /\ transitions' = transitions \cup built
               /\ closed' = closed \cup {s}
               /\ toClose' = (toClose \cup Unclosed(built)) \ closed'
               /\ pc' = IF debug /\ \E t \in ts : TraceFails(t) THEN "aborted" ELSE pc
  /\ UNCHANGED <<input, toMap, counters, acceptances, tableau>>

Finish ==
  /\ pc = "close" /\ toClose = {} /\ pc' = "done"
  /\ UNCHANGED <<input, toMap, counters, acceptances, tableau, automaton>>

Stopped == pc \in {"done", "thrown", "aborted", "overflow"} /\ UNCHANGED vars

Step ==
  \/ MapOperator \/ Mapped \/ Reduce \/ AllReduced \/ Fire \/ AllFired
  \/ Close \/ Finish \/ Stopped

(* One thread: it always takes its next step.                              *)
Spec == Init /\ [][Step]_vars /\ WF_vars(Step)
-----------------------------------------------------------------------------
(* What a reduction of a formula may do to its counter.                    *)
Uses(c) ==
  CASE Operator(c) = "costuntil" -> {{}, {"reset"}, {"increment", "check"}}
    [] Operator(c) = "costrelease" -> {{}, {"increment"}, {"check", "reset"}}
    [] OTHER -> {{}}

(* A node that can be reduced, to nothing consistent, is fired as it is.   *)
ContradictionFired == \E s \in processed : ~Reduced(s) /\ Reductions(s) = <<>>

(* A transition, which adds up the operations of a whole trace, does to a  *)
(* counter what one reduction of its formula does: no formula is reduced   *)
(* twice on the way (the assertion of CltlTranslator.cpp:386), unless the  *)
(* trace goes on through a contradiction that was fired.                   *)
OneUseOfACounter ==
  ~ContradictionFired =>
    \A t \in transitions, c \in counters : {op \in Operation : <<c, op>> \in t.acts} \in Uses(c)

(* The automaton is built from finished parts of the tableau: every state  *)
(* it has to go down from was reduced before, and when it is done it has   *)
(* the transitions of every state it leads to, so none loses successors.   *)
Complete ==
  /\ pc \in {"close", "done"} => toClose \cup closed \subseteq processed
  /\ pc = "done" => {t.dst : t \in transitions} \subseteq closed

(* The translation ends.                                                   *)
Terminates == <>(pc \in {"done", "thrown", "aborted", "overflow"})
=============================================================================
