---------------------------- MODULE SupremumFinder ----------------------------
(***************************************************************************)
(* SupremumFinder::find_supremum                                           *)
(* (src/spaction/include/automata/SupremumFinder.h): the greatest value of *)
(* the accepting strongly connected components of a configuration          *)
(* automaton, by Couvreur's depth first search, which merges the           *)
(* components it closes a cycle over and tests them for acceptance as they *)
(* grow.  One action is one turn of the search loop.                       *)
(*                                                                         *)
(* The automaton, the bound and the way components are removed are fixed   *)
(* in the initial state.  An iterator is the sequence of the transitions   *)
(* still to be looked at.                                                  *)
(***************************************************************************)
EXTENDS ConfigurationAutomaton

CONSTANTS
  Automata,  \* the automata searched
  Bounds     \* values of the bound given to find_supremum

ASSUME AutomataAssumption ==
  /\ Automata \subseteq Automaton
  /\ Bounds \subseteq Unsigned

(* Transitions are only in acceptance sets the automaton declares: the     *)
(* builders number theirs from 0 and put no other number on a label.       *)
ASSUME AcceptanceAssumption ==
  \A A \in Automata :
    /\ IsFiniteSet(A.accs)
    /\ \A q \in State : \A i \in 1 .. Len(A.edges[q]) : A.edges[q][i].acc \subseteq A.accs

Dead == -1

VARIABLES
  aut, bound, poprem, \* parameters of the search
  todo,               \* the DFS stack: configurations and transitions to see
  root,               \* the stack of components on the DFS path
  arc,                \* acceptance of the arc into each of these components
  h,                  \* the order of visit of each configuration, or Dead
  num,                \* how many configurations were visited
  maxVal,             \* greatest value of an accepting component so far
  pc,                 \* "search" or "done"
  answer              \* what the search returned

params == <<aut, bound, poprem>>
vars == <<aut, bound, poprem, todo, root, arc, h, num, maxVal, pc, answer>>

Top(s) == s[Len(s)]
Pop(s) == SubSeq(s, 1, Len(s) - 1)

Frame(c) == [conf |-> c, rest |-> Leaving(aut, c)]
Component(n) == [index |-> n, conditions |-> {}, rem |-> {}]

Init ==
  /\ aut \in Automata /\ bound \in Bounds /\ poprem \in BOOLEAN
  /\ LET init == DefaultConfig(aut.init) IN
       /\ todo = <<Frame(init)>>
       /\ h = [c \in {init} |-> 1]
  /\ root = <<Component(1)>>
  /\ arc = <<{}>>
  /\ num = 1
  /\ maxVal = 0
  /\ pc = "search"
  /\ answer = [infinite |-> FALSE, value |-> 0]

Searching == pc = "search" /\ todo # <<>>

-----------------------------------------------------------------------------
(* remove_component: either the configurations remembered in rem, or all   *)
(* those that are reached from the given one through live configurations.  *)
Live(S) == {c \in S \cap DOMAIN h : h[c] # Dead}

(* The nodes of a finite graph reached from one of them: next gives each   *)
(* node its successors, and no path needs more steps than there are nodes. *)
ReachedIn(nodes, next, from) ==
  LET Layer[n \in Nat] ==
        IF n = 0 THEN {from} ELSE UNION {{c} \cup next[c] : c \in Layer[n-1]}
  IN Layer[Cardinality(nodes)]

Reached(from) ==
  ReachedIn(DOMAIN h, [c \in DOMAIN h |-> Live(SuccessorsOf(aut, c))], from)

(* Variant with a bug: only the root of a component is removed.            *)
ToRemoveRoot(from) == {from}

ToRemove(from) == IF poprem THEN Top(root).rem \cup {from} ELSE Reached(from)

(* No successor is left: backtrack, and remove the component of the        *)
(* configuration left if it is the root of it.                             *)
Backtrack ==
  /\ Searching
  /\ Top(todo).rest = <<>>
  /\ LET curr == Top(todo).conf
         left == IF poprem THEN [Top(root) EXCEPT !.rem = @ \cup {curr}] ELSE Top(root)
     IN /\ todo' = Pop(todo)
        /\ \/ /\ Top(root).index = h[curr]
              /\ h' = [c \in DOMAIN h |-> IF c \in ToRemove(curr) THEN Dead ELSE h[c]]
              /\ root' = Pop(root)
              /\ arc' = Pop(arc)
           \/ /\ Top(root).index # h[curr]
              /\ root' = [root EXCEPT ![Len(root)] = left]
              /\ UNCHANGED <<h, arc>>
  /\ UNCHANGED <<params, num, maxVal, pc, answer>>

(* The successor looked at, and the stack once its iterator moved on.      *)
Dest(e) == Successor(Top(todo).conf, e)
Advanced == [todo EXCEPT ![Len(todo)].rest = Tail(@)]

(* Variant with a bug: the component takes the number before it is raised. *)
VisitUnnumbered(e) ==
  /\ Dest(e) \notin DOMAIN h
  /\ num' = num + 1
  /\ h' = [c \in DOMAIN h \cup {Dest(e)} |-> IF c = Dest(e) THEN num + 1 ELSE h[c]]
  /\ root' = Append(root, Component(num))
  /\ arc' = Append(arc, e.acc)
  /\ todo' = Append(Advanced, Frame(Dest(e)))
  /\ UNCHANGED <<params, maxVal, pc, answer>>

(* A new configuration: number it, stack it, as a component of its own.    *)
Visit(e) ==
  /\ Dest(e) \notin DOMAIN h
  /\ num' = num + 1
  /\ h' = [c \in DOMAIN h \cup {Dest(e)} |-> IF c = Dest(e) THEN num + 1 ELSE h[c]]
  /\ root' = Append(root, Component(num + 1))
  /\ arc' = Append(arc, e.acc)
  /\ todo' = Append(Advanced, Frame(Dest(e)))
  /\ UNCHANGED <<params, maxVal, pc, answer>>

(* Variant with a bug: the iterator is not moved past it.                  *)
IgnoreAgain(e) ==
  /\ Dest(e) \in DOMAIN h /\ h[Dest(e)] = Dead
  /\ UNCHANGED vars

(* A configuration of a removed component is ignored.                      *)
Ignore(e) ==
  /\ Dest(e) \in DOMAIN h /\ h[Dest(e)] = Dead
  /\ todo' = Advanced
  /\ UNCHANGED <<params, root, arc, h, num, maxVal, pc, answer>>

(* The components the merge pops are those on top of the stack that were   *)
(* opened after the configuration reached.                                 *)
Kept(threshold) == {i \in 1 .. Len(root) : root[i].index <= threshold}
KeptTop(threshold) == CHOOSE i \in Kept(threshold) : \A j \in Kept(threshold) : j <= i

(* Variant with a bug: the acceptance of the arcs between the components   *)
(* popped is lost.                                                         *)
MergedNoArcs(e, k) ==
  LET popped == k + 1 .. Len(root) IN
  [root[k] EXCEPT
     !.conditions = @ \cup e.acc \cup UNION {root[i].conditions : i \in popped},
     !.rem = @ \cup UNION {root[i].rem : i \in popped}]

MergedFrom(e, k) ==
  LET popped == k + 1 .. Len(root) IN
  [root[k] EXCEPT
     !.conditions = @ \cup e.acc \cup UNION {root[i].conditions \cup arc[i] : i \in popped},
     !.rem = @ \cup UNION {root[i].rem : i \in popped}]

IsAccepting(comp) == Cardinality(comp.conditions) = Cardinality(aut.accs)

Raised(d) == IF d.bounded /\ d.value > maxVal THEN d.value ELSE maxVal

(* A configuration of the path closes a cycle: merge the components on it, *)
(* and if the result is accepting use its value.  An unbounded value, or   *)
(* one beyond the bound, ends the search.                                  *)
Merge(e) ==
  /\ Dest(e) \in DOMAIN h /\ h[Dest(e)] # Dead
  /\ LET k == KeptTop(h[Dest(e)])
         comp == MergedFrom(e, k)
         stop == IsAccepting(comp) /\ (~Dest(e).bounded \/ Raised(Dest(e)) > bound)
     IN /\ root' = Append(SubSeq(root, 1, k - 1), comp)
        /\ arc' = SubSeq(arc, 1, k)
        /\ maxVal' = IF IsAccepting(comp) THEN Raised(Dest(e)) ELSE maxVal
        /\ \/ stop /\ todo' = <<>> /\ pc' = "done"
              /\ answer' = IF Dest(e).bounded
                           THEN [infinite |-> FALSE, value |-> maxVal']
                           ELSE [infinite |-> TRUE, value |-> 0]
           \/ ~stop /\ todo' = Advanced /\ UNCHANGED <<pc, answer>>
  /\ UNCHANGED <<params, h, num>>

LookAt ==
  /\ Searching
  /\ Top(todo).rest # <<>>
  /\ LET e == Head(Top(todo).rest) IN Visit(e) \/ Ignore(e) \/ Merge(e)

(* The whole automaton was explored. *)
Finish ==
  /\ pc = "search" /\ todo = <<>>
  /\ pc' = "done"
  /\ answer' = [infinite |-> FALSE, value |-> maxVal]
  /\ UNCHANGED <<params, todo, root, arc, h, num, maxVal>>

Terminated == pc = "done" /\ UNCHANGED vars

Next == Backtrack \/ LookAt \/ Finish \/ Terminated

(* One thread, nothing to wait for: it always takes its next step.         *)
Spec == Init /\ [][Next]_vars /\ WF_vars(Next)

-----------------------------------------------------------------------------
(* The types of the variables of the search. *)
FrameType == [conf : Configuration, rest : Seq(Edge)]
ComponentType == [index : Nat, conditions : SUBSET Acceptance, rem : SUBSET Configuration]

TypeOK ==
  /\ aut \in Automaton /\ bound \in Unsigned /\ poprem \in BOOLEAN
  /\ todo \in Seq(FrameType)
  /\ root \in Seq(ComponentType)
  /\ arc \in Seq(SUBSET Acceptance)
  /\ DOMAIN h \subseteq Configuration
  /\ h \in [DOMAIN h -> Int]
  /\ num \in Nat /\ maxVal \in Unsigned
  /\ pc \in {"search", "done"}
  /\ answer \in [infinite : BOOLEAN, value : Unsigned]

(* The stacks the code reads the top of without a test that precedes it    *)
(* are never empty then, and the indices of the components ascend, which   *)
(* is what makes the merge loop find where to stop (SupremumFinder.h:68,   *)
(* 95, 98, 184-185, and the comment at 176).                               *)
StackDiscipline ==
  /\ Len(root) = Len(arc)
  /\ \A i, j \in 1 .. Len(root) : i < j => root[i].index < root[j].index
  /\ todo # <<>> => root # <<>> /\ root[1].index = 1

(* Configurations on the path are alive, at increasing orders of visit,    *)
(* and each component of the stack is rooted on the path: a removal never  *)
(* takes a configuration the search still has to return to.  And a removed *)
(* component is left by no transition to a live configuration nor to one   *)
(* never seen: ignoring it loses no cycle.                                 *)
DeadClosed ==
  /\ \A i \in 1 .. Len(todo) :
       todo[i].conf \in DOMAIN h /\ h[todo[i].conf] # Dead
  /\ \A i, j \in 1 .. Len(todo) : i < j => h[todo[i].conf] < h[todo[j].conf]
  /\ todo # <<>> =>
       \A i \in 1 .. Len(root) : \E j \in 1 .. Len(todo) : h[todo[j].conf] = root[i].index
  /\ \A c \in DOMAIN h : h[c] = Dead =>
       \A d \in SuccessorsOf(aut, c) : d \in DOMAIN h /\ h[d] = Dead

(* The live configurations of the i-th component of the stack.             *)
Segment(i) ==
  {c \in DOMAIN h : /\ h[c] >= root[i].index
                    /\ i < Len(root) => h[c] < root[i+1].index}

(* "A SCC in this automaton has a single value" (SupremumFinder.h:36): the *)
(* value read off the configuration that closes a cycle is that of all the *)
(* configurations merged with it.                                          *)
SingleValue ==
  \A i \in 1 .. Len(root) : \A c, d \in Segment(i) :
    c.bounded = d.bounded /\ c.value = d.value

(* The graph of the configurations visited, and a configuration of it on a *)
(* cycle, whose component has transitions in every acceptance set.         *)
Onward == [c \in DOMAIN h |-> SuccessorsOf(aut, c) \cap DOMAIN h]
Reach == [c \in DOMAIN h |-> ReachedIn(DOMAIN h, Onward, c)]

InAcceptingComponent(c, reach) ==
  LET scc == {d \in reach[c] : c \in reach[d]}
      inner == UNION {{Leaving(aut, d)[i] :
                         i \in {j \in 1 .. Len(Leaving(aut, d)) :
                                  Successor(d, Leaving(aut, d)[j]) \in scc}} : d \in scc}
  IN inner # {} /\ aut.accs \subseteq UNION {e.acc : e \in inner}

(* What find_supremum returns is the supremum over the accepting           *)
(* components of the configuration automaton, as long as the bound covers  *)
(* the values of those visited; nothing is claimed of values past it.  All *)
(* that was visited is reached from the initial configuration.  The answer *)
(* is infinite only if an accepting component has no value; else nothing   *)
(* is left to visit, and it is the greatest value of accepting components, *)
(* none of which lacks one.                                                *)
AnswerExact ==
  pc = "done" =>
    LET init == DefaultConfig(aut.init)
        reach == Reach
        accepting == {c \in DOMAIN h : InAcceptingComponent(c, reach)}
        covered == \A c \in accepting : c.bounded => c.value <= bound
    IN covered =>
         /\ init \in DOMAIN h /\ reach[init] = DOMAIN h
         /\ IF answer.infinite THEN \E c \in accepting : ~c.bounded
            ELSE /\ \A c \in DOMAIN h : SuccessorsOf(aut, c) \subseteq DOMAIN h
                 /\ \A c \in accepting : c.bounded /\ c.value <= answer.value
                 /\ answer.value = 0 \/ \E c \in accepting : c.value = answer.value

(* The search ends on every automaton: at worst the counters wrap.         *)
Terminates == <>(pc = "done")
=============================================================================
