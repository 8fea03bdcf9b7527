--------------------------- MODULE MCSupremumFinder ---------------------------
(***************************************************************************)
(* The search on small automata: every one of a few states and transitions *)
(* of two kinds, one for the values counters give, one for the components  *)
(* the search merges.                                                      *)
(***************************************************************************)
EXTENDS SupremumFinder, Functions

CONSTANTS q0, q1, q2, q3, cnt, a, b

MCState == {q0, q1, q2, q3}
MCCounter == {cnt}
MCAcceptance == {a, b}

(* The operations CltlTranslator puts on a counter for a cost formula.     *)
None == [j \in MCCounter |-> {}]
Increment == [j \in MCCounter |-> {"increment"}]
CheckReset == [j \in MCCounter |-> {"check", "reset"}]
IncrementCheck == [j \in MCCounter |-> {"increment", "check"}]

Arc(ops, acc, dst) == [ops |-> ops, acc |-> acc, dst |-> dst]

(* The orders of at least m and at most n transitions out of a set.        *)
Orders(S, m, n) == UNION {{s \in [1 .. l -> S] : IsInjective(s)} : l \in m .. n}

(* Every automaton of two states and one acceptance set with at most two   *)
(* transitions from each state, those of q1 accepting, a loop on q0 with no *)
(* check: the values counters give, and configurations that grow until     *)
(* the counter wraps.                                                      *)
Choice(acc) ==
  {Arc(o, acc, d) : o \in {None, Increment, CheckReset}, d \in {q0, q1}}
Counting ==
  {[init |-> q0, accs |-> {a},
    edges |-> [s \in MCState |->
                 CASE s = q0 -> o0 [] s = q1 -> o1 [] OTHER -> <<>>]] :
     o0 \in Orders(Choice({}) \ {Arc(CheckReset, {}, q0)}, 1, 2),
     o1 \in Orders(Choice({a}), 1, 2)}

(* A value, then every graph of three states with two acceptance sets and  *)
(* at most two transitions from two of them: components that merge step by *)
(* step, transitions into removed components, acceptance spread over them. *)
(* The two sets are symmetric, and the first transition of q1 is in a.     *)
Graph(targets) == {Arc(None, c, d) : c \in {{a}, {b}}, d \in targets}
Merging ==
  {[init |-> q0, accs |-> {a, b},
    edges |-> [s \in MCState |->
                 CASE s = q0 -> <<Arc(IncrementCheck, {}, q1)>>
                   [] s = q1 -> o1 [] s = q2 -> o2 [] s = q3 -> o3]] :
     o1 \in {o \in Orders(Graph({q2, q3}), 1, 2) : o[1].acc = {a}},
     o2 \in Orders(Graph({q1, q2, q3}), 0, 2), o3 \in Orders(Graph({q1, q2, q3}), 0, 1)}

MCAutomata == Counting \cup Merging

=============================================================================
