------------------------ MODULE ConfigurationAutomaton ------------------------
(***************************************************************************)
(* Configurations of a counter automaton                                   *)
(* (src/spaction/include/automata/ConfigurationAutomaton.h): a state of    *)
(* the automaton, the value of the run so far, and the value of every      *)
(* counter.  MinMaxConfigTS computes the successors of a configuration on  *)
(* the fly, from the transitions of its state.                             *)
(*                                                                         *)
(* An automaton is [init, accs, edges]: edges gives each state its         *)
(* transitions in the order they are iterated over, each [ops, acc, dst]   *)
(* where ops gives each counter the set of operations applied to it.       *)
(***************************************************************************)
EXTENDS Integers, FiniteSets, Sequences

CONSTANTS
  State,     \* states of the counter automata
  Counter,   \* counters: positions of the vectors, one at least
  Wrap,      \* the number of values of unsigned int, 2^32 in the build
  Acceptance \* acceptance sets the automata can have

ASSUME ConfigurationAssumption ==
  /\ Wrap \in Nat \ {0}
  /\ Counter # {} /\ IsFiniteSet(Counter)

Operation == {"increment", "check", "reset"}
Edge == [ops : [Counter -> SUBSET Operation],
         acc : SUBSET Acceptance, dst : State]
Automaton == [init : State, accs : SUBSET Acceptance, edges : [State -> Seq(Edge)]]

Unsigned == 0 .. Wrap-1
Configuration == [state : State, bounded : BOOLEAN, value : Unsigned,
                  counters : [Counter -> Unsigned]]

(* default_config: no value yet, every counter at zero. *)
DefaultConfig(q) ==
  [state |-> q, bounded |-> FALSE, value |-> 0, counters |-> [k \in Counter |-> 0]]

LeastOf(S) == CHOOSE m \in S : \A n \in S : m <= n

(* operator*: on every counter, an increment, then a check, then a reset.  *)
Incremented(c, e) ==
  [k \in Counter |->
     IF "increment" \in e.ops[k] THEN (c.counters[k] + 1) % Wrap ELSE c.counters[k]]

Checked(c, e) ==
  {Incremented(c, e)[k] : k \in {j \in Counter : "check" \in e.ops[j]}}

(* Variant with a bug: a check forgets the value of the run before it.     *)
CandidatesLatest(c, e) ==
  IF Checked(c, e) = {} /\ c.bounded THEN {c.value} ELSE Checked(c, e)

(* The values the new value is the least of: the old one if there is one.  *)
Candidates(c, e) == Checked(c, e) \cup (IF c.bounded THEN {c.value} ELSE {})

Successor(c, e) ==
  [state    |-> e.dst,
   bounded  |-> c.bounded \/ Checked(c, e) # {},
   value    |-> IF Candidates(c, e) = {} THEN c.value ELSE LeastOf(Candidates(c, e)),
   counters |-> [k \in Counter |->
                   IF "reset" \in e.ops[k] THEN 0 ELSE Incremented(c, e)[k]]]

(* The transitions that leave a configuration, those of its state.         *)
Leaving(aut, c) == aut.edges[c.state]

SuccessorsOf(aut, c) ==
  {Successor(c, Leaving(aut, c)[i]) : i \in 1 .. Len(Leaving(aut, c))}
=============================================================================
