----------------------------- MODULE SystemProduct -----------------------------
(***************************************************************************)
(* The iterators of a product of transition systems                        *)
(* (src/spaction/include/automata/TransitionSystemProduct.h).  It stores   *)
(* nothing: the transitions out of a product state are the pairs of those  *)
(* out of its components whose letters are compatible, found by a pair of  *)
(* iterators that skips the others.  A client goes over the successors of  *)
(* a state, all or those of one label, or over the states.                 *)
(*                                                                         *)
(* An iterator is a position in a sequence, its end the one past the last. *)
(***************************************************************************)
EXTENDS LabelProduct, FiniteSets

CONSTANTS
  Letter, OperationList,  \* sets of formulae; lists of operations
  LeftLabel, RightLabel,  \* labels of the operands
  Operands,  \* pairs of sequences of transitions: what leaves a state of each
  Queries,   \* labels of the product asked for
  NoLabel    \* none asked for

(* A label has a list of operations for each counter of its automaton, and *)
(* acceptance sets of its automaton (CounterAutomatonProduct.h:150).       *)
Labelled == [letter : Letter, ops : Seq(OperationList), accs : SUBSET Nat]

ASSUME OperandsAssumption ==
  /\ LeftLabel \subseteq Labelled /\ RightLabel \subseteq Labelled
  /\ \A l \in LeftLabel :
       Len(l.ops) = CounterOffset /\ \A a \in l.accs : a < AcceptanceOffset
  /\ Operands \subseteq Seq(LeftLabel) \X Seq(RightLabel)
  /\ Queries \subseteq {Build(l, r) : l \in LeftLabel, r \in RightLabel}
  /\ NoLabel \notin Queries

VARIABLES
  kind,      \* what is gone over: "transitions" or "states"
  right,     \* the right component: "stored", or "adapted" (a model)
  operands,  \* what the components have
  asked,     \* the label asked for, if any
  pc,        \* "new", "skip", "at" (an item), "done", "outside" its sequence
  lhs, rhs,  \* the sequences gone over
  i, j,      \* _lhs and _rhs
  visited    \* the pairs of positions dereferenced so far, in order

vars == <<kind, right, operands, asked, pc, lhs, rhs, i, j, visited>>

LEnd == Len(lhs) + 1
REnd == Len(rhs) + 1
Done == i = LEnd /\ j = REnd
Compatible(k, l) == ~IsFalse(Build(lhs[k], rhs[l]))

(* successors() or states() on a component; successors(label) on one that  *)
(* stores its transitions by label.  One that adapts a model delivers all  *)
(* of them whatever the label (TGBA2CA.h:295-297), and has no counters.    *)
Matching(s, label) ==
  [n \in 1 .. Cardinality({k \in 1 .. Len(s) : s[k] = label}) |-> label]
LeftOf(q) == IF q = NoLabel THEN operands[1] ELSE Matching(operands[1], Lhs(q))
RightOf(q) ==
  IF q = NoLabel \/ right = "adapted" THEN operands[2] ELSE Matching(operands[2], Rhs(q))

Init ==
  /\ operands \in Operands
  /\ \/ right = "stored"
     \/ right = "adapted" /\ \A k \in 1 .. Len(operands[2]) : operands[2][k].ops = <<>>
  /\ \/ kind = "states" /\ asked = NoLabel
     \/ kind = "transitions" /\ asked \in Queries \cup {NoLabel}
  /\ pc = "new" /\ lhs = <<>> /\ rhs = <<>>
  /\ i = 1 /\ j = 1 /\ visited = <<>>

(* Where the iterators start: both at their end if there is no pair.  That *)
(* of states does not look at the left one.                                *)
Emptied(l, r) == r = <<>> \/ (kind = "transitions" /\ l = <<>>)

Begin ==
  /\ pc = "new"
  /\ lhs' = LeftOf(asked) /\ rhs' = RightOf(asked)
  /\ IF Emptied(lhs', rhs') THEN i' = Len(lhs') + 1 /\ j' = Len(rhs') + 1
                            ELSE i' = 1 /\ j' = 1
  /\ pc' = "skip"
  /\ UNCHANGED <<kind, right, operands, asked, visited>>

(* incr(): the next pair, or both at their end.                            *)
(* Variants with a bug: the left one does not move at the end of the right *)
(* one; the right one starts again at its last element; the left one       *)
(* starts again.                                                           *)
IncrementRight ==
  IF j + 1 # REnd THEN i' = i /\ j' = j + 1
  ELSE i' = i /\ j' = REnd
IncrementLate ==
  IF j + 1 # REnd THEN i' = i /\ j' = j + 1
  ELSE i' = i + 1 /\ j' = IF i + 1 # LEnd THEN Len(rhs) ELSE REnd
IncrementRound ==
  IF j + 1 # REnd THEN i' = i /\ j' = j + 1
  ELSE i' = (i % Len(lhs)) + 1 /\ j' = 1

Increment ==
  IF j + 1 # REnd THEN i' = i /\ j' = j + 1
  ELSE i' = i + 1 /\ j' = IF i + 1 # LEnd THEN 1 ELSE REnd

(* The loop of the constructor and of operator++ over the transitions.     *)
Skip ==
  /\ pc = "skip" /\ kind = "transitions" /\ ~Done
  /\ IF Compatible(i, j) THEN pc' = "at" /\ UNCHANGED <<i, j>>
                         ELSE Increment /\ UNCHANGED pc
  /\ UNCHANGED <<kind, right, operands, asked, lhs, rhs, visited>>

(* Over the states, nothing is skipped: a position past the end of one     *)
(* component and not of the other is not the end, and is dereferenced.     *)
Land ==
  /\ pc = "skip" /\ kind = "states" /\ ~Done
  /\ pc' = IF i = LEnd \/ j = REnd THEN "outside" ELSE "at"
  /\ UNCHANGED <<kind, right, operands, asked, lhs, rhs, i, j, visited>>

(* The client dereferences the iterator and increments it.                 *)
Take ==
  /\ pc = "at"
  /\ visited' = Append(visited, <<i, j>>)
  /\ Increment
  /\ pc' = "skip"
  /\ UNCHANGED <<kind, right, operands, asked, lhs, rhs>>

End ==
  /\ pc = "skip" /\ Done
  /\ pc' = "done"
  /\ UNCHANGED <<kind, right, operands, asked, lhs, rhs, i, j, visited>>

Stopped == pc \in {"done", "outside"} /\ UNCHANGED vars

Step == Begin \/ Skip \/ Land \/ Take \/ End \/ Stopped

(* One thread: it always takes its next step.                              *)
Spec == Init /\ [][Step]_vars /\ WF_vars(Step)
-----------------------------------------------------------------------------
(* The variables have their types, and the iterators never pass their end. *)
TypeOK ==
  /\ kind \in {"transitions", "states"} /\ right \in {"stored", "adapted"}
  /\ operands \in Operands
  /\ asked \in Queries \cup {NoLabel}
  /\ pc \in {"new", "skip", "at", "done", "outside"}
  /\ lhs \in Seq(LeftLabel) /\ rhs \in Seq(RightLabel)
  /\ i \in 1 .. LEnd /\ j \in 1 .. REnd
  /\ visited \in Seq((1 .. Len(lhs)) \X (1 .. Len(rhs)))

(* Both iterators of a product of transitions reach their end together, as *)
(* the assertions of TransitionSystemProduct.h:151 and 212 say: it is what *)
(* makes done() tell the end, and no dereference is outside a sequence.    *)
EndTogether ==
  /\ pc # "new" /\ kind = "transitions" => (i = LEnd <=> j = REnd)
  /\ pc = "outside" => kind = "states" /\ lhs = <<>>

Delivered(k, l) == kind = "states" \/ Compatible(k, l)
Before(k, l, m, n) == k < m \/ (k = m /\ l < n)

(* What has been dereferenced is every pair before the current one that is *)
(* compatible, and no other.                                               *)
VisitsExact ==
  pc # "new" =>
    {visited[n] : n \in 1 .. Len(visited)} =
      {p \in (1 .. Len(lhs)) \X (1 .. Len(rhs)) :
         Before(p[1], p[2], i, j) /\ Delivered(p[1], p[2])}

(* In order, so that none is twice: a search that keeps the iterator on    *)
(* its stack does not follow a transition again.                           *)
VisitsOnce ==
  \A m, n \in 1 .. Len(visited) :
    m < n => Before(visited[m][1], visited[m][2], visited[n][1], visited[n][2])

(* A transition of the product of which the left one is as a label says,   *)
(* and the right one too if it is stored.                                  *)
Answers(p) ==
  /\ ~IsFalse(p)
  /\ Lhs(p).ops = Lhs(asked).ops /\ Lhs(p).accs = Lhs(asked).accs
  /\ right = "stored" => p = asked

(* What is delivered for a label answers it, and at least all the answers  *)
(* are that the operands give with its very letter: that of both if both   *)
(* are stored, of the left one if the right one adapts a model.  Answers   *)
(* of other letters that join to that of the label may be missed, which    *)
(* CounterAutomatonProduct.h:326-329 leaves to be done.                    *)
AskedDelivered ==
  asked # NoLabel =>
    /\ \A n \in 1 .. Len(visited) :
         Answers(Build(lhs[visited[n][1]], rhs[visited[n][2]]))
    /\ pc = "done" =>
         Len(visited) >= Cardinality(
           {p \in (1 .. Len(operands[1])) \X (1 .. Len(operands[2])) :
              LET l == operands[1][p[1]]
                  r == operands[2][p[2]]
              IN /\ Answers(Build(l, r)) /\ l.letter = asked.letter
                 /\ right = "stored" => r.letter = asked.letter})

(* The counters and acceptance sets of a transition delivered are those of *)
(* its operands, which the search and the emptiness check tell apart.      *)
OperandsApart ==
  kind = "transitions" =>
    \A n \in 1 .. Len(visited) :
      LET l == lhs[visited[n][1]]
          r == rhs[visited[n][2]]
          p == Build(l, r)
      IN Lhs(p).ops = l.ops /\ Lhs(p).accs = l.accs /\ Rhs(p).ops = r.ops /\ Rhs(p).accs = r.accs

=============================================================================
