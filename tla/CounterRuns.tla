----------------------------- MODULE CounterRuns ------------------------------
(***************************************************************************)
(* Which infinite words a counter automaton accepts at a bound, as the     *)
(* reference its translation is checked against: an automaton of CLTL[<=]  *)
(* has a run on which every value checked is at most n, one of CLTL[>] a   *)
(* run on which every value checked is at least n, and the run meets every *)
(* acceptance set again and again.  A transition is a record [src, dst,    *)
(* letter, acts, accs] as CltlTranslator builds it.                        *)
(***************************************************************************)
EXTENDS LassoWord

Op(t, c) == {op \in {"increment", "check", "reset"} : <<c, op>> \in t.acts}

(* A value is counted up to n + 1, which tells all there is to tell.       *)
Counted(t, c, v, n) == IF "increment" \in Op(t, c) /\ v <= n THEN v + 1 ELSE v
ValueAfter(t, c, v, n) == IF "reset" \in Op(t, c) THEN 0 ELSE Counted(t, c, v, n)
Allows(t, c, v, n, atMost) ==
  "check" \in Op(t, c) =>
    IF atMost THEN Counted(t, c, v, n) <= n ELSE Counted(t, c, v, n) >= n

(* The moves along a word from a vertex: state, position, counter values.  *)
Moves(x, transitions, w, n, atMost) ==
  {[from |-> x, accs |-> t.accs,
    to |-> [q |-> t.dst, at |-> Following(w, x.at),
            value |-> [c \in DOMAIN x.value |-> ValueAfter(t, c, x.value[c], n)]]] :
     t \in {u \in transitions :
              /\ u.src = x.q
              /\ \A f \in u.letter : x.at \in Holding(f, w, n)
              /\ \A c \in DOMAIN x.value : Allows(u, c, x.value[c], n, atMost)}}

RECURSIVE Explored(_, _, _, _, _, _)
Explored(frontier, seen, transitions, w, n, atMost) ==
  IF frontier = {} THEN {}
  ELSE LET moves == UNION {Moves(x, transitions, w, n, atMost) : x \in frontier}
           new == {m.to : m \in moves} \ seen
       IN moves \cup Explored(new, seen \cup new, transitions, w, n, atMost)

(* The vertices that have a path of moves to one of T.                     *)
RECURSIVE Reaching(_, _)
Reaching(T, moves) ==
  LET more == {m.from : m \in {k \in moves : k.to \in T}} \cup T
  IN IF more = T THEN T ELSE Reaching(more, moves)

(* The vertices from which a run meets every acceptance set for ever: the  *)
(* largest set where each can reach, in it, a move of each acceptance set. *)
RECURSIVE Fair(_, _, _)
Fair(Z, moves, accs) ==
  LET inside == {m \in moves : m.from \in Z /\ m.to \in Z}
      Of(a) == {m.from : m \in {k \in inside : a \in k.accs}}
      moving == Reaching({m.from : m \in inside}, inside)
      kept == {x \in moving : \A a \in accs : x \in Reaching(Of(a), inside)}
  IN IF kept = Z THEN Z ELSE Fair(kept, inside, accs)

Accepts(start, transitions, counters, accs, w, n, atMost) ==
  LET x == [q |-> start, at |-> 1, value |-> [c \in counters |-> 0]]
      moves == Explored({x}, {x}, transitions, w, n, atMost)
  IN x \in Fair({m.from : m \in moves}, moves, accs)
=============================================================================
