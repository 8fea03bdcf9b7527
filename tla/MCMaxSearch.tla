----------------------------- MODULE MCMaxSearch ------------------------------
(* Two words with up to three values, and models with words of every value. *)
EXTENDS MaxSearch, FiniteSets

Small == 0 .. 3
Words == {w \in [values : SUBSET Small, infinite : BOOLEAN] :
            Cardinality(w.values) <= 2 /\ (w.infinite \/ w.values # {})}
Models == {{}} \cup {{v, w} : v, w \in Words}

Single(v) == [values |-> {v}, infinite |-> FALSE]
Double(u, v) == [values |-> {u, v}, infinite |-> FALSE]
EveryValue == {Single(v) : v \in UInt}

Worlds1 == [words : Models, bound : {3, 4}, unbounded : {FALSE}, repeats : BOOLEAN]
Growing == [words : {EveryValue, EveryValue \cup {Double(4, 6)}}, bound : {2, 3},
            unbounded : {TRUE}, repeats : BOOLEAN]
MCWorlds == Worlds1 \cup Growing

(* A model, and a formula the disagreement shows on.                       *)
Repeating == [words : {{Single(1), Single(2)}}, bound : {3}, unbounded : {FALSE},
              repeats : {TRUE}]
=============================================================================
