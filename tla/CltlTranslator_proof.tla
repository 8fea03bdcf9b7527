------------------------- MODULE CltlTranslator_proof -------------------------
(***************************************************************************)
(* The translation of CLTL to counter automata loses no node, and what a   *)
(* transition does to a counter is what one reduction does, for every set  *)
(* of formulae and every order of their subformulae.                       *)
(*                                                                         *)
(* The invariant, Inv, says that the end of every edge of the tableau and  *)
(* every state of the automaton was reduced or waits on the stack to be    *)
(* (NoneLost), and that every edge is a reduction, or the firing of a node *)
(* that has none (Built).  On a way down the formulae reduced are then     *)
(* lower and lower (TrailDescends): none is reduced twice.                 *)
(***************************************************************************)
EXTENDS CltlTranslator, NatLemmas, FiniteSetTheorems

(* What is assumed of an input.                                            *)
Ordered == IsFiniteSet(DOMAIN rank) /\ Orders(rank, formula)

(* The formulae a node may hold: subformulae, and those that are postponed. *)
Terms == DOMAIN rank \cup {Next(f) : f \in DOMAIN rank}

Node == SUBSET Terms

Elements(s) == {s[i] : i \in 1 .. Len(s)}

(* What a reduction of a node does, whichever alternative it takes.        *)
IsReduction(e) ==
  LET f == Highest(e.src) IN
  /\ ~Reduced(e.src)
  /\ \E terms \in SUBSET {Left(f), Right(f), Next(f)} : e.dst = (e.src \ {f}) \cup terms
  /\ \E ops \in Uses(f) : e.acts = {<<f, op>> : op \in ops}

(* A firing acts on no counter, and is that of a node without a reduction.  *)
IsFiring(e) == Reductions(e.src) = <<>> /\ e.acts = {}
-----------------------------------------------------------------------------
(* The subformulae and their ranks.                                        *)
LEMMA OrdersFacts ==
  ASSUME Ordered
  PROVE  /\ formula \in DOMAIN rank
         /\ \A g \in DOMAIN rank : rank[g] \in Nat /\ rank[g] <= Cardinality(DOMAIN rank)
         /\ \A g \in DOMAIN rank : IsBinary(g) =>
              /\ Operator(g) \in BinaryOperators
              /\ Left(g) \in DOMAIN rank /\ Right(g) \in DOMAIN rank
              /\ rank[Left(g)] < rank[g] /\ rank[Right(g)] < rank[g]
              /\ \A h \in DOMAIN rank : IsBinary(h) /\ rank[h] = rank[g] => h = g
         /\ \A g \in DOMAIN rank : Operator(g) = "next" => Operand(g) \in DOMAIN rank
         /\ Cardinality(DOMAIN rank) \in Nat
<1>1. Cardinality(DOMAIN rank) \in Nat
  BY FS_CardinalityType DEF Ordered
<1>2. /\ formula \in DOMAIN rank
      /\ \A g \in DOMAIN rank :
           /\ rank[g] \in 0 .. Cardinality(DOMAIN rank)
           /\ \A i \in DOMAIN Operands(g) : Operands(g)[i] \in DOMAIN rank
           /\ IsBinary(g) => /\ Operator(g) \in BinaryOperators
                             /\ rank[Left(g)] < rank[g] /\ rank[Right(g)] < rank[g]
                             /\ \A h \in DOMAIN rank : IsBinary(h) /\ rank[h] = rank[g] => h = g
  BY DEF Ordered, Orders
<1>3. ASSUME NEW g \in DOMAIN rank, IsBinary(g) PROVE Left(g) \in DOMAIN rank /\ Right(g) \in DOMAIN rank
  <2>1. Operands(g) = <<Left(g), Right(g)>>
    BY <1>3 DEF Operands
  <2>2. DOMAIN Operands(g) = 1 .. 2 /\ Operands(g)[1] = Left(g) /\ Operands(g)[2] = Right(g)
    BY <2>1
  <2>3. QED
    BY <1>2, <2>2
<1>4. ASSUME NEW g \in DOMAIN rank, Operator(g) = "next" PROVE Operand(g) \in DOMAIN rank
  <2>1. ~IsBinary(g)
    BY <1>2, <1>4 DEF BinaryOperators
  <2>2. Operands(g) = <<Operand(g)>>
    BY <1>4, <2>1 DEF Operands, IsUnary
  <2>3. DOMAIN Operands(g) = 1 .. 1 /\ Operands(g)[1] = Operand(g)
    BY <2>2
  <2>4. QED
    BY <1>2, <2>3
<1>5. \A g \in DOMAIN rank : rank[g] \in Nat /\ rank[g] <= Cardinality(DOMAIN rank)
  BY <1>1, <1>2
<1>6. QED
  BY <1>1, <1>2, <1>3, <1>4, <1>5

(* A formula under a next.                                                 *)
LEMMA NextFacts ==
  ASSUME NEW f
  PROVE  ~IsBinary(Next(f)) /\ Operator(Next(f)) = "next" /\ Operand(Next(f)) = f
BY DEF Next, IsBinary, Operator, Operand

(* Only subformulae are reduced: what is postponed is under a next.        *)
LEMMA BinaryTerms ==
  ASSUME NEW node \in Node
  PROVE  Binaries(node) \subseteq DOMAIN rank
BY NextFacts DEF Node, Terms, Binaries

(* A node that is not reduced has a highest binary formula.                *)
LEMMA HighestFacts ==
  ASSUME Ordered, NEW node \in Node, ~Reduced(node)
  PROVE  /\ Highest(node) \in node /\ Highest(node) \in DOMAIN rank /\ IsBinary(Highest(node))
         /\ \A g \in Binaries(node) : rank[g] <= rank[Highest(node)]
<1> DEFINE B == Binaries(node)
<1>1. B # {} /\ B \subseteq DOMAIN rank
  BY BinaryTerms DEF Reduced
<1> HIDE DEF B
<1> DEFINE R == {rank[g] : g \in B}
<1>2. PICK m \in R : \A n \in R : n <= m
  <2>1. R \in SUBSET Nat /\ R # {}
    BY <1>1, OrdersFacts
  <2>2. \A n \in R : n <= Cardinality(DOMAIN rank)
    BY <1>1, OrdersFacts
  <2>3. Cardinality(DOMAIN rank) \in Nat
    BY OrdersFacts
  <2> HIDE DEF R
  <2>4. QED
    BY <2>1, <2>2, <2>3, GreatestNat
<1>3. PICK f \in B : \A g \in B : rank[g] <= rank[f]
  BY <1>2
<1>4. Highest(node) \in B /\ \A g \in B : rank[g] <= rank[Highest(node)]
  BY <1>3 DEF B, Highest
<1>5. QED
  BY <1>1, <1>4 DEF B, Binaries

(* A reduction leads to a node whose formulae are all below the one it     *)
(* reduced.                                                                *)
LEMMA ReductionDescends ==
  ASSUME Ordered, NEW e, e.src \in Node, IsReduction(e)
  PROVE  /\ e.dst \in Node
         /\ \A g \in Binaries(e.dst) : rank[g] < rank[Highest(e.src)]
<1> DEFINE f == Highest(e.src)
<1>1. /\ f \in e.src /\ f \in DOMAIN rank /\ IsBinary(f)
      /\ \A g \in Binaries(e.src) : rank[g] <= rank[f]
  BY HighestFacts DEF IsReduction
<1>2. PICK terms \in SUBSET {Left(f), Right(f), Next(f)} : e.dst = (e.src \ {f}) \cup terms
  BY DEF IsReduction
<1> HIDE DEF f
<1>3. /\ Left(f) \in DOMAIN rank /\ Right(f) \in DOMAIN rank
      /\ rank[Left(f)] < rank[f] /\ rank[Right(f)] < rank[f]
      /\ \A h \in DOMAIN rank : IsBinary(h) /\ rank[h] = rank[f] => h = f
  BY <1>1, OrdersFacts
<1>4. e.dst \in Node
  BY <1>1, <1>2, <1>3 DEF Node, Terms
<1>5. ASSUME NEW g \in Binaries(e.dst) PROVE rank[g] < rank[f]
  <2>1. g \in DOMAIN rank /\ IsBinary(g) /\ g \in e.dst
    BY <1>4, BinaryTerms DEF Binaries
  <2>2. CASE g \in e.src /\ g # f
    <3>1. rank[g] <= rank[f] /\ rank[g] # rank[f]
      BY <1>1, <1>3, <2>1, <2>2 DEF Binaries
    <3>2. rank[g] \in Nat /\ rank[f] \in Nat
      BY <1>1, <2>1, OrdersFacts
    <3>3. QED
      BY <3>1, <3>2
  <2>3. CASE g \in {Left(f), Right(f)}
    BY <1>3, <2>3
  <2>4. g # Next(f)
    BY <2>1, NextFacts
  <2>5. QED
    BY <1>2, <2>1, <2>2, <2>3, <2>4
<1>6. QED
  BY <1>4, <1>5 DEF f

(* The alternatives of each operator.                                      *)
LEMMA ExpansionFacts ==
  ASSUME NEW f, Operator(f) \in BinaryOperators, NEW i \in DOMAIN Expansion(f)
  PROVE  /\ Expansion(f)[i].terms \in SUBSET {Left(f), Right(f), Next(f)}
         /\ Expansion(f)[i].ops \in Uses(f)
<1> USE DEF Expansion, Uses, Plain, Alternative
<1>1. CASE Operator(f) = "or"
  BY <1>1
<1>2. CASE Operator(f) = "and"
  BY <1>2
<1>3. CASE Operator(f) = "until"
  BY <1>3
<1>4. CASE Operator(f) = "release"
  BY <1>4
<1>5. CASE Operator(f) = "costuntil"
  BY <1>5
<1>6. CASE Operator(f) = "costrelease"
  BY <1>6
<1>7. QED
  BY <1>1, <1>2, <1>3, <1>4, <1>5, <1>6 DEF BinaryOperators

(* _build_epsilon_successors builds a sequence of reductions of the node.  *)
LEMMA ReductionsFacts ==
  ASSUME Ordered, NEW node \in Node
  PROVE  /\ \A i \in 1 .. Len(Reductions(node)) :
              LET e == Reductions(node)[i] IN e.src = node /\ IsReduction(e)
         /\ \E S : Reductions(node) \in Seq(S)
<1>1. CASE Reduced(node)
  <2>1. Reductions(node) = <<>>
    BY <1>1 DEF Reductions
  <2>2. QED
    BY <2>1
<1>2. CASE ~Reduced(node)
  <2> DEFINE f == Highest(node)
             alts == Expansion(f)
             S == {Reduction(node, f, alts[i]) : i \in DOMAIN alts}
             Built(i) == IF i \in DOMAIN alts THEN IfConsistent(Reduction(node, f, alts[i])) ELSE <<>>
  <2>1. Reductions(node) = Built(1) \o Built(2) \o Built(3)
    BY <1>2 DEF Reductions
  <2>2. ASSUME NEW e \in S PROVE e.src = node /\ IsReduction(e)
    <3>1. PICK i \in DOMAIN alts : e = Reduction(node, f, alts[i])
      OBVIOUS
    <3>2. /\ alts[i].terms \in SUBSET {Left(f), Right(f), Next(f)}
          /\ alts[i].ops \in Uses(f)
      <4>1. Operator(f) \in BinaryOperators
        BY <1>2, HighestFacts, OrdersFacts
      <4>2. QED
        BY <4>1, ExpansionFacts
    <3>3. /\ e.src = node /\ e.dst = (node \ {f}) \cup alts[i].terms
          /\ e.acts = {<<f, op>> : op \in alts[i].ops}
      BY <3>1 DEF Reduction
    <3>4. QED
      BY <1>2, <3>2, <3>3 DEF IsReduction
  <2>3. ASSUME NEW i PROVE Built(i) \in Seq(S)
    <3>1. CASE i \in DOMAIN alts
      <4>1. Reduction(node, f, alts[i]) \in S
        BY <3>1
      <4> HIDE DEF S
      <4>2. QED
        BY <3>1, <4>1 DEF IfConsistent
    <3>2. CASE i \notin DOMAIN alts
      BY <3>2
    <3>3. QED
      BY <3>1, <3>2
  <2> HIDE DEF Built, S
  <2>4. Reductions(node) \in Seq(S)
    BY <2>1, <2>3
  <2>5. \A i \in 1 .. Len(Reductions(node)) : Reductions(node)[i] \in S
    BY <2>4
  <2>6. QED
    BY <2>2, <2>4, <2>5
<1>3. QED
  BY <1>1, <1>2
-----------------------------------------------------------------------------
(* A way down from a state, which goes on at nodes that are not reduced.   *)
IsTrail(s, t) ==
  /\ t \in Seq(edges) /\ t # <<>> /\ t[1].src = s
  /\ \A i \in 1 .. Len(t) - 1 : t[i].dst = t[i+1].src /\ ~Reduced(t[i].src)

(* One more edge.                                                          *)
LEMMA TrailGrows ==
  ASSUME NEW s, NEW t, IsTrail(s, t), ~Reduced(Source(t)), NEW e \in Out(Sink(t))
  PROVE  IsTrail(s, Append(t, e))
<1> DEFINE u == Append(t, e)
           n == Len(t)
<1>1. t \in Seq(edges) /\ t # <<>> /\ t[1].src = s /\ e \in edges /\ e.src = t[n].dst
      /\ ~Reduced(t[n].src)
      /\ \A i \in 1 .. n - 1 : t[i].dst = t[i+1].src /\ ~Reduced(t[i].src)
  BY DEF IsTrail, Out, Sink, Source
<1>2. n \in Nat /\ n >= 1
  BY <1>1, EmptySeq
<1>3. u \in Seq(edges) /\ Len(u) = n + 1 /\ (\A i \in 1 .. n : u[i] = t[i]) /\ u[n+1] = e
  BY <1>1, PushFacts
<1> HIDE DEF u, n
<1>4. u # <<>> /\ u[1].src = s
  BY <1>1, <1>2, <1>3
<1>5. ASSUME NEW i \in 1 .. Len(u) - 1 PROVE u[i].dst = u[i+1].src /\ ~Reduced(u[i].src)
  <2>1. CASE i = n
    BY <1>1, <1>2, <1>3, <2>1
  <2>2. CASE i \in 1 .. n - 1
    <3>1. u[i] = t[i] /\ u[i+1] = t[i+1]
      BY <1>2, <1>3, <2>2
    <3>2. QED
      BY <1>1, <2>2, <3>1
  <2>3. QED
    BY <1>2, <1>3, <2>1, <2>2
<1>6. QED
  BY <1>3, <1>4, <1>5 DEF IsTrail, u

(* The descents of _process_remove_epsilon are ways down.                  *)
LEMMA DescentsFacts ==
  ASSUME NEW s, NEW n \in Nat, NEW t \in Descents(s)[n]
  PROVE  IsTrail(s, t)
<1> DEFINE Longer[k \in Nat] ==
             IF k = 0 THEN {<<e>> : e \in Out(s)}
             ELSE UNION {{Append(u, e) : e \in Out(Sink(u))} :
                           u \in {v \in Longer[k-1] : ~Reduced(Source(v))}}
           first == {<<e>> : e \in Out(s)}
           grown(U) == UNION {{Append(u, e) : e \in Out(Sink(u))} :
                                u \in {v \in U : ~Reduced(Source(v))}}
           step == [U \in SUBSET Seq(edges) |-> grown(U)]
<1>0. Descents(s) = Longer
  BY DEF Descents
<1>1. Longer = CHOOSE g : g = [k \in Nat |-> IF k = 0 THEN first ELSE grown(g[k-1])]
  BY DEF Longer
<1> HIDE DEF Longer
<1>10. first \in SUBSET Seq(edges)
  <2>1. ASSUME NEW e \in Out(s) PROVE <<e>> \in Seq(edges)
    BY DEF Out
  <2>2. QED
    BY <2>1
<1>11. ASSUME NEW U \in SUBSET Seq(edges) PROVE grown(U) \in SUBSET Seq(edges)
  <2>1. ASSUME NEW u \in U, NEW e \in Out(Sink(u)) PROVE Append(u, e) \in Seq(edges)
    BY DEF Out
  <2>2. QED
    BY <2>1
<1> HIDE DEF first, grown
<1>2. PICK f : AllIterates(f, SUBSET Seq(edges), step, first)
  <2>1. step \in [SUBSET Seq(edges) -> SUBSET Seq(edges)]
    BY <1>11
  <2> HIDE DEF step
  <2>2. QED
    BY <1>10, <2>1, Iteration
<1>3. f = [k \in Nat |-> IF k = 0 THEN first ELSE grown(f[k-1])]
  <2>1. f \in [Nat -> SUBSET Seq(edges)] /\ f[0] = first /\ \A k \in Nat : f[k+1] = step[f[k]]
    BY <1>2 DEF AllIterates
  <2>2. ASSUME NEW k \in Nat, k # 0 PROVE f[k] = grown(f[k-1])
    <3>1. k - 1 \in Nat /\ (k - 1) + 1 = k
      BY <2>2
    <3>2. f[k] = step[f[k-1]] /\ f[k-1] \in SUBSET Seq(edges)
      BY <2>1, <3>1
    <3>3. QED
      BY <3>2
  <2> HIDE DEF step
  <2>3. QED
    BY <2>1, <2>2
<1>4. Longer = [k \in Nat |-> IF k = 0 THEN first ELSE grown(Longer[k-1])]
  BY <1>1, <1>3
<1>5. Longer[0] = first /\ \A k \in Nat : Longer[k+1] = grown(Longer[k])
  <2>1. \A k \in Nat : k + 1 \in Nat /\ k + 1 # 0 /\ (k + 1) - 1 = k
    OBVIOUS
  <2>2. QED
    BY <1>4, <2>1
<1> DEFINE P == {k \in Nat : \A u \in Longer[k] : IsTrail(s, u)}
<1>6. 0 \in P
  <2>1. ASSUME NEW e \in Out(s) PROVE IsTrail(s, <<e>>)
    BY DEF Out, IsTrail
  <2>2. QED
    BY <1>5, <2>1 DEF first
<1>7. ASSUME NEW k \in P PROVE k + 1 \in P
  <2>1. ASSUME NEW w \in Longer[k+1] PROVE IsTrail(s, w)
    <3>0. w \in grown(Longer[k])
      BY <1>5, <2>1
    <3>1. PICK u \in Longer[k] : ~Reduced(Source(u)) /\ \E e \in Out(Sink(u)) : w = Append(u, e)
      BY <3>0, Zenon DEF grown
    <3>2. QED
      BY <3>1, TrailGrows
  <2>2. QED
    BY <2>1
<1>8. P = Nat
  <2> HIDE DEF P
  <2>1. P \in SUBSET Nat
    BY DEF P
  <2>2. QED
    BY <1>6, <1>7, <2>1, NatSetInduction
<1>9. QED
  BY <1>0, <1>8

(* A trace is one that ends with the edge of a reduced node.               *)
LEMMA TracesFacts ==
  ASSUME NEW s, NEW t \in Traces(s)
  PROVE  IsTrail(s, t) /\ Reduced(Source(t)) /\ Sink(t) \in {e.dst : e \in edges}
<1>1. PICK n \in 0 .. Cardinality(processed) : t \in Descents(s)[n]
  BY DEF Traces
<1>2. n \in Nat
  OBVIOUS
<1>3. IsTrail(s, t)
  BY <1>1, <1>2, DescentsFacts
<1>4. Len(t) \in 1 .. Len(t) /\ t \in Seq(edges)
  BY <1>3, EmptySeq DEF IsTrail
<1>5. t[Len(t)] \in edges
  BY <1>4
<1>6. QED
  BY <1>3, <1>5 DEF Traces, Sink
-----------------------------------------------------------------------------
(* What the tableau consists of: reductions, and the firings of the nodes  *)
(* that have none.                                                         *)
Built ==
  \A e \in edges : /\ e.src \in Node /\ e.dst \in Node
                   /\ e.src \in processed
                   /\ IsReduction(e) \/ IsFiring(e)

(* On a way down, the formulae reduced are lower and lower.                *)
LEMMA TrailDescends ==
  ASSUME Ordered, Built, ~ContradictionFired, NEW s, NEW t, IsTrail(s, t)
  PROVE  /\ \A i \in 1 .. Len(t) - 1 : IsReduction(t[i])
         /\ \A i, j \in 1 .. Len(t) - 1 :
              i < j => rank[Highest(t[j].src)] < rank[Highest(t[i].src)]
<1> DEFINE n == Len(t) - 1
           F(i) == Highest(t[i].src)
<1>1. n \in Nat /\ \A i \in 1 .. n : t[i] \in edges /\ t[i+1] \in edges
  BY EmptySeq DEF IsTrail
<1>2. \A i \in 1 .. n : t[i].dst = t[i+1].src /\ ~Reduced(t[i].src)
  BY DEF IsTrail
<1> HIDE DEF n
<1>3. ASSUME NEW i \in 1 .. n PROVE IsReduction(t[i])
  BY <1>1, <1>2 DEF Built, ContradictionFired, IsFiring
<1>4. ASSUME NEW i \in 1 .. n, i + 1 \in 1 .. n PROVE rank[F(i+1)] < rank[F(i)]
  <2>1. t[i].src \in Node /\ t[i+1].src \in Node /\ t[i].dst = t[i+1].src
    BY <1>1, <1>2 DEF Built
  <2>2. \A g \in Binaries(t[i+1].src) : rank[g] < rank[F(i)]
    BY <1>3, <2>1, ReductionDescends
  <2>3. ~Reduced(t[i+1].src)
    BY <1>2, <1>4
  <2>4. F(i+1) \in Binaries(t[i+1].src)
    BY <2>1, <2>3, HighestFacts DEF Binaries
  <2>5. QED
    BY <2>2, <2>4
<1>5. ASSUME NEW i \in 1 .. n PROVE rank[F(i)] \in Nat
  <2>1. F(i) \in DOMAIN rank
    BY <1>1, <1>2, HighestFacts DEF Built
  <2>2. QED
    BY <2>1, OrdersFacts
<1> HIDE DEF F
<1>6. ASSUME NEW i \in 1 .. n PROVE \A j \in 1 .. n : i < j => rank[F(j)] < rank[F(i)]
  <2> DEFINE P == {k \in Nat : i + k + 1 \in 1 .. n => rank[F(i + k + 1)] < rank[F(i)]}
  <2>1. 0 \in P
    BY <1>4
  <2>2. ASSUME NEW k \in P PROVE k + 1 \in P
    <3>1. SUFFICES ASSUME i + (k + 1) + 1 \in 1 .. n
                   PROVE  rank[F(i + (k + 1) + 1)] < rank[F(i)]
      OBVIOUS
    <3> DEFINE m == i + k + 1
    <3>2. m \in 1 .. n /\ m + 1 \in 1 .. n /\ m + 1 = i + (k + 1) + 1
      BY <1>1, <3>1
    <3>3. rank[F(m)] < rank[F(i)]
      BY <3>2
    <3> HIDE DEF m, P
    <3>4. rank[F(m+1)] < rank[F(m)]
      BY <1>4, <3>2
    <3>5. rank[F(m+1)] \in Nat /\ rank[F(m)] \in Nat /\ rank[F(i)] \in Nat
      BY <1>5, <3>2
    <3>6. rank[F(m+1)] < rank[F(i)]
      BY <3>3, <3>4, <3>5
    <3>7. QED
      BY <3>2, <3>6
  <2>3. P = Nat
    <3> HIDE DEF P
    <3>1. P \in SUBSET Nat
      BY DEF P
    <3>2. QED
      BY <2>1, <2>2, <3>1, NatSetInduction
  <2>4. ASSUME NEW j \in 1 .. n, i < j PROVE rank[F(j)] < rank[F(i)]
    <3>1. j - i - 1 \in Nat /\ i + (j - i - 1) + 1 = j
      BY <1>1, <2>4
    <3>2. j - i - 1 \in P
      BY <2>3, <3>1
    <3>3. QED
      BY <3>1, <3>2
  <2>5. QED
    BY <2>4
<1>7. QED
  BY <1>3, <1>6 DEF n, F

(* The operations a trace adds up for a counter are those of one reduction.*)
LEMMA TraceUses ==
  ASSUME Ordered, Built, ~ContradictionFired, NEW s, NEW t \in Traces(s), NEW c
  PROVE  {op \in Operation : <<c, op>> \in ActsOf(t)} \in Uses(c)
<1> DEFINE n == Len(t) - 1
           F(i) == Highest(t[i].src)
           Of(i) == {op \in Operation : <<c, op>> \in t[i].acts}
<1>1. IsTrail(s, t) /\ Reduced(t[Len(t)].src)
  BY TracesFacts DEF Source
<1>2. /\ n \in Nat /\ Len(t) = n + 1 /\ t[n+1] \in edges
      /\ \A i \in 1 .. n : t[i] \in edges
  BY <1>1, EmptySeq DEF IsTrail
<1>3. /\ \A i \in 1 .. n : IsReduction(t[i])
      /\ \A i, j \in 1 .. n : i < j => rank[F(j)] < rank[F(i)]
  BY <1>1, TrailDescends
<1>4. \A i \in 1 .. n : rank[F(i)] \in Nat
  BY <1>2, <1>3, HighestFacts, OrdersFacts DEF Built, IsReduction
<1>5. t[n+1].acts = {}
  BY <1>1, <1>2 DEF Built, IsReduction, IsFiring
<1> HIDE DEF n
<1>6. ASSUME NEW i \in 1 .. n
      PROVE  \E ops \in Uses(F(i)) : t[i].acts = {<<F(i), op>> : op \in ops}
  BY <1>3 DEF IsReduction
<1> HIDE DEF F
<1>7. {op \in Operation : <<c, op>> \in ActsOf(t)} = UNION {Of(i) : i \in 1 .. n}
  BY <1>2, <1>5 DEF ActsOf, Indices
<1>8. ASSUME NEW i \in 1 .. n, Of(i) # {} PROVE F(i) = c /\ Of(i) \in Uses(c)
  <2>1. PICK ops \in Uses(F(i)) : t[i].acts = {<<F(i), op>> : op \in ops}
    BY <1>6
  <2>2. F(i) = c
    BY <1>8, <2>1
  <2>3. ops \subseteq Operation
    BY <2>1 DEF Uses, Operation
  <2>4. Of(i) = ops
    BY <2>1, <2>2, <2>3
  <2>5. QED
    BY <2>1, <2>2, <2>4
<1>9. ASSUME NEW i \in 1 .. n, NEW j \in 1 .. n, F(i) = F(j) PROVE i = j
  <2>1. ~(i < j) /\ ~(j < i)
    BY <1>3, <1>4, <1>9 DEF F
  <2>2. QED
    BY <1>2, <2>1
<1> HIDE DEF Of
<1>10. CASE \A i \in 1 .. n : Of(i) = {}
  <2>1. UNION {Of(i) : i \in 1 .. n} = {}
    BY <1>10
  <2>2. {} \in Uses(c)
    BY DEF Uses
  <2>3. QED
    BY <1>7, <2>1, <2>2
<1>11. CASE \E i \in 1 .. n : Of(i) # {}
  <2>1. PICK i \in 1 .. n : Of(i) # {}
    BY <1>11
  <2>2. \A j \in 1 .. n : j # i => Of(j) = {}
    BY <1>8, <1>9, <2>1
  <2>3. UNION {Of(j) : j \in 1 .. n} = Of(i)
    BY <2>2
  <2>4. QED
    BY <1>7, <1>8, <2>1, <2>3
<1>12. QED
  BY <1>10, <1>11
-----------------------------------------------------------------------------
(* The nodes that are reduced or still to be: those the work goes on with. *)
Pending == processed \cup Elements(toReduce)

(* The two stacks hold nodes, and only a node that has no reduction is to  *)
(* be fired.                                                               *)
Stacks ==
  /\ toReduce \in Seq(Node)
  /\ toFire \in Seq(Node)
  /\ \A i \in 1 .. Len(toFire) : toFire[i] \in processed /\ Reductions(toFire[i]) = <<>>

(* No node is lost: the initial one, the end of an edge, a state of the    *)
(* automaton.                                                              *)
NoneLost ==
  /\ {formula} \in Pending
  /\ \A e \in edges : e.dst \in Pending
  /\ toClose \subseteq Pending
  /\ closed \subseteq Pending
  /\ \A t \in transitions : t.dst \in toClose \cup closed

(* The phases follow each other.                                           *)
Phases ==
  /\ pc \in {"close", "done"} => toReduce = <<>>
  /\ pc = "done" => toClose = {}
  /\ pc \in {"map", "reduce", "fire"} => transitions = {}

Inv == Ordered /\ Stacks /\ Built /\ NoneLost /\ Phases /\ OneUseOfACounter

(* It holds at first.                                                      *)
LEMMA InitInv == Init => Inv
<1> SUFFICES ASSUME Init PROVE Inv
  OBVIOUS
<1>1. Ordered
  BY InputsAssumption DEF Init, Ordered
<1>2. {formula} \in Node
  BY <1>1, OrdersFacts DEF Node, Terms
<1>3. toReduce = <<{formula}>> /\ toFire = <<>> /\ edges = {} /\ processed = {}
  BY DEF Init
<1>4. Stacks
  BY <1>2, <1>3 DEF Stacks
<1>5. Elements(toReduce) = {{formula}}
  <2>1. Len(toReduce) = 1 /\ toReduce[1] = {formula}
    BY <1>3
  <2>2. QED
    BY <2>1 DEF Elements
<1>6. NoneLost
  BY <1>3, <1>5 DEF Init, NoneLost, Pending
<1>7. QED
  BY <1>1, <1>3, <1>4, <1>6 DEF Init, Inv, Built, Phases, OneUseOfACounter

(* What a node can be reduced to does not change during a translation.     *)
LEMMA SameOrder ==
  ASSUME UNCHANGED input
  PROVE  /\ Ordered' = Ordered /\ Node' = Node
         /\ \A node : Reductions(node)' = Reductions(node)
         /\ \A e : IsReduction(e)' = IsReduction(e) /\ IsFiring(e)' = IsFiring(e)
<1>1. rank' = rank /\ formula' = formula
  BY DEF input
<1>2. Ordered' = Ordered /\ Node' = Node
  BY <1>1 DEF Ordered, Orders, Node, Terms
<1>3. \A node : Highest(node)' = Highest(node)
  BY <1>1 DEF Highest
<1>4. \A node : Reductions(node)' = Reductions(node)
  BY <1>3 DEF Reductions
<1>5. \A e : IsReduction(e)' = IsReduction(e)
  BY <1>3 DEF IsReduction
<1>6. \A e : IsFiring(e)' = IsFiring(e)
  BY <1>4 DEF IsFiring
<1>7. QED
  BY <1>2, <1>4, <1>5, <1>6

(* Until the automaton is built, it does not matter what the counters are. *)
LEMMA NoTransitionYet ==
  ASSUME transitions' = {}
  PROVE  OneUseOfACounter'
BY DEF OneUseOfACounter

(* A turn of _process_reduce.                                              *)
LEMMA ReduceInv ==
  ASSUME Inv, Reduce
  PROVE  Inv'
<1> DEFINE s == toReduce[Len(toReduce)]
           rest == SubSeq(toReduce, 1, Len(toReduce) - 1)
           es == Reductions(s)
<1>1. /\ pc = "reduce" /\ toReduce # <<>> /\ pc' = pc
      /\ UNCHANGED <<input, toClose, closed, transitions>>
  BY DEF Reduce, automaton
<1>2. /\ Len(toReduce) \in Nat /\ Len(toReduce) >= 1
      /\ rest \in Seq(Node) /\ Len(rest) = Len(toReduce) - 1
      /\ \A i \in 1 .. Len(rest) : rest[i] = toReduce[i]
  BY <1>1, PopFacts DEF Inv, Stacks
<1>3. s \in Node
  BY <1>2 DEF Inv, Stacks
<1>4. Elements(toReduce) = Elements(rest) \cup {s}
  BY <1>2 DEF Elements
<1>5. Ordered' /\ Node' = Node
  BY <1>1, SameOrder DEF Inv
<1>6. transitions' = {}
  BY <1>1 DEF Inv, Phases
<1>7. OneUseOfACounter' /\ Phases'
  BY <1>1, <1>6, NoTransitionYet DEF Phases
<1>8. formula' = formula
  BY <1>1 DEF input
<1>9. CASE Known(s) /\ toReduce' = rest /\ UNCHANGED <<toFire, processed, edges>>
  <2>1. Pending' = Pending
    BY <1>4, <1>9 DEF Pending, Known, Elements
  <2>2. NoneLost'
    BY <1>1, <1>8, <1>9, <2>1 DEF Inv, NoneLost
  <2>3. Stacks'
    BY <1>1, <1>2, <1>5, <1>9, SameOrder DEF Inv, Stacks
  <2>4. Built'
    BY <1>1, <1>5, <1>9, SameOrder DEF Inv, Built
  <2>5. QED
    BY <1>5, <1>7, <2>2, <2>3, <2>4 DEF Inv
<1>10. CASE /\ processed' = processed \cup {s}
            /\ edges' = edges \cup {es[i] : i \in DOMAIN es}
            /\ \/ es = <<>> /\ toFire' = Append(toFire, s) /\ toReduce' = rest
               \/ es # <<>> /\ toReduce' = rest \o Targets(es) /\ UNCHANGED toFire
  <2>1. PICK S : es \in Seq(S)
    BY <1>3, ReductionsFacts DEF Inv
  <2>2. \A i \in 1 .. Len(es) : es[i].src = s /\ IsReduction(es[i]) /\ es[i].dst \in Node
    <3>1. \A i \in 1 .. Len(es) : es[i].src = s /\ IsReduction(es[i])
      BY <1>3, ReductionsFacts DEF Inv
    <3>2. QED
      BY <1>3, <3>1, ReductionDescends DEF Inv
  <2> HIDE DEF rest, s
  <2>3. DOMAIN es = 1 .. Len(es) /\ Len(es) \in Nat
    BY <2>1
  <2>4. /\ Targets(es) \in Seq(Node) /\ Len(Targets(es)) = Len(es)
        /\ \A i \in 1 .. Len(es) : Targets(es)[i] = es[i].dst
    <3>1. Targets(es) = [i \in 1 .. Len(es) |-> es[i].dst]
      BY <2>3 DEF Targets
    <3> HIDE DEF es
    <3>2. QED
      BY <2>2, <2>3, <3>1
  <2> HIDE DEF es
  <2>5. toReduce' \in Seq(Node)
    <3>1. rest \o Targets(es) \in Seq(Node)
      BY <1>2, <2>4
    <3>2. toReduce' = rest \/ toReduce' = rest \o Targets(es)
      BY <1>10
    <3>3. QED
      BY <1>2, <3>1, <3>2
  <2>6. Elements(rest) \subseteq Elements(toReduce')
    <3>1. CASE toReduce' = rest
      BY <3>1
    <3>2. CASE toReduce' = rest \o Targets(es)
      <4>1. \A i \in 1 .. Len(rest) : i \in 1 .. Len(toReduce') /\ toReduce'[i] = rest[i]
        BY <1>2, <2>4, <3>2
      <4>2. QED
        BY <4>1 DEF Elements
    <3>3. QED
      BY <1>10, <3>1, <3>2
  <2>7. ASSUME NEW i \in 1 .. Len(es) PROVE es[i].dst \in Elements(toReduce')
    <3>1. toReduce' = rest \o Targets(es)
      BY <1>10, <2>3, <2>7 DEF Elements
    <3>2. /\ Len(rest) + i \in 1 .. Len(toReduce')
          /\ toReduce'[Len(rest) + i] = es[i].dst
      BY <1>2, <2>3, <2>4, <2>7, <3>1
    <3>3. QED
      BY <3>2 DEF Elements
  <2>8. Pending \subseteq Pending'
    BY <1>4, <1>10, <2>6 DEF Pending, Elements
  <2>9. \A e \in edges' : e \in edges \/ \E i \in 1 .. Len(es) : e = es[i]
    BY <1>10, <2>3
  <2>10. NoneLost'
    <3>1. \A e \in edges' : e.dst \in Pending'
      BY <2>7, <2>8, <2>9 DEF Inv, NoneLost, Pending
    <3>2. {formula'} \in Pending'
      BY <1>8, <2>8 DEF Inv, NoneLost
    <3>3. toClose' \subseteq Pending' /\ closed' \subseteq Pending'
      BY <1>1, <2>8 DEF Inv, NoneLost
    <3>4. QED
      BY <1>6, <3>1, <3>2, <3>3 DEF NoneLost
  <2>11. Built'
    <3>1. \A e \in edges' : e.src \in Node /\ e.dst \in Node /\ e.src \in processed'
                              /\ (IsReduction(e) \/ IsFiring(e))
      BY <1>3, <1>10, <2>2, <2>9 DEF Inv, Built
    <3>2. QED
      BY <1>1, <1>5, <3>1, SameOrder DEF Built
  <2>12. Stacks'
    <3>1. toFire' \in Seq(Node)
      BY <1>3, <1>10 DEF Inv, Stacks
    <3>2. ASSUME NEW i \in 1 .. Len(toFire')
          PROVE  toFire'[i] \in processed' /\ Reductions(toFire'[i]) = <<>>
      <4>1. CASE es = <<>> /\ toFire' = Append(toFire, s)
        <5>1. CASE i = Len(toFire) + 1
          BY <1>3, <1>10, <4>1, <5>1 DEF Inv, Stacks, es
        <5>2. CASE i \in 1 .. Len(toFire)
          BY <1>3, <1>10, <4>1, <5>2 DEF Inv, Stacks
        <5>3. QED
          BY <1>3, <4>1, <5>1, <5>2 DEF Inv, Stacks
      <4>2. CASE toFire' = toFire
        BY <1>10, <4>2 DEF Inv, Stacks
      <4>3. QED
        BY <1>10, <4>1, <4>2
    <3>3. \A x : Reductions(x)' = Reductions(x)
      BY <1>1, SameOrder
    <3>4. QED
      BY <1>5, <2>5, <3>1, <3>2, <3>3 DEF Stacks
  <2>13. QED
    BY <1>5, <1>7, <2>10, <2>11, <2>12 DEF Inv
<1>11. QED
  BY <1>9, <1>10 DEF Reduce

(* A turn of _process_fire.                                                *)
LEMMA FireInv ==
  ASSUME Inv, Fire
  PROVE  Inv'
<1> DEFINE s == toFire[Len(toFire)]
           e == Firing(s)
<1>1. /\ pc = "fire" /\ toFire # <<>> /\ pc' \in {"fire", "aborted"}
      /\ toFire' = SubSeq(toFire, 1, Len(toFire) - 1)
      /\ edges' = edges \cup {e} /\ toReduce' = Append(toReduce, e.dst)
      /\ processed' = processed /\ UNCHANGED <<input, toClose, closed, transitions>>
  BY DEF Fire, automaton
<1>2. /\ Len(toFire) \in Nat /\ Len(toFire) >= 1
      /\ toFire' \in Seq(Node) /\ Len(toFire') = Len(toFire) - 1
      /\ \A i \in 1 .. Len(toFire') : toFire'[i] = toFire[i]
  BY <1>1, PopFacts DEF Inv, Stacks
<1>3. s \in Node /\ s \in processed /\ Reductions(s) = <<>>
  BY <1>2 DEF Inv, Stacks
<1>4. e.src = s /\ IsFiring(e)
  BY <1>3 DEF Firing, IsFiring
<1>5. e.dst \in Node
  <2>1. ASSUME NEW f \in s, Operator(f) = "next" PROVE Operand(f) \in DOMAIN rank
    <3>1. CASE f \in DOMAIN rank
      BY <2>1, <3>1, OrdersFacts DEF Inv
    <3>2. CASE \E g \in DOMAIN rank : f = Next(g)
      BY <3>2, NextFacts
    <3>3. QED
      BY <1>3, <3>1, <3>2 DEF Node, Terms
  <2>2. e.dst = {Operand(f) : f \in {g \in s : Operator(g) = "next"}}
    BY DEF Firing
  <2>3. QED
    BY <2>1, <2>2 DEF Node, Terms
<1> HIDE DEF e, s
<1>6. Ordered' /\ Node' = Node
  BY <1>1, SameOrder DEF Inv
<1>7. formula' = formula
  BY <1>1 DEF input
<1>8. transitions' = {}
  BY <1>1 DEF Inv, Phases
<1>9. OneUseOfACounter' /\ Phases'
  BY <1>1, <1>8, NoTransitionYet DEF Phases
<1>10. toReduce' \in Seq(Node) /\ Elements(toReduce') = Elements(toReduce) \cup {e.dst}
  <2>1. /\ toReduce' \in Seq(Node) /\ Len(toReduce') = Len(toReduce) + 1
        /\ \A i \in 1 .. Len(toReduce) : toReduce'[i] = toReduce[i]
        /\ toReduce'[Len(toReduce) + 1] = e.dst /\ Len(toReduce) \in Nat
    BY <1>1, <1>5, PushFacts DEF Inv, Stacks
  <2>2. QED
    BY <2>1 DEF Elements
<1>11. Pending' = Pending \cup {e.dst}
  BY <1>1, <1>10 DEF Pending, Elements
<1>12. Stacks'
  <2>1. \A i \in 1 .. Len(toFire') : toFire'[i] \in processed' /\ Reductions(toFire'[i]) = <<>>
    BY <1>1, <1>2 DEF Inv, Stacks
  <2>2. \A x : Reductions(x)' = Reductions(x)
    BY <1>1, SameOrder
  <2>3. QED
    BY <1>2, <1>6, <1>10, <2>1, <2>2 DEF Stacks
<1>13. Built'
  <2>1. \A x \in edges' : x.src \in Node /\ x.dst \in Node /\ x.src \in processed'
                            /\ (IsReduction(x) \/ IsFiring(x))
    BY <1>1, <1>3, <1>4, <1>5 DEF Inv, Built
  <2>2. QED
    BY <1>1, <1>6, <2>1, SameOrder DEF Built
<1>14. NoneLost'
  <2>1. \A x \in edges' : x.dst \in Pending'
    BY <1>1, <1>11 DEF Inv, NoneLost
  <2>2. QED
    BY <1>1, <1>7, <1>8, <1>11, <2>1 DEF Inv, NoneLost
<1>15. QED
  BY <1>6, <1>9, <1>12, <1>13, <1>14 DEF Inv

(* A state of the automaton is given its transitions.                      *)
LEMMA CloseInv ==
  ASSUME Inv, Close
  PROVE  Inv'
<1>1. pc = "close" /\ UNCHANGED <<input, toMap, counters, acceptances, tableau>>
  BY DEF Close
<1>2. UNCHANGED <<rank, formula, processed, edges, toReduce, toFire, counters>>
  BY <1>1 DEF input, tableau
<1>3. toReduce' = <<>> /\ Pending' = Pending
  BY <1>1, <1>2 DEF Inv, Phases, Pending, Elements
<1>4. Ordered' /\ Node' = Node
  BY <1>1, SameOrder DEF Inv
<1>5. Stacks'
  <2>1. \A x : Reductions(x)' = Reductions(x)
    BY <1>1, SameOrder
  <2>2. QED
    BY <1>2, <1>4, <2>1 DEF Inv, Stacks
<1>6. Built'
  BY <1>1, <1>2, <1>4, SameOrder DEF Inv, Built
<1>7. ContradictionFired' = ContradictionFired
  <2>1. \A x : Reductions(x)' = Reductions(x)
    BY <1>1, SameOrder
  <2>2. QED
    BY <1>2, <2>1 DEF ContradictionFired
<1>8. PICK s \in toClose :
        IF RecursesForever(s)
        THEN pc' = "overflow" /\ UNCHANGED automaton
        ELSE LET ts == Traces(s)
                 built == {TransitionOf(s, t) : t \in ts}
             IN /\ transitions' = transitions \cup built
                /\ closed' = closed \cup {s}
                /\ toClose' = (toClose \cup Unclosed(built)) \ closed'
                /\ pc' = IF debug /\ \E t \in ts : TraceFails(t) THEN "aborted" ELSE pc
  BY DEF Close
<1>9. CASE pc' = "overflow" /\ UNCHANGED automaton
  <2>1. UNCHANGED <<toClose, closed, transitions>>
    BY <1>9 DEF automaton
  <2>2. NoneLost'
    BY <1>2, <1>3, <2>1 DEF Inv, NoneLost
  <2>3. Phases'
    BY <1>9 DEF Phases
  <2>4. OneUseOfACounter'
    BY <1>2, <1>7, <2>1 DEF Inv, OneUseOfACounter
  <2>5. QED
    BY <1>4, <1>5, <1>6, <2>2, <2>3, <2>4 DEF Inv
<1>10. ASSUME NEW built, built = {TransitionOf(s, t) : t \in Traces(s)},
              transitions' = transitions \cup built, closed' = closed \cup {s},
              toClose' = (toClose \cup Unclosed(built)) \ closed', pc' \in {"aborted", "close"}
       PROVE  Inv'
  <2>1. ASSUME NEW t \in built PROVE t.dst \in Pending
    <3>1. PICK u \in Traces(s) : t = TransitionOf(s, u)
      BY <1>10
    <3>2. t.dst = Sink(u)
      BY <3>1 DEF TransitionOf
    <3>3. QED
      BY <3>1, <3>2, TracesFacts DEF Inv, NoneLost
  <2>2. toClose' \cup closed' = toClose \cup closed \cup {t.dst : t \in built}
    BY <1>8, <1>10 DEF Unclosed
  <2>3. NoneLost'
    <3>1. toClose' \subseteq Pending /\ closed' \subseteq Pending
      BY <2>1, <2>2 DEF Inv, NoneLost
    <3>2. \A t \in transitions' : t.dst \in toClose' \cup closed'
      BY <1>10, <2>2 DEF Inv, NoneLost
    <3>3. QED
      BY <1>2, <1>3, <3>1, <3>2 DEF Inv, NoneLost
  <2>4. Phases'
    BY <1>3, <1>10 DEF Phases
  <2>5. OneUseOfACounter'
    <3>1. SUFFICES ASSUME ~ContradictionFired, NEW t \in transitions', NEW c \in counters
                   PROVE  {op \in Operation : <<c, op>> \in t.acts} \in Uses(c)
      BY <1>2, <1>7 DEF OneUseOfACounter
    <3>2. CASE t \in transitions
      BY <3>1, <3>2 DEF Inv, OneUseOfACounter
    <3>3. CASE t \in built
      <4>1. PICK u \in Traces(s) : t = TransitionOf(s, u)
        BY <1>10, <3>3
      <4>2. t.acts = ActsOf(u)
        BY <4>1 DEF TransitionOf
      <4>3. QED
        BY <3>1, <4>1, <4>2, TraceUses DEF Inv
    <3>4. QED
      BY <1>10, <3>2, <3>3
  <2>6. QED
    BY <1>4, <1>5, <1>6, <2>3, <2>4, <2>5 DEF Inv
<1>11. QED
  BY <1>1, <1>8, <1>9, <1>10

(* The steps that leave the tableau and the automaton alone.               *)
LEMMA OtherInv ==
  ASSUME Inv, UNCHANGED <<input, tableau, automaton>>, Phases',
         counters' = counters \/ transitions = {}
  PROVE  Inv'
<1>1. UNCHANGED <<rank, formula, processed, edges, toReduce, toFire, toClose, closed, transitions>>
  BY DEF input, tableau, automaton
<1>2. Ordered' /\ Node' = Node
  BY SameOrder DEF Inv
<1>3. \A x : Reductions(x)' = Reductions(x)
  BY SameOrder
<1>4. Stacks'
  BY <1>1, <1>2, <1>3 DEF Inv, Stacks
<1>5. Built'
  BY <1>1, <1>2, SameOrder DEF Inv, Built
<1>6. Pending' = Pending
  BY <1>1 DEF Pending, Elements
<1>7. NoneLost'
  BY <1>1, <1>6 DEF Inv, NoneLost
<1>8. OneUseOfACounter'
  <2>1. ContradictionFired' = ContradictionFired
    BY <1>1, <1>3 DEF ContradictionFired
  <2>2. CASE counters' = counters
    BY <1>1, <2>1, <2>2 DEF Inv, OneUseOfACounter
  <2>3. CASE transitions = {}
    BY <1>1, <2>3, NoTransitionYet
  <2>4. QED
    BY <2>2, <2>3
<1>9. QED
  BY <1>2, <1>4, <1>5, <1>7, <1>8 DEF Inv

(* The invariant holds of every translation (CltlTranslator.cpp:281-372).  *)
THEOREM Invariance == Spec => []Inv
<1>1. ASSUME Inv, [Step]_vars PROVE Inv'
  <2>1. CASE MapOperator
    <3>1. UNCHANGED <<input, tableau, automaton>> /\ pc = "map" /\ pc' \in {"map", "thrown"}
      BY <2>1 DEF MapOperator
    <3>2. transitions = {} /\ transitions' = transitions
      BY <1>1, <3>1 DEF Inv, Phases, automaton
    <3>3. Phases'
      BY <3>1, <3>2 DEF Phases
    <3>4. QED
      BY <1>1, <3>1, <3>2, <3>3, OtherInv
  <2>2. CASE Mapped
    <3>1. Phases' /\ UNCHANGED <<input, tableau, automaton, counters>>
      BY <1>1, <2>2 DEF Mapped, Inv, Phases, automaton
    <3>2. QED
      BY <1>1, <3>1, OtherInv
  <2>3. CASE Reduce
    BY <1>1, <2>3, ReduceInv
  <2>4. CASE AllReduced
    <3>1. Phases' /\ UNCHANGED <<input, tableau, automaton, counters>>
      BY <1>1, <2>4 DEF AllReduced, Inv, Phases, automaton
    <3>2. QED
      BY <1>1, <3>1, OtherInv
  <2>5. CASE Fire
    BY <1>1, <2>5, FireInv
  <2>6. CASE AllFired
    <3>1. Phases' /\ UNCHANGED <<input, tableau, automaton, counters>>
      BY <1>1, <2>6 DEF AllFired, Inv, Phases, automaton, tableau
    <3>2. QED
      BY <1>1, <3>1, OtherInv
  <2>7. CASE Close
    BY <1>1, <2>7, CloseInv
  <2>8. CASE Finish
    <3>1. Phases' /\ UNCHANGED <<input, tableau, automaton, counters>>
      BY <1>1, <2>8 DEF Finish, Inv, Phases, automaton, tableau
    <3>2. QED
      BY <1>1, <3>1, OtherInv
  <2>9. CASE UNCHANGED vars
    <3>1. UNCHANGED <<pc, counters>> /\ UNCHANGED <<input, tableau, automaton>>
      BY <2>9 DEF vars
    <3>2. Phases'
      BY <1>1, <3>1 DEF Inv, Phases, automaton, tableau
    <3>3. QED
      BY <1>1, <3>1, <3>2, OtherInv
  <2>10. QED
    BY <1>1, <2>1, <2>2, <2>3, <2>4, <2>5, <2>6, <2>7, <2>8, <2>9 DEF Step, Stopped
<1>2. QED
  BY <1>1, InitInv, PTL DEF Spec

(* The automaton is built from finished parts of the tableau, and when it  *)
(* is done it has the transitions of every state it leads to: neither the  *)
(* two stacks of _build_transition_system nor the sinks pushed by          *)
(* _process_remove_epsilon lose a node.                                    *)
THEOREM AutomatonIsComplete == Spec => []Complete
<1>1. ASSUME Inv PROVE Complete
  <2>1. ASSUME pc \in {"close", "done"} PROVE toClose \cup closed \subseteq processed
    <3>1. Elements(toReduce) = {}
      BY <1>1, <2>1 DEF Inv, Phases, Elements
    <3>2. QED
      BY <1>1, <3>1 DEF Inv, NoneLost, Pending
  <2>2. ASSUME pc = "done" PROVE {t.dst : t \in transitions} \subseteq closed
    BY <1>1, <2>2 DEF Inv, Phases, NoneLost
  <2>3. QED
    BY <2>1, <2>2 DEF Complete
<1>2. QED
  BY <1>1, Invariance, PTL

(* A transition does to a counter what one reduction of its formula does,  *)
(* for every formula and every order of its subformulae, unless a          *)
(* contradiction was fired: the assertion of _add_nonepsilon_transition.   *)
THEOREM CountersUsedOnce == Spec => []OneUseOfACounter
<1>1. ASSUME Inv PROVE OneUseOfACounter
  BY <1>1 DEF Inv
<1>2. QED
  BY <1>1, Invariance, PTL
=============================================================================
