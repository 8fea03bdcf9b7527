-------------------------- MODULE SystemProduct_proof --------------------------
(***************************************************************************)
(* What going over a product delivers, proved for all operands and labels. *)
(***************************************************************************)
EXTENDS SystemProduct, FiniteSetTheorems, SequenceTheorems, TLAPS

(* Where the iterators are.  An iterator over states starts outside if the *)
(* left component has none and the right one has.                          *)
StartsOutside == kind = "states" /\ lhs = <<>> /\ pc \in {"skip", "outside"}

Positions ==
  /\ pc = "new" => visited = <<>>
  /\ pc # "new" => (i = LEnd <=> j = REnd) \/ StartsOutside
  /\ pc = "at" => i # LEnd /\ j # REnd /\ Delivered(i, j)
  /\ pc = "outside" => StartsOutside

(* What is gone over has the labels asked for, and is all there is of it.  *)
With(s, label) == {k \in 1 .. Len(s) : s[k] = label}

Selected ==
  asked # NoLabel =>
    /\ kind = "transitions"
    /\ pc # "new" =>
         /\ \A k \in 1 .. Len(lhs) : lhs[k] = Lhs(asked)
         /\ Len(lhs) = Cardinality(With(operands[1], Lhs(asked)))
         /\ IF right = "adapted" THEN rhs = operands[2]
            ELSE /\ \A l \in 1 .. Len(rhs) : rhs[l] = Rhs(asked)
                 /\ Len(rhs) = Cardinality(With(operands[2], Rhs(asked)))

(* At the end both iterators are there.                                    *)
Ended == pc = "done" => i = LEnd /\ j = REnd

Inv == TypeOK /\ Positions /\ Selected /\ Ended /\ VisitsExact /\ VisitsOnce

-----------------------------------------------------------------------------
(* Cutting a concatenation where it was made.                              *)
LEMMA SplitConcat ==
  ASSUME NEW S, NEW s \in Seq(S), NEW t \in Seq(S)
  PROVE  /\ SubSeq(s \o t, 1, Len(s)) = s
         /\ SubSeq(s \o t, Len(s) + 1, Len(s \o t)) = t
<1> DEFINE u == s \o t
           v == SubSeq(u, 1, Len(s))
           w == SubSeq(u, Len(s) + 1, Len(u))
<1>1. /\ u \in Seq(S) /\ Len(u) = Len(s) + Len(t) /\ Len(s) \in Nat /\ Len(t) \in Nat
      /\ \A n \in 1 .. Len(s) + Len(t) : u[n] = IF n <= Len(s) THEN s[n] ELSE t[n - Len(s)]
  BY ConcatProperties
<1> HIDE DEF u
<1>2. \A n \in 1 .. Len(u) : u[n] \in S
  BY <1>1
<1>3. v = s
  <2>1. v \in Seq(S) /\ Len(v) = Len(s) /\ \A n \in 1 .. Len(s) : v[n] = u[n]
    BY <1>1, <1>2, SubSeqProperties
  <2>2. \A n \in 1 .. Len(s) : v[n] = s[n]
    BY <1>1, <2>1
  <2>3. QED
    BY <2>1, <2>2, SeqEqual
<1>4. w = t
  <2>1. w \in Seq(S) /\ Len(w) = Len(t) /\ \A n \in 1 .. Len(t) : w[n] = u[Len(s) + n]
    BY <1>1, <1>2, SubSeqProperties
  <2>2. \A n \in 1 .. Len(t) : u[Len(s) + n] = t[n]
    BY <1>1
  <2>3. QED
    BY <2>1, <2>2, SeqEqual
<1>5. QED
  BY <1>3, <1>4 DEF u

(* Taking a product label apart gives back its operands.                   *)
LEMMA PartsOfBuilt ==
  ASSUME NEW l \in LeftLabel, NEW r \in RightLabel
  PROVE  LET p == Build(l, r)
         IN /\ Lhs(p).ops = l.ops /\ Lhs(p).accs = l.accs
            /\ Rhs(p).ops = r.ops /\ Rhs(p).accs = r.accs
<1> DEFINE p == Build(l, r)
<1>1. /\ l.ops \in Seq(OperationList) /\ r.ops \in Seq(OperationList)
      /\ Len(l.ops) = CounterOffset /\ l.accs \subseteq Nat /\ r.accs \subseteq Nat
      /\ \A a \in l.accs : a < AcceptanceOffset
  BY OperandsAssumption DEF Labelled
<1>2. p.ops = l.ops \o r.ops /\ p.accs = l.accs \cup Shifted(r.accs, AcceptanceOffset)
  BY DEF Build
<1> DEFINE both == l.ops \o r.ops
<1>3. /\ SubSeq(both, 1, Len(l.ops)) = l.ops
      /\ SubSeq(both, Len(l.ops) + 1, Len(both)) = r.ops
  <2>1. l.ops \in Seq(OperationList) /\ r.ops \in Seq(OperationList)
    BY <1>1
  <2>2. QED
    BY <2>1, SplitConcat
<1> HIDE DEF p, both
<1>4. /\ SubSeq(p.ops, 1, CounterOffset) = l.ops
      /\ SubSeq(p.ops, CounterOffset + 1, Len(p.ops)) = r.ops
  <2>1. p.ops = both /\ Len(l.ops) = CounterOffset
    BY <1>1, <1>2 DEF both
  <2>2. QED
    BY <1>3, <2>1
<1>5. {a \in p.accs : a < AcceptanceOffset} = l.accs
  <2>1. \A a \in Shifted(r.accs, AcceptanceOffset) : ~(a < AcceptanceOffset)
    BY <1>1, OffsetAssumption DEF Shifted
  <2>2. QED
    BY <1>1, <1>2, <2>1
<1>6. {a \in p.accs : a >= AcceptanceOffset} = Shifted(r.accs, AcceptanceOffset)
  BY <1>1, <1>2, OffsetAssumption DEF Shifted
<1>7. Shifted(Shifted(r.accs, AcceptanceOffset), -AcceptanceOffset) = r.accs
  <2>1. \A a \in r.accs : (a + AcceptanceOffset) + (-AcceptanceOffset) = a
    BY <1>1, OffsetAssumption
  <2>2. Shifted(Shifted(r.accs, AcceptanceOffset), -AcceptanceOffset) =
          {(a + AcceptanceOffset) + (-AcceptanceOffset) : a \in r.accs}
    BY DEF Shifted
  <2>3. QED
    BY <2>1, <2>2
<1>8. QED
  BY <1>4, <1>5, <1>6, <1>7 DEF Lhs, Rhs, p

(* Joining the letter of a product with itself gives it again.             *)
LEMMA JoinedAgain ==
  ASSUME NEW f, NEW g
  PROVE  Joined(Joined(f, g), Joined(f, g)) = Joined(f, g)
<1> DEFINE both == (f \cup g) \ {True}
           C(S) == False \in S \/ \E p \in S : Not(p) \in S
<1>1. CASE C(both)
  <2>1. Joined(f, g) = {False}
    BY <1>1 DEF Joined
  <2>2. False # True
    BY DEF False, True
  <2>3. QED
    BY <2>1, <2>2 DEF Joined
<1>2. CASE ~C(both)
  <2>1. Joined(f, g) = both
    BY <1>2 DEF Joined
  <2>2. (both \cup both) \ {True} = both
    OBVIOUS
  <2>3. QED
    BY <1>2, <2>1, <2>2 DEF Joined
<1>3. QED
  BY <1>1, <1>2

(* The product of the parts of a label of the product is that label.       *)
LEMMA BuiltOfParts ==
  ASSUME NEW q \in Queries
  PROVE  Build(Lhs(q), Rhs(q)) = q
<1>1. PICK l \in LeftLabel, r \in RightLabel : q = Build(l, r)
  BY OperandsAssumption
<1>2. /\ Lhs(q).ops = l.ops /\ Lhs(q).accs = l.accs
      /\ Rhs(q).ops = r.ops /\ Rhs(q).accs = r.accs
  BY <1>1, PartsOfBuilt
<1>3. Lhs(q).letter = q.letter /\ Rhs(q).letter = q.letter
  BY DEF Lhs, Rhs
<1>4. Joined(q.letter, q.letter) = q.letter
  BY <1>1, JoinedAgain DEF Build
<1>5. Build(Lhs(q), Rhs(q)) =
        [letter |-> q.letter, ops |-> l.ops \o r.ops,
         accs |-> l.accs \cup Shifted(r.accs, AcceptanceOffset)]
  BY <1>2, <1>3, <1>4 DEF Build
<1>6. QED
  BY <1>1, <1>5 DEF Build

(* The transitions of one label.                                           *)
LEMMA MatchingFacts ==
  ASSUME NEW S, NEW s \in Seq(S), NEW label
  PROVE  /\ Matching(s, label) \in Seq(S)
         /\ Len(Matching(s, label)) = Cardinality(With(s, label))
         /\ \A k \in 1 .. Len(Matching(s, label)) : Matching(s, label)[k] = label
<1> DEFINE K == {k \in 1 .. Len(s) : s[k] = label}
           n == Cardinality(K)
<1>1. IsFiniteSet(1 .. Len(s)) /\ K \subseteq 1 .. Len(s)
  BY FS_Interval
<1>2. IsFiniteSet(K)
  BY <1>1, FS_Subset
<1>3. n \in Nat
  BY <1>2, FS_CardinalityType
<1>4. n # 0 => K # {}
  BY FS_EmptySet
<1>5. n # 0 => label \in S
  BY <1>4
<1>6. Matching(s, label) = [m \in 1 .. n |-> label]
  BY DEF Matching
<1> HIDE DEF n, K
<1>7. n = 0 => 1 .. n = {}
  OBVIOUS
<1>8. Matching(s, label) \in [1 .. n -> S]
  BY <1>3, <1>5, <1>6, <1>7
<1>9. Matching(s, label) \in Seq(S) /\ Len(Matching(s, label)) = n
  BY <1>3, <1>8
<1>10. n = Cardinality(With(s, label))
  BY DEF With, n, K
<1>11. QED
  BY <1>6, <1>9, <1>10

(* The next position: both iterators reach their end together, and one     *)
(* more pair is before it.                                                 *)
LEMMA NextPosition ==
  ASSUME TypeOK, i # LEnd, j # REnd, Increment, UNCHANGED <<lhs, rhs>>
  PROVE  /\ i' \in 1 .. LEnd' /\ j' \in 1 .. REnd'
         /\ i' = LEnd' <=> j' = REnd'
         /\ \A k \in 1 .. Len(lhs), l \in 1 .. Len(rhs) :
              Before(k, l, i', j') <=> Before(k, l, i, j) \/ (k = i /\ l = j)
<1>1. /\ Len(lhs) \in Nat /\ Len(rhs) \in Nat
      /\ i \in 1 .. Len(lhs) /\ j \in 1 .. Len(rhs)
      /\ LEnd' = Len(lhs) + 1 /\ REnd' = Len(rhs) + 1
  <2>1. Len(lhs) \in Nat /\ Len(rhs) \in Nat
    BY DEF TypeOK
  <2>2. i \in 1 .. Len(lhs) /\ j \in 1 .. Len(rhs)
    BY <2>1 DEF TypeOK, LEnd, REnd
  <2>3. LEnd' = Len(lhs) + 1 /\ REnd' = Len(rhs) + 1
    BY DEF LEnd, REnd
  <2>4. QED
    BY <2>1, <2>2, <2>3
<1>2. CASE j + 1 # REnd
  <2>1. i' = i /\ j' = j + 1 /\ j + 1 \in 1 .. Len(rhs)
    BY <1>1, <1>2 DEF Increment, REnd
  <2>2. QED
    BY <1>1, <2>1 DEF Before
<1>3. CASE j + 1 = REnd /\ i + 1 # LEnd
  <2>1. i' = i + 1 /\ j' = 1 /\ i + 1 \in 1 .. Len(lhs) /\ j = Len(rhs)
    BY <1>1, <1>3 DEF Increment, LEnd, REnd
  <2>2. QED
    BY <1>1, <2>1 DEF Before
<1>4. CASE j + 1 = REnd /\ i + 1 = LEnd
  <2>1. i' = i + 1 /\ j' = REnd /\ i = Len(lhs) /\ j = Len(rhs)
    BY <1>1, <1>4 DEF Increment, LEnd, REnd
  <2>2. QED
    BY <1>1, <2>1 DEF Before, REnd
<1>5. QED
  BY <1>2, <1>3, <1>4

-----------------------------------------------------------------------------
LEMMA Initially == Init => Inv
BY DEF Init, Inv, TypeOK, Positions, Selected, Ended, VisitsExact, VisitsOnce, LEnd, REnd

LEMMA BeginPreserves == Inv /\ Begin => Inv'
<1> SUFFICES ASSUME Inv, Begin PROVE Inv'
  OBVIOUS
<1> USE DEF Inv
<1>1. /\ pc = "new" /\ pc' = "skip" /\ UNCHANGED <<kind, right, operands, asked, visited>>
      /\ lhs' = LeftOf(asked) /\ rhs' = RightOf(asked) /\ visited = <<>>
  BY DEF Begin, Positions
<1>2. operands[1] \in Seq(LeftLabel) /\ operands[2] \in Seq(RightLabel)
  BY OperandsAssumption DEF TypeOK
<1>3. lhs' \in Seq(LeftLabel) /\ rhs' \in Seq(RightLabel)
  BY <1>1, <1>2, MatchingFacts DEF LeftOf, RightOf
<1>4. Selected'
  <2>1. CASE asked = NoLabel
    BY <1>1, <2>1 DEF Selected
  <2>2. CASE asked # NoLabel
    BY <1>1, <1>2, <2>2, MatchingFacts DEF Selected, LeftOf, RightOf
  <2>3. QED
    BY <2>1, <2>2
<1>5. Len(lhs') \in Nat /\ Len(rhs') \in Nat /\ (lhs' = <<>> <=> Len(lhs') = 0)
      /\ (rhs' = <<>> <=> Len(rhs') = 0)
  BY <1>3
<1>6. LEnd' = Len(lhs') + 1 /\ REnd' = Len(rhs') + 1
  BY DEF LEnd, REnd
<1>7. \/ /\ Emptied(lhs', rhs') /\ i' = LEnd' /\ j' = REnd'
      \/ /\ ~Emptied(lhs', rhs') /\ i' = 1 /\ j' = 1
  BY <1>6 DEF Begin
<1>8. TypeOK'
  BY <1>1, <1>3, <1>5, <1>6, <1>7 DEF TypeOK
<1>9. Positions'
  <2>1. CASE Emptied(lhs', rhs')
    BY <1>1, <1>7, <2>1 DEF Positions
  <2>2. CASE ~Emptied(lhs', rhs')
    <3>1. rhs' # <<>> /\ (kind = "states" \/ lhs' # <<>>)
      BY <2>2 DEF Emptied, TypeOK
    <3>2. j' # REnd' /\ (i' # LEnd' \/ (kind' = "states" /\ lhs' = <<>>))
      BY <1>1, <1>5, <1>6, <1>7, <2>2, <3>1
    <3>3. QED
      BY <1>1, <3>2 DEF Positions, StartsOutside
  <2>3. QED
    BY <2>1, <2>2
<1>10. VisitsExact'
  <2>1. ASSUME NEW k \in 1 .. Len(lhs'), NEW l \in 1 .. Len(rhs')
        PROVE  ~Before(k, l, i', j')
    <3>1. CASE Emptied(lhs', rhs')
      BY <1>5, <3>1, <2>1 DEF Emptied
    <3>2. CASE ~Emptied(lhs', rhs')
      BY <1>5, <1>7, <3>2 DEF Before
    <3>3. QED
      BY <3>1, <3>2
  <2>2. {visited'[n] : n \in 1 .. Len(visited')} = {}
    BY <1>1
  <2>3. QED
    BY <2>1, <2>2 DEF VisitsExact
<1>11. VisitsOnce'
  BY <1>1 DEF VisitsOnce
<1>12. Ended'
  BY <1>1 DEF Ended
<1>13. QED
  BY <1>4, <1>8, <1>9, <1>10, <1>11, <1>12

(* A pair is dereferenced: it is the last, and the others are before it.   *)
LEMMA TakePreserves == Inv /\ Take => Inv'
<1> SUFFICES ASSUME Inv, Take PROVE Inv'
  OBVIOUS
<1> USE DEF Inv
<1>1. /\ pc = "at" /\ pc' = "skip" /\ visited' = Append(visited, <<i, j>>) /\ Increment
      /\ UNCHANGED <<kind, right, operands, asked, lhs, rhs>>
  BY DEF Take
<1>2. i # LEnd /\ j # REnd /\ Delivered(i, j)
  BY <1>1 DEF Positions
<1>3. /\ i' \in 1 .. LEnd' /\ j' \in 1 .. REnd' /\ (i' = LEnd' <=> j' = REnd')
      /\ \A k \in 1 .. Len(lhs), l \in 1 .. Len(rhs) :
           Before(k, l, i', j') <=> Before(k, l, i, j) \/ (k = i /\ l = j)
  BY <1>1, <1>2, NextPosition
<1> DEFINE P == (1 .. Len(lhs)) \X (1 .. Len(rhs))
           n == Len(visited)
<1>4. <<i, j>> \in P /\ visited \in Seq(P) /\ n \in Nat
  <2>1. Len(lhs) \in Nat /\ Len(rhs) \in Nat /\ visited \in Seq(P)
    BY DEF TypeOK
  <2>2. i \in 1 .. Len(lhs) /\ j \in 1 .. Len(rhs)
    BY <1>2, <2>1 DEF TypeOK, LEnd, REnd
  <2>3. QED
    BY <2>1, <2>2
<1>5. /\ visited' \in Seq(P) /\ Len(visited') = n + 1
      /\ \A m \in 1 .. n : visited'[m] = visited[m]
      /\ visited'[n + 1] = <<i, j>>
  BY <1>1, <1>4
<1> HIDE DEF n, P
<1>6. TypeOK'
  <2>1. /\ kind' = kind /\ right' = right /\ operands' = operands /\ asked' = asked /\ lhs' = lhs /\ rhs' = rhs
        /\ pc' = "skip"
    BY <1>1
  <2>2. visited' \in Seq((1 .. Len(lhs')) \X (1 .. Len(rhs')))
    BY <1>5, <2>1 DEF P
  <2>3. QED
    BY <1>3, <2>1, <2>2 DEF TypeOK
<1>7. Positions' /\ Selected' /\ Ended'
  BY <1>1, <1>3 DEF Positions, Selected, Ended
<1>8. \A k, l : Delivered(k, l)' <=> Delivered(k, l)
  BY <1>1 DEF Delivered, Compatible
<1>9. {visited[m] : m \in 1 .. n} = {p \in P : Before(p[1], p[2], i, j) /\ Delivered(p[1], p[2])}
  BY <1>1 DEF VisitsExact, n, P
<1>10. {visited'[m] : m \in 1 .. n + 1} = {visited[m] : m \in 1 .. n} \cup {<<i, j>>}
  <2>1. \A m : m \in 1 .. n + 1 <=> (m \in 1 .. n \/ m = n + 1)
    BY <1>4
  <2>2. ASSUME NEW p
        PROVE  (\E m \in 1 .. n + 1 : p = visited'[m]) <=>
                 (\E m \in 1 .. n : p = visited[m]) \/ p = <<i, j>>
    BY <1>5, <2>1
  <2>3. QED
    BY <2>2
<1>11. {p \in P : Before(p[1], p[2], i', j') /\ Delivered(p[1], p[2])} =
         {p \in P : Before(p[1], p[2], i, j) /\ Delivered(p[1], p[2])} \cup {<<i, j>>}
  <2>1. ASSUME NEW p \in P
        PROVE  Before(p[1], p[2], i', j') /\ Delivered(p[1], p[2]) <=>
                 (Before(p[1], p[2], i, j) /\ Delivered(p[1], p[2])) \/ p = <<i, j>>
    <3>1. p[1] \in 1 .. Len(lhs) /\ p[2] \in 1 .. Len(rhs) /\ p = <<p[1], p[2]>>
      BY DEF P
    <3>2. p = <<i, j>> <=> p[1] = i /\ p[2] = j
      BY <3>1
    <3>3. QED
      BY <1>2, <1>3, <3>1, <3>2
  <2>2. QED
    BY <1>4, <2>1
<1>12. VisitsExact'
  <2>1. /\ P' = P
        /\ {visited'[m] : m \in 1 .. Len(visited')} =
             {p \in P : Before(p[1], p[2], i', j') /\ Delivered(p[1], p[2])}
    BY <1>1, <1>5, <1>9, <1>10, <1>11 DEF P
  <2>2. {p \in P : Before(p[1], p[2], i', j') /\ Delivered(p[1], p[2])} =
          {p \in P : Before(p[1], p[2], i', j') /\ Delivered(p[1], p[2])'}
    BY <1>8
  <2>3. QED
    BY <1>1, <2>1, <2>2 DEF VisitsExact, P
<1>13. \A m \in 1 .. n : Before(visited[m][1], visited[m][2], i, j)
  BY <1>9
<1>14. VisitsOnce'
  <2>1. ASSUME NEW m \in 1 .. n + 1, NEW q \in 1 .. n + 1, m < q
        PROVE  Before(visited'[m][1], visited'[m][2], visited'[q][1], visited'[q][2])
    <3>1. CASE q = n + 1
      <4>1. m \in 1 .. n /\ visited'[m] = visited[m] /\ visited'[q] = <<i, j>>
        BY <1>4, <1>5, <2>1, <3>1
      <4>2. QED
        BY <1>13, <4>1
    <3>2. CASE q # n + 1
      <4>1. m \in 1 .. n /\ q \in 1 .. n
        BY <1>4, <2>1, <3>2
      <4>2. visited'[m] = visited[m] /\ visited'[q] = visited[q]
        BY <1>5, <4>1
      <4>3. QED
        BY <4>1, <4>2, <2>1 DEF VisitsOnce, n
    <3>3. QED
      BY <3>1, <3>2
  <2>2. QED
    BY <1>5, <2>1 DEF VisitsOnce
<1>15. QED
  BY <1>6, <1>7, <1>12, <1>14

LEMMA SkipPreserves == Inv /\ Skip => Inv'
<1> SUFFICES ASSUME Inv, Skip PROVE Inv'
  OBVIOUS
<1> USE DEF Inv
<1>1. /\ pc = "skip" /\ kind = "transitions" /\ ~Done
      /\ UNCHANGED <<kind, right, operands, asked, lhs, rhs, visited>>
  BY DEF Skip
<1>2. i # LEnd /\ j # REnd
  BY <1>1 DEF Positions, StartsOutside, Done
<1>3. \A k, l : Delivered(k, l)' <=> Delivered(k, l)
  BY <1>1 DEF Delivered, Compatible
<1>4. Selected' /\ Ended' /\ VisitsOnce'
  <2>1. pc # "new" /\ pc' # "new" /\ pc' # "done"
    BY <1>1 DEF Skip
  <2>2. QED
    BY <1>1, <2>1 DEF Selected, Ended, VisitsOnce
<1>5. CASE Compatible(i, j) /\ pc' = "at" /\ UNCHANGED <<i, j>>
  <2>1. TypeOK'
    BY <1>1, <1>5 DEF TypeOK, LEnd, REnd
  <2>2. Positions'
    BY <1>1, <1>2, <1>3, <1>5 DEF Positions, Delivered, LEnd, REnd
  <2>3. VisitsExact'
    BY <1>1, <1>3, <1>5 DEF VisitsExact
  <2>4. QED
    BY <1>4, <2>1, <2>2, <2>3
<1>6. CASE ~Compatible(i, j) /\ Increment /\ UNCHANGED pc
  <2>1. /\ i' \in 1 .. LEnd' /\ j' \in 1 .. REnd' /\ (i' = LEnd' <=> j' = REnd')
        /\ \A k \in 1 .. Len(lhs), l \in 1 .. Len(rhs) :
             Before(k, l, i', j') <=> Before(k, l, i, j) \/ (k = i /\ l = j)
    BY <1>1, <1>2, <1>6, NextPosition
  <2>2. TypeOK'
    BY <1>1, <1>6, <2>1 DEF TypeOK
  <2>3. Positions'
    BY <1>1, <1>6, <2>1 DEF Positions
  <2>4. ~Delivered(i, j)
    BY <1>1, <1>6 DEF Delivered
  <2> DEFINE P == (1 .. Len(lhs)) \X (1 .. Len(rhs))
  <2>5. {p \in P : Before(p[1], p[2], i', j') /\ Delivered(p[1], p[2])} =
          {p \in P : Before(p[1], p[2], i, j) /\ Delivered(p[1], p[2])}
    BY <2>1, <2>4
  <2>6. VisitsExact'
    BY <1>1, <1>3, <1>6, <2>5 DEF VisitsExact
  <2>7. QED
    BY <1>4, <2>2, <2>3, <2>6
<1>7. QED
  BY <1>5, <1>6 DEF Skip

(* The other steps move nothing.                                           *)
LEMMA OthersPreserve ==
  ASSUME Inv, Land \/ End \/ UNCHANGED vars
  PROVE  Inv'
<1> USE DEF Inv
<1>1. UNCHANGED <<kind, right, operands, asked, lhs, rhs, i, j, visited>>
  BY DEF Land, End, vars
<1>2. TypeOK' /\ Selected' /\ VisitsOnce'
  <2>1. pc' \in {"new", "skip", "at", "done", "outside"} /\ (pc' # "new" => pc # "new")
    BY DEF Land, End, vars, TypeOK
  <2>2. QED
    BY <1>1, <2>1 DEF TypeOK, Selected, VisitsOnce, LEnd, REnd
<1>3. \A k, l : Delivered(k, l)' <=> Delivered(k, l)
  BY <1>1 DEF Delivered, Compatible
<1>4. VisitsExact'
  <2>1. pc' # "new" => pc # "new"
    BY DEF Land, End, vars
  <2>2. QED
    BY <1>1, <1>3, <2>1 DEF VisitsExact
<1>5. Positions'
  <2>1. CASE Land
    <3>1. pc = "skip" /\ kind = "states" /\ ~(i = LEnd /\ j = REnd)
          /\ pc' = IF i = LEnd \/ j = REnd THEN "outside" ELSE "at"
      BY <2>1 DEF Land, Done
    <3>2. LEnd' = LEnd /\ REnd' = REnd
      BY <1>1 DEF LEnd, REnd
    <3>3. CASE i = LEnd \/ j = REnd
      <4>1. StartsOutside'
        BY <1>1, <3>1, <3>3 DEF Positions, StartsOutside
      <4>2. QED
        BY <3>1, <3>3, <4>1 DEF Positions
    <3>4. CASE ~(i = LEnd \/ j = REnd)
      <4>1. Delivered(i, j)'
        BY <1>1, <3>1 DEF Delivered
      <4>2. QED
        BY <1>1, <3>1, <3>2, <3>4, <4>1 DEF Positions
    <3>5. QED
      BY <3>3, <3>4
  <2>2. CASE End
    BY <1>1, <2>2 DEF End, Done, Positions, StartsOutside, LEnd, REnd
  <2>3. CASE UNCHANGED vars
    <3>1. UNCHANGED <<pc, StartsOutside, LEnd, REnd>>
      BY <2>3 DEF vars, StartsOutside, LEnd, REnd
    <3>2. QED
      BY <1>1, <1>3, <3>1 DEF Positions, Delivered, Compatible
  <2>4. QED
    BY <2>1, <2>2, <2>3
<1>6. Ended'
  <2>1. pc' = "done" => (Done \/ pc = "done")
    BY DEF Land, End, vars
  <2>2. QED
    BY <1>1, <2>1 DEF Ended, Done, LEnd, REnd
<1>7. QED
  BY <1>2, <1>4, <1>5, <1>6

(* The invariant the properties follow from.                               *)
THEOREM Invariance == Spec => []Inv
<1>1. Init => Inv
  BY Initially
<1>2. Inv /\ [Step]_vars => Inv'
  BY BeginPreserves, TakePreserves, SkipPreserves, OthersPreserve DEF Step, Stopped
<1>3. QED
  BY <1>1, <1>2, PTL DEF Spec

(* The variables have their types, and the iterators never pass their end. *)
THEOREM TypeCorrect == Spec => []TypeOK
<1>1. Inv => TypeOK
  BY DEF Inv
<1>2. QED
  BY <1>1, Invariance, PTL

(* The iterators of a product of transitions reach their end together, and *)
(* none is dereferenced outside its sequence but that of the states of a   *)
(* product with an empty left component.                                   *)
THEOREM EndsTogether == Spec => []EndTogether
<1>1. Inv => EndTogether
  BY DEF Inv, Positions, StartsOutside, EndTogether
<1>2. QED
  BY <1>1, Invariance, PTL

(* Every compatible pair is delivered, and no other.                       *)
THEOREM EveryPairVisited == Spec => []VisitsExact
<1>1. Inv => VisitsExact
  BY DEF Inv
<1>2. QED
  BY <1>1, Invariance, PTL

(* None is delivered twice.                                                *)
THEOREM NoPairTwice == Spec => []VisitsOnce
<1>1. Inv => VisitsOnce
  BY DEF Inv
<1>2. QED
  BY <1>1, Invariance, PTL

(* The positions delivered are those of labels of the operands.            *)
LEMMA VisitedLabels ==
  ASSUME Inv, NEW n \in 1 .. Len(visited)
  PROVE  /\ visited[n][1] \in 1 .. Len(lhs) /\ visited[n][2] \in 1 .. Len(rhs)
         /\ lhs[visited[n][1]] \in LeftLabel /\ rhs[visited[n][2]] \in RightLabel
BY DEF Inv, TypeOK

(* The product of the label of the left component and of one that is       *)
(* compatible answers, if the latter is that of the right component or the *)
(* right component is adapted.                                             *)
LEMMA AnswersOfParts ==
  ASSUME asked \in Queries, right \in {"stored", "adapted"},
         NEW l, NEW r \in RightLabel, l = Lhs(asked), l \in LeftLabel,
         ~IsFalse(Build(l, r)), right = "stored" => r = Rhs(asked)
  PROVE  Answers(Build(l, r))
<1>1. Lhs(Build(l, r)).ops = Lhs(asked).ops /\ Lhs(Build(l, r)).accs = Lhs(asked).accs
  BY PartsOfBuilt
<1>2. right = "stored" => Build(l, r) = asked
  BY BuiltOfParts
<1>3. QED
  BY <1>1, <1>2 DEF Answers

(* What answers with the letter of the label is made of its parts.         *)
LEMMA PartsOfAnswer ==
  ASSUME asked \in Queries, NEW l \in LeftLabel, NEW r \in RightLabel,
         Answers(Build(l, r)), l.letter = asked.letter,
         right = "stored" => r.letter = asked.letter
  PROVE  /\ l = Lhs(asked) /\ ~IsFalse(Build(Lhs(asked), r))
         /\ right = "stored" => r = Rhs(asked)
<1>1. /\ l = [letter |-> l.letter, ops |-> l.ops, accs |-> l.accs]
      /\ r = [letter |-> r.letter, ops |-> r.ops, accs |-> r.accs]
  BY OperandsAssumption DEF Labelled
<1>2. l.ops = Lhs(asked).ops /\ l.accs = Lhs(asked).accs
  BY PartsOfBuilt DEF Answers
<1>3. /\ Lhs(asked) = [letter |-> asked.letter, ops |-> Lhs(asked).ops, accs |-> Lhs(asked).accs]
      /\ Rhs(asked) = [letter |-> asked.letter, ops |-> Rhs(asked).ops, accs |-> Rhs(asked).accs]
  BY DEF Lhs, Rhs
<1>4. l = Lhs(asked)
  BY <1>1, <1>2, <1>3
<1>5. right = "stored" => r.ops = Rhs(asked).ops /\ r.accs = Rhs(asked).accs
  BY PartsOfBuilt DEF Answers
<1>6. right = "stored" => r = Rhs(asked)
  BY <1>1, <1>3, <1>5
<1>7. QED
  BY <1>4, <1>6 DEF Answers

LEMMA IntervalCount ==
  ASSUME NEW n \in Nat
  PROVE  IsFiniteSet(1 .. n) /\ Cardinality(1 .. n) = n
<1>1. /\ 1 \in Int /\ n \in Int
  OBVIOUS
<1>2. Cardinality(1 .. n) = IF 1 > n THEN 0 ELSE n - 1 + 1
  BY <1>1, FS_Interval
<1>3. QED
  BY <1>1, <1>2, FS_Interval

(* The pairs delivered are as many as there were deliveries.               *)
LEMMA DeliveriesCounted ==
  ASSUME Inv
  PROVE  /\ IsFiniteSet({visited[n] : n \in 1 .. Len(visited)})
         /\ Cardinality({visited[n] : n \in 1 .. Len(visited)}) = Len(visited)
<1> DEFINE S == 1 .. Len(visited)
           T == {visited[n] : n \in S}
           f == [n \in S |-> visited[n]]
<1>1. Len(visited) \in Nat /\ \A n \in S : visited[n][1] \in Nat /\ visited[n][2] \in Nat
  BY DEF Inv, TypeOK
<1>2. IsFiniteSet(S) /\ Cardinality(S) = Len(visited)
  BY <1>1, IntervalCount
<1>3. \A m, n \in S : m < n => visited[m] # visited[n]
  BY <1>1 DEF Inv, VisitsOnce, Before
<1>4. f \in Bijection(S, T)
  <2>1. f \in [S -> T] /\ \A t \in T : \E n \in S : f[n] = t
    OBVIOUS
  <2>2. \A m, n \in S : f[m] = f[n] => m = n
    <3>1. SUFFICES ASSUME NEW m \in S, NEW n \in S, visited[m] = visited[n], m # n
                   PROVE  FALSE
      OBVIOUS
    <3>2. m < n \/ n < m
      BY <1>1, <3>1
    <3>3. QED
      BY <1>3, <3>1, <3>2
  <2>3. QED
    BY <2>1, <2>2 DEF Bijection, Injection, Surjection, IsInjective
<1>5. ExistsBijection(S, T)
  BY <1>4 DEF ExistsBijection
<1>6. QED
  BY <1>2, <1>5, FS_Bijection

(* At the end, what is delivered for a label is at least what the operands *)
(* have of it: transitions of the left one with its left part, times those *)
(* of the right one with its right part, or compatible with the left part. *)
LEMMA DeliveredAll ==
  ASSUME Inv, asked # NoLabel, pc = "done"
  PROVE  Len(visited) >= Cardinality(
           {p \in (1 .. Len(operands[1])) \X (1 .. Len(operands[2])) :
              LET l == operands[1][p[1]]
                  r == operands[2][p[2]]
              IN /\ Answers(Build(l, r)) /\ l.letter = asked.letter
                 /\ right = "stored" => r.letter = asked.letter})
<1> DEFINE L == Lhs(asked)
           K == With(operands[1], L)
           D == {l \in 1 .. Len(rhs) : ~IsFalse(Build(L, rhs[l]))}
           C == {l \in 1 .. Len(operands[2]) :
                   ~IsFalse(Build(L, operands[2][l])) /\ (right = "stored" => operands[2][l] = Rhs(asked))}
           A == {p \in (1 .. Len(operands[1])) \X (1 .. Len(operands[2])) :
                   LET l == operands[1][p[1]]
                       r == operands[2][p[2]]
                   IN /\ Answers(Build(l, r)) /\ l.letter = asked.letter
                      /\ right = "stored" => r.letter = asked.letter}
<1>1. /\ asked \in Queries /\ right \in {"stored", "adapted"}
      /\ operands[1] \in Seq(LeftLabel) /\ operands[2] \in Seq(RightLabel)
      /\ Len(lhs) \in Nat /\ Len(rhs) \in Nat
  BY OperandsAssumption DEF Inv, TypeOK
<1>2. /\ kind = "transitions" /\ i = Len(lhs) + 1 /\ j = Len(rhs) + 1
      /\ \A k \in 1 .. Len(lhs) : lhs[k] = L
      /\ Len(lhs) = Cardinality(K)
      /\ IF right = "adapted" THEN rhs = operands[2]
         ELSE /\ \A l \in 1 .. Len(rhs) : rhs[l] = Rhs(asked)
              /\ Len(rhs) = Cardinality(With(operands[2], Rhs(asked)))
  BY DEF Inv, Selected, Ended, LEnd, REnd
<1>3. A \subseteq K \X C
  <2>1. ASSUME NEW p \in A PROVE p \in K \X C
    <3> DEFINE l == operands[1][p[1]]
               r == operands[2][p[2]]
    <3>1. /\ p = <<p[1], p[2]>>
          /\ p[1] \in 1 .. Len(operands[1]) /\ p[2] \in 1 .. Len(operands[2])
          /\ Answers(Build(l, r)) /\ l.letter = asked.letter
          /\ right = "stored" => r.letter = asked.letter
      BY <2>1
    <3>2. l \in LeftLabel /\ r \in RightLabel
      BY <1>1, <3>1
    <3>3. l = L /\ ~IsFalse(Build(L, r)) /\ (right = "stored" => r = Rhs(asked))
      BY <1>1, <3>1, <3>2, PartsOfAnswer
    <3>4. p[1] \in K /\ p[2] \in C
      BY <3>1, <3>3 DEF With
    <3>5. QED
      BY <3>1, <3>4
  <2>2. QED
    BY <2>1
<1>4. {visited[n] : n \in 1 .. Len(visited)} = (1 .. Len(lhs)) \X D
  <2>1. {visited[n] : n \in 1 .. Len(visited)} =
          {p \in (1 .. Len(lhs)) \X (1 .. Len(rhs)) :
             Before(p[1], p[2], i, j) /\ Delivered(p[1], p[2])}
    BY DEF Inv, VisitsExact
  <2>2. ASSUME NEW k \in 1 .. Len(lhs), NEW l \in 1 .. Len(rhs)
        PROVE  Before(k, l, i, j) /\ (Delivered(k, l) <=> l \in D)
    <3>1. Before(k, l, i, j)
      BY <1>1, <1>2 DEF Before
    <3>2. lhs[k] = L
      BY <1>2
    <3>3. QED
      BY <1>2, <3>1, <3>2 DEF Delivered, Compatible
  <2> HIDE DEF D
  <2>3. D \subseteq 1 .. Len(rhs)
    BY DEF D
  <2>4. QED
    BY <2>1, <2>2, <2>3
<1>5. /\ IsFiniteSet(K) /\ IsFiniteSet(C) /\ IsFiniteSet(D) /\ IsFiniteSet(1 .. Len(lhs))
      /\ Cardinality(C) \in Nat /\ Cardinality(D) \in Nat
      /\ Cardinality(1 .. Len(lhs)) = Len(lhs)
  <2>1. IsFiniteSet(1 .. Len(operands[1])) /\ IsFiniteSet(1 .. Len(operands[2]))
        /\ IsFiniteSet(1 .. Len(rhs)) /\ IsFiniteSet(1 .. Len(lhs))
        /\ Cardinality(1 .. Len(lhs)) = Len(lhs)
    BY <1>1, IntervalCount
  <2>2. K \subseteq 1 .. Len(operands[1]) /\ C \subseteq 1 .. Len(operands[2]) /\ D \subseteq 1 .. Len(rhs)
    BY DEF With
  <2> HIDE DEF K, C, D
  <2>3. QED
    BY <2>1, <2>2, FS_Subset, FS_CardinalityType
<1>6. Cardinality(C) <= Cardinality(D)
  <2>1. CASE right = "adapted"
    <3>1. C = D
      BY <1>2, <2>1
    <3> HIDE DEF C, D
    <3>2. QED
      BY <1>5, <3>1
  <2>2. CASE right = "stored" /\ IsFalse(Build(L, Rhs(asked)))
    <3>1. C = {}
      BY <2>2
    <3> HIDE DEF C, D
    <3>2. QED
      BY <1>5, <3>1, FS_EmptySet
  <2>3. CASE right = "stored" /\ ~IsFalse(Build(L, Rhs(asked)))
    <3>1. C = With(operands[2], Rhs(asked))
      BY <2>3 DEF With
    <3>2. D = 1 .. Len(rhs)
      BY <1>2, <2>3
    <3> HIDE DEF C, D
    <3>3. Cardinality(D) = Len(rhs)
      BY <1>1, <3>2, IntervalCount
    <3>4. QED
      BY <1>1, <1>2, <2>3, <3>1, <3>3
  <2>4. QED
    BY <1>1, <2>1, <2>2, <2>3
<1> HIDE DEF A, C, D, K, L
<1>7. /\ IsFiniteSet(K \X C) /\ Cardinality(K \X C) = Cardinality(K) * Cardinality(C)
      /\ Cardinality((1 .. Len(lhs)) \X D) = Len(lhs) * Cardinality(D)
  BY <1>5, FS_Product
<1>8. Cardinality(A) <= Cardinality(K \X C)
  BY <1>3, <1>7, FS_Subset
<1>9. Cardinality(K) * Cardinality(C) <= Len(lhs) * Cardinality(D)
  <2>1. \A a, b, c \in Nat : b <= c => a * b <= a * c
    OBVIOUS
  <2>2. Cardinality(C) \in Nat /\ Cardinality(D) \in Nat
    BY <1>5, FS_CardinalityType
  <2>3. QED
    BY <1>1, <1>2, <1>6, <2>1, <2>2
<1>10. Len(visited) = Len(lhs) * Cardinality(D)
  BY <1>4, <1>7, DeliveriesCounted
<1>11. Cardinality(A) \in Nat /\ Cardinality(K \X C) \in Nat
  BY <1>3, <1>7, FS_Subset, FS_CardinalityType
<1>12. Len(visited) >= Cardinality(A)
  <2>1. Len(visited) \in Nat
    BY DEF Inv, TypeOK
  <2>2. QED
    BY <1>7, <1>8, <1>9, <1>10, <1>11, <2>1
<1>13. QED
  BY <1>12 DEF A

(* What is delivered for a label answers it, and nothing is missed of what *)
(* the operands have with its letter.                                      *)
THEOREM AskedCorrect == Spec => []AskedDelivered
<1>1. Inv => AskedDelivered
  <2>1. SUFFICES ASSUME Inv, asked # NoLabel PROVE AskedDelivered
    BY DEF AskedDelivered
  <2>2. asked \in Queries /\ right \in {"stored", "adapted"}
    BY <2>1 DEF Inv, TypeOK
  <2>3. ASSUME NEW n \in 1 .. Len(visited)
        PROVE  Answers(Build(lhs[visited[n][1]], rhs[visited[n][2]]))
    <3> DEFINE l == lhs[visited[n][1]]
               r == rhs[visited[n][2]]
    <3>1. /\ visited[n][1] \in 1 .. Len(lhs) /\ visited[n][2] \in 1 .. Len(rhs)
          /\ l \in LeftLabel /\ r \in RightLabel
      BY <2>1, VisitedLabels
    <3>2. pc # "new" /\ kind = "transitions"
      BY <2>1 DEF Inv, Positions, Selected
    <3>3. l = Lhs(asked) /\ (right = "stored" => r = Rhs(asked))
      BY <2>1, <3>1, <3>2 DEF Inv, Selected
    <3>4. ~IsFalse(Build(l, r))
      BY <2>1, <3>2 DEF Inv, VisitsExact, Delivered, Compatible
    <3> HIDE DEF l, r
    <3>5. Answers(Build(l, r))
      BY <2>2, <3>1, <3>3, <3>4, AnswersOfParts
    <3>6. QED
      BY <3>5 DEF l, r
  <2>4. QED
    BY <2>1, <2>3, DeliveredAll DEF AskedDelivered
<1>2. QED
  BY <1>1, Invariance, PTL

(* The counters and acceptance sets of a transition are those of its       *)
(* operands.                                                               *)
THEOREM ApartCorrect == Spec => []OperandsApart
<1>1. Inv => OperandsApart
  BY VisitedLabels, PartsOfBuilt DEF OperandsApart
<1>2. QED
  BY <1>1, Invariance, PTL
=============================================================================
