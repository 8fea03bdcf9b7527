------------------------- MODULE SupremumFinder_proof -------------------------
(***************************************************************************)
(* find_supremum, proved for every automaton, every number of counters and *)
(* every width of the counters.  Inv: the types, and that no top is read   *)
(* off an empty stack.  Shape: what the path, the stack of components and  *)
(* the removed ones have to do with the transitions already looked at.     *)
(* Linked: the components are strongly connected, hence have one value.    *)
(* Account: which of them the maximum takes into account, hence the answer *)
(* is the supremum over the accepting components.                          *)
(***************************************************************************)
EXTENDS SupremumFinder, NatLemmas, FiniteSetTheorems

Origin == DefaultConfig(aut.init)

(* Orders of visit start at 1, which only the initial configuration has.   *)
Orders ==
  /\ num >= 1
  /\ \A c \in DOMAIN h : h[c] = Dead \/ h[c] \in 1 .. num
  /\ \A c \in DOMAIN h : h[c] = 1 => c = Origin

(* The path starts at the initial configuration and visits none twice.     *)
Path ==
  /\ \A i \in 1 .. Len(todo) : todo[i].conf \in DOMAIN h
  /\ \A i, j \in 1 .. Len(todo) : todo[i].conf = todo[j].conf => i = j
  /\ todo # <<>> => todo[1].conf = Origin

Roots ==
  /\ StackDiscipline
  /\ \A i \in 1 .. Len(root) : root[i].index \in 1 .. num

Inv == TypeOK /\ Orders /\ Path /\ Roots

-----------------------------------------------------------------------------
(* Successors of configurations are configurations.                        *)
LEMMA IncrementedType ==
  ASSUME NEW c \in Configuration, NEW e \in Edge
  PROVE  Incremented(c, e) \in [Counter -> Unsigned]
<1>1. \A k \in Counter : c.counters[k] \in Unsigned /\ (c.counters[k] + 1) % Wrap \in Unsigned
  BY ConfigurationAssumption DEF Configuration, Unsigned
<1>2. QED
  BY <1>1 DEF Incremented

LEMMA LeastOfType ==
  ASSUME NEW S \in SUBSET Unsigned, S # {}
  PROVE  LeastOf(S) \in Unsigned
<1>1. S \in SUBSET Nat
  BY DEF Unsigned
<1>2. \E m \in S : \A n \in S : m <= n
  BY <1>1, LeastNat
<1>3. QED
  BY <1>2 DEF LeastOf

LEMMA SuccessorType ==
  ASSUME NEW c \in Configuration, NEW e \in Edge
  PROVE  Successor(c, e) \in Configuration
<1>1. Candidates(c, e) \in SUBSET Unsigned
  BY IncrementedType DEF Candidates, Checked, Configuration
<1>2. c.value \in Unsigned /\ c.bounded \in BOOLEAN /\ e.dst \in State
  BY DEF Configuration, Edge
<1>3. (IF Candidates(c, e) = {} THEN c.value ELSE LeastOf(Candidates(c, e))) \in Unsigned
  BY <1>1, <1>2, LeastOfType
<1>4. [k \in Counter |-> IF "reset" \in e.ops[k] THEN 0 ELSE Incremented(c, e)[k]]
        \in [Counter -> Unsigned]
  BY IncrementedType, ConfigurationAssumption DEF Unsigned
<1>5. (c.bounded \/ Checked(c, e) # {}) \in BOOLEAN
  OBVIOUS
<1>6. QED
  BY <1>2, <1>3, <1>4, <1>5 DEF Successor, Configuration

LEMMA DefaultConfigType ==
  ASSUME NEW q \in State
  PROVE  DefaultConfig(q) \in Configuration
BY ConfigurationAssumption DEF DefaultConfig, Configuration, Unsigned

LEMMA FrameTyped ==
  ASSUME TypeOK, NEW c \in Configuration
  PROVE  Frame(c) \in FrameType
BY DEF TypeOK, Frame, FrameType, Leaving, Automaton, Configuration

-----------------------------------------------------------------------------
LEMMA InitInv == Init => Inv
<1> SUFFICES ASSUME Init PROVE Inv
  OBVIOUS
<1>1. aut \in Automaton /\ bound \in Unsigned /\ aut.init \in State
  BY AutomataAssumption DEF Init, Automaton
<1>2. Origin \in Configuration
  BY <1>1, DefaultConfigType DEF Origin
<1>3. Frame(Origin) \in FrameType /\ Frame(Origin).conf = Origin
  BY <1>1, <1>2 DEF Frame, FrameType, Leaving, Automaton, Configuration
<1>4. Component(1) \in ComponentType /\ Component(1).index = 1
  BY DEF Component, ComponentType
<1>5. /\ todo = <<Frame(Origin)>> /\ root = <<Component(1)>> /\ arc = <<{}>>
      /\ DOMAIN h = {Origin} /\ h[Origin] = 1
      /\ h \in [DOMAIN h -> Int]
  BY DEF Init, Origin
<1>6. TypeOK
  BY <1>1, <1>2, <1>3, <1>4, <1>5, ConfigurationAssumption
     DEF TypeOK, Init, Unsigned
<1>7. Orders
  BY <1>5 DEF Orders, Init
<1>8. Path
  BY <1>3, <1>5 DEF Path
<1>9. Roots
  BY <1>4, <1>5 DEF Roots, StackDiscipline, Init
<1>10. QED
  BY <1>6, <1>7, <1>8, <1>9 DEF Inv

(* What the invariant says of a search that is still going on: there is a  *)
(* current configuration, and a component on top of the stack.             *)
LEMMA TopsExist ==
  ASSUME Inv, Searching
  PROVE  /\ todo \in Seq(FrameType) /\ Len(todo) \in Nat /\ Len(todo) >= 1
         /\ root \in Seq(ComponentType) /\ Len(root) \in Nat /\ Len(root) >= 1
         /\ arc \in Seq(SUBSET Acceptance) /\ Len(arc) = Len(root)
         /\ Top(todo) \in FrameType /\ Top(todo).conf \in DOMAIN h
         /\ Top(root) \in ComponentType
         /\ root[1].index = 1
<1>1. todo \in Seq(FrameType) /\ todo # <<>>
  BY DEF Inv, TypeOK, Searching
<1>2. root \in Seq(ComponentType) /\ root # <<>> /\ root[1].index = 1
  BY <1>1 DEF Inv, TypeOK, Roots, StackDiscipline
<1>3. Len(todo) \in Nat /\ Len(todo) >= 1 /\ Len(root) \in Nat /\ Len(root) >= 1
  BY <1>1, <1>2, PopFacts
<1>4. Top(todo) \in FrameType /\ Top(root) \in ComponentType
  BY <1>1, <1>2, <1>3, ElementOfSeq DEF Top
<1>5. Top(todo).conf \in DOMAIN h
  BY <1>3 DEF Inv, Path, Top
<1>6. QED
  BY <1>1, <1>2, <1>3, <1>4, <1>5 DEF Inv, TypeOK, Roots, StackDiscipline

LEMMA BacktrackInv == Inv /\ Backtrack => Inv'
<1> SUFFICES ASSUME Inv, Backtrack PROVE Inv'
  OBVIOUS
<1> DEFINE curr == Top(todo).conf
           n == Len(todo)
<1>1. Searching
  BY DEF Backtrack
<1>2. /\ todo \in Seq(FrameType) /\ n \in Nat /\ n >= 1
      /\ root \in Seq(ComponentType) /\ Len(root) \in Nat /\ Len(root) >= 1
      /\ arc \in Seq(SUBSET Acceptance) /\ Len(arc) = Len(root)
      /\ curr \in DOMAIN h /\ Top(root) \in ComponentType /\ root[1].index = 1
  BY <1>1, TopsExist
<1>3. UNCHANGED <<aut, bound, poprem, num, maxVal, pc, answer>>
  BY DEF Backtrack, params
<1>4. /\ todo' \in Seq(FrameType) /\ Len(todo') = n - 1
      /\ \A i \in 1 .. n - 1 : todo'[i] = todo[i]
  BY <1>1, <1>2, PopFacts DEF Backtrack, Pop, Searching
<1>5. n > 1 => curr # Origin
  BY <1>2 DEF Inv, Path, Top
<1>6. DOMAIN h' = DOMAIN h /\ h' \in [DOMAIN h -> Int]
      /\ \A c \in DOMAIN h : h'[c] = h[c] \/ h'[c] = Dead
  BY DEF Backtrack, Inv, TypeOK, Dead
<1>7. Orders'
  BY <1>3, <1>6 DEF Inv, Orders, Origin, Dead
<1>8. Path'
  <2>1. ASSUME todo' # <<>> PROVE todo'[1].conf = Origin'
    <3>1. n - 1 >= 1 /\ todo'[1] = todo[1]
      BY <1>2, <1>4, <2>1, EmptySeq
    <3>2. todo # <<>>
      BY <1>1 DEF Searching
    <3>3. QED
      BY <1>3, <3>1, <3>2 DEF Inv, Path, Origin
  <2>2. \A i \in 1 .. n - 1 : i \in 1 .. n
    BY <1>2
  <2>3. QED
    BY <1>4, <1>6, <2>1, <2>2 DEF Inv, Path
<1>9. /\ root' \in Seq(ComponentType) /\ arc' \in Seq(SUBSET Acceptance)
      /\ Roots'
  <2>1. CASE root' = Pop(root) /\ arc' = Pop(arc) /\ Top(root).index = h[curr]
    <3>1. /\ root' \in Seq(ComponentType) /\ Len(root') = Len(root) - 1
          /\ \A i \in 1 .. Len(root) - 1 : root'[i] = root[i]
      BY <1>2, <2>1, PopFacts DEF Pop
    <3>2. arc' \in Seq(SUBSET Acceptance) /\ Len(arc') = Len(arc) - 1
      BY <1>2, <2>1, PopFacts DEF Pop
    <3>3. todo' # <<>> => Len(root) > 1
      <4>1. SUFFICES ASSUME todo' # <<>>, Len(root) = 1 PROVE FALSE
        BY <1>2
      <4>2. n > 1
        BY <1>2, <1>4, <4>1, EmptySeq
      <4>3. h[curr] = 1
        BY <1>2, <2>1, <4>1 DEF Top
      <4>4. QED
        BY <1>2, <1>5, <4>2, <4>3 DEF Inv, Orders
    <3>4. Roots'
      <4>1. todo' # <<>> => root' # <<>> /\ root'[1].index = 1
        BY <1>2, <3>1, <3>3, EmptySeq
      <4>2. \A i \in 1 .. Len(root) - 1 : i \in 1 .. Len(root)
        BY <1>2
      <4>3. QED
        BY <1>2, <1>3, <3>1, <3>2, <4>1, <4>2 DEF Inv, Roots, StackDiscipline
    <3>5. QED
      BY <3>1, <3>2, <3>4
  <2>2. CASE UNCHANGED arc /\ \E left \in ComponentType :
               left.index = Top(root).index /\ root' = [root EXCEPT ![Len(root)] = left]
    <3>1. /\ root' \in Seq(ComponentType) /\ Len(root') = Len(root)
          /\ \A i \in 1 .. Len(root) : root'[i].index = root[i].index
      BY <1>2, <2>2, ExceptSeq DEF Top
    <3>2. Roots'
      BY <1>2, <1>3, <2>2, <3>1 DEF Inv, Roots, StackDiscipline
    <3>3. QED
      BY <1>2, <2>2, <3>1, <3>2
  <2>3. [Top(root) EXCEPT !.rem = @ \cup {curr}] \in ComponentType
        /\ [Top(root) EXCEPT !.rem = @ \cup {curr}].index = Top(root).index
    BY <1>2 DEF ComponentType, Inv, TypeOK
  <2>4. QED
    BY <1>2, <2>1, <2>2, <2>3 DEF Backtrack
<1>10. TypeOK'
  BY <1>3, <1>4, <1>6, <1>9 DEF Inv, TypeOK
<1>11. QED
  BY <1>7, <1>8, <1>9, <1>10 DEF Inv

-----------------------------------------------------------------------------
(* The transition looked at, its target, and the path once the iterator    *)
(* has moved on.                                                           *)
LEMMA LookAtFacts ==
  ASSUME Inv, Searching, Top(todo).rest # <<>>, NEW e, e = Head(Top(todo).rest)
  PROVE  /\ e \in Edge /\ Dest(e) \in Configuration
         /\ Advanced \in Seq(FrameType) /\ Len(Advanced) = Len(todo)
         /\ \A i \in 1 .. Len(todo) : Advanced[i].conf = todo[i].conf
<1> DEFINE n == Len(todo)
<1>1. /\ todo \in Seq(FrameType) /\ n \in Nat /\ n >= 1
      /\ Top(todo) \in FrameType
  BY TopsExist
<1>2. Top(todo).rest \in Seq(Edge) /\ Top(todo).conf \in Configuration
  BY <1>1 DEF FrameType
<1>3. e \in Edge /\ Tail(Top(todo).rest) \in Seq(Edge)
  BY <1>2, HeadTailProperties
<1>4. Dest(e) \in Configuration
  BY <1>2, <1>3, SuccessorType DEF Dest
<1>5. [todo[n] EXCEPT !.rest = Tail(@)] \in FrameType
      /\ [todo[n] EXCEPT !.rest = Tail(@)].conf = todo[n].conf
  BY <1>1, <1>2, <1>3 DEF FrameType, Top
<1>6. Advanced = [todo EXCEPT ![n] = [todo[n] EXCEPT !.rest = Tail(@)]]
  BY DEF Advanced
<1>7. /\ Advanced \in Seq(FrameType) /\ Len(Advanced) = n
      /\ \A i \in 1 .. n : Advanced[i].conf = todo[i].conf
  BY <1>1, <1>5, <1>6, ExceptSeq
<1>8. QED
  BY <1>3, <1>4, <1>7

LEMMA VisitInv ==
  ASSUME Inv, Searching, Top(todo).rest # <<>>, NEW e, e = Head(Top(todo).rest), Visit(e)
  PROVE  Inv'
<1> DEFINE d == Dest(e)
           n == Len(todo)
           m == Len(root)
<1>1. /\ n \in Nat /\ n >= 1 /\ m \in Nat /\ m >= 1
      /\ root \in Seq(ComponentType) /\ root[1].index = 1
      /\ arc \in Seq(SUBSET Acceptance) /\ Len(arc) = m
      /\ todo # <<>>
  BY TopsExist DEF Searching
<1>2. /\ e \in Edge /\ d \in Configuration /\ d \notin DOMAIN h
      /\ Advanced \in Seq(FrameType) /\ Len(Advanced) = n
      /\ \A i \in 1 .. n : Advanced[i].conf = todo[i].conf
  BY LookAtFacts DEF Visit
<1>3. UNCHANGED <<aut, bound, poprem, maxVal, pc, answer>>
      /\ num' = num + 1 /\ num \in Nat /\ num >= 1
  BY DEF Visit, params, Inv, TypeOK, Orders
<1>4. Frame(d) \in FrameType /\ Frame(d).conf = d
  BY <1>2, FrameTyped DEF Inv, Frame
<1>5. Component(num + 1) \in ComponentType /\ Component(num + 1).index = num + 1
  BY <1>3 DEF Component, ComponentType
<1>6. /\ todo' \in Seq(FrameType) /\ Len(todo') = n + 1
      /\ \A i \in 1 .. n : todo'[i].conf = todo[i].conf
      /\ todo'[n + 1].conf = d
  BY <1>2, <1>4, PushFacts DEF Visit
<1>7. /\ root' \in Seq(ComponentType) /\ Len(root') = m + 1
      /\ \A i \in 1 .. m : root'[i] = root[i]
      /\ root'[m + 1].index = num + 1
  BY <1>1, <1>5, PushFacts DEF Visit
<1>8. arc' \in Seq(SUBSET Acceptance) /\ Len(arc') = m + 1
  BY <1>1, <1>2, PushFacts DEF Visit, Edge
<1>9. /\ DOMAIN h' = DOMAIN h \cup {d} /\ h' \in [DOMAIN h \cup {d} -> Int]
      /\ h'[d] = num + 1 /\ \A c \in DOMAIN h : h'[c] = h[c]
  BY <1>2, <1>3 DEF Visit, Inv, TypeOK
<1>10. TypeOK'
  BY <1>2, <1>3, <1>6, <1>7, <1>8, <1>9 DEF Inv, TypeOK
<1>11. Orders'
  BY <1>3, <1>9 DEF Inv, Orders, Origin, Dead
<1>12. Path'
  <2>1. \A i \in 1 .. n : todo'[i].conf \in DOMAIN h
    BY <1>6 DEF Inv, Path
  <2>2. todo'[1].conf = Origin'
    BY <1>1, <1>3, <1>6 DEF Inv, Path, Origin
  <2>3. \A i \in 1 .. n + 1 : i \in 1 .. n \/ i = n + 1
    BY <1>1
  <2>4. ASSUME NEW i \in 1 .. n + 1, NEW j \in 1 .. n + 1, todo'[i].conf = todo'[j].conf
        PROVE  i = j
    BY <1>2, <1>6, <2>1, <2>3, <2>4 DEF Inv, Path
  <2>5. QED
    BY <1>6, <1>9, <2>1, <2>2, <2>3, <2>4 DEF Path
<1>13. Roots'
  <2>1. \A i \in 1 .. m + 1 : i \in 1 .. m \/ i = m + 1
    BY <1>1
  <2>2. \A i \in 1 .. m : root[i].index \in 1 .. num
    BY DEF Inv, Roots
  <2>3. root' # <<>> /\ root'[1].index = 1
    BY <1>1, <1>7, EmptySeq
  <2>4. ASSUME NEW i \in 1 .. m + 1, NEW j \in 1 .. m + 1, i < j
        PROVE  root'[i].index < root'[j].index
    <3>1. i \in 1 .. m
      BY <1>1, <2>4
    <3>2. CASE j \in 1 .. m
      BY <1>7, <2>4, <3>1, <3>2 DEF Inv, Roots, StackDiscipline
    <3>3. CASE j = m + 1
      BY <1>3, <1>7, <2>2, <3>1, <3>3
    <3>4. QED
      BY <2>1, <3>2, <3>3
  <2>5. QED
    BY <1>3, <1>7, <1>8, <2>1, <2>2, <2>3, <2>4 DEF Roots, StackDiscipline
<1>14. QED
  BY <1>10, <1>11, <1>12, <1>13 DEF Inv

LEMMA IgnoreInv ==
  ASSUME Inv, Searching, Top(todo).rest # <<>>, NEW e, e = Head(Top(todo).rest), Ignore(e)
  PROVE  Inv'
<1>1. /\ Advanced \in Seq(FrameType) /\ Len(Advanced) = Len(todo) /\ Len(todo) \in Nat
      /\ \A i \in 1 .. Len(todo) : Advanced[i].conf = todo[i].conf
  BY LookAtFacts, TopsExist
<1>2. todo' = Advanced
      /\ UNCHANGED <<aut, bound, poprem, root, arc, h, num, maxVal, pc, answer>>
  BY DEF Ignore, params
<1>3. todo # <<>> /\ Len(todo) >= 1
  BY TopsExist DEF Searching
<1>4. TypeOK' /\ Orders'
  BY <1>1, <1>2 DEF Inv, TypeOK, Orders, Origin
<1>5. Path'
  BY <1>1, <1>2, <1>3 DEF Inv, Path, Origin
<1>6. Roots'
  BY <1>2, <1>3 DEF Inv, Roots, StackDiscipline
<1>7. QED
  BY <1>4, <1>5, <1>6 DEF Inv

(* The merge stops at a component of the stack: the lowest has index 1.    *)
LEMMA KeptTopInStack ==
  ASSUME Inv, Searching, NEW t \in Nat, t >= 1
  PROVE  KeptTop(t) \in 1 .. Len(root) /\ root[KeptTop(t)].index <= t
<1>1. Len(root) \in Nat /\ Len(root) >= 1 /\ root[1].index = 1
  BY TopsExist
<1>2. Kept(t) \in SUBSET Nat /\ 1 \in Kept(t) /\ \A i \in Kept(t) : i <= Len(root)
  BY <1>1 DEF Kept
<1>3. \E i \in Kept(t) : \A j \in Kept(t) : j <= i
  BY <1>1, <1>2, GreatestNat
<1>4. KeptTop(t) \in Kept(t)
  BY <1>3 DEF KeptTop
<1>5. QED
  BY <1>4 DEF Kept

LEMMA MergeInv ==
  ASSUME Inv, Searching, Top(todo).rest # <<>>, NEW e, e = Head(Top(todo).rest), Merge(e)
  PROVE  Inv'
<1> DEFINE d == Dest(e)
           m == Len(root)
           k == KeptTop(h[d])
           comp == MergedFrom(e, k)
<1>1. /\ m \in Nat /\ m >= 1 /\ root[1].index = 1
      /\ root \in Seq(ComponentType) /\ arc \in Seq(SUBSET Acceptance) /\ Len(arc) = m
      /\ todo # <<>> /\ todo \in Seq(FrameType) /\ Len(todo) \in Nat
  BY TopsExist DEF Searching
<1>2. /\ e \in Edge /\ d \in Configuration
      /\ Advanced \in Seq(FrameType) /\ Len(Advanced) = Len(todo)
      /\ \A i \in 1 .. Len(todo) : Advanced[i].conf = todo[i].conf
  BY LookAtFacts
<1>3. h[d] \in Nat /\ h[d] >= 1
  BY DEF Merge, Inv, Orders, TypeOK
<1>4. k \in 1 .. m
  BY <1>3, KeptTopInStack
<1> HIDE DEF k
<1>5. comp \in ComponentType /\ comp.index = root[k].index
  <2>1. root[k] \in ComponentType
    BY <1>1, <1>4, ElementOfSeq
  <2>2. \A i \in k + 1 .. m : root[i] \in ComponentType /\ arc[i] \in SUBSET Acceptance
    <3>1. \A i \in k + 1 .. m : i \in 1 .. m
      BY <1>1, <1>4
    <3>2. QED
      BY <1>1, <3>1, ElementOfSeq
  <2> DEFINE popped == k + 1 .. m
             conds == UNION {root[i].conditions \cup arc[i] : i \in popped}
             rems == UNION {root[i].rem : i \in popped}
  <2>3. conds \in SUBSET Acceptance /\ rems \in SUBSET Configuration
    BY <2>2 DEF ComponentType
  <2>4. e.acc \in SUBSET Acceptance
    BY <1>2 DEF Edge
  <2>5. comp = [root[k] EXCEPT !.conditions = @ \cup e.acc \cup conds, !.rem = @ \cup rems]
    BY DEF MergedFrom
  <2> HIDE DEF conds, rems, comp
  <2>6. QED
    BY <2>1, <2>3, <2>4, <2>5 DEF ComponentType
<1>6. UNCHANGED <<aut, bound, poprem, h, num>>
  BY DEF Merge, params
<1>7. root' = Append(SubSeq(root, 1, k - 1), comp) /\ arc' = SubSeq(arc, 1, k)
  BY DEF Merge, k
<1>8. /\ root' \in Seq(ComponentType) /\ Len(root') = k
      /\ \A i \in 1 .. k : root'[i].index = root[i].index
  <2> HIDE DEF comp
  <2>1. k - 1 \in 0 .. m
    BY <1>1, <1>4
  <2>2. /\ SubSeq(root, 1, k - 1) \in Seq(ComponentType) /\ Len(SubSeq(root, 1, k - 1)) = k - 1
        /\ \A i \in 1 .. k - 1 : SubSeq(root, 1, k - 1)[i] = root[i]
    BY <1>1, <2>1, PrefixFacts
  <2>3. /\ root' \in Seq(ComponentType) /\ Len(root') = (k - 1) + 1
        /\ \A i \in 1 .. k - 1 : root'[i] = root[i]
        /\ root'[(k - 1) + 1] = comp
    BY <1>5, <1>7, <2>2, PushFacts
  <2>4. (k - 1) + 1 = k /\ \A i \in 1 .. k : i \in 1 .. k - 1 \/ i = k
    BY <1>1, <1>4
  <2>5. QED
    BY <1>5, <2>3, <2>4
<1>9. arc' \in Seq(SUBSET Acceptance) /\ Len(arc') = k
  BY <1>1, <1>4, <1>7, PrefixFacts
<1>10. todo' = <<>> \/ todo' = Advanced
  BY DEF Merge
<1>11. /\ maxVal' \in Unsigned /\ pc' \in {"search", "done"}
       /\ answer' \in [infinite : BOOLEAN, value : Unsigned]
  <2>1. Raised(d) \in Unsigned /\ maxVal \in Unsigned /\ 0 \in Unsigned
    BY <1>2, ConfigurationAssumption DEF Raised, Inv, TypeOK, Configuration, Unsigned
  <2>2. maxVal' \in Unsigned
    BY <2>1 DEF Merge
  <2>3. \/ pc' = "done" /\ \E v \in Unsigned, b \in BOOLEAN : answer' = [infinite |-> b, value |-> v]
        \/ pc' = pc /\ answer' = answer
    <3>1. \/ pc' = "done" /\ answer' = [infinite |-> FALSE, value |-> maxVal']
          \/ pc' = "done" /\ answer' = [infinite |-> TRUE, value |-> 0]
          \/ pc' = pc /\ answer' = answer
      BY DEF Merge
    <3>2. QED
      BY <3>1, <2>1, <2>2
  <2>4. QED
    BY <2>2, <2>3 DEF Inv, TypeOK
<1>12. TypeOK'
  BY <1>2, <1>6, <1>8, <1>9, <1>10, <1>11, EmptySeq DEF Inv, TypeOK
<1>13. Orders'
  BY <1>6 DEF Inv, Orders, Origin
<1>14. Path'
  BY <1>1, <1>2, <1>6, <1>10, EmptySeq DEF Inv, Path, Origin
<1>15. Roots'
  <2>1. \A i \in 1 .. k : i \in 1 .. m
    BY <1>1, <1>4
  <2>2. root' # <<>> /\ root'[1].index = 1
    BY <1>1, <1>4, <1>8, EmptySeq
  <2>3. QED
    BY <1>6, <1>8, <1>9, <2>1, <2>2 DEF Inv, Roots, StackDiscipline
<1>16. QED
  BY <1>12, <1>13, <1>14, <1>15 DEF Inv

LEMMA FinishInv == Inv /\ Finish => Inv'
<1> SUFFICES ASSUME Inv, Finish PROVE Inv'
  OBVIOUS
<1>1. UNCHANGED <<aut, bound, poprem, todo, root, arc, h, num, maxVal>>
      /\ pc' = "done" /\ answer' = [infinite |-> FALSE, value |-> maxVal]
  BY DEF Finish, params
<1>2. TypeOK'
  BY <1>1 DEF Inv, TypeOK
<1>3. QED
  BY <1>1, <1>2 DEF Inv, Orders, Path, Roots, StackDiscipline, Origin

-----------------------------------------------------------------------------
(* The stacks and the orders of visit are consistent in every state.       *)
THEOREM Invariance == Spec => []Inv
<1>1. Inv /\ [Next]_vars => Inv'
  <2> SUFFICES ASSUME Inv, [Next]_vars PROVE Inv'
    OBVIOUS
  <2>1. CASE UNCHANGED vars
    BY <2>1 DEF Inv, TypeOK, Orders, Path, Roots, StackDiscipline, Origin, vars
  <2>2. CASE LookAt
    BY <2>2, VisitInv, IgnoreInv, MergeInv DEF LookAt
  <2>3. CASE Terminated
    BY <2>1, <2>3 DEF Terminated
  <2>4. QED
    BY <2>1, <2>2, <2>3, BacktrackInv, FinishInv DEF Next
<1>2. QED
  BY <1>1, InitInv, PTL DEF Spec

(* Configurations, components and the answer keep their types: values stay *)
(* in the range of unsigned int, whatever counters do.                     *)
THEOREM TypeCorrect == Spec => []TypeOK
<1>1. Inv => TypeOK
  BY DEF Inv
<1>2. QED
  BY <1>1, Invariance, PTL

(* The stack of components is in step with that of arcs, ascends, and      *)
(* while the path is not empty its lowest component has index 1: no loop   *)
(* of find_supremum reads the top of an empty stack.                       *)
THEOREM StacksCorrect == Spec => []StackDiscipline
<1>1. Inv => StackDiscipline
  BY DEF Inv, Roots
<1>2. QED
  BY <1>1, Invariance, PTL

-----------------------------------------------------------------------------
(* From c one is led to d inside S: d is in every subset of S that has c   *)
(* and is closed under the transitions between configurations of S.        *)
ClosedIn(A, S, X) == \A x \in X : SuccessorsOf(A, x) \cap S \subseteq X
Leads(A, S, c, d) == \A X \in SUBSET S : c \in X /\ ClosedIn(A, S, X) => d \in X

LEMMA LeadsStep ==
  ASSUME NEW A, NEW S, NEW c, NEW d \in SuccessorsOf(A, c) \cap S
  PROVE  Leads(A, S, c, d)
BY DEF Leads, ClosedIn

LEMMA LeadsTrans ==
  ASSUME NEW A, NEW S, NEW c, NEW d, NEW e, Leads(A, S, c, d), Leads(A, S, d, e)
  PROVE  Leads(A, S, c, e)
BY DEF Leads

(* More configurations lead no less far.                                   *)
LEMMA LeadsGrows ==
  ASSUME NEW A, NEW T, NEW S \in SUBSET T, NEW c \in S, NEW d, Leads(A, S, c, d)
  PROVE  Leads(A, T, c, d)
<1> SUFFICES ASSUME NEW X \in SUBSET T, c \in X, ClosedIn(A, T, X) PROVE d \in X
  BY DEF Leads
<1>1. X \cap S \in SUBSET S /\ c \in X \cap S
  OBVIOUS
<1>2. ClosedIn(A, S, X \cap S)
  BY DEF ClosedIn
<1>3. QED
  BY <1>1, <1>2 DEF Leads

(* Nothing leads out of a set that no transition leaves.                   *)
LEMMA LeadsStays ==
  ASSUME NEW A, NEW T, NEW D \in SUBSET T, \A x \in D : SuccessorsOf(A, x) \subseteq D,
         NEW c \in D, NEW d, Leads(A, T, c, d)
  PROVE  d \in D /\ Leads(A, D, c, d)
<1>1. d \in D
  <2>1. ClosedIn(A, T, D)
    BY DEF ClosedIn
  <2>2. QED
    BY <2>1 DEF Leads
<1>2. ASSUME NEW X \in SUBSET D, c \in X, ClosedIn(A, D, X) PROVE d \in X
  <2>1. ClosedIn(A, T, X)
    BY <1>2 DEF ClosedIn
  <2>2. QED
    BY <1>2, <2>1 DEF Leads
<1>3. QED
  BY <1>1, <1>2 DEF Leads

(* A value never goes up along a transition, and is never lost.            *)
Below(c, d) ==
  /\ c.bounded => d.bounded /\ d.value <= c.value
  /\ ~d.bounded => d.value = c.value

LEMMA BelowTrans ==
  ASSUME NEW c \in Configuration, NEW d \in Configuration, NEW e \in Configuration,
         Below(c, d), Below(d, e)
  PROVE  Below(c, e)
<1>1. c.value \in Int /\ d.value \in Int /\ e.value \in Int
  BY DEF Configuration, Unsigned
<1>2. QED
  BY <1>1 DEF Below

LEMMA SuccessorBelow ==
  ASSUME NEW c \in Configuration, NEW e \in Edge
  PROVE  Below(c, Successor(c, e))
<1> DEFINE d == Successor(c, e)
<1>1. Candidates(c, e) \in SUBSET Nat
  BY IncrementedType DEF Candidates, Checked, Configuration, Unsigned
<1>2. /\ d.bounded = (c.bounded \/ Checked(c, e) # {})
      /\ d.value = IF Candidates(c, e) = {} THEN c.value ELSE LeastOf(Candidates(c, e))
  BY DEF Successor
<1>3. ASSUME c.bounded PROVE d.bounded /\ d.value <= c.value
  <2>1. c.value \in Candidates(c, e)
    BY <1>3 DEF Candidates
  <2>2. \E m \in Candidates(c, e) : \A n \in Candidates(c, e) : m <= n
    BY <1>1, <2>1, LeastNat
  <2>3. LeastOf(Candidates(c, e)) <= c.value
    BY <2>1, <2>2 DEF LeastOf
  <2>4. QED
    BY <1>2, <1>3, <2>1, <2>3
<1>4. ASSUME ~d.bounded PROVE d.value = c.value
  BY <1>2, <1>4 DEF Candidates
<1> HIDE DEF d
<1>5. QED
  BY <1>3, <1>4 DEF Below, d

LEMMA SuccessorsTyped ==
  ASSUME NEW A \in Automaton, NEW c \in Configuration
  PROVE  /\ Leaving(A, c) \in Seq(Edge)
         /\ \A i \in 1 .. Len(Leaving(A, c)) : Leaving(A, c)[i] \in Edge
         /\ SuccessorsOf(A, c) \in SUBSET Configuration
         /\ \A d \in SuccessorsOf(A, c) : Below(c, d)
<1>1. Leaving(A, c) \in Seq(Edge)
  BY DEF Leaving, Automaton, Configuration
<1>2. \A i \in 1 .. Len(Leaving(A, c)) : Leaving(A, c)[i] \in Edge
  BY <1>1, ElementOfSeq
<1>3. QED
  BY <1>1, <1>2, SuccessorType, SuccessorBelow DEF SuccessorsOf

LEMMA LeadsBelow ==
  ASSUME NEW A \in Automaton, NEW S \in SUBSET Configuration, NEW c \in S, NEW d,
         Leads(A, S, c, d)
  PROVE  Below(c, d)
<1> DEFINE X == {x \in S : Below(c, x)}
<1>1. Below(c, c)
  BY DEF Below, Configuration, Unsigned
<1>2. ClosedIn(A, S, X)
  <2> SUFFICES ASSUME NEW x \in X, NEW y \in SuccessorsOf(A, x) \cap S PROVE Below(c, y)
    BY DEF ClosedIn
  <2>1. Below(x, y)
    BY SuccessorsTyped
  <2>2. QED
    BY <2>1, BelowTrans
<1>3. d \in X
  <2> HIDE DEF X
  <2>1. X \in SUBSET S /\ c \in X
    BY <1>1 DEF X
  <2>2. QED
    BY <1>2, <2>1 DEF Leads
<1>4. QED
  BY <1>3

-----------------------------------------------------------------------------
(* The transitions of a configuration, and those of them the iterators of  *)
(* a path have moved past.                                                 *)
Leaves(c) == Leaving(aut, c)
Target(c, k) == Successor(c, Leaves(c)[k])

SeenOn(path, c) ==
  {k \in 1 .. Len(Leaves(c)) : \A i \in 1 .. Len(path) :
     path[i].conf = c => k <= Len(Leaves(c)) - Len(path[i].rest)}
Seen(c) == SeenOn(todo, c)

(* An iterator stands at the last transitions of its configuration.        *)
EndOf(r, s) == Len(r) <= Len(s) /\ \A k \in 1 .. Len(r) : r[k] = s[Len(s) - Len(r) + k]
IteratorsOn(path) == \A i \in 1 .. Len(path) : EndOf(path[i].rest, Leaves(path[i].conf))

LEMMA LeavesTyped ==
  ASSUME TypeOK, NEW c \in Configuration
  PROVE  /\ Leaves(c) \in Seq(Edge) /\ Len(Leaves(c)) \in Nat
         /\ \A k \in 1 .. Len(Leaves(c)) :
              /\ Leaves(c)[k] \in Edge /\ Target(c, k) \in Configuration
              /\ Target(c, k) \in SuccessorsOf(aut, c)
BY SuccessorsTyped DEF TypeOK, Leaves, Target, SuccessorsOf

(* The iterator on top moves past one transition, the one looked at.       *)
LEMMA AdvancedFacts ==
  ASSUME Inv, IteratorsOn(todo), Searching, Top(todo).rest # <<>>,
         NEW e, e = Head(Top(todo).rest)
  PROVE  /\ IteratorsOn(Advanced)
         /\ \E k \in 1 .. Len(Leaves(Top(todo).conf)) :
              /\ Leaves(Top(todo).conf)[k] = e
              /\ \A c : SeenOn(Advanced, c) \subseteq
                          SeenOn(todo, c) \cup IF c = Top(todo).conf THEN {k} ELSE {}
<1> DEFINE n == Len(todo)
           curr == todo[n].conf
           r == todo[n].rest
           L == Leaves(curr)
           k == Len(L) - Len(r) + 1
<1>1. /\ todo \in Seq(FrameType) /\ n \in Nat /\ n >= 1 /\ todo[n] \in FrameType
      /\ Top(todo) = todo[n]
  BY TopsExist DEF Top
<1>2. r \in Seq(Edge) /\ r # <<>> /\ Len(r) \in Nat /\ Len(r) >= 1 /\ curr \in Configuration
  BY <1>1, EmptySeq DEF FrameType
<1>3. Len(L) \in Nat
  BY <1>2, LeavesTyped DEF Inv
<1>4. EndOf(r, L)
  BY <1>1 DEF IteratorsOn
<1>5. k \in 1 .. Len(L) /\ L[k] = e
  <2>1. e = r[1] /\ 1 \in 1 .. Len(r)
    BY <1>1, <1>2
  <2> HIDE DEF r, L
  <2>2. Len(r) <= Len(L) /\ r[1] = L[Len(L) - Len(r) + 1]
    BY <1>4, <2>1 DEF EndOf
  <2>3. QED
    BY <1>2, <1>3, <2>1, <2>2
<1>6. Tail(r) \in Seq(Edge) /\ Len(Tail(r)) = Len(r) - 1
      /\ \A i \in 1 .. Len(r) - 1 : Tail(r)[i] = r[i+1]
  BY <1>2
<1>7. EndOf(Tail(r), L)
  <2>1. ASSUME NEW i \in 1 .. Len(r) - 1
        PROVE  Tail(r)[i] = L[Len(L) - (Len(r) - 1) + i]
    <3>1. i + 1 \in 1 .. Len(r) /\ Tail(r)[i] = r[i+1]
      BY <1>2, <1>6
    <3>2. r[i+1] = L[Len(L) - Len(r) + (i + 1)]
      BY <1>4, <3>1 DEF EndOf
    <3>3. Len(L) - Len(r) + (i + 1) = Len(L) - (Len(r) - 1) + i
      BY <1>2, <1>3
    <3>4. QED
      BY <3>1, <3>2, <3>3
  <2> HIDE DEF L, r
  <2>2. QED
    BY <1>2, <1>3, <1>4, <1>6, <2>1 DEF EndOf
<1>8. /\ Len(Advanced) = n
      /\ \A i \in 1 .. n : Advanced[i].conf = todo[i].conf
      /\ \A i \in 1 .. n : i # n => Advanced[i].rest = todo[i].rest
      /\ Advanced[n].rest = Tail(r)
  <2>1. Len(Advanced) = n /\ \A i \in 1 .. n : Advanced[i].conf = todo[i].conf
    BY LookAtFacts
  <2>2. [todo[n] EXCEPT !.rest = Tail(@)].rest = Tail(r)
    BY <1>1 DEF FrameType
  <2>3. Advanced = [todo EXCEPT ![n] = [todo[n] EXCEPT !.rest = Tail(@)]]
    BY DEF Advanced
  <2>4. QED
    BY <1>1, <2>1, <2>2, <2>3
<1>9. IteratorsOn(Advanced)
  BY <1>7, <1>8 DEF IteratorsOn
<1>10. ASSUME NEW c, c # curr PROVE SeenOn(Advanced, c) \subseteq SeenOn(todo, c)
  BY <1>1, <1>8, <1>10 DEF SeenOn
<1>11. SeenOn(Advanced, curr) \subseteq SeenOn(todo, curr) \cup {k}
  <2> SUFFICES ASSUME NEW l \in SeenOn(Advanced, curr), l # k PROVE l \in SeenOn(todo, curr)
    OBVIOUS
  <2>1. l \in 1 .. Len(L) /\ l <= Len(L) - (Len(r) - 1)
    <3>1. l \in 1 .. Len(L) /\ \A i \in 1 .. Len(Advanced) :
            Advanced[i].conf = curr => l <= Len(L) - Len(Advanced[i].rest)
      BY DEF SeenOn
    <3>2. n \in 1 .. Len(Advanced) /\ Advanced[n].conf = curr
          /\ Len(Advanced[n].rest) = Len(r) - 1
      BY <1>1, <1>6, <1>8
    <3> HIDE DEF L, curr, r
    <3>3. QED
      BY <3>1, <3>2
  <2>2. l <= Len(L) - Len(r)
    BY <1>2, <1>3, <2>1
  <2>3. \A i \in 1 .. n : todo[i].conf = curr => i = n
    BY <1>1 DEF Inv, Path
  <2> HIDE DEF L, r, k
  <2>4. QED
    BY <2>1, <2>2, <2>3 DEF SeenOn, L, r
<1> HIDE DEF k
<1>12. QED
  BY <1>1, <1>5, <1>9, <1>10, <1>11

(* Popping a configuration all of whose transitions were looked at.        *)
LEMMA PoppedSeen ==
  ASSUME Inv, Searching, Top(todo).rest = <<>>, NEW c
  PROVE  SeenOn(Pop(todo), c) \subseteq SeenOn(todo, c)
<1> DEFINE n == Len(todo)
<1>1. /\ todo \in Seq(FrameType) /\ n \in Nat /\ n >= 1
  BY TopsExist
<1>2. Len(Pop(todo)) = n - 1 /\ \A i \in 1 .. n - 1 : Pop(todo)[i] = todo[i]
  BY <1>1, PopFacts DEF Pop, Searching
<1> SUFFICES ASSUME NEW k \in SeenOn(Pop(todo), c), NEW i \in 1 .. n, todo[i].conf = c
             PROVE  k <= Len(Leaves(c)) - Len(todo[i].rest)
  BY DEF SeenOn
<1>3. k \in 1 .. Len(Leaves(c))
  BY DEF SeenOn
<1>4. CASE i \in 1 .. n - 1
  BY <1>2, <1>4 DEF SeenOn
<1>5. CASE i = n
  <2>1. Len(todo[i].rest) = 0
    BY <1>5 DEF Top
  <2>2. c \in Configuration
    <3>1. todo[i] \in FrameType
      BY <1>1, ElementOfSeq
    <3>2. QED
      BY <3>1 DEF FrameType
  <2>3. Len(Leaves(c)) \in Nat
    BY <2>2, LeavesTyped DEF Inv
  <2>4. QED
    BY <1>3, <2>1, <2>3
<1>6. QED
  BY <1>1, <1>4, <1>5

(* A configuration pushed has seen none of its own.                        *)
LEMMA PushedSeen ==
  ASSUME TypeOK, NEW d \in Configuration, NEW path \in Seq(FrameType),
         IteratorsOn(path)
  PROVE  /\ IteratorsOn(Append(path, Frame(d)))
         /\ \A c : SeenOn(Append(path, Frame(d)), c) \subseteq SeenOn(path, c)
         /\ SeenOn(Append(path, Frame(d)), d) = {}
<1> DEFINE p == Append(path, Frame(d))
           n == Len(path)
<1>1. Frame(d) \in FrameType /\ Frame(d).conf = d /\ Frame(d).rest = Leaves(d)
  BY FrameTyped DEF Frame, Leaves
<1>2. n \in Nat /\ Len(p) = n + 1 /\ (\A i \in 1 .. n : p[i] = path[i]) /\ p[n+1] = Frame(d)
  BY <1>1, PushFacts
<1>3. Len(Leaves(d)) \in Nat
  BY LeavesTyped
<1>4. EndOf(Leaves(d), Leaves(d))
  BY <1>3 DEF EndOf
<1> HIDE DEF p
<1>5. IteratorsOn(p)
  BY <1>1, <1>2, <1>4 DEF IteratorsOn
<1>6. \A c : SeenOn(p, c) \subseteq SeenOn(path, c)
  BY <1>2 DEF SeenOn
<1>7. SeenOn(p, d) = {}
  <2> SUFFICES ASSUME NEW k \in SeenOn(p, d) PROVE FALSE
    OBVIOUS
  <2>1. k \in 1 .. Len(Leaves(d)) /\ k <= Len(Leaves(d)) - Len(Leaves(d))
    BY <1>1, <1>2 DEF SeenOn
  <2>2. QED
    BY <1>3, <2>1
<1>8. QED
  BY <1>5, <1>6, <1>7 DEF p

-----------------------------------------------------------------------------
Alive == {c \in DOMAIN h : h[c] # Dead}

(* The path is alive, at increasing orders, and holds the roots.           *)
Chain ==
  /\ \A i \in 1 .. Len(todo) : h[todo[i].conf] # Dead
  /\ \A i, j \in 1 .. Len(todo) : i < j => h[todo[i].conf] < h[todo[j].conf]
  /\ todo # <<>> =>
       \A i \in 1 .. Len(root) : \E j \in 1 .. Len(todo) : h[todo[j].conf] = root[i].index

(* A transition seen out of the i-th component stays in it, and its        *)
(* acceptance is in that of the component, or is the arc to the next one.  *)
InStep(c, k, i) ==
  \/ Target(c, k) \in Segment(i) /\ Leaves(c)[k].acc \subseteq root[i].conditions
  \/ /\ i < Len(root) /\ Target(c, k) \in Segment(i+1)
     /\ Leaves(c)[k].acc \subseteq arc[i+1]

Explored ==
  pc = "search" => \A c \in DOMAIN h : \A k \in Seen(c) :
    /\ Target(c, k) \in DOMAIN h
    /\ \/ h[Target(c, k)] = Dead
       \/ h[c] # Dead /\ \A i \in 1 .. Len(root) : c \in Segment(i) => InStep(c, k, i)

DeadStay ==
  \A c \in DOMAIN h : h[c] = Dead =>
    \A d \in SuccessorsOf(aut, c) : d \in DOMAIN h /\ h[d] = Dead

(* Whatever was visited after a configuration of the path, and is alive,   *)
(* is where live configurations lead from it.                              *)
Descends ==
  \A j \in 1 .. Len(todo) : \A c \in DOMAIN h :
    h[c] >= h[todo[j].conf] => Leads(aut, Alive, todo[j].conf, c)

(* With poprem, a component remembers what of it has left the path.        *)
OnPath == {todo[j].conf : j \in 1 .. Len(todo)}
Rems ==
  pc = "search" /\ poprem => \A i \in 1 .. Len(root) : root[i].rem = Segment(i) \ OnPath

AllDead == pc = "search" /\ todo = <<>> => \A c \in DOMAIN h : h[c] = Dead

Shape ==
  /\ Inv /\ IsFiniteSet(DOMAIN h) /\ Chain /\ IteratorsOn(todo) /\ Explored /\ DeadStay
  /\ Descends /\ Rems /\ AllDead

-----------------------------------------------------------------------------
LEMMA IndexFacts ==
  ASSUME Inv
  PROVE  /\ Len(root) \in Nat
         /\ \A i \in 1 .. Len(root) : root[i].index \in Nat /\ root[i].index >= 1
                                      /\ root[i].index <= num
         /\ \A i, j \in 1 .. Len(root) : i <= j => root[i].index <= root[j].index
         /\ \A i, j \in 1 .. Len(root) : i < j => root[i].index < root[j].index
         /\ num \in Nat
         /\ \A c \in DOMAIN h : h[c] \in Int /\ (h[c] = Dead \/ (h[c] >= 1 /\ h[c] <= num))
<1>1. num \in Nat /\ h \in [DOMAIN h -> Int] /\ root \in Seq(ComponentType)
  BY DEF Inv, TypeOK
<1>2. \A i \in 1 .. Len(root) : root[i].index \in 1 .. num
  BY DEF Inv, Roots
<1>3. \A i, j \in 1 .. Len(root) : i < j => root[i].index < root[j].index
  BY DEF Inv, Roots, StackDiscipline
<1>4. \A c \in DOMAIN h : h[c] = Dead \/ h[c] \in 1 .. num
  BY DEF Inv, Orders
<1>5. Len(root) \in Nat
  BY <1>1
<1>6. ASSUME NEW i \in 1 .. Len(root), NEW j \in 1 .. Len(root), i <= j
      PROVE  root[i].index <= root[j].index
  BY <1>1, <1>2, <1>3, <1>5, <1>6
<1>7. QED
  BY <1>1, <1>2, <1>3, <1>4, <1>5, <1>6

(* The orders a component covers.                                          *)
LEMMA SegmentFacts ==
  ASSUME Inv, NEW i \in 1 .. Len(root), NEW c \in Segment(i)
  PROVE  /\ c \in DOMAIN h /\ h[c] \in Int /\ h[c] >= 1 /\ h[c] # Dead
         /\ root[i].index <= h[c]
         /\ \A l \in 1 .. Len(root) : root[l].index <= h[c] <=> l <= i
<1>1. c \in DOMAIN h /\ h[c] >= root[i].index /\ (i < Len(root) => h[c] < root[i+1].index)
  BY DEF Segment
<1>2. h[c] \in Int /\ root[i].index \in Nat /\ root[i].index >= 1 /\ Len(root) \in Nat
  BY <1>1, IndexFacts
<1>3. ASSUME NEW l \in 1 .. Len(root), l <= i PROVE root[l].index <= h[c]
  <2>1. root[l].index <= root[i].index /\ root[l].index \in Nat
    BY <1>3, IndexFacts
  <2>2. QED
    BY <1>1, <1>2, <2>1
<1>4. ASSUME NEW l \in 1 .. Len(root), ~(l <= i) PROVE ~(root[l].index <= h[c])
  <2>1. i < Len(root) /\ i + 1 \in 1 .. Len(root) /\ i + 1 <= l
    BY <1>2, <1>4
  <2>2. root[i+1].index <= root[l].index /\ root[l].index \in Nat /\ root[i+1].index \in Nat
    BY <2>1, IndexFacts
  <2>3. QED
    BY <1>1, <1>2, <2>1, <2>2
<1>5. QED
  BY <1>1, <1>2, <1>3, <1>4 DEF Dead

LEMMA SegmentUnique ==
  ASSUME Inv, NEW i \in 1 .. Len(root), NEW j \in 1 .. Len(root),
         NEW c \in Segment(i), c \in Segment(j)
  PROVE  i = j
<1>1. root[i].index <= h[c] /\ root[j].index <= h[c]
  BY SegmentFacts
<1>2. i <= j /\ j <= i
  BY <1>1, SegmentFacts
<1>3. QED
  BY <1>2

(* Every live configuration is in a component.                             *)
LEMMA SegmentExists ==
  ASSUME Inv, Searching, NEW c \in DOMAIN h, h[c] # Dead
  PROVE  /\ KeptTop(h[c]) \in 1 .. Len(root) /\ c \in Segment(KeptTop(h[c]))
         /\ \A l \in 1 .. Len(root) : root[l].index <= h[c] => l <= KeptTop(h[c])
<1> DEFINE k == KeptTop(h[c])
<1>1. h[c] \in Nat /\ h[c] >= 1
  BY IndexFacts
<1>2. k \in 1 .. Len(root) /\ root[k].index <= h[c]
  BY <1>1, KeptTopInStack
<1>3. \A l \in Kept(h[c]) : l <= k
  <2>1. Kept(h[c]) \in SUBSET Nat /\ k \in Kept(h[c]) /\ \A l \in Kept(h[c]) : l <= Len(root)
        /\ Len(root) \in Nat
    BY <1>2, IndexFacts DEF Kept
  <2>2. \E i \in Kept(h[c]) : \A j \in Kept(h[c]) : j <= i
    BY <2>1, GreatestNat
  <2>3. QED
    BY <2>2 DEF KeptTop
<1> HIDE DEF k
<1>4. \A l \in 1 .. Len(root) : root[l].index <= h[c] => l <= k
  BY <1>3 DEF Kept
<1>5. k < Len(root) => h[c] < root[k+1].index
  <2> SUFFICES ASSUME k < Len(root) PROVE h[c] < root[k+1].index
    OBVIOUS
  <2>1. k + 1 \in 1 .. Len(root) /\ ~(k + 1 <= k)
    BY <1>2, IndexFacts
  <2>2. ~(root[k+1].index <= h[c])
    BY <1>4, <2>1
  <2>3. root[k+1].index \in Nat
    BY <2>1, IndexFacts
  <2>4. QED
    BY <1>1, <2>2, <2>3
<1>6. root[k].index \in Nat
  BY <1>2, IndexFacts
<1>7. c \in Segment(k)
  BY <1>1, <1>2, <1>5, <1>6 DEF Segment
<1>8. QED
  BY <1>2, <1>4, <1>7 DEF k

(* The top of the path has its greatest order, and is in the top component. *)
LEMMA CurrFacts ==
  ASSUME Inv, Chain, Searching
  PROVE  /\ Top(todo).conf \in Segment(Len(root))
         /\ \A j \in 1 .. Len(todo) : h[todo[j].conf] <= h[Top(todo).conf]
         /\ Top(todo).conf = todo[Len(todo)].conf
         /\ Top(todo).conf \in Configuration /\ h[Top(todo).conf] # Dead
<1> DEFINE n == Len(todo)
           m == Len(root)
           curr == Top(todo).conf
<1>1. n \in Nat /\ n >= 1 /\ m \in Nat /\ m >= 1 /\ curr = todo[n].conf /\ curr \in DOMAIN h
  BY TopsExist DEF Top
<1>2. ASSUME NEW j \in 1 .. n PROVE h[todo[j].conf] <= h[curr]
  <2>1. todo[j].conf \in DOMAIN h
    BY DEF Inv, Path
  <2>2. h[todo[j].conf] \in Int /\ h[curr] \in Int
    BY <1>1, <2>1, IndexFacts
  <2>3. CASE j = n
    BY <1>1, <2>2, <2>3
  <2>4. CASE j < n
    BY <1>1, <2>2, <2>4 DEF Chain
  <2>5. QED
    BY <1>1, <2>3, <2>4
<1>3. PICK j \in 1 .. n : h[todo[j].conf] = root[m].index
  BY <1>1 DEF Chain, Searching
<1>4. root[m].index <= h[curr] /\ root[m].index \in Nat /\ h[curr] \in Int
  BY <1>1, <1>2, <1>3, IndexFacts
<1>5. curr \in Segment(m)
  BY <1>1, <1>4 DEF Segment
<1>6. curr \in Configuration
  BY <1>1 DEF Inv, TypeOK
<1>7. h[curr] # Dead
  BY <1>4 DEF Dead
<1>8. QED
  BY <1>1, <1>2, <1>5, <1>6, <1>7

(* The root of a component is on the path, in the component, and is its    *)
(* least configuration.                                                    *)
LEMMA RootFacts ==
  ASSUME Inv, Chain, Searching, NEW i \in 1 .. Len(root)
  PROVE  \E j \in 1 .. Len(todo) :
           /\ h[todo[j].conf] = root[i].index /\ todo[j].conf \in Segment(i)
           /\ \A c \in Segment(i) : h[c] >= h[todo[j].conf]
<1>1. PICK j \in 1 .. Len(todo) : h[todo[j].conf] = root[i].index
  BY DEF Chain, Searching
<1>2. todo[j].conf \in DOMAIN h
  BY DEF Inv, Path
<1>3. root[i].index \in Nat /\ Len(root) \in Nat
  BY IndexFacts
<1>4. i < Len(root) => root[i].index < root[i+1].index
  BY <1>3, IndexFacts
<1>5. todo[j].conf \in Segment(i)
  BY <1>1, <1>2, <1>3, <1>4 DEF Segment
<1>6. \A c \in Segment(i) : h[c] >= root[i].index
  BY DEF Segment
<1>7. QED
  BY <1>1, <1>5, <1>6

-----------------------------------------------------------------------------
(* What a visit changes: one configuration more, alone in a new component. *)
LEMMA VisitFacts ==
  ASSUME Inv, IteratorsOn(todo), Searching, Top(todo).rest # <<>>, NEW e, e = Head(Top(todo).rest),
         Visit(e)
  PROVE  /\ Inv' /\ UNCHANGED <<aut, bound, poprem, maxVal, pc, answer>>
         /\ Dest(e) \in Configuration /\ Dest(e) \notin DOMAIN h
         /\ Dest(e) \in SuccessorsOf(aut, Top(todo).conf)
         /\ DOMAIN h' = DOMAIN h \cup {Dest(e)} /\ h'[Dest(e)] = num + 1
         /\ \A c \in DOMAIN h : h'[c] = h[c]
         /\ todo' = Append(Advanced, Frame(Dest(e))) /\ Len(todo') = Len(todo) + 1
         /\ \A i \in 1 .. Len(todo) : todo'[i].conf = todo[i].conf
         /\ todo'[Len(todo)+1].conf = Dest(e)
         /\ Len(root') = Len(root) + 1 /\ root'[Len(root)+1] = Component(num + 1)
         /\ \A i \in 1 .. Len(root) : root'[i] = root[i]
         /\ Len(arc') = Len(root) + 1 /\ arc'[Len(root)+1] = e.acc
         /\ \A i \in 1 .. Len(root) : arc'[i] = arc[i]
<1> DEFINE d == Dest(e)
           n == Len(todo)
           m == Len(root)
<1>1. Inv'
  BY VisitInv
<1>2. /\ n \in Nat /\ n >= 1 /\ m \in Nat /\ m >= 1
      /\ root \in Seq(ComponentType) /\ arc \in Seq(SUBSET Acceptance) /\ Len(arc) = m
      /\ Top(todo) \in FrameType
  BY TopsExist
<1>3. /\ e \in Edge /\ d \in Configuration /\ d \notin DOMAIN h
      /\ Advanced \in Seq(FrameType) /\ Len(Advanced) = n
      /\ \A i \in 1 .. n : Advanced[i].conf = todo[i].conf
  BY LookAtFacts DEF Visit
<1>4. UNCHANGED <<aut, bound, poprem, maxVal, pc, answer>> /\ num \in Nat
  BY DEF Visit, params, Inv, TypeOK
<1>5. Frame(d) \in FrameType /\ Frame(d).conf = d
  BY <1>3, FrameTyped DEF Inv, Frame
<1>6. /\ todo' = Append(Advanced, Frame(d)) /\ Len(todo') = n + 1
      /\ \A i \in 1 .. n : todo'[i].conf = todo[i].conf
      /\ todo'[n+1].conf = d
  BY <1>3, <1>5, PushFacts DEF Visit
<1>7. Component(num + 1) \in ComponentType
  BY <1>4 DEF Component, ComponentType
<1>8. /\ Len(root') = m + 1 /\ root'[m+1] = Component(num + 1)
      /\ \A i \in 1 .. m : root'[i] = root[i]
  BY <1>2, <1>7, PushFacts DEF Visit
<1>9. /\ Len(arc') = m + 1 /\ arc'[m+1] = e.acc
      /\ \A i \in 1 .. m : arc'[i] = arc[i]
  BY <1>2, <1>3, PushFacts DEF Visit, Edge
<1>10. /\ DOMAIN h' = DOMAIN h \cup {d} /\ h'[d] = num + 1
       /\ \A c \in DOMAIN h : h'[c] = h[c]
  BY <1>3 DEF Visit
<1>11. d \in SuccessorsOf(aut, Top(todo).conf)
  <2>1. \E k \in 1 .. Len(Leaves(Top(todo).conf)) : Leaves(Top(todo).conf)[k] = e
    BY AdvancedFacts
  <2>2. QED
    BY <2>1 DEF SuccessorsOf, Leaves, Dest
<1>12. QED
  BY <1>1, <1>3, <1>4, <1>6, <1>8, <1>9, <1>10, <1>11

LEMMA VisitSegments ==
  ASSUME Inv, IteratorsOn(todo), Searching, Top(todo).rest # <<>>, NEW e, e = Head(Top(todo).rest),
         Visit(e)
  PROVE  /\ \A i \in 1 .. Len(root) : Segment(i)' = Segment(i)
         /\ \A i \in Nat : i = Len(root) + 1 => Segment(i)' = {Dest(e)}
         /\ Alive' = Alive \cup {Dest(e)}
<1> DEFINE d == Dest(e)
           m == Len(root)
<1>1. /\ d \notin DOMAIN h /\ DOMAIN h' = DOMAIN h \cup {d} /\ h'[d] = num + 1
      /\ (\A c \in DOMAIN h : h'[c] = h[c])
      /\ Len(root') = m + 1 /\ root'[m+1].index = num + 1
      /\ \A i \in 1 .. m : root'[i].index = root[i].index
  <2>1. Component(num + 1).index = num + 1
    BY DEF Component
  <2>2. root'[m+1] = Component(num + 1) /\ \A i \in 1 .. m : root'[i] = root[i]
    BY VisitFacts
  <2>3. QED
    BY <2>1, <2>2, VisitFacts
<1>2. /\ m \in Nat /\ num \in Nat
      /\ (\A i \in 1 .. m : root[i].index \in Nat /\ root[i].index <= num)
      /\ \A c \in DOMAIN h : h[c] \in Int /\ h[c] <= num
  BY IndexFacts DEF Dead
<1> HIDE DEF d, m
<1>3. ASSUME NEW i \in 1 .. m, NEW c
      PROVE  c \in Segment(i)' <=> c \in Segment(i)
  <2>1. c \in Segment(i)' <=> /\ c \in DOMAIN h' /\ h'[c] >= root'[i].index
                              /\ i < Len(root') => h'[c] < root'[i+1].index
    BY DEF Segment
  <2>2. c \in Segment(i) <=> /\ c \in DOMAIN h /\ h[c] >= root[i].index
                             /\ i < m => h[c] < root[i+1].index
    BY DEF Segment, m
  <2>3. i < Len(root') /\ i \in Nat
    BY <1>1, <1>2
  <2>4. CASE i = m
    <3>1. root'[i+1].index = num + 1
      BY <1>1, <2>4
    <3>2. c \in DOMAIN h => h[c] < num + 1
      BY <1>2
    <3>3. ~(num + 1 < num + 1)
      BY <1>2
    <3>4. QED
      BY <1>1, <2>1, <2>2, <2>3, <2>4, <3>1, <3>2, <3>3
  <2>5. CASE i < m
    <3>1. i + 1 \in 1 .. m /\ root'[i+1].index = root[i+1].index /\ root[i+1].index <= num
          /\ root[i+1].index \in Nat
      BY <1>1, <1>2, <2>5
    <3>2. ~(num + 1 < root[i+1].index)
      BY <1>2, <3>1
    <3>3. QED
      BY <1>1, <2>1, <2>2, <2>3, <2>5, <3>1, <3>2
  <2>6. QED
    BY <1>2, <2>4, <2>5
<1>4. ASSUME NEW i \in Nat, i = m + 1, NEW c
      PROVE  c \in Segment(i)' <=> c = d
  <2>1. c \in Segment(i)' <=> /\ c \in DOMAIN h' /\ h'[c] >= root'[i].index
                              /\ i < Len(root') => h'[c] < root'[i+1].index
    BY DEF Segment
  <2>2. ~(i < Len(root')) /\ root'[i].index = num + 1
    BY <1>1, <1>2, <1>4
  <2>3. c \in DOMAIN h => ~(h[c] >= num + 1)
    BY <1>2
  <2>4. num + 1 >= num + 1
    BY <1>2
  <2>5. QED
    BY <1>1, <2>1, <2>2, <2>3, <2>4
<1>5. Alive' = Alive \cup {d}
  BY <1>1, <1>2 DEF Alive, Dead
<1>6. \A i \in 1 .. m : Segment(i)' = Segment(i)
  BY <1>3 DEF Segment
<1>7. \A i \in Nat : i = m + 1 => Segment(i)' = {d}
  BY <1>4
<1>8. QED
  BY <1>5, <1>6, <1>7 DEF m, d

LEMMA VisitShape ==
  ASSUME Shape, Searching, Top(todo).rest # <<>>, NEW e, e = Head(Top(todo).rest), Visit(e)
  PROVE  Shape'
<1> DEFINE d == Dest(e)
           n == Len(todo)
           m == Len(root)
           curr == Top(todo).conf
<1>1. Inv /\ IteratorsOn(todo) /\ Chain
  BY DEF Shape
<1>2. /\ Inv' /\ aut' = aut /\ poprem' = poprem /\ pc' = pc
      /\ d \in Configuration /\ d \notin DOMAIN h /\ d \in SuccessorsOf(aut, curr)
      /\ DOMAIN h' = DOMAIN h \cup {d} /\ h'[d] = num + 1
      /\ \A c \in DOMAIN h : h'[c] = h[c]
      /\ todo' = Append(Advanced, Frame(d)) /\ Len(todo') = n + 1
      /\ \A i \in 1 .. n : todo'[i].conf = todo[i].conf
      /\ todo'[n+1].conf = d
  BY <1>1, VisitFacts
<1>3. /\ Len(root') = m + 1 /\ root'[m+1] = Component(num + 1)
      /\ \A i \in 1 .. m : root'[i] = root[i]
      /\ Len(arc') = m + 1 /\ arc'[m+1] = e.acc
      /\ \A i \in 1 .. m : arc'[i] = arc[i]
  BY <1>1, VisitFacts
<1>4. /\ \A i \in 1 .. m : Segment(i)' = Segment(i)
      /\ \A i \in Nat : i = m + 1 => Segment(i)' = {d}
      /\ Alive' = Alive \cup {d}
  BY <1>1, VisitSegments
<1>5. /\ m \in Nat /\ m >= 1 /\ n \in Nat /\ n >= 1 /\ num \in Nat
      /\ \A c \in DOMAIN h : h[c] \in Int /\ h[c] <= num
      /\ pc = "search"
  BY <1>1, IndexFacts, TopsExist DEF Dead, Searching
<1>6. /\ curr \in Segment(m) /\ curr = todo[n].conf /\ curr \in DOMAIN h /\ h[curr] # Dead
      /\ \A j \in 1 .. n : todo[j].conf \in DOMAIN h /\ h[todo[j].conf] <= h[curr]
  BY <1>1, <1>5, CurrFacts DEF Inv, Path
<1>7. \A c, k : Leaves(c)' = Leaves(c) /\ Target(c, k)' = Target(c, k)
  BY <1>2 DEF Leaves, Leaving, Target
<1>8. PICK k0 \in 1 .. Len(Leaves(curr)) :
        /\ Leaves(curr)[k0] = e
        /\ \A c : SeenOn(Advanced, c) \subseteq SeenOn(todo, c) \cup IF c = curr THEN {k0} ELSE {}
  BY <1>1, AdvancedFacts
<1>9. Target(curr, k0) = d
  BY <1>8 DEF Target, Dest
<1>10. /\ IteratorsOn(todo')
       /\ \A c : SeenOn(todo', c) \subseteq SeenOn(Advanced, c)
       /\ SeenOn(todo', d) = {}
  <2>1. Advanced \in Seq(FrameType) /\ IteratorsOn(Advanced) /\ TypeOK
    BY <1>1, LookAtFacts, AdvancedFacts DEF Inv
  <2>2. QED
    BY <1>2, <2>1, PushedSeen
<1>11. IteratorsOn(todo)' /\ \A c : Seen(c)' = SeenOn(todo', c)
  BY <1>2, <1>7, <1>10 DEF IteratorsOn, Seen, SeenOn
<1> HIDE DEF d, n, m, curr
<1>12. IsFiniteSet(DOMAIN h')
  BY <1>2, FS_AddElement DEF Shape
<1>13. \A j \in 1 .. n+1 : j \in 1 .. n \/ j = n + 1
  BY <1>5
<1>14. Chain'
  <2>1. ASSUME NEW i \in 1 .. n + 1 PROVE h'[todo'[i].conf] # Dead
    <3>1. CASE i \in 1 .. n
      BY <1>1, <1>2, <1>6, <3>1 DEF Chain, n
    <3>2. CASE i = n + 1
      BY <1>2, <1>5, <3>2 DEF Dead
    <3>3. QED
      BY <1>13, <3>1, <3>2
  <2>2. ASSUME NEW i \in 1 .. n + 1, NEW j \in 1 .. n + 1, i < j
        PROVE  h'[todo'[i].conf] < h'[todo'[j].conf]
    <3>1. i \in 1 .. n
      BY <1>5, <2>2
    <3>2. CASE j \in 1 .. n
      BY <1>1, <1>2, <1>6, <2>2, <3>1, <3>2 DEF Chain, n
    <3>3. CASE j = n + 1
      <4>1. h'[todo'[i].conf] <= num /\ h'[todo'[i].conf] \in Int
        BY <1>2, <1>5, <1>6, <3>1
      <4>2. h'[todo'[j].conf] = num + 1
        BY <1>2, <3>3
      <4>3. QED
        BY <1>5, <4>1, <4>2
    <3>4. QED
      BY <1>13, <3>2, <3>3
  <2>3. ASSUME NEW i \in 1 .. m + 1
        PROVE  \E j \in 1 .. n + 1 : h'[todo'[j].conf] = root'[i].index
    <3>1. CASE i \in 1 .. m
      <4>1. PICK j \in 1 .. n : h[todo[j].conf] = root[i].index
        BY <1>1, <3>1 DEF Chain, n, m, Searching
      <4>2. j \in 1 .. n + 1 /\ h'[todo'[j].conf] = root'[i].index
        BY <1>2, <1>3, <1>5, <1>6, <3>1, <4>1
      <4>3. QED
        BY <4>2
    <3>2. CASE i = m + 1
      <4>1. root'[i].index = num + 1
        BY <1>3, <3>2 DEF Component
      <4>2. n + 1 \in 1 .. n + 1 /\ h'[todo'[n+1].conf] = num + 1
        BY <1>2, <1>5
      <4>3. QED
        BY <4>1, <4>2
    <3>3. QED
      BY <1>5, <3>1, <3>2
  <2>4. QED
    BY <1>2, <1>3, <2>1, <2>2, <2>3 DEF Chain
<1>15. Explored'
  <2> SUFFICES ASSUME NEW c \in DOMAIN h', NEW k \in Seen(c)'
               PROVE  /\ Target(c, k) \in DOMAIN h'
                      /\ \/ h'[Target(c, k)] = Dead
                         \/ h'[c] # Dead /\ \A i \in 1 .. m + 1 : c \in Segment(i)' => InStep(c, k, i)'
    BY <1>3, <1>7 DEF Explored
  <2>1. c # d /\ c \in DOMAIN h
    BY <1>2, <1>10, <1>11
  <2>2. \A i \in 1 .. m + 1 : c \in Segment(i)' => i \in 1 .. m /\ c \in Segment(i)
    <3>1. \A i \in 1 .. m + 1 : i \in Nat /\ (i \in 1 .. m \/ i = m + 1)
      BY <1>5
    <3>2. QED
      BY <1>4, <2>1, <3>1
  <2>3. CASE k \in Seen(c)
    <3>1. /\ Target(c, k) \in DOMAIN h
          /\ \/ h[Target(c, k)] = Dead
             \/ h[c] # Dead /\ \A i \in 1 .. m : c \in Segment(i) => InStep(c, k, i)
      BY <1>5, <2>1, <2>3 DEF Shape, Explored, m
    <3>2. ASSUME NEW i \in 1 .. m, InStep(c, k, i) PROVE InStep(c, k, i)'
      <4>1. i \in 1 .. m + 1 /\ i < m + 1
        BY <1>5
      <4>2. i < m => i + 1 \in 1 .. m
        BY <1>5
      <4>3. QED
        BY <1>3, <1>4, <1>7, <3>2, <4>1, <4>2 DEF InStep, m
    <3>3. QED
      BY <1>2, <2>1, <2>2, <3>1, <3>2
  <2>4. CASE k \notin Seen(c)
    <3>1. c = curr /\ k = k0
      BY <1>8, <1>10, <1>11, <2>4 DEF Seen
    <3>2. Target(c, k) = d /\ Leaves(c)[k] = e
      BY <1>8, <1>9, <3>1
    <3>3. ASSUME NEW i \in 1 .. m + 1, c \in Segment(i)' PROVE InStep(c, k, i)'
      <4>1. i = m
        <5>1. i \in 1 .. m /\ c \in Segment(i) /\ c \in Segment(m) /\ m \in 1 .. m
          BY <1>5, <1>6, <2>2, <3>1, <3>3
        <5>2. QED
          BY <1>1, <5>1, SegmentUnique DEF m
      <4>2. i < m + 1 /\ arc'[i+1] = e.acc /\ i + 1 \in Nat /\ i + 1 = m + 1
        BY <1>3, <1>5, <4>1
      <4>3. Segment(i+1)' = {d}
        BY <1>4, <4>2
      <4>4. QED
        BY <1>3, <1>7, <3>2, <4>2, <4>3 DEF InStep
    <3>4. QED
      BY <1>2, <1>6, <3>1, <3>2, <3>3
  <2>5. QED
    BY <2>3, <2>4
<1>16. DeadStay'
  <2>1. num + 1 # Dead
    BY <1>5 DEF Dead
  <2>2. QED
    BY <1>2, <2>1 DEF Shape, DeadStay
<1>17. Descends'
  <2> SUFFICES ASSUME NEW j \in 1 .. n + 1, NEW c \in DOMAIN h', h'[c] >= h'[todo'[j].conf]
               PROVE  Leads(aut, Alive', todo'[j].conf, c)
    BY <1>2 DEF Descends
  <2>1. CASE j = n + 1
    <3>1. c = d
      <4>1. h'[c] >= num + 1
        BY <1>2, <2>1
      <4>2. c \in DOMAIN h => h'[c] <= num /\ h'[c] \in Int
        BY <1>2, <1>5
      <4>3. QED
        BY <1>2, <1>5, <4>1, <4>2
    <3>2. QED
      BY <1>2, <2>1, <3>1 DEF Leads
  <2>2. CASE j \in 1 .. n
    <3> DEFINE p == todo[j].conf
    <3>1. todo'[j].conf = p /\ p \in DOMAIN h /\ h'[p] = h[p] /\ p \in Alive
      BY <1>1, <1>2, <1>6, <2>2 DEF Alive, Chain, n
    <3>2. CASE c \in DOMAIN h
      <4>1. Leads(aut, Alive, p, c)
        BY <1>2, <2>2, <3>1, <3>2 DEF Shape, Descends, n
      <4>2. QED
        BY <1>4, <3>1, <4>1, LeadsGrows
    <3>3. CASE c = d
      <4>1. Leads(aut, Alive, p, curr)
        <5>1. h[curr] >= h[p]
          BY <1>5, <1>6, <2>2
        <5>2. QED
          BY <1>6, <2>2, <5>1 DEF Shape, Descends, n
      <4>2. Leads(aut, Alive', p, curr)
        BY <1>4, <3>1, <4>1, LeadsGrows
      <4>3. Leads(aut, Alive', curr, d)
        BY <1>2, <1>4, LeadsStep
      <4>4. QED
        BY <3>1, <3>3, <4>2, <4>3, LeadsTrans
    <3>4. QED
      BY <1>2, <3>2, <3>3
  <2>3. QED
    BY <1>13, <2>1, <2>2
<1>18. Rems'
  <2> SUFFICES ASSUME poprem, NEW i \in 1 .. m + 1
               PROVE  root'[i].rem = Segment(i)' \ OnPath'
    BY <1>2, <1>3 DEF Rems
  <2>1. OnPath' = OnPath \cup {d}
    <3>1. \A j \in 1 .. n : todo'[j].conf = todo[j].conf /\ j \in 1 .. n + 1
      BY <1>2, <1>5
    <3>2. n + 1 \in 1 .. n + 1
      BY <1>5
    <3>3. QED
      BY <1>2, <1>13, <3>1, <3>2 DEF OnPath, n
  <2>2. CASE i \in 1 .. m
    <3>1. d \notin Segment(i)
      BY <1>2 DEF Segment
    <3>2. root[i].rem = Segment(i) \ OnPath
      BY <1>5, <2>2 DEF Shape, Rems, m
    <3>3. QED
      BY <1>3, <1>4, <2>1, <2>2, <3>1, <3>2
  <2>3. CASE i = m + 1
    <3>1. Segment(i)' = {d} /\ root'[i].rem = {}
      BY <1>3, <1>4, <1>5, <2>3 DEF Component
    <3>2. QED
      BY <2>1, <3>1
  <2>4. QED
    BY <1>5, <2>2, <2>3
<1>19. AllDead'
  <2>1. todo' # <<>>
    BY <1>2, <1>5, EmptySeq
  <2>2. QED
    BY <2>1 DEF AllDead
<1>20. QED
  BY <1>2, <1>11, <1>12, <1>14, <1>15, <1>16, <1>17, <1>18, <1>19 DEF Shape

LEMMA IgnoreShape ==
  ASSUME Shape, Searching, Top(todo).rest # <<>>, NEW e, e = Head(Top(todo).rest), Ignore(e)
  PROVE  Shape'
<1> DEFINE n == Len(todo)
           curr == Top(todo).conf
<1>1. Inv /\ IteratorsOn(todo) /\ Chain
  BY DEF Shape
<1>2. /\ todo' = Advanced /\ Dest(e) \in DOMAIN h /\ h[Dest(e)] = Dead
      /\ UNCHANGED <<aut, bound, poprem, root, arc, h, num, maxVal, pc, answer>>
  BY DEF Ignore, params
<1>3. Inv' /\ pc = "search"
  BY <1>1, IgnoreInv DEF Searching
<1>4. /\ Len(Advanced) = n /\ n \in Nat /\ n >= 1
      /\ \A i \in 1 .. n : Advanced[i].conf = todo[i].conf
  BY <1>1, LookAtFacts, TopsExist
<1>5. \A c, k : Leaves(c)' = Leaves(c) /\ Target(c, k)' = Target(c, k)
  BY <1>2 DEF Leaves, Leaving, Target
<1>6. PICK k0 \in 1 .. Len(Leaves(curr)) :
        /\ Leaves(curr)[k0] = e
        /\ \A c : SeenOn(Advanced, c) \subseteq SeenOn(todo, c) \cup IF c = curr THEN {k0} ELSE {}
  BY <1>1, AdvancedFacts
<1>7. Target(curr, k0) = Dest(e)
  BY <1>6 DEF Target, Dest
<1>8. IteratorsOn(todo)'
  BY <1>1, <1>2, <1>5, AdvancedFacts DEF IteratorsOn
<1>9. \A c : Seen(c)' = SeenOn(Advanced, c)
  BY <1>2, <1>5 DEF Seen, SeenOn
<1>10. Chain'
  BY <1>1, <1>2, <1>4 DEF Chain, Searching
<1>11. \A i : Segment(i)' = Segment(i)
  BY <1>2 DEF Segment
<1>12. \A c, k, i : InStep(c, k, i)' = InStep(c, k, i)
  BY <1>2, <1>5, <1>11 DEF InStep
<1>13. Explored'
  <2> SUFFICES ASSUME NEW c \in DOMAIN h, NEW k \in Seen(c)'
               PROVE  /\ Target(c, k) \in DOMAIN h
                      /\ \/ h[Target(c, k)] = Dead
                         \/ h[c] # Dead /\ \A i \in 1 .. Len(root) : c \in Segment(i) => InStep(c, k, i)
    BY <1>2, <1>5, <1>11, <1>12 DEF Explored
  <2>1. CASE k \in Seen(c)
    BY <1>3, <2>1 DEF Shape, Explored
  <2>2. CASE k \notin Seen(c)
    BY <1>2, <1>6, <1>7, <1>9, <2>2 DEF Seen
  <2>3. QED
    BY <2>1, <2>2
<1>14. DeadStay'
  BY <1>2 DEF Shape, DeadStay
<1>15. Alive' = Alive /\ OnPath' = OnPath
  BY <1>2, <1>4 DEF Alive, OnPath
<1>16. Descends'
  BY <1>2, <1>4, <1>15 DEF Shape, Descends
<1>17. Rems'
  BY <1>2, <1>11, <1>15 DEF Shape, Rems
<1>18. AllDead'
  <2>1. todo' # <<>>
    BY <1>2, <1>4, EmptySeq
  <2>2. QED
    BY <2>1 DEF AllDead
<1>19. QED
  BY <1>2, <1>3, <1>8, <1>10, <1>13, <1>14, <1>16, <1>17, <1>18 DEF Shape

-----------------------------------------------------------------------------
(* What a merge changes: the components from the k-th on become one.       *)
LEMMA MergeFacts ==
  ASSUME Inv, Searching, Top(todo).rest # <<>>, NEW e, e = Head(Top(todo).rest), Merge(e),
         NEW k, k = KeptTop(h[Dest(e)])
  PROVE  /\ Inv' /\ UNCHANGED <<aut, bound, poprem, h, num>>
         /\ k \in 1 .. Len(root) /\ Dest(e) \in DOMAIN h /\ h[Dest(e)] # Dead
         /\ Dest(e) \in Segment(k)
         /\ Len(root') = k /\ Len(arc') = k
         /\ \A i \in 1 .. k : root'[i].index = root[i].index /\ arc'[i] = arc[i]
         /\ \A i \in 1 .. k : i < k => root'[i] = root[i]
         /\ root'[k] = MergedFrom(e, k)
<1> DEFINE d == Dest(e)
           m == Len(root)
           comp == MergedFrom(e, k)
<1>1. Inv' /\ UNCHANGED <<aut, bound, poprem, h, num>>
  BY MergeInv DEF Merge, params
<1>2. d \in DOMAIN h /\ h[d] # Dead
  BY DEF Merge
<1>3. k \in 1 .. m /\ d \in Segment(k) /\ m \in Nat
  BY <1>2, SegmentExists, IndexFacts
<1>4. root' = Append(SubSeq(root, 1, k - 1), comp) /\ arc' = SubSeq(arc, 1, k)
  BY DEF Merge
<1>5. root \in Seq(ComponentType) /\ arc \in Seq(SUBSET Acceptance) /\ Len(arc) = m
  BY TopsExist
<1>6. Len(arc') = k /\ \A i \in 1 .. k : arc'[i] = arc[i]
  BY <1>3, <1>4, <1>5, PrefixFacts
<1>7. /\ SubSeq(root, 1, k - 1) \in Seq(ComponentType) /\ Len(SubSeq(root, 1, k - 1)) = k - 1
      /\ \A i \in 1 .. k - 1 : SubSeq(root, 1, k - 1)[i] = root[i]
  <2>1. k - 1 \in 0 .. m
    BY <1>3
  <2> DEFINE l == k - 1
  <2> HIDE DEF l
  <2>2. l \in 0 .. m
    BY <2>1 DEF l
  <2>3. /\ SubSeq(root, 1, l) \in Seq(ComponentType) /\ Len(SubSeq(root, 1, l)) = l
        /\ \A i \in 1 .. l : SubSeq(root, 1, l)[i] = root[i]
    BY <1>5, <2>2, PrefixFacts
  <2>4. QED
    BY <2>3 DEF l
<1> HIDE DEF comp
<1>8. Len(root') = k /\ root'[k] = comp /\ \A i \in 1 .. k : i < k => root'[i] = root[i]
  BY <1>3, <1>4, <1>7
<1>9. comp.index = root[k].index
  <2>1. root[k] \in ComponentType
    BY <1>3, <1>5, ElementOfSeq
  <2>2. QED
    BY <2>1 DEF comp, MergedFrom, ComponentType
<1>10. \A i \in 1 .. k : root'[i].index = root[i].index
  <2>1. \A i \in 1 .. k : i < k \/ i = k
    BY <1>3
  <2>2. QED
    BY <1>8, <1>9, <2>1
<1>11. QED
  BY <1>1, <1>2, <1>3, <1>6, <1>8, <1>10 DEF comp

(* What the merged component takes over from those it is made of.          *)
LEMMA MergedFacts ==
  ASSUME Inv, NEW e, NEW k \in 1 .. Len(root)
  PROVE  /\ e.acc \subseteq MergedFrom(e, k).conditions
         /\ \A i \in k .. Len(root) : root[i].conditions \subseteq MergedFrom(e, k).conditions
         /\ \A i \in k+1 .. Len(root) : arc[i] \subseteq MergedFrom(e, k).conditions
         /\ \A x \in MergedFrom(e, k).conditions :
              \/ x \in e.acc
              \/ \E i \in k .. Len(root) : x \in root[i].conditions
              \/ \E i \in k+1 .. Len(root) : x \in arc[i]
         /\ \A x : x \in MergedFrom(e, k).rem <=> \E i \in k .. Len(root) : x \in root[i].rem
<1> DEFINE popped == k + 1 .. Len(root)
           conds == UNION {root[i].conditions \cup arc[i] : i \in popped}
           rems == UNION {root[i].rem : i \in popped}
           comp == MergedFrom(e, k)
<1>1. root[k] \in ComponentType
  BY ElementOfSeq DEF Inv, TypeOK
<1>2. comp = [root[k] EXCEPT !.conditions = @ \cup e.acc \cup conds, !.rem = @ \cup rems]
  BY DEF MergedFrom
<1> HIDE DEF conds, rems, comp
<1>3. comp.conditions = root[k].conditions \cup e.acc \cup conds /\ comp.rem = root[k].rem \cup rems
  BY <1>1, <1>2 DEF ComponentType
<1>4. Len(root) \in Nat /\ \A i \in k .. Len(root) : i = k \/ i \in popped
  BY IndexFacts
<1>5. k \in k .. Len(root) /\ \A i \in popped : i \in k .. Len(root)
  BY <1>4
<1> HIDE DEF popped
<1>6. \A i \in popped : root[i].conditions \subseteq conds /\ arc[i] \subseteq conds /\ root[i].rem \subseteq rems
  BY DEF conds, rems
<1>7. /\ \A x \in conds : \E i \in popped : x \in root[i].conditions \/ x \in arc[i]
      /\ \A x \in rems : \E i \in popped : x \in root[i].rem
  BY DEF conds, rems
<1>8. e.acc \subseteq comp.conditions
  BY <1>3
<1>9. \A i \in k .. Len(root) : root[i].conditions \subseteq comp.conditions
  BY <1>3, <1>4, <1>6
<1>10. \A i \in popped : arc[i] \subseteq comp.conditions
  BY <1>3, <1>6
<1>11. \A x \in comp.conditions :
         \/ x \in e.acc
         \/ \E i \in k .. Len(root) : x \in root[i].conditions
         \/ \E i \in popped : x \in arc[i]
  BY <1>3, <1>5, <1>7
<1>12. \A x : x \in comp.rem <=> \E i \in k .. Len(root) : x \in root[i].rem
  BY <1>3, <1>4, <1>5, <1>6, <1>7
<1>13. QED
  BY <1>8, <1>9, <1>10, <1>11, <1>12 DEF comp, popped

LEMMA MergeSegments ==
  ASSUME Inv, Searching, Top(todo).rest # <<>>, NEW e, e = Head(Top(todo).rest), Merge(e),
         NEW k, k = KeptTop(h[Dest(e)])
  PROVE  /\ \A i \in 1 .. k : i < k => Segment(i)' = Segment(i)
         /\ \A c : c \in Segment(k)' <=> \E i \in k .. Len(root) : c \in Segment(i)
<1> DEFINE m == Len(root)
<1>1. /\ h' = h /\ k \in 1 .. m /\ Len(root') = k
      /\ \A i \in 1 .. k : root'[i].index = root[i].index
  BY MergeFacts
<1>2. m \in Nat /\ \A i \in 1 .. m : root[i].index \in Nat /\ root[i].index >= 1
  BY IndexFacts
<1>3. ASSUME NEW i \in 1 .. k, i < k PROVE Segment(i)' = Segment(i)
  <2>1. i + 1 \in 1 .. k /\ i < m
    BY <1>1, <1>2, <1>3
  <2>2. QED
    BY <1>1, <1>3, <2>1 DEF Segment
<1>4. ASSUME NEW c PROVE c \in Segment(k)' <=> \E i \in k .. m : c \in Segment(i)
  <2>1. c \in Segment(k)' <=> c \in DOMAIN h /\ h[c] >= root[k].index
    <3>1. ~(k < Len(root')) /\ k \in 1 .. k
      BY <1>1, <1>2
    <3>2. QED
      BY <1>1, <3>1 DEF Segment
  <2>2. ASSUME c \in DOMAIN h, h[c] >= root[k].index
        PROVE  \E i \in k .. m : c \in Segment(i)
    <3>1. h[c] # Dead /\ root[k].index <= h[c]
      BY <1>1, <1>2, <2>2, IndexFacts DEF Dead
    <3>2. /\ KeptTop(h[c]) \in 1 .. m /\ c \in Segment(KeptTop(h[c]))
          /\ k <= KeptTop(h[c])
      BY <1>1, <2>2, <3>1, SegmentExists
    <3>3. KeptTop(h[c]) \in k .. m
      BY <1>1, <1>2, <3>2
    <3>4. QED
      BY <3>2, <3>3
  <2>3. ASSUME NEW i \in k .. m, c \in Segment(i)
        PROVE  c \in DOMAIN h /\ h[c] >= root[k].index
    <3>1. i \in 1 .. m /\ k <= i
      BY <1>1, <1>2
    <3>2. c \in DOMAIN h /\ h[c] \in Int /\ root[k].index <= h[c]
      BY <1>1, <2>3, <3>1, SegmentFacts
    <3>3. QED
      BY <1>1, <1>2, <3>2
  <2>4. QED
    BY <2>1, <2>2, <2>3
<1>5. QED
  BY <1>3, <1>4

LEMMA MergeShape ==
  ASSUME Shape, Searching, Top(todo).rest # <<>>, NEW e, e = Head(Top(todo).rest), Merge(e)
  PROVE  Shape'
<1> DEFINE d == Dest(e)
           n == Len(todo)
           m == Len(root)
           curr == Top(todo).conf
<1>1. Inv /\ IteratorsOn(todo) /\ Chain /\ pc = "search"
  BY DEF Shape, Searching
<1>2. PICK k : k = KeptTop(h[d])
  OBVIOUS
<1> DEFINE comp == MergedFrom(e, k)
<1>3. /\ Inv' /\ UNCHANGED <<aut, bound, poprem, h, num>>
      /\ k \in 1 .. m /\ d \in DOMAIN h /\ h[d] # Dead
      /\ d \in Segment(k)
      /\ Len(root') = k /\ Len(arc') = k
      /\ \A i \in 1 .. k : root'[i].index = root[i].index /\ arc'[i] = arc[i]
      /\ \A i \in 1 .. k : i < k => root'[i] = root[i]
      /\ root'[k] = comp
  BY <1>1, <1>2, MergeFacts
<1>4. /\ \A i \in 1 .. k : i < k => Segment(i)' = Segment(i)
      /\ \A c : c \in Segment(k)' <=> \E i \in k .. m : c \in Segment(i)
  BY <1>1, <1>2, MergeSegments
<1>5. /\ e.acc \subseteq comp.conditions
      /\ \A i \in k .. m : root[i].conditions \subseteq comp.conditions
      /\ \A i \in k+1 .. m : arc[i] \subseteq comp.conditions
      /\ \A x : x \in comp.rem <=> \E i \in k .. m : x \in root[i].rem
  BY <1>1, <1>3, MergedFacts
<1> HIDE DEF comp
<1>6. m \in Nat /\ n \in Nat /\ n >= 1
  BY <1>1, TopsExist
<1>7. curr \in Segment(m)
  BY <1>1, CurrFacts
<1>8. /\ Len(Advanced) = n
      /\ \A i \in 1 .. n : Advanced[i].conf = todo[i].conf
  BY <1>1, LookAtFacts
<1>9. \A c, l : Leaves(c)' = Leaves(c) /\ Target(c, l)' = Target(c, l)
  BY <1>3 DEF Leaves, Leaving, Target
<1>10. PICK k0 \in 1 .. Len(Leaves(curr)) :
        /\ Leaves(curr)[k0] = e
        /\ \A c : SeenOn(Advanced, c) \subseteq SeenOn(todo, c) \cup IF c = curr THEN {k0} ELSE {}
  BY <1>1, AdvancedFacts
<1>11. Target(curr, k0) = d
  BY <1>10 DEF Target, Dest
<1>12. IsFiniteSet(DOMAIN h') /\ DeadStay' /\ Alive' = Alive
  BY <1>3 DEF Shape, DeadStay, Alive
<1>13. CASE todo' = <<>> /\ pc' = "done"
  <2>1. Len(todo') = 0
    BY <1>13
  <2>2. Chain' /\ IteratorsOn(todo)' /\ Descends'
    BY <1>13, <2>1 DEF Chain, IteratorsOn, Descends
  <2>3. Explored' /\ Rems' /\ AllDead'
    BY <1>13 DEF Explored, Rems, AllDead
  <2>4. QED
    BY <1>3, <1>12, <2>2, <2>3 DEF Shape
<1>14. CASE todo' = Advanced /\ pc' = pc
  <2>1. IteratorsOn(todo)'
    BY <1>1, <1>14, <1>9, AdvancedFacts DEF IteratorsOn
  <2>2. \A c : Seen(c)' = SeenOn(Advanced, c)
    BY <1>14, <1>9 DEF Seen, SeenOn
  <2>3. OnPath' = OnPath
    BY <1>8, <1>14 DEF OnPath
  <2>4. Chain'
    <3>1. ASSUME NEW i \in 1 .. k
          PROVE  \E j \in 1 .. n : h[todo[j].conf] = root'[i].index
      <4>1. i \in 1 .. m
        BY <1>3, <1>6
      <4>2. QED
        BY <1>1, <1>3, <4>1 DEF Chain, Searching
    <3>2. Len(todo') = n /\ \A i \in 1 .. n : todo'[i].conf = todo[i].conf
      BY <1>8, <1>14
    <3>3. \A i \in 1 .. k : \E j \in 1 .. n : h'[todo'[j].conf] = root'[i].index
      BY <1>3, <3>1, <3>2
    <3>4. \A i \in 1 .. n : h'[todo'[i].conf] # Dead
      BY <1>1, <1>3, <3>2 DEF Chain
    <3>5. \A i, j \in 1 .. n : i < j => h'[todo'[i].conf] < h'[todo'[j].conf]
      BY <1>1, <1>3, <3>2 DEF Chain
    <3>6. QED
      BY <1>3, <3>2, <3>3, <3>4, <3>5 DEF Chain
  <2>5. Explored'
    <3> SUFFICES ASSUME NEW c \in DOMAIN h, NEW l \in Seen(c)'
                 PROVE  /\ Target(c, l) \in DOMAIN h
                        /\ \/ h[Target(c, l)] = Dead
                           \/ h[c] # Dead /\ \A i \in 1 .. k : c \in Segment(i)' => InStep(c, l, i)'
      BY <1>3, <1>9 DEF Explored
    <3>1. CASE l \in Seen(c)
      <4>1. /\ Target(c, l) \in DOMAIN h
            /\ \/ h[Target(c, l)] = Dead
               \/ h[c] # Dead /\ \A i \in 1 .. m : c \in Segment(i) => InStep(c, l, i)
        BY <1>1, <3>1 DEF Shape, Explored
      <4>2. ASSUME NEW i \in 1 .. k, i < k, InStep(c, l, i) PROVE InStep(c, l, i)'
        <5>1. CASE Target(c, l) \in Segment(i) /\ Leaves(c)[l].acc \subseteq root[i].conditions
          BY <1>3, <1>4, <1>9, <4>2, <5>1 DEF InStep
        <5>2. CASE /\ i < Len(root) /\ Target(c, l) \in Segment(i+1)
                   /\ Leaves(c)[l].acc \subseteq arc[i+1]
          <6>1. i + 1 \in 1 .. k /\ i < Len(root')
            BY <1>3, <4>2
          <6>2. Target(c, l) \in Segment(i+1)'
            <7>1. CASE i + 1 < k
              BY <1>4, <5>2, <6>1, <7>1
            <7>2. CASE i + 1 = k
              <8>1. k \in k .. m
                BY <1>3, <1>6
              <8>2. Target(c, l) \in Segment(k)'
                BY <1>4, <5>2, <7>2, <8>1
              <8>3. QED
                BY <7>2, <8>2
            <7>3. QED
              BY <1>3, <4>2, <7>1, <7>2
          <6>3. QED
            BY <1>3, <1>9, <5>2, <6>1, <6>2 DEF InStep
        <5>3. QED
          BY <4>2, <5>1, <5>2 DEF InStep
      <4>3. ASSUME c \in Segment(k)', h[Target(c, l)] # Dead PROVE InStep(c, l, k)'
        <5>1. PICK i \in k .. m : c \in Segment(i)
          BY <1>4, <4>3
        <5>2. i \in 1 .. m /\ InStep(c, l, i)
          BY <1>3, <1>6, <4>1, <4>3, <5>1
        <5>3. CASE Target(c, l) \in Segment(i) /\ Leaves(c)[l].acc \subseteq root[i].conditions
          <6>1. Target(c, l) \in Segment(k)' /\ Leaves(c)[l].acc \subseteq comp.conditions
            BY <1>4, <1>5, <5>3
          <6>2. QED
            BY <1>3, <1>9, <6>1 DEF InStep
        <5>4. CASE /\ i < Len(root) /\ Target(c, l) \in Segment(i+1)
                   /\ Leaves(c)[l].acc \subseteq arc[i+1]
          <6>1. i + 1 \in k .. m /\ i + 1 \in k + 1 .. m
            BY <1>3, <1>6, <5>4
          <6>2. Target(c, l) \in Segment(k)' /\ Leaves(c)[l].acc \subseteq comp.conditions
            BY <1>4, <1>5, <5>4, <6>1
          <6>3. QED
            BY <1>3, <1>9, <6>2 DEF InStep
        <5>5. QED
          BY <5>2, <5>3, <5>4 DEF InStep
      <4>4. ASSUME NEW i \in 1 .. k, c \in Segment(i)', h[Target(c, l)] # Dead
            PROVE  InStep(c, l, i)'
        <5>1. CASE i < k
          <6>1. i \in 1 .. m /\ c \in Segment(i)
            BY <1>3, <1>4, <1>6, <4>4, <5>1
          <6>2. QED
            BY <4>1, <4>2, <4>4, <5>1, <6>1
        <5>2. CASE i = k
          BY <4>3, <4>4, <5>2
        <5>3. QED
          BY <1>3, <5>1, <5>2
      <4>5. QED
        BY <4>1, <4>4
    <3>2. CASE l \notin Seen(c)
      <4>1. c = curr /\ l = k0
        BY <1>10, <2>2, <3>2 DEF Seen
      <4>2. Target(c, l) = d /\ Leaves(c)[l] = e
        BY <1>10, <1>11, <4>1
      <4>3. c \in Segment(k)' /\ d \in Segment(k)'
        <5>1. m \in k .. m /\ k \in k .. m
          BY <1>3, <1>6
        <5>2. QED
          BY <1>3, <1>4, <1>7, <4>1, <5>1
      <4>4. InStep(c, l, k)'
        BY <1>3, <1>5, <1>9, <4>2, <4>3 DEF InStep
      <4>5. ASSUME NEW i \in 1 .. k, c \in Segment(i)' PROVE i = k
        <5>1. CASE i < k
          <6>1. c \in Segment(i) /\ c \in Segment(m) /\ i \in 1 .. m /\ m \in 1 .. m
            BY <1>3, <1>4, <1>6, <1>7, <4>1, <4>5, <5>1
          <6>2. i = m
            BY <1>1, <6>1, SegmentUnique
          <6>3. QED
            BY <1>3, <1>6, <5>1, <6>2
        <5>2. QED
          BY <1>3, <5>1
      <4>6. h[c] # Dead
        BY <1>1, <4>1, CurrFacts
      <4>7. QED
        BY <1>3, <4>2, <4>4, <4>5, <4>6
    <3>3. QED
      BY <3>1, <3>2
  <2>6. Descends'
    BY <1>3, <1>8, <1>12, <1>14 DEF Shape, Descends
  <2>7. Rems'
    <3> SUFFICES ASSUME poprem, NEW i \in 1 .. k PROVE root'[i].rem = Segment(i)' \ OnPath
      BY <1>3, <2>3 DEF Rems
    <3>1. \A l \in 1 .. m : root[l].rem = Segment(l) \ OnPath
      BY <1>1 DEF Shape, Rems
    <3>2. CASE i < k
      <4>1. i \in 1 .. m
        BY <1>3, <1>6
      <4>2. QED
        BY <1>3, <1>4, <3>1, <3>2, <4>1
    <3>3. CASE i = k
      <4>1. \A l \in k .. m : l \in 1 .. m
        BY <1>3, <1>6
      <4>2. \A x : x \in comp.rem <=> x \in Segment(k)' /\ x \notin OnPath
        BY <1>4, <1>5, <3>1, <4>1
      <4>3. QED
        BY <1>3, <3>3, <4>2
    <3>4. QED
      BY <1>3, <3>2, <3>3
  <2>8. AllDead'
    <3>1. todo' # <<>>
      BY <1>6, <1>8, <1>14, EmptySeq
    <3>2. QED
      BY <3>1 DEF AllDead
  <2>9. QED
    BY <1>3, <1>12, <2>1, <2>4, <2>5, <2>6, <2>7, <2>8 DEF Shape
<1>15. QED
  BY <1>13, <1>14 DEF Merge

LEMMA ReachedFacts ==
  ASSUME NEW S, IsFiniteSet(S), NEW next \in [S -> SUBSET S], NEW from \in S
  PROVE  /\ ReachedIn(S, next, from) \in SUBSET S
         /\ from \in ReachedIn(S, next, from)
         /\ \A c \in ReachedIn(S, next, from) : next[c] \subseteq ReachedIn(S, next, from)
         /\ \A X \in SUBSET S : from \in X /\ (\A c \in X : next[c] \subseteq X)
                                  => ReachedIn(S, next, from) \subseteq X
<1> DEFINE N == Cardinality(S)
           Layer[n \in Nat] ==
             IF n = 0 THEN {from} ELSE UNION {{c} \cup next[c] : c \in Layer[n-1]}
           Closed(X) == \A c \in X : next[c] \subseteq X
           step == [X \in SUBSET S |-> UNION {{c} \cup next[c] : c \in X}]
<1>0. ReachedIn(S, next, from) = Layer[N]
  BY DEF ReachedIn
<1>1. Layer = CHOOSE g : g = [n \in Nat |-> IF n = 0 THEN {from}
                                ELSE UNION {{c} \cup next[c] : c \in g[n-1]}]
  BY DEF Layer
<1> HIDE DEF Layer
<1>2. PICK f : AllIterates(f, SUBSET S, step, {from})
  <2>1. step \in [SUBSET S -> SUBSET S] /\ {from} \in SUBSET S
    OBVIOUS
  <2> HIDE DEF step
  <2>2. QED
    BY <2>1, Iteration
<1>3. f = [n \in Nat |-> IF n = 0 THEN {from} ELSE UNION {{c} \cup next[c] : c \in f[n-1]}]
  <2>1. f \in [Nat -> SUBSET S] /\ f[0] = {from} /\ \A n \in Nat : f[n+1] = step[f[n]]
    BY <1>2 DEF AllIterates
  <2>2. ASSUME NEW n \in Nat, n # 0 PROVE f[n] = UNION {{c} \cup next[c] : c \in f[n-1]}
    <3>1. n - 1 \in Nat /\ (n - 1) + 1 = n
      BY <2>2
    <3>2. f[n] = step[f[n-1]] /\ f[n-1] \in SUBSET S
      BY <2>1, <3>1
    <3>3. QED
      BY <3>2
  <2> HIDE DEF step
  <2>3. QED
    BY <2>1, <2>2
<1>4. Layer = [n \in Nat |-> IF n = 0 THEN {from} ELSE UNION {{c} \cup next[c] : c \in Layer[n-1]}]
  BY <1>1, <1>3
<1>5. /\ Layer[0] = {from}
      /\ \A n \in Nat : Layer[n+1] = UNION {{c} \cup next[c] : c \in Layer[n]}
  <2>1. \A n \in Nat : n + 1 \in Nat /\ n + 1 # 0 /\ (n + 1) - 1 = n
    OBVIOUS
  <2>2. QED
    BY <1>4, <2>1
<1>6. N \in Nat
  BY FS_CardinalityType
<1>7. \A X \in SUBSET S : from \in X /\ Closed(X) => \A n \in Nat : Layer[n] \subseteq X
  <2> SUFFICES ASSUME NEW X \in SUBSET S, from \in X, Closed(X)
               PROVE  \A n \in Nat : Layer[n] \subseteq X
    OBVIOUS
  <2> DEFINE P == {n \in Nat : Layer[n] \subseteq X}
  <2>1. 0 \in P
    BY <1>5
  <2>2. ASSUME NEW n \in P PROVE n + 1 \in P
    BY <1>5
  <2>3. P = Nat
    <3> HIDE DEF P
    <3>1. P \in SUBSET Nat
      BY DEF P
    <3>2. QED
      BY <2>1, <2>2, <3>1, NatSetInduction
  <2>4. QED
    BY <2>3
<1>8. \A n \in Nat : Layer[n] \subseteq S
  <2>1. S \in SUBSET S /\ Closed(S)
    OBVIOUS
  <2>2. QED
    BY <2>1, <1>7
<1>9. \A n \in Nat : from \in Layer[n]
  <2> DEFINE P == {n \in Nat : from \in Layer[n]}
  <2>1. 0 \in P
    BY <1>5
  <2>2. ASSUME NEW n \in P PROVE n + 1 \in P
    BY <1>5
  <2>3. P = Nat
    <3> HIDE DEF P
    <3>1. P \in SUBSET Nat
      BY DEF P
    <3>2. QED
      BY <2>1, <2>2, <3>1, NatSetInduction
  <2>4. QED
    BY <2>3
<1>10. \A n \in Nat : IsFiniteSet(Layer[n]) /\ Cardinality(Layer[n]) \in Nat /\ Cardinality(Layer[n]) <= N
  BY <1>8, FS_Subset, FS_CardinalityType
<1>11. \A n \in Nat : Closed(Layer[n]) \/ n + 1 <= Cardinality(Layer[n])
  <2> DEFINE P == {n \in Nat : Closed(Layer[n]) \/ n + 1 <= Cardinality(Layer[n])}
  <2>1. 0 \in P
    <3>1. Cardinality(Layer[0]) = 1
      BY <1>5, FS_Singleton
    <3>2. QED
      BY <3>1
  <2>2. ASSUME NEW n \in P PROVE n + 1 \in P
    <3>1. CASE Closed(Layer[n])
      <4>1. Layer[n+1] = Layer[n]
        <5>1. Layer[n+1] = UNION {{c} \cup next[c] : c \in Layer[n]}
          BY <1>5
        <5>2. \A c \in Layer[n] : next[c] \subseteq Layer[n]
          BY <3>1
        <5>3. QED
          BY <5>1, <5>2
      <4>2. QED
        BY <3>1, <4>1
    <3>2. CASE ~Closed(Layer[n])
      <4>1. Layer[n] \subseteq Layer[n+1] /\ Layer[n] # Layer[n+1]
        BY <1>5, <3>2
      <4>2. IsFiniteSet(Layer[n+1]) /\ Cardinality(Layer[n]) < Cardinality(Layer[n+1])
        BY <4>1, <1>10, FS_Subset
      <4>3. n + 1 <= Cardinality(Layer[n])
        BY <3>2
      <4>4. n + 1 \in Nat /\ Cardinality(Layer[n+1]) \in Nat /\ Cardinality(Layer[n]) \in Nat
        BY <1>10
      <4>5. (n + 1) + 1 <= Cardinality(Layer[n+1])
        BY <4>2, <4>3, <4>4
      <4>6. QED
        BY <4>4, <4>5
    <3>3. QED
      BY <3>1, <3>2
  <2>3. P = Nat
    <3> HIDE DEF P
    <3>1. P \in SUBSET Nat
      BY DEF P
    <3>2. QED
      BY <2>1, <2>2, <3>1, NatSetInduction
  <2>4. QED
    BY <2>3
<1>12. Closed(Layer[N])
  <2>1. Cardinality(Layer[N]) \in Nat /\ Cardinality(Layer[N]) <= N
    BY <1>6, <1>10
  <2>2. ~(N + 1 <= Cardinality(Layer[N]))
    BY <2>1, <1>6
  <2>3. QED
    BY <2>2, <1>6, <1>11
<1>13. /\ Layer[N] \in SUBSET S /\ from \in Layer[N]
       /\ \A X \in SUBSET S : from \in X /\ Closed(X) => Layer[N] \subseteq X
  BY <1>6, <1>7, <1>8, <1>9
<1> HIDE DEF step, N
<1>14. QED
  BY <1>0, <1>12, <1>13
-----------------------------------------------------------------------------
(* The component that is removed: the last of the path is its root, and it *)
(* was explored to the end.                                                *)
LastExplored ==
  Shape /\ Searching /\ Top(todo).rest = <<>> /\ Top(root).index = h[Top(todo).conf]

LEMMA LastFacts ==
  ASSUME LastExplored, NEW m, m = Len(root)
  PROVE  /\ m \in Nat /\ m >= 1
         /\ \A c : c \in Segment(m) <=> c \in DOMAIN h /\ h[c] >= h[Top(todo).conf]
         /\ \A j \in 1 .. Len(todo) : todo[j].conf \in Segment(m) => j = Len(todo)
         /\ Segment(m) \cap OnPath = {Top(todo).conf}
<1> DEFINE n == Len(todo)
           curr == Top(todo).conf
<1>1. Inv /\ Chain /\ Searching /\ root[m].index = h[curr]
  BY DEF LastExplored, Shape, Top
<1>2. n \in Nat /\ n >= 1 /\ m \in Nat /\ m >= 1
  BY <1>1, TopsExist
<1>3. curr \in Segment(m) /\ curr = todo[n].conf /\ h[curr] \in Int
  BY <1>1, <1>2, CurrFacts, IndexFacts DEF Segment
<1>4. \A c : c \in Segment(m) <=> c \in DOMAIN h /\ h[c] >= h[curr]
  BY <1>1, <1>2 DEF Segment
<1>5. ASSUME NEW j \in 1 .. n, todo[j].conf \in Segment(m) PROVE j = n
  <2>1. h[todo[j].conf] >= h[curr] /\ h[todo[j].conf] \in Int
    BY <1>1, <1>4, <1>5, IndexFacts
  <2>2. ~(h[todo[j].conf] < h[todo[n].conf])
    BY <1>3, <2>1
  <2>3. QED
    BY <1>1, <1>2, <2>2 DEF Chain
<1>6. Segment(m) \cap OnPath = {curr}
  BY <1>2, <1>3, <1>5 DEF OnPath
<1>7. QED
  BY <1>2, <1>4, <1>5, <1>6

LEMMA LastSeen ==
  ASSUME LastExplored, NEW m, m = Len(root), NEW c \in Segment(m)
  PROVE  /\ c \in DOMAIN h /\ c \in Configuration
         /\ Seen(c) = 1 .. Len(Leaves(c))
         /\ \A k \in 1 .. Len(Leaves(c)) :
              /\ Target(c, k) \in DOMAIN h
              /\ h[Target(c, k)] # Dead =>
                   /\ Target(c, k) \in Segment(m)
                   /\ Leaves(c)[k].acc \subseteq root[m].conditions
<1> DEFINE n == Len(todo)
<1>1. Inv /\ Chain /\ Searching /\ Explored /\ pc = "search" /\ Top(todo).rest = <<>>
  BY DEF LastExplored, Shape, Searching
<1>2. m \in 1 .. Len(root)
  BY LastFacts
<1>3. c \in DOMAIN h /\ c \in Configuration /\ Len(Leaves(c)) \in Nat
  BY <1>1, LeavesTyped DEF Segment, Inv, TypeOK
<1>4. Seen(c) = 1 .. Len(Leaves(c))
  <2> SUFFICES ASSUME NEW k \in 1 .. Len(Leaves(c)), NEW i \in 1 .. n, todo[i].conf = c
               PROVE  k <= Len(Leaves(c)) - Len(todo[i].rest)
    BY DEF Seen, SeenOn
  <2>1. i = n
    BY LastFacts
  <2>2. Len(todo[i].rest) = 0
    BY <1>1, <2>1 DEF Top
  <2>3. QED
    BY <1>3, <2>2
<1>5. ASSUME NEW k \in 1 .. Len(Leaves(c))
      PROVE  /\ Target(c, k) \in DOMAIN h
             /\ h[Target(c, k)] # Dead => InStep(c, k, m)
  BY <1>1, <1>2, <1>3, <1>4 DEF Explored
<1>6. ASSUME NEW k, InStep(c, k, m)
      PROVE  Target(c, k) \in Segment(m) /\ Leaves(c)[k].acc \subseteq root[m].conditions
  BY <1>2, <1>6 DEF InStep
<1>7. QED
  BY <1>3, <1>4, <1>5, <1>6

LEMMA LastSuccessors ==
  ASSUME LastExplored, NEW m, m = Len(root), NEW c \in Segment(m),
         NEW d \in SuccessorsOf(aut, c)
  PROVE  d \in DOMAIN h /\ (h[d] = Dead \/ d \in Segment(m))
<1>1. PICK k \in 1 .. Len(Leaves(c)) : d = Target(c, k)
  BY DEF SuccessorsOf, Leaves, Target
<1>2. QED
  BY <1>1, LastSeen

(* What remove_component removes is that component, whichever way.         *)
LEMMA RemovedExact ==
  ASSUME LastExplored, NEW m, m = Len(root)
  PROVE  ToRemove(Top(todo).conf) = Segment(m)
<1> DEFINE curr == Top(todo).conf
           n == Len(todo)
<1>1. /\ Inv /\ Chain /\ Searching /\ pc = "search" /\ IsFiniteSet(DOMAIN h)
      /\ Descends /\ Rems
  BY DEF LastExplored, Shape, Searching
<1>2. m \in 1 .. Len(root) /\ n \in 1 .. n /\ Segment(m) \cap OnPath = {curr}
  BY <1>1, LastFacts, TopsExist
<1>3. curr \in DOMAIN h /\ h[curr] # Dead /\ curr = todo[n].conf
  BY <1>1, CurrFacts, TopsExist
<1>4. CASE poprem
  <2>1. Top(root).rem = Segment(m) \ OnPath
    BY <1>1, <1>2, <1>4 DEF Rems, Top
  <2>2. QED
    BY <1>2, <1>4, <2>1 DEF ToRemove
<1>5. CASE ~poprem
  <2> DEFINE S == DOMAIN h
             next == [c \in DOMAIN h |-> Live(SuccessorsOf(aut, c))]
             R == ReachedIn(S, next, curr)
  <2>1. next \in [S -> SUBSET S] /\ \A c \in S : next[c] = Live(SuccessorsOf(aut, c))
    BY DEF Live
  <2>2. ToRemove(curr) = R
    BY <1>5 DEF ToRemove, Reached
  <2>3. /\ R \in SUBSET S /\ curr \in R /\ (\A c \in R : next[c] \subseteq R)
        /\ \A X \in SUBSET S : curr \in X /\ (\A c \in X : next[c] \subseteq X) => R \subseteq X
    <3> HIDE DEF next
    <3>1. IsFiniteSet(S) /\ next \in [S -> SUBSET S] /\ curr \in S
      BY <1>1, <1>3, <2>1
    <3> HIDE DEF S, curr
    <3>2. QED
      BY <3>1, ReachedFacts
  <2> HIDE DEF R, next
  <2>4. R \subseteq Segment(m)
    <3>1. Segment(m) \in SUBSET S /\ curr \in Segment(m)
      BY <1>2 DEF Segment
    <3>2. \A c \in Segment(m) : next[c] \subseteq Segment(m)
      BY <2>1, <3>1, LastSuccessors DEF Live
    <3>3. QED
      BY <2>3, <3>1, <3>2
  <2>5. ASSUME NEW c \in Segment(m) PROVE c \in R
    <3>1. Leads(aut, Alive, curr, c)
      BY <1>1, <1>2, <1>3, LastFacts DEF Descends
    <3>2. R \cap Alive \in SUBSET Alive /\ curr \in R \cap Alive
      BY <1>3, <2>3 DEF Alive
    <3>3. ClosedIn(aut, Alive, R \cap Alive)
      <4> SUFFICES ASSUME NEW x \in R \cap Alive, NEW y \in SuccessorsOf(aut, x) \cap Alive
                   PROVE  y \in R
        BY DEF ClosedIn
      <4>1. y \in next[x]
        BY <2>1 DEF Alive, Live
      <4>2. QED
        BY <2>3, <4>1
    <3>4. c \in R \cap Alive
      BY <3>1, <3>2, <3>3 DEF Leads
    <3>5. QED
      BY <3>4
  <2>6. QED
    BY <2>2, <2>4, <2>5
<1>6. QED
  BY <1>4, <1>5

(* What removing it changes: it is dead, and off the stacks.               *)
LEMMA RemoveFacts ==
  ASSUME LastExplored, Backtrack, NEW m, m = Len(root)
  PROVE  /\ Inv' /\ UNCHANGED <<aut, bound, poprem, num, maxVal, pc, answer>>
         /\ DOMAIN h' = DOMAIN h
         /\ \A c \in DOMAIN h : h'[c] = IF c \in Segment(m) THEN Dead ELSE h[c]
         /\ Len(todo') = Len(todo) - 1 /\ \A i \in 1 .. Len(todo) - 1 : todo'[i] = todo[i]
         /\ todo' = Pop(todo)
         /\ Len(root') = m - 1 /\ Len(arc') = m - 1
         /\ \A i \in 1 .. m - 1 : root'[i] = root[i] /\ arc'[i] = arc[i]
         /\ \A i \in 1 .. m - 1 : Segment(i)' = Segment(i)
         /\ Alive' = Alive \ Segment(m)
<1> DEFINE n == Len(todo)
           curr == Top(todo).conf
<1>1. /\ Inv /\ Searching /\ Top(todo).rest = <<>> /\ Top(root).index = h[curr]
      /\ Chain
  BY DEF LastExplored, Shape
<1>2. Inv' /\ UNCHANGED <<aut, bound, poprem, num, maxVal, pc, answer>>
  BY <1>1, BacktrackInv DEF Backtrack, params
<1>3. /\ todo' = Pop(todo) /\ root' = Pop(root) /\ arc' = Pop(arc)
      /\ h' = [c \in DOMAIN h |-> IF c \in ToRemove(curr) THEN Dead ELSE h[c]]
  BY <1>1 DEF Backtrack
<1>4. /\ todo \in Seq(FrameType) /\ n \in Nat /\ n >= 1 /\ todo # <<>>
      /\ root \in Seq(ComponentType) /\ m \in Nat /\ m >= 1 /\ root # <<>>
      /\ arc \in Seq(SUBSET Acceptance) /\ Len(arc) = m
  BY <1>1, TopsExist DEF Searching
<1>5. Len(todo') = n - 1 /\ \A i \in 1 .. n - 1 : todo'[i] = todo[i]
  BY <1>3, <1>4, PopFacts DEF Pop
<1>6. Len(root') = m - 1 /\ \A i \in 1 .. m - 1 : root'[i] = root[i]
  BY <1>3, <1>4, PopFacts DEF Pop
<1>7. Len(arc') = m - 1 /\ \A i \in 1 .. m - 1 : arc'[i] = arc[i]
  <2>1. arc # <<>>
    BY <1>4
  <2>2. QED
    BY <2>1, <1>3, <1>4, PopFacts DEF Pop
<1>8. DOMAIN h' = DOMAIN h /\ \A c \in DOMAIN h : h'[c] = IF c \in Segment(m) THEN Dead ELSE h[c]
  <2>1. ToRemove(curr) = Segment(m)
    BY RemovedExact
  <2>2. QED
    BY <1>3, <2>1
<1>9. Alive' = Alive \ Segment(m)
  BY <1>8 DEF Alive
<1>10. ASSUME NEW i \in 1 .. m - 1, NEW c
       PROVE  c \in Segment(i)' <=> c \in Segment(i)
  <2>1. i \in 1 .. m /\ m \in 1 .. m /\ i < m /\ i + 1 \in 1 .. m /\ i # m
    BY <1>4
  <2>2. c \in Segment(i)' <=> /\ c \in DOMAIN h /\ h'[c] >= root[i].index
                              /\ i < m - 1 => h'[c] < root'[i+1].index
    BY <1>6, <1>8 DEF Segment
  <2>3. c \in Segment(i) <=> /\ c \in DOMAIN h /\ h[c] >= root[i].index
                             /\ h[c] < root[i+1].index
    BY <2>1 DEF Segment
  <2>4. c \in Segment(m) <=> c \in DOMAIN h /\ h[c] >= root[m].index
    BY <2>1 DEF Segment
  <2>5. root[i].index \in Nat /\ root[i].index >= 1 /\ root[m].index \in Nat
        /\ root[i].index < root[m].index
    BY <1>1, <2>1, IndexFacts
  <2>6. CASE c \in Segment(m)
    <3>1. ~(h'[c] >= root[i].index)
      BY <1>8, <2>4, <2>5, <2>6 DEF Dead
    <3>2. c \notin Segment(i)
      BY <1>1, <2>1, <2>6, SegmentUnique
    <3>3. QED
      BY <2>2, <3>1, <3>2
  <2>7. CASE c \notin Segment(m) /\ c \in DOMAIN h
    <3>1. h'[c] = h[c] /\ h[c] \in Int /\ h[c] < root[m].index
      BY <1>1, <1>8, <2>4, <2>5, <2>7, IndexFacts
    <3>2. CASE i < m - 1
      <4>1. i + 1 \in 1 .. m - 1
        BY <1>4, <3>2
      <4>2. root'[i+1] = root[i+1]
        BY <1>6, <4>1
      <4>3. QED
        BY <2>2, <2>3, <3>1, <3>2, <4>2
    <3>3. CASE i = m - 1
      <4>1. i + 1 = m /\ ~(i < m - 1)
        BY <1>4, <3>3
      <4>2. root[i+1].index = root[m].index
        BY <4>1
      <4>3. QED
        BY <2>2, <2>3, <3>1, <4>1, <4>2
    <3>4. QED
      BY <1>4, <3>2, <3>3
  <2>8. QED
    BY <2>2, <2>3, <2>6, <2>7
<1>11. \A i \in 1 .. m - 1 : Segment(i)' = Segment(i)
  BY <1>10 DEF Segment
<1>12. QED
  BY <1>2, <1>3, <1>5, <1>6, <1>7, <1>8, <1>9, <1>11

LEMMA RemoveShape == LastExplored /\ Backtrack => Shape'
<1> SUFFICES ASSUME LastExplored, Backtrack PROVE Shape'
  OBVIOUS
<1> DEFINE n == Len(todo)
           curr == Top(todo).conf
<1>0. PICK m : m = Len(root)
  OBVIOUS
<1> DEFINE M == Segment(m)
<1>1. /\ Inv /\ Searching /\ pc = "search" /\ Top(todo).rest = <<>> /\ Chain
      /\ IteratorsOn(todo) /\ Explored /\ DeadStay /\ Descends /\ Rems
      /\ IsFiniteSet(DOMAIN h)
  BY DEF LastExplored, Shape, Searching
<1>2. /\ Inv' /\ UNCHANGED <<aut, bound, poprem, pc>> /\ DOMAIN h' = DOMAIN h
      /\ \A c \in DOMAIN h : h'[c] = IF c \in M THEN Dead ELSE h[c]
      /\ Len(todo') = n - 1 /\ \A i \in 1 .. n - 1 : todo'[i] = todo[i]
      /\ todo' = Pop(todo)
      /\ Len(root') = m - 1
      /\ \A i \in 1 .. m - 1 : root'[i] = root[i] /\ arc'[i] = arc[i]
      /\ \A i \in 1 .. m - 1 : Segment(i)' = Segment(i)
      /\ Alive' = Alive \ M
  BY <1>0, RemoveFacts
<1>3. /\ m \in Nat /\ m >= 1 /\ n \in Nat /\ n >= 1
      /\ \A c : c \in M <=> c \in DOMAIN h /\ h[c] >= h[curr]
      /\ \A j \in 1 .. n : todo[j].conf \in M => j = n
      /\ M \cap OnPath = {curr}
  BY <1>0, <1>1, TopsExist, LastFacts
<1>4. \A c, k : Leaves(c)' = Leaves(c) /\ Target(c, k)' = Target(c, k)
  BY <1>2 DEF Leaves, Leaving, Target
<1>5. \A j \in 1 .. n - 1 : j \in 1 .. n /\ todo[j].conf \in DOMAIN h /\ todo[j].conf \notin M
                            /\ h'[todo[j].conf] = h[todo[j].conf]
  <2>1. \A j \in 1 .. n - 1 : j \in 1 .. n /\ j # n
    BY <1>3
  <2>2. \A j \in 1 .. n : todo[j].conf \in DOMAIN h
    BY <1>1 DEF Inv, Path
  <2> HIDE DEF M
  <2>3. QED
    BY <1>2, <1>3, <2>1, <2>2
<1>6. \A i \in 1 .. m - 1 : i \in 1 .. m /\ i < m /\ i # m
  BY <1>3
<1>7. \A c \in M : \A d \in SuccessorsOf(aut, c) : d \in DOMAIN h /\ (h[d] = Dead \/ d \in M)
  BY <1>0, LastSuccessors
<1>8. curr = todo[n].conf
  BY DEF Top
<1> HIDE DEF n, curr, M
<1>9. IteratorsOn(todo)'
  BY <1>1, <1>2, <1>4, <1>5 DEF IteratorsOn, n
<1>10. \A c : Seen(c)' \subseteq Seen(c)
  <2>1. \A c : SeenOn(Pop(todo), c) \subseteq SeenOn(todo, c)
    BY <1>1, PoppedSeen
  <2>2. \A c : Seen(c)' = SeenOn(Pop(todo), c)
    BY <1>2, <1>4 DEF Seen, SeenOn
  <2>3. QED
    BY <2>1, <2>2 DEF Seen
<1>11. Chain'
  <2>1. \A i \in 1 .. n - 1 : h'[todo'[i].conf] # Dead
    BY <1>1, <1>2, <1>5 DEF Chain, n
  <2>2. \A i, j \in 1 .. n - 1 : i < j => h'[todo'[i].conf] < h'[todo'[j].conf]
    BY <1>1, <1>2, <1>5 DEF Chain, n
  <2>3. ASSUME NEW i \in 1 .. m - 1
        PROVE  \E j \in 1 .. n - 1 : h'[todo'[j].conf] = root'[i].index
    <3>1. PICK j \in 1 .. n : h[todo[j].conf] = root[i].index /\ todo[j].conf \in Segment(i)
      BY <1>0, <1>1, <1>6, RootFacts DEF n
    <3>2. j # n
      <4>1. curr \in M /\ M = Segment(m) /\ m \in 1 .. m
        BY <1>3 DEF M
      <4>2. curr \notin Segment(i)
        BY <1>0, <1>1, <1>6, <4>1, SegmentUnique
      <4>3. QED
        BY <1>8, <3>1, <4>2
    <3>3. j \in 1 .. n - 1
      BY <1>3, <3>2
    <3>4. QED
      BY <1>2, <1>5, <3>1, <3>3
  <2>4. QED
    BY <1>2, <2>1, <2>2, <2>3 DEF Chain
<1>12. Explored'
  <2> SUFFICES ASSUME NEW c \in DOMAIN h, NEW k \in Seen(c)'
               PROVE  /\ Target(c, k) \in DOMAIN h
                      /\ \/ h'[Target(c, k)] = Dead
                         \/ h'[c] # Dead /\ \A i \in 1 .. m - 1 : c \in Segment(i)' => InStep(c, k, i)'
    BY <1>2, <1>4 DEF Explored
  <2>1. /\ Target(c, k) \in DOMAIN h
        /\ \/ h[Target(c, k)] = Dead
           \/ h[c] # Dead /\ \A i \in 1 .. m : c \in Segment(i) => InStep(c, k, i)
    BY <1>0, <1>1, <1>10 DEF Explored
  <2>2. CASE h'[Target(c, k)] = Dead
    BY <2>1, <2>2
  <2>3. CASE h'[Target(c, k)] # Dead
    <3>1. h[Target(c, k)] # Dead /\ Target(c, k) \notin M
      BY <1>2, <2>1, <2>3
    <3>2. c \notin M
      <4>1. k \in 1 .. Len(Leaves(c)) /\ Target(c, k) \in SuccessorsOf(aut, c)
        BY <1>10 DEF Seen, SeenOn, SuccessorsOf, Target, Leaves
      <4>2. QED
        BY <1>7, <3>1, <4>1
    <3>3. h'[c] # Dead
      BY <1>2, <2>1, <3>1, <3>2
    <3>4. ASSUME NEW i \in 1 .. m - 1, c \in Segment(i)' PROVE InStep(c, k, i)'
      <4>1. i \in 1 .. m /\ i < m /\ c \in Segment(i) /\ InStep(c, k, i)
        BY <1>2, <1>6, <2>1, <3>1, <3>4
      <4>2. CASE Target(c, k) \in Segment(i) /\ Leaves(c)[k].acc \subseteq root[i].conditions
        BY <1>2, <1>4, <4>2 DEF InStep
      <4>3. CASE Target(c, k) \in Segment(i+1) /\ Leaves(c)[k].acc \subseteq arc[i+1]
        <5>1. i + 1 # m
          <6>1. M = Segment(m)
            BY DEF M
          <6>2. QED
            BY <3>1, <4>3, <6>1
        <5>2. i + 1 \in 1 .. m - 1 /\ i < Len(root')
          BY <1>2, <1>3, <5>1
        <5>3. Target(c, k) \in Segment(i+1)'
          BY <1>2, <4>3, <5>2
        <5>4. QED
          BY <1>2, <1>4, <4>3, <5>2, <5>3 DEF InStep
      <4>4. QED
        BY <4>1, <4>2, <4>3 DEF InStep
    <3>5. QED
      BY <2>1, <3>3, <3>4
  <2>4. QED
    BY <2>2, <2>3
<1>13. DeadStay'
  <2> SUFFICES ASSUME NEW c \in DOMAIN h, h'[c] = Dead, NEW d \in SuccessorsOf(aut, c)
               PROVE  d \in DOMAIN h /\ h'[d] = Dead
    BY <1>2 DEF DeadStay
  <2>1. CASE c \in M
    BY <1>2, <1>7, <2>1
  <2>2. CASE c \notin M
    BY <1>1, <1>2, <2>2 DEF DeadStay
  <2>3. QED
    BY <2>1, <2>2
<1>14. Descends'
  <2> SUFFICES ASSUME NEW j \in 1 .. n - 1, NEW c \in DOMAIN h, h'[c] >= h'[todo[j].conf]
               PROVE  Leads(aut, Alive', todo[j].conf, c)
    BY <1>2 DEF Descends
  <2> DEFINE p == todo[j].conf
  <2>1. p \in DOMAIN h /\ p \notin M /\ h'[p] = h[p] /\ h[p] # Dead /\ h[p] \in Int /\ h[p] >= 1
    BY <1>1, <1>5, IndexFacts DEF Chain, n
  <2>2. c \notin M /\ h[c] >= h[p]
    BY <1>2, <2>1 DEF Dead
  <2>3. Leads(aut, Alive, p, c)
    BY <1>1, <1>5, <2>2 DEF Descends, n
  <2> HIDE DEF p
  <2>4. SUFFICES ASSUME NEW X \in SUBSET Alive', p \in X, ClosedIn(aut, Alive', X) PROVE c \in X
    BY DEF Leads, p
  <2>5. X \cup M \in SUBSET Alive /\ p \in X \cup M
    <3>1. M \subseteq Alive
      BY <1>3, <1>1, <1>0, SegmentFacts DEF Alive, M
    <3>2. QED
      BY <1>2, <2>4, <3>1
  <2>6. ClosedIn(aut, Alive, X \cup M)
    <3> SUFFICES ASSUME NEW x \in X \cup M, NEW y \in SuccessorsOf(aut, x) \cap Alive, y \notin M
                 PROVE  y \in X
      BY DEF ClosedIn
    <3>1. CASE x \in M
      BY <1>7, <3>1 DEF Alive
    <3>2. CASE x \in X
      BY <1>2, <2>4, <3>2 DEF ClosedIn
    <3>3. QED
      BY <3>1, <3>2
  <2>7. c \in X \cup M
    BY <2>3, <2>5, <2>6 DEF Leads
  <2>8. QED
    BY <2>2, <2>7
<1>15. Rems'
  <2> SUFFICES ASSUME poprem, NEW i \in 1 .. m - 1 PROVE root[i].rem = Segment(i) \ OnPath'
    BY <1>2 DEF Rems
  <2>1. OnPath' = OnPath \ {curr}
    <3>1. OnPath' = {todo[j].conf : j \in 1 .. n - 1}
      BY <1>2 DEF OnPath
    <3>2. \A j \in 1 .. n : j \in 1 .. n - 1 \/ j = n
      BY <1>3
    <3>3. \A j \in 1 .. n - 1 : todo[j].conf # curr
      BY <1>3, <1>5
    <3>4. QED
      BY <1>5, <1>8, <3>1, <3>2, <3>3 DEF OnPath, n
  <2>2. root[i].rem = Segment(i) \ OnPath
    BY <1>0, <1>1, <1>6 DEF Rems
  <2>3. curr \notin Segment(i)
    <3>1. curr \in M /\ M = Segment(m) /\ m \in 1 .. m
      BY <1>3 DEF M
    <3>2. QED
      BY <1>0, <1>1, <1>6, <3>1, SegmentUnique
  <2>4. QED
    BY <2>1, <2>2, <2>3
<1>16. AllDead'
  <2> SUFFICES ASSUME todo' = <<>>, NEW c \in DOMAIN h PROVE h'[c] = Dead
    BY <1>2 DEF AllDead
  <2>1. n = 1
    BY <1>2, <1>3
  <2>2. h[curr] <= h[c] \/ h[c] = Dead
    <3>1. PICK j \in 1 .. n : h[todo[j].conf] = root[1].index
      BY <1>0, <1>1, <1>3 DEF Chain, Searching, n
    <3>2. h[curr] = root[1].index /\ root[1].index = 1
      BY <1>1, <1>8, <2>1, <3>1, TopsExist
    <3>3. QED
      BY <1>1, <3>2, IndexFacts
  <2>3. h[c] \in Int /\ h[curr] \in Int
    BY <1>1, IndexFacts, TopsExist DEF curr
  <2>4. QED
    BY <1>2, <1>3, <2>2, <2>3
<1>17. QED
  BY <1>1, <1>2, <1>9, <1>11, <1>12, <1>13, <1>14, <1>15, <1>16 DEF Shape

(* Backtracking inside a component changes only what it remembers.         *)
LEMMA KeepFacts ==
  ASSUME Inv, Backtrack, Top(root).index # h[Top(todo).conf], NEW m, m = Len(root)
  PROVE  /\ Inv' /\ UNCHANGED <<aut, bound, poprem, arc, h, num, maxVal, pc, answer>>
         /\ todo' = Pop(todo) /\ Len(todo') = Len(todo) - 1
         /\ \A i \in 1 .. Len(todo) - 1 : todo'[i] = todo[i]
         /\ Len(root') = m
         /\ \A i \in 1 .. m : /\ root'[i].index = root[i].index
                              /\ root'[i].conditions = root[i].conditions
                              /\ i # m => root'[i] = root[i]
         /\ poprem => root'[m].rem = root[m].rem \cup {Top(todo).conf}
<1> DEFINE n == Len(todo)
           curr == Top(todo).conf
           left == IF poprem THEN [Top(root) EXCEPT !.rem = @ \cup {curr}] ELSE Top(root)
<1>1. Searching /\ Inv' /\ UNCHANGED <<aut, bound, poprem, arc, h, num, maxVal, pc, answer>>
  BY BacktrackInv DEF Backtrack, params
<1>2. /\ todo \in Seq(FrameType) /\ n \in Nat /\ n >= 1 /\ todo # <<>>
      /\ root \in Seq(ComponentType) /\ m \in Nat /\ m >= 1
      /\ root[m] \in ComponentType /\ Top(root) = root[m]
  BY <1>1, TopsExist DEF Searching, Top
<1>3. todo' = Pop(todo) /\ Len(todo') = n - 1 /\ \A i \in 1 .. n - 1 : todo'[i] = todo[i]
  BY <1>2, PopFacts DEF Backtrack, Pop
<1>4. root' = [root EXCEPT ![m] = left]
  BY DEF Backtrack
<1>5. /\ left.index = root[m].index /\ left.conditions = root[m].conditions
      /\ poprem => left.rem = root[m].rem \cup {curr}
  BY <1>2 DEF ComponentType
<1> HIDE DEF left, curr
<1>6. Len(root') = m /\ root'[m] = left /\ \A i \in 1 .. m : i # m => root'[i] = root[i]
  BY <1>2, <1>4
<1>7. QED
  BY <1>1, <1>3, <1>5, <1>6 DEF curr

LEMMA KeepShape ==
  Shape /\ Backtrack /\ Top(root).index # h[Top(todo).conf] => Shape'
<1> SUFFICES ASSUME Shape, Backtrack, Top(root).index # h[Top(todo).conf] PROVE Shape'
  OBVIOUS
<1> DEFINE n == Len(todo)
           curr == Top(todo).conf
<1>0. PICK m : m = Len(root)
  OBVIOUS
<1>1. /\ Inv /\ Searching /\ pc = "search" /\ Top(todo).rest = <<>> /\ Chain
      /\ IteratorsOn(todo) /\ Explored /\ DeadStay /\ Descends /\ Rems
      /\ IsFiniteSet(DOMAIN h)
  BY DEF Backtrack, Shape, Searching
<1>2. /\ Inv' /\ UNCHANGED <<aut, bound, poprem, arc, h, pc>>
      /\ todo' = Pop(todo) /\ Len(todo') = n - 1
      /\ \A i \in 1 .. n - 1 : todo'[i] = todo[i]
      /\ Len(root') = m
      /\ \A i \in 1 .. m : /\ root'[i].index = root[i].index
                           /\ root'[i].conditions = root[i].conditions
                           /\ i # m => root'[i] = root[i]
      /\ poprem => root'[m].rem = root[m].rem \cup {curr}
  BY <1>0, <1>1, KeepFacts
<1>3. /\ m \in Nat /\ m >= 1 /\ n \in Nat /\ n >= 1
      /\ curr \in Segment(m) /\ curr = todo[n].conf /\ h[curr] # root[m].index
  BY <1>0, <1>1, TopsExist, CurrFacts DEF Top
<1>4. \A c, k : Leaves(c)' = Leaves(c) /\ Target(c, k)' = Target(c, k)
  BY <1>2 DEF Leaves, Leaving, Target
<1>5. \A i \in 1 .. m : Segment(i)' = Segment(i)
  <2> SUFFICES ASSUME NEW i \in 1 .. m PROVE Segment(i)' = Segment(i)
    OBVIOUS
  <2>1. i < m => i + 1 \in 1 .. m
    BY <1>3
  <2>2. QED
    BY <1>0, <1>2, <2>1 DEF Segment
<1>6. \A i \in 1 .. m : curr \in Segment(i) => i = m
  BY <1>0, <1>1, <1>3, SegmentUnique
<1>7. \A j \in 1 .. n - 1 : j \in 1 .. n /\ j # n
  BY <1>3
<1> HIDE DEF n, curr
<1>8. IteratorsOn(todo)'
  BY <1>1, <1>2, <1>4, <1>7 DEF IteratorsOn, n
<1>9. \A c : Seen(c)' \subseteq Seen(c)
  <2>1. \A c : SeenOn(Pop(todo), c) \subseteq SeenOn(todo, c)
    BY <1>1, PoppedSeen
  <2>2. \A c : Seen(c)' = SeenOn(Pop(todo), c)
    BY <1>2, <1>4 DEF Seen, SeenOn
  <2>3. QED
    BY <2>1, <2>2 DEF Seen
<1>10. \A i \in 1 .. m : \E j \in 1 .. n - 1 : h[todo[j].conf] = root[i].index
  <2> SUFFICES ASSUME NEW i \in 1 .. m
               PROVE  \E j \in 1 .. n - 1 : h[todo[j].conf] = root[i].index
    OBVIOUS
  <2>1. PICK j \in 1 .. n : h[todo[j].conf] = root[i].index /\ todo[j].conf \in Segment(i)
    BY <1>0, <1>1, RootFacts DEF n
  <2>2. j # n
    BY <1>3, <1>6, <2>1
  <2>3. QED
    BY <1>3, <2>1, <2>2
<1>11. Chain'
  <2>1. \A i \in 1 .. n - 1 : h[todo'[i].conf] # Dead
    BY <1>1, <1>2, <1>7 DEF Chain, n
  <2>2. \A i, j \in 1 .. n - 1 : i < j => h[todo'[i].conf] < h[todo'[j].conf]
    BY <1>1, <1>2, <1>7 DEF Chain, n
  <2>3. \A i \in 1 .. m : \E j \in 1 .. n - 1 : h[todo'[j].conf] = root'[i].index
    BY <1>2, <1>10
  <2>4. QED
    BY <1>2, <2>1, <2>2, <2>3 DEF Chain
<1>12. \A c, k : \A i \in 1 .. m : InStep(c, k, i) => InStep(c, k, i)'
  <2> SUFFICES ASSUME NEW c, NEW k, NEW i \in 1 .. m, InStep(c, k, i) PROVE InStep(c, k, i)'
    OBVIOUS
  <2>1. i < m => i + 1 \in 1 .. m
    BY <1>3
  <2>2. CASE Target(c, k) \in Segment(i) /\ Leaves(c)[k].acc \subseteq root[i].conditions
    BY <1>2, <1>4, <1>5, <2>2 DEF InStep
  <2>3. CASE i < m /\ Target(c, k) \in Segment(i+1) /\ Leaves(c)[k].acc \subseteq arc[i+1]
    <3>1. Target(c, k) \in Segment(i+1)'
      BY <1>5, <2>1, <2>3
    <3>2. QED
      BY <1>2, <1>4, <2>3, <3>1 DEF InStep
  <2>4. QED
    BY <1>0, <2>2, <2>3 DEF InStep
<1>13. Explored'
  <2> SUFFICES ASSUME NEW c \in DOMAIN h, NEW k \in Seen(c)'
               PROVE  /\ Target(c, k) \in DOMAIN h
                      /\ \/ h[Target(c, k)] = Dead
                         \/ h[c] # Dead /\ \A i \in 1 .. m : c \in Segment(i)' => InStep(c, k, i)'
    BY <1>2, <1>4 DEF Explored
  <2>1. /\ Target(c, k) \in DOMAIN h
        /\ \/ h[Target(c, k)] = Dead
           \/ h[c] # Dead /\ \A i \in 1 .. m : c \in Segment(i) => InStep(c, k, i)
    BY <1>0, <1>1, <1>9 DEF Explored
  <2>2. QED
    BY <1>5, <1>12, <2>1
<1>14. DeadStay'
  BY <1>1, <1>2 DEF DeadStay
<1>15. Descends'
  <2>1. Alive' = Alive
    BY <1>2 DEF Alive
  <2>2. QED
    BY <1>1, <1>2, <1>7, <2>1 DEF Descends, n
<1>16. Rems'
  <2> SUFFICES ASSUME poprem, NEW i \in 1 .. m PROVE root'[i].rem = Segment(i)' \ OnPath'
    BY <1>2 DEF Rems
  <2>1. OnPath' = OnPath \ {curr}
    <3>1. OnPath' = {todo[j].conf : j \in 1 .. n - 1}
      BY <1>2 DEF OnPath
    <3>2. \A j \in 1 .. n : j \in 1 .. n - 1 \/ j = n
      BY <1>3
    <3>3. \A j \in 1 .. n - 1 : todo[j].conf # curr
      <4>1. \A k, j \in 1 .. n : todo[k].conf = todo[j].conf => k = j
        BY <1>1 DEF Inv, Path, n
      <4>2. n \in 1 .. n
        BY <1>3
      <4>3. QED
        BY <1>3, <1>7, <4>1, <4>2
    <3>4. QED
      BY <1>3, <1>7, <3>1, <3>2, <3>3 DEF OnPath, n
  <2>2. root[i].rem = Segment(i) \ OnPath
    BY <1>0, <1>1 DEF Rems
  <2>3. CASE i = m
    <3>1. root'[i].rem = root[i].rem \cup {curr} /\ curr \in Segment(i)
      BY <1>2, <1>3, <2>3
    <3>2. QED
      BY <1>5, <2>1, <2>2, <3>1
  <2>4. CASE i # m
    BY <1>2, <1>5, <1>6, <2>1, <2>2, <2>4
  <2>5. QED
    BY <2>3, <2>4
<1>17. AllDead'
  <2>1. n # 1
    <3>1. m \in 1 .. m
      BY <1>3
    <3>2. PICK j \in 1 .. n - 1 : h[todo[j].conf] = root[m].index
      BY <1>10, <3>1
    <3>3. QED
      BY <1>3, <3>2
  <2>2. todo' # <<>>
    BY <1>2, <1>3, <2>1
  <2>3. QED
    BY <2>2 DEF AllDead
<1>18. QED
  BY <1>1, <1>2, <1>8, <1>11, <1>13, <1>14, <1>15, <1>16, <1>17 DEF Shape

LEMMA BacktrackShape == Shape /\ Backtrack => Shape'
<1>1. ASSUME Backtrack, Shape, Top(root).index = h[Top(todo).conf] PROVE LastExplored
  BY <1>1 DEF Backtrack, LastExplored
<1>2. QED
  BY <1>1, RemoveShape, KeepShape

LEMMA FinishShape == Shape /\ Finish => Shape'
<1> SUFFICES ASSUME Shape, Finish PROVE Shape'
  OBVIOUS
<1>1. /\ UNCHANGED <<aut, bound, poprem, todo, root, arc, h, num, maxVal>>
      /\ pc' = "done" /\ todo = <<>>
  BY DEF Finish, params
<1>2. Inv'
  BY FinishInv DEF Shape
<1>3. IteratorsOn(todo)' = IteratorsOn(todo)
  BY <1>1 DEF IteratorsOn, EndOf, Leaves, Leaving
<1>4. Chain' = Chain /\ DeadStay' = DeadStay /\ Explored' /\ Rems' /\ AllDead'
  BY <1>1 DEF Chain, DeadStay, Explored, Rems, AllDead
<1>5. Descends'
  <2>1. Len(todo') = 0
    BY <1>1
  <2>2. QED
    BY <2>1 DEF Descends
<1>6. IsFiniteSet(DOMAIN h')
  BY <1>1 DEF Shape
<1>7. QED
  BY <1>2, <1>3, <1>4, <1>5, <1>6 DEF Shape

LEMMA InitShape == Init => Shape
<1> SUFFICES ASSUME Init PROVE Shape
  OBVIOUS
<1>1. Inv
  BY InitInv
<1>2. aut \in Automaton /\ aut.init \in State
  BY AutomataAssumption DEF Init, Automaton
<1>3. Origin \in Configuration
  BY <1>2, DefaultConfigType DEF Origin
<1>4. /\ todo = <<Frame(Origin)>> /\ root = <<Component(1)>> /\ DOMAIN h = {Origin}
      /\ h[Origin] = 1
  BY DEF Init, Origin
<1>5. /\ Len(todo) = 1 /\ todo[1].conf = Origin /\ todo[1].rest = Leaves(Origin)
      /\ Len(root) = 1 /\ root[1].index = 1 /\ root[1].rem = {}
  BY <1>4 DEF Frame, Component, Leaves
<1>6. \A i \in 1 .. Len(todo) : i = 1
  BY <1>5
<1>7. \A i \in 1 .. Len(root) : i = 1
  BY <1>5
<1>8. Leaves(Origin) \in Seq(Edge) /\ Len(Leaves(Origin)) \in Nat
  BY <1>1, <1>3, LeavesTyped DEF Inv
<1>9. IsFiniteSet(DOMAIN h)
  BY <1>4, FS_Singleton
<1>10. Chain
  <2>1. 1 \in 1 .. Len(todo)
    BY <1>5
  <2>2. \A i, j \in 1 .. Len(todo) : ~(i < j)
    BY <1>5
  <2>3. QED
    BY <1>4, <1>5, <1>6, <1>7, <2>1, <2>2 DEF Chain, Dead
<1>11. IteratorsOn(todo)
  <2>1. EndOf(Leaves(Origin), Leaves(Origin))
    BY <1>8 DEF EndOf
  <2>2. QED
    BY <1>5, <1>6, <2>1 DEF IteratorsOn
<1>12. Explored
  <2>1. Seen(Origin) = {}
    <3> SUFFICES ASSUME NEW k \in Seen(Origin) PROVE FALSE
      OBVIOUS
    <3>1. k \in 1 .. Len(Leaves(Origin)) /\ 1 \in 1 .. Len(todo)
      BY <1>5 DEF Seen, SeenOn
    <3>2. k <= Len(Leaves(Origin)) - Len(Leaves(Origin))
      BY <1>5, <3>1 DEF Seen, SeenOn
    <3>3. QED
      BY <1>8, <3>1, <3>2
  <2>2. QED
    BY <1>4, <2>1 DEF Explored
<1>13. DeadStay
  BY <1>4 DEF DeadStay, Dead
<1>14. Descends
  BY <1>4, <1>5, <1>6 DEF Descends, Leads
<1>15. Rems
  <2>1. Segment(1) = {Origin}
    BY <1>4, <1>5 DEF Segment
  <2>2. OnPath = {Origin}
    <3>1. 1 \in 1 .. Len(todo)
      BY <1>5
    <3>2. QED
      BY <1>5, <1>6, <3>1 DEF OnPath
  <2>3. QED
    BY <1>5, <1>7, <2>1, <2>2 DEF Rems
<1>16. AllDead
  BY <1>4, <1>5 DEF AllDead
<1>17. QED
  BY <1>1, <1>9, <1>10, <1>11, <1>12, <1>13, <1>14, <1>15, <1>16 DEF Shape

LEMMA StutterShape == Shape /\ UNCHANGED vars => Shape'
<1> SUFFICES ASSUME Shape, UNCHANGED vars PROVE Shape'
  OBVIOUS
<1>1. UNCHANGED <<aut, bound, poprem, todo, root, arc, h, num, maxVal, pc, answer>>
  BY DEF vars
<1>2. Inv'
  BY <1>1 DEF Shape, Inv, TypeOK, Orders, Path, Roots, StackDiscipline, Origin
<1>3. \A c, k : Leaves(c)' = Leaves(c) /\ Target(c, k)' = Target(c, k) /\ Seen(c)' = Seen(c)
  BY <1>1 DEF Leaves, Leaving, Target, Seen, SeenOn
<1>4. \A i : Segment(i)' = Segment(i)
  BY <1>1 DEF Segment
<1>5. \A c, k, i : InStep(c, k, i)' = InStep(c, k, i)
  BY <1>1, <1>3, <1>4 DEF InStep
<1>6. Explored'
  BY <1>1, <1>3, <1>4, <1>5 DEF Shape, Explored
<1>7. IteratorsOn(todo)' = IteratorsOn(todo)
  BY <1>1, <1>3 DEF IteratorsOn
<1>8. Alive' = Alive /\ OnPath' = OnPath
  BY <1>1 DEF Alive, OnPath
<1>9. Chain' /\ DeadStay' /\ Descends' /\ Rems' /\ AllDead' /\ IsFiniteSet(DOMAIN h')
  BY <1>1, <1>4, <1>8 DEF Shape, Chain, DeadStay, Descends, Rems, AllDead
<1>10. QED
  BY <1>2, <1>6, <1>7, <1>9 DEF Shape

LEMMA StepShape == Shape /\ [Next]_vars => Shape'
<1> SUFFICES ASSUME Shape, [Next]_vars PROVE Shape'
  OBVIOUS
<1>1. CASE UNCHANGED vars
  BY <1>1, StutterShape
<1>2. CASE LookAt
  BY <1>2, VisitShape, IgnoreShape, MergeShape DEF LookAt
<1>3. CASE Terminated
  BY <1>1, <1>3 DEF Terminated
<1>4. QED
  BY <1>1, <1>2, <1>3, BacktrackShape, FinishShape DEF Next

(* The shape of the search holds in every state, whichever way components  *)
(* are removed.                                                            *)
THEOREM ShapeInvariance == Spec => []Shape
BY InitShape, StepShape, PTL DEF Spec

(* The path is alive and rooted, and no transition leaves the removed      *)
(* components: find_supremum may ignore whatever is in them.               *)
THEOREM DeadComponentsClosed == Spec => []DeadClosed
<1>1. Shape => DeadClosed
  <2> SUFFICES ASSUME Shape PROVE DeadClosed
    OBVIOUS
  <2>1. Inv /\ Chain /\ DeadStay
    BY DEF Shape
  <2>2. QED
    BY <2>1 DEF DeadClosed, Chain, DeadStay, Inv, Path
<1>2. QED
  BY <1>1, ShapeInvariance, PTL

-----------------------------------------------------------------------------
(* The configurations of a component lead to each other, and the initial   *)
(* configuration leads to all of them.                                     *)
Visited == DOMAIN h
Joined == \A i \in 1 .. Len(root) : \A c, d \in Segment(i) : Leads(aut, Visited, c, d)
FromOrigin == Origin \in Visited /\ \A c \in Visited : Leads(aut, Visited, Origin, c)
Linked == Shape /\ Joined /\ FromOrigin

LEMMA VisitLinked ==
  ASSUME Linked, Searching, Top(todo).rest # <<>>, NEW e, e = Head(Top(todo).rest), Visit(e)
  PROVE  Linked'
<1> DEFINE d == Dest(e)
           m == Len(root)
           curr == Top(todo).conf
<1>1. Shape /\ Inv /\ Chain /\ IteratorsOn(todo)
  BY DEF Linked, Shape
<1>2. /\ aut' = aut /\ Len(root') = m + 1 /\ m \in Nat
      /\ d \notin Visited /\ Visited' = Visited \cup {d} /\ d \in SuccessorsOf(aut, curr)
  BY <1>1, VisitFacts, IndexFacts DEF Visited
<1>3. /\ \A i \in 1 .. m : Segment(i)' = Segment(i)
      /\ \A i \in Nat : i = m + 1 => Segment(i)' = {d}
  BY <1>1, VisitSegments
<1>4. curr \in Visited
  BY <1>1, TopsExist DEF Visited
<1> HIDE DEF d, m, curr
<1>5. \A x \in Visited : \A y : Leads(aut, Visited, x, y) => Leads(aut, Visited', x, y)
  <2>1. Visited \in SUBSET Visited'
    BY <1>2
  <2>2. QED
    BY <2>1, LeadsGrows
<1>6. Joined'
  <2> SUFFICES ASSUME NEW i \in 1 .. m + 1, NEW x \in Segment(i)', NEW y \in Segment(i)'
               PROVE  Leads(aut, Visited', x, y)
    BY <1>2 DEF Joined
  <2>1. CASE i \in 1 .. m
    <3>1. x \in Segment(i) /\ y \in Segment(i) /\ x \in Visited
      BY <1>3, <2>1 DEF Segment, Visited
    <3>2. QED
      BY <1>5, <2>1, <3>1 DEF Linked, Joined, m
  <2>2. CASE i = m + 1
    <3>1. x = d /\ y = d
      BY <1>2, <1>3, <2>2
    <3>2. QED
      BY <3>1 DEF Leads
  <2>3. QED
    BY <1>2, <2>1, <2>2
<1>7. FromOrigin'
  <2>1. Origin' = Origin /\ Origin \in Visited
    BY <1>2 DEF Origin, Linked, FromOrigin
  <2>2. \A c \in Visited : Leads(aut, Visited', Origin, c)
    BY <1>5, <2>1 DEF Linked, FromOrigin
  <2>3. Leads(aut, Visited', curr, d)
    BY <1>2, LeadsStep
  <2>4. Leads(aut, Visited', Origin, d)
    BY <1>4, <2>2, <2>3, LeadsTrans
  <2>5. QED
    BY <1>2, <2>1, <2>2, <2>4 DEF FromOrigin
<1>8. QED
  BY <1>1, <1>6, <1>7, VisitShape DEF Linked

(* A merge closes a cycle: its target leads down the path to the current   *)
(* configuration, and from there back to it.                               *)
LEMMA MergeJoins ==
  ASSUME Linked, Searching, Top(todo).rest # <<>>, NEW e, e = Head(Top(todo).rest), Merge(e)
  PROVE  Joined'
<1> DEFINE d == Dest(e)
           m == Len(root)
           curr == Top(todo).conf
<1>1. Shape /\ Inv /\ Chain /\ IteratorsOn(todo) /\ Descends /\ Joined
  BY DEF Linked, Shape
<1>2. PICK k : k = KeptTop(h[d])
  OBVIOUS
<1>3. /\ aut' = aut /\ h' = h /\ k \in 1 .. m /\ d \in DOMAIN h /\ d \in Segment(k)
      /\ Len(root') = k
  BY <1>1, <1>2, MergeFacts
<1>4. /\ \A i \in 1 .. k : i < k => Segment(i)' = Segment(i)
      /\ \A c : c \in Segment(k)' <=> \E i \in k .. m : c \in Segment(i)
  BY <1>1, <1>2, MergeSegments
<1>5. m \in Nat /\ m >= 1 /\ curr \in DOMAIN h /\ curr \in Segment(m)
  BY <1>1, TopsExist, CurrFacts
<1>6. Leads(aut, Visited, curr, d)
  <2>1. d \in SuccessorsOf(aut, curr)
    <3>1. \E l \in 1 .. Len(Leaves(curr)) : Leaves(curr)[l] = e
      BY <1>1, AdvancedFacts
    <3>2. QED
      BY <3>1 DEF SuccessorsOf, Leaves, Dest
  <2>2. QED
    BY <1>3, <2>1, LeadsStep DEF Visited
<1>7. \A j \in 1 .. Len(todo) : h[todo[j].conf] <= h[curr]
  BY <1>1, CurrFacts
<1> HIDE DEF d, m, curr
<1>8. \A j \in 1 .. Len(todo) : \A c \in Visited :
        h[c] >= h[todo[j].conf] => Leads(aut, Visited, todo[j].conf, c)
  <2> SUFFICES ASSUME NEW j \in 1 .. Len(todo), NEW c \in Visited, h[c] >= h[todo[j].conf]
               PROVE  Leads(aut, Visited, todo[j].conf, c)
    OBVIOUS
  <2>1. Leads(aut, Alive, todo[j].conf, c)
    BY <1>1 DEF Descends, Visited
  <2>2. todo[j].conf \in Alive /\ Alive \in SUBSET Visited
    BY <1>1 DEF Chain, Alive, Visited, Inv, Path
  <2>3. QED
    BY <2>1, <2>2, LeadsGrows
(* the root of the lowest component merged *)
<1>9. PICK j \in 1 .. Len(todo) :
        /\ h[todo[j].conf] = root[k].index /\ todo[j].conf \in Segment(k)
  BY <1>1, <1>3, RootFacts DEF m
<1> DEFINE r == todo[j].conf
<1>10. ASSUME NEW c \in Segment(k)' PROVE Leads(aut, Visited, r, c)
  <2>1. PICK i \in k .. m : c \in Segment(i)
    BY <1>4
  <2>2. c \in Visited /\ h[c] >= h[r]
    <3>1. i \in 1 .. m /\ k <= i
      BY <1>3, <1>5
    <3>2. c \in DOMAIN h /\ h[c] \in Int /\ root[k].index <= h[c] /\ root[k].index \in Nat
      BY <1>1, <1>3, <2>1, <3>1, SegmentFacts, IndexFacts DEF m
    <3>3. QED
      BY <1>9, <3>2 DEF Visited
  <2>3. QED
    BY <1>8, <2>2
<1>11. ASSUME NEW c \in Segment(k)' PROVE Leads(aut, Visited, c, r)
  <2>1. PICK i \in k .. m : c \in Segment(i)
    BY <1>4
  <2>2. i \in 1 .. m
    BY <1>3, <1>5
  <2>3. PICK l \in 1 .. Len(todo) : todo[l].conf \in Segment(i)
    BY <1>1, <2>2, RootFacts DEF m
  <2>4. Leads(aut, Visited, c, todo[l].conf)
    BY <1>1, <2>1, <2>2, <2>3 DEF Joined, m
  <2>5. Leads(aut, Visited, todo[l].conf, curr)
    <3>1. todo[l].conf \in DOMAIN h /\ h[todo[l].conf] \in Int /\ h[curr] \in Int
      BY <1>1, <1>5, IndexFacts DEF Inv, Path
    <3>2. h[curr] >= h[todo[l].conf]
      BY <1>7, <3>1
    <3>3. QED
      BY <1>5, <1>8, <3>2 DEF Visited
  <2>6. Leads(aut, Visited, d, r)
    BY <1>1, <1>3, <1>9 DEF Joined, m
  <2> HIDE DEF r
  <2>7. QED
    BY <1>6, <2>4, <2>5, <2>6, LeadsTrans
<1> HIDE DEF r
<1>12. ASSUME NEW x \in Segment(k)', NEW y \in Segment(k)'
       PROVE  Leads(aut, Visited, x, y)
  BY <1>10, <1>11, LeadsTrans
<1>13. ASSUME NEW i \in 1 .. k, i < k, NEW x \in Segment(i)', NEW y \in Segment(i)'
       PROVE  Leads(aut, Visited, x, y)
  <2>1. i \in 1 .. m /\ x \in Segment(i) /\ y \in Segment(i)
    BY <1>3, <1>4, <1>5, <1>13
  <2>2. QED
    BY <1>1, <2>1 DEF Joined, m
<1>14. ASSUME NEW i \in 1 .. k, NEW x \in Segment(i)', NEW y \in Segment(i)'
       PROVE  Leads(aut, Visited, x, y)
  <2>1. CASE i = k
    BY <1>12, <1>14, <2>1
  <2>2. CASE i < k
    BY <1>13, <1>14, <2>2
  <2>3. QED
    BY <1>3, <2>1, <2>2
<1>15. Visited' = Visited
  BY <1>3 DEF Visited
<1>16. QED
  BY <1>3, <1>14, <1>15 DEF Joined

LEMMA InitLinked == Init => Linked
<1> SUFFICES ASSUME Init PROVE Linked
  OBVIOUS
<1>1. Visited = {Origin}
  BY DEF Init, Origin, Visited
<1>2. FromOrigin /\ Joined
  BY <1>1 DEF FromOrigin, Joined, Leads, Segment, Visited
<1>3. QED
  BY <1>2, InitShape DEF Linked

LEMMA StepLinked == Linked /\ [Next]_vars => Linked'
<1> SUFFICES ASSUME Linked, [Next]_vars PROVE Linked'
  OBVIOUS
<1>1. Shape /\ Inv /\ Joined /\ FromOrigin
  BY DEF Linked, Shape
<1>2. Shape'
  BY <1>1, StepShape
(* a step that visits nothing, and splits or drops components *)
<1>3. ASSUME aut' = aut, Visited' = Visited PROVE FromOrigin'
  <2>1. Origin' = Origin
    BY <1>3 DEF Origin
  <2>2. QED
    BY <1>1, <1>3, <2>1 DEF FromOrigin
<1>4. ASSUME aut' = aut, Visited' = Visited, NEW n \in Nat, Len(root') = n, n <= Len(root),
             \A i \in 1 .. n : Segment(i)' = Segment(i)
      PROVE  Joined'
  <2>1. \A i \in 1 .. n : i \in 1 .. Len(root)
    BY <1>1, <1>4, IndexFacts
  <2>2. QED
    BY <1>1, <1>4, <2>1 DEF Joined
<1>5. ASSUME UNCHANGED <<aut, root, h>> PROVE Joined' /\ FromOrigin'
  <2>1. \A i : Segment(i)' = Segment(i)
    BY <1>5 DEF Segment
  <2>2. Visited' = Visited /\ Len(root) \in Nat
    BY <1>1, <1>5, IndexFacts DEF Visited
  <2>3. QED
    BY <1>3, <1>4, <1>5, <2>1, <2>2
<1>6. CASE UNCHANGED vars
  BY <1>2, <1>5, <1>6 DEF vars, Linked
<1>7. CASE Backtrack /\ Top(root).index = h[Top(todo).conf]
  <2>1. LastExplored
    BY <1>1, <1>7 DEF Backtrack, LastExplored
  <2>2. PICK m : m = Len(root)
    OBVIOUS
  <2>3. /\ aut' = aut /\ DOMAIN h' = DOMAIN h /\ Len(root') = m - 1
        /\ \A i \in 1 .. m - 1 : Segment(i)' = Segment(i)
    BY <1>7, <2>1, <2>2, RemoveFacts
  <2>4. m - 1 \in Nat /\ m - 1 <= m
    BY <2>1, <2>2, LastFacts
  <2>5. QED
    BY <1>2, <1>3, <1>4, <2>2, <2>3, <2>4 DEF Linked, Visited
<1>8. CASE Backtrack /\ Top(root).index # h[Top(todo).conf]
  <2>1. /\ aut' = aut /\ h' = h /\ Len(root') = Len(root) /\ Len(root) \in Nat
        /\ \A i \in 1 .. Len(root) : root'[i].index = root[i].index
    BY <1>1, <1>8, KeepFacts, IndexFacts
  <2>2. \A i \in 1 .. Len(root) : Segment(i)' = Segment(i)
    <3> SUFFICES ASSUME NEW i \in 1 .. Len(root) PROVE Segment(i)' = Segment(i)
      OBVIOUS
    <3>1. i < Len(root) => i + 1 \in 1 .. Len(root)
      BY <2>1
    <3>2. QED
      BY <2>1, <3>1 DEF Segment
  <2>3. QED
    BY <1>2, <1>3, <1>4, <2>1, <2>2 DEF Linked, Visited
<1>9. CASE LookAt
  <2>1. PICK e : /\ e = Head(Top(todo).rest) /\ Searching /\ Top(todo).rest # <<>>
                 /\ Visit(e) \/ Ignore(e) \/ Merge(e)
    BY <1>9 DEF LookAt
  <2>2. CASE Visit(e)
    BY <2>1, <2>2, VisitLinked
  <2>3. CASE Ignore(e)
    BY <1>2, <1>5, <2>3 DEF Ignore, params, Linked
  <2>4. CASE Merge(e)
    BY <1>2, <1>3, <2>1, <2>4, MergeJoins DEF Merge, params, Linked, Visited
  <2>5. QED
    BY <2>1, <2>2, <2>3, <2>4
<1>10. CASE Finish
  BY <1>2, <1>5, <1>10 DEF Finish, params, Linked
<1>11. QED
  BY <1>6, <1>7, <1>8, <1>9, <1>10 DEF Next, Terminated

(* The components of the stack are strongly connected, and all that is     *)
(* visited is reached from the initial configuration, in every state.      *)
THEOREM LinkedInvariance == Spec => []Linked
BY InitLinked, StepLinked, PTL DEF Spec

(* Configurations that lead to each other have the same value.             *)
LEMMA SameValue ==
  ASSUME Inv, NEW c \in Visited, NEW d \in Visited,
         Leads(aut, Visited, c, d), Leads(aut, Visited, d, c)
  PROVE  c.bounded = d.bounded /\ c.value = d.value
<1>1. Visited \in SUBSET Configuration /\ aut \in Automaton
  BY DEF Inv, TypeOK, Visited
<1>2. Below(c, d) /\ Below(d, c)
  BY <1>1, LeadsBelow
<1>3. c.value \in Int /\ d.value \in Int /\ c.bounded \in BOOLEAN /\ d.bounded \in BOOLEAN
  BY <1>1 DEF Configuration, Unsigned
<1>4. QED
  BY <1>2, <1>3 DEF Below

(* "A SCC in this automaton has a single value" (SupremumFinder.h:36): the *)
(* configurations of a component of the stack agree on their value.        *)
THEOREM ComponentsHaveOneValue == Spec => []SingleValue
<1>1. Linked => SingleValue
  <2> SUFFICES ASSUME Linked, NEW i \in 1 .. Len(root), NEW c \in Segment(i), NEW d \in Segment(i)
               PROVE  c.bounded = d.bounded /\ c.value = d.value
    BY DEF SingleValue
  <2>1. Inv /\ c \in Visited /\ d \in Visited
    BY DEF Linked, Shape, Segment, Visited
  <2>2. QED
    BY <2>1, SameValue DEF Linked, Joined
<1>2. QED
  BY <1>1, LinkedInvariance, PTL

-----------------------------------------------------------------------------
(* Configurations of a set S that lead to each other inside it, and the    *)
(* transitions inside the component of one of them.                        *)
Mutual(S, c, d) == c \in S /\ d \in S /\ Leads(aut, S, c, d) /\ Leads(aut, S, d, c)
Inner(S, c, x, k) ==
  k \in 1 .. Len(Leaves(x)) /\ Mutual(S, c, x) /\ Mutual(S, c, Target(x, k))

(* The component of c has a cycle, and is in every acceptance set.         *)
Good(S, c) ==
  /\ \E x \in S : \E k \in 1 .. Len(Leaves(x)) : Inner(S, c, x, k)
  /\ \A g \in aut.accs :
       \E x \in S : \E k \in 1 .. Len(Leaves(x)) : Inner(S, c, x, k) /\ g \in Leaves(x)[k].acc

(* The conditions of a component are those of transitions inside it, and   *)
(* an arc has those of a transition from the component below.              *)
CarriedIn(i, g) ==
  \E c \in Segment(i) : \E k \in 1 .. Len(Leaves(c)) :
    Target(c, k) \in Segment(i) /\ g \in Leaves(c)[k].acc
Carried == \A i \in 1 .. Len(root) : \A g \in root[i].conditions : CarriedIn(i, g)

ArcFrom(i) ==
  \E c \in Segment(i) : \E k \in 1 .. Len(Leaves(c)) :
    Target(c, k) \in Segment(i+1) /\ arc[i+1] = Leaves(c)[k].acc
Arcs == \A i \in 1 .. Len(root) : i < Len(root) => ArcFrom(i)

(* The value of an accepting component a cycle was closed over is within   *)
(* the maximum so far, on the stack and once it is removed.                *)
Counted(c) == c.bounded /\ c.value <= maxVal
CycleSeen(i) == \E c \in Segment(i) : \E k \in Seen(c) : Target(c, k) \in Segment(i)
Recorded ==
  pc = "search" => \A i \in 1 .. Len(root) :
    IsAccepting(root[i]) /\ CycleSeen(i) => \A c \in Segment(i) : Counted(c)
DeadRecorded ==
  pc = "search" => \A c \in Visited : h[c] = Dead /\ Good(Visited, c) => Counted(c)

(* That maximum is the value of an accepting component.                    *)
AttainedBy(v) == \E c \in Visited : Good(Visited, c) /\ c.bounded /\ c.value = v
Attained == maxVal = 0 \/ AttainedBy(maxVal)
Within == pc = "search" => maxVal <= bound

(* What is known of the answer.                                            *)
Answered ==
  pc = "done" =>
    IF answer.infinite THEN \E c \in Visited : Good(Visited, c) /\ ~c.bounded
    ELSE IF answer.value > bound THEN AttainedBy(answer.value)
    ELSE /\ \A c \in Visited : SuccessorsOf(aut, c) \subseteq Visited
         /\ \A c \in Visited : Good(Visited, c) => c.bounded /\ c.value <= answer.value
         /\ answer.value = 0 \/ AttainedBy(answer.value)

Account ==
  /\ Linked /\ aut \in Automata /\ Carried /\ Arcs /\ Recorded /\ DeadRecorded
  /\ Attained /\ Within /\ Answered

-----------------------------------------------------------------------------
LEMMA MutualGrows ==
  ASSUME NEW T, NEW S \in SUBSET T, NEW c, NEW d, Mutual(S, c, d)
  PROVE  Mutual(T, c, d)
BY LeadsGrows DEF Mutual

(* More configurations take nothing from an accepting component.           *)
LEMMA GoodGrows ==
  ASSUME NEW T, NEW S \in SUBSET T, NEW c, Good(S, c)
  PROVE  Good(T, c)
<1>1. \A x, k : Inner(S, c, x, k) => Inner(T, c, x, k)
  BY MutualGrows DEF Inner
<1>2. QED
  BY <1>1 DEF Good

(* Nor do they change one that no transition leaves.                       *)
LEMMA GoodStays ==
  ASSUME NEW T, NEW S \in SUBSET T, NEW D \in SUBSET S,
         \A x \in D : SuccessorsOf(aut, x) \subseteq D,
         NEW c \in D, Good(T, c)
  PROVE  Good(S, c)
<1>1. ASSUME NEW x, Mutual(T, c, x) PROVE Mutual(S, c, x)
  <2>1. D \in SUBSET T
    OBVIOUS
  <2>2. x \in D /\ Leads(aut, D, c, x)
    BY <1>1, <2>1, LeadsStays DEF Mutual
  <2>3. Leads(aut, D, x, c)
    BY <1>1, <2>1, <2>2, LeadsStays DEF Mutual
  <2>4. QED
    BY <2>2, <2>3, LeadsGrows DEF Mutual
<1>2. \A x, k : Inner(T, c, x, k) => Inner(S, c, x, k)
  BY <1>1 DEF Inner
<1>3. \A x, k : Inner(S, c, x, k) => x \in S
  BY DEF Inner, Mutual
<1>4. QED
  BY <1>2, <1>3 DEF Good

LEMMA AccDeclared ==
  ASSUME aut \in Automata, NEW c \in Configuration, NEW k \in 1 .. Len(Leaves(c))
  PROVE  Leaves(c)[k].acc \subseteq aut.accs
BY AcceptanceAssumption DEF Leaves, Leaving, Configuration

(* A component is accepting when its conditions are all those there are.   *)
LEMMA AcceptingIff ==
  ASSUME aut \in Automata, NEW comp, comp.conditions \subseteq aut.accs
  PROVE  IsAccepting(comp) <=> comp.conditions = aut.accs
<1>1. IsFiniteSet(aut.accs)
  BY AcceptanceAssumption
<1>2. QED
  BY <1>1, FS_Subset, FS_CardinalityType DEF IsAccepting

LEMMA ConditionsDeclared ==
  ASSUME Inv, aut \in Automata, Carried, NEW i \in 1 .. Len(root)
  PROVE  root[i].conditions \subseteq aut.accs
<1> SUFFICES ASSUME NEW g \in root[i].conditions PROVE g \in aut.accs
  OBVIOUS
<1>1. PICK c \in Segment(i) : \E k \in 1 .. Len(Leaves(c)) : g \in Leaves(c)[k].acc
  BY DEF Carried, CarriedIn
<1>2. c \in Configuration
  BY DEF Segment, Inv, TypeOK
<1>3. QED
  BY <1>1, <1>2, AccDeclared

(* Configurations that lead to each other, with a transition among them    *)
(* and transitions among them in every acceptance set.                     *)
LEMMA GroupGood ==
  ASSUME NEW S, NEW G \in SUBSET S, \A x, y \in G : Leads(aut, S, x, y),
         NEW y \in G, NEW l \in 1 .. Len(Leaves(y)), Target(y, l) \in G,
         \A g \in aut.accs : \E x \in G : \E k \in 1 .. Len(Leaves(x)) :
           Target(x, k) \in G /\ g \in Leaves(x)[k].acc,
         NEW c \in G
  PROVE  Good(S, c)
<1>1. \A x \in G : x \in S /\ Mutual(S, c, x)
  BY DEF Mutual
<1>2. \A x \in G : \A k \in 1 .. Len(Leaves(x)) : Target(x, k) \in G => Inner(S, c, x, k)
  BY <1>1 DEF Inner
<1>3. QED
  BY <1>1, <1>2 DEF Good

(* If the component that is removed is accepting it was recognised as such, *)
(* and a cycle of it was seen.                                             *)
LEMMA LastGood ==
  ASSUME LastExplored, Carried, aut \in Automata, NEW m, m = Len(root),
         NEW c \in Segment(m), Good(Visited, c)
  PROVE  IsAccepting(root[m]) /\ CycleSeen(m)
<1>1. Inv /\ DeadStay /\ m \in 1 .. Len(root)
  BY LastFacts DEF LastExplored, Shape
<1> DEFINE M == Segment(m)
           D == {x \in Visited : h[x] = Dead}
<1>2. \A x \in M : x \in Visited /\ x \notin D
  BY <1>1, SegmentFacts DEF Visited
<1>3. \A x \in D : SuccessorsOf(aut, x) \subseteq D
  BY <1>1 DEF DeadStay, Visited
<1>4. \A x \in M : \A y \in SuccessorsOf(aut, x) : y \in D \cup M
  BY LastSuccessors DEF Visited
<1>5. M \cup D \in SUBSET Visited /\ \A x \in M \cup D : SuccessorsOf(aut, x) \subseteq M \cup D
  BY <1>2, <1>3, <1>4
<1> HIDE DEF M, D
<1>6. D \in SUBSET Visited
  BY DEF D
<1>7. c \in M /\ c \in M \cup D
  BY DEF M
<1>8. ASSUME NEW x, Mutual(Visited, c, x) PROVE x \in M
  <2>1. x \in M \cup D
    BY <1>5, <1>7, <1>8, LeadsStays DEF Mutual
  <2>2. ASSUME x \in D PROVE FALSE
    <3>1. c \in D
      BY <1>3, <1>6, <1>8, <2>2, LeadsStays DEF Mutual
    <3>2. QED
      BY <1>2, <1>7, <3>1
  <2>3. QED
    BY <2>1, <2>2
<1>9. ASSUME NEW x, NEW k, Inner(Visited, c, x, k)
      PROVE  /\ x \in Segment(m) /\ k \in Seen(x) /\ Target(x, k) \in Segment(m)
             /\ Leaves(x)[k].acc \subseteq root[m].conditions
  <2>1. x \in Segment(m) /\ k \in 1 .. Len(Leaves(x)) /\ Target(x, k) \in Segment(m)
    BY <1>8, <1>9 DEF Inner, M
  <2>2. h[Target(x, k)] # Dead
    BY <1>1, <2>1, SegmentFacts
  <2>3. QED
    BY <2>1, <2>2, LastSeen
<1>10. CycleSeen(m)
  BY <1>9 DEF Good, CycleSeen
<1>11. aut.accs \subseteq root[m].conditions
  BY <1>9 DEF Good
<1>12. root[m].conditions \subseteq aut.accs
  BY <1>1, ConditionsDeclared
<1>13. IsAccepting(root[m])
  <2>1. root[m].conditions = aut.accs
    BY <1>11, <1>12
  <2>2. QED
    BY <1>12, <2>1, AcceptingIff
<1>14. QED
  BY <1>10, <1>13

-----------------------------------------------------------------------------
LEMMA SameGraph ==
  ASSUME aut' = aut
  PROVE  /\ \A c, k : Leaves(c)' = Leaves(c) /\ Target(c, k)' = Target(c, k)
         /\ \A S, c : Good(S, c)' = Good(S, c)
<1>1. \A c, k : Leaves(c)' = Leaves(c) /\ Target(c, k)' = Target(c, k)
  BY DEF Leaves, Leaving, Target
<1>2. \A S, c, d : Mutual(S, c, d)' = Mutual(S, c, d)
  BY DEF Mutual
<1>3. \A S, c, x, k : Inner(S, c, x, k)' = Inner(S, c, x, k)
  BY <1>1, <1>2 DEF Inner
<1>4. \A S, c : Good(S, c)' = Good(S, c)
  BY <1>1, <1>3 DEF Good
<1>5. QED
  BY <1>1, <1>4

(* The transitions seen once the iterator on top moved past one.           *)
LEMMA LookAtSeen ==
  ASSUME Inv, IteratorsOn(todo), Searching, Top(todo).rest # <<>>,
         NEW e, e = Head(Top(todo).rest), aut' = aut,
         todo' = Advanced \/ Visit(e)
  PROVE  \E k \in 1 .. Len(Leaves(Top(todo).conf)) :
           /\ Leaves(Top(todo).conf)[k] = e /\ Target(Top(todo).conf, k) = Dest(e)
           /\ \A c : \A l \in Seen(c)' : l \in Seen(c) \/ (c = Top(todo).conf /\ l = k)
<1> DEFINE curr == Top(todo).conf
<1>1. PICK k \in 1 .. Len(Leaves(curr)) :
        /\ Leaves(curr)[k] = e
        /\ \A c : SeenOn(Advanced, c) \subseteq SeenOn(todo, c) \cup IF c = curr THEN {k} ELSE {}
  BY AdvancedFacts
<1>2. \A c : Seen(c)' = SeenOn(todo', c)
  <2>1. \A c : Leaves(c)' = Leaves(c)
    BY SameGraph
  <2>2. QED
    BY <2>1 DEF Seen, SeenOn
<1>3. \A c : SeenOn(todo', c) \subseteq SeenOn(Advanced, c)
  <2>1. CASE todo' = Advanced
    BY <2>1
  <2>2. CASE Visit(e)
    <3>1. Advanced \in Seq(FrameType) /\ IteratorsOn(Advanced) /\ TypeOK
      BY LookAtFacts, AdvancedFacts DEF Inv
    <3>2. Dest(e) \in Configuration /\ todo' = Append(Advanced, Frame(Dest(e)))
      BY <2>2, VisitFacts
    <3>3. QED
      BY <3>1, <3>2, PushedSeen
  <2>3. QED
    BY <2>1, <2>2
<1>4. Target(curr, k) = Dest(e)
  BY <1>1 DEF Target, Dest
<1> HIDE DEF curr
<1>5. \A c : \A l \in Seen(c)' : l \in Seen(c) \/ (c = curr /\ l = k)
  BY <1>1, <1>2, <1>3 DEF Seen
<1>6. QED
  BY <1>1, <1>4, <1>5 DEF curr

(* Steps that visit no configuration, and merge no components.             *)
LEMMA QuietAccount ==
  ASSUME Account, Linked', UNCHANGED <<aut, bound, maxVal>>, DOMAIN h' = DOMAIN h,
         pc' = "search" => pc = "search", Answered',
         NEW n \in Nat, n <= Len(root), Len(root') = n,
         \A i \in 1 .. n : /\ Segment(i)' = Segment(i) /\ arc'[i] = arc[i]
                           /\ root'[i].conditions = root[i].conditions
                           /\ CycleSeen(i)' => CycleSeen(i),
         pc = "search" => \A c \in Visited : h'[c] = Dead /\ Good(Visited, c) => Counted(c)
  PROVE  Account'
<1>1. Inv /\ Len(root) \in Nat
  BY IndexFacts DEF Account, Linked, Shape
<1>2. \A i \in 1 .. n : i \in 1 .. Len(root)
  BY <1>1
<1>3. Visited' = Visited /\ (\A c : Good(Visited, c)' = Good(Visited, c))
  BY SameGraph DEF Visited
<1>4. \A c : Counted(c)' = Counted(c)
  BY DEF Counted
<1>5. Carried'
  <2> SUFFICES ASSUME NEW i \in 1 .. n, NEW g \in root[i].conditions PROVE CarriedIn(i, g)'
    BY DEF Carried
  <2>1. CarriedIn(i, g)
    BY <1>2 DEF Account, Carried
  <2>2. QED
    BY <2>1, SameGraph DEF CarriedIn
<1>6. Arcs'
  <2> SUFFICES ASSUME NEW i \in 1 .. n, i < n PROVE ArcFrom(i)'
    BY DEF Arcs
  <2>1. ArcFrom(i) /\ i + 1 \in 1 .. n
    BY <1>1, <1>2 DEF Account, Arcs
  <2>2. Segment(i+1)' = Segment(i+1) /\ arc'[i+1] = arc[i+1]
    BY <2>1
  <2>3. QED
    BY <2>1, <2>2, SameGraph DEF ArcFrom
<1>7. Recorded'
  <2> SUFFICES ASSUME pc = "search", NEW i \in 1 .. n, IsAccepting(root[i])', CycleSeen(i)',
                      NEW c \in Segment(i)
               PROVE  Counted(c)
    BY <1>4 DEF Recorded
  <2>1. IsAccepting(root[i])
    BY DEF IsAccepting
  <2>2. QED
    BY <1>2, <2>1 DEF Account, Recorded
<1>8. DeadRecorded'
  BY <1>3, <1>4 DEF DeadRecorded
<1>9. Attained'
  BY <1>3 DEF Account, Attained, AttainedBy
<1>10. Within'
  BY DEF Account, Within
<1>11. QED
  BY <1>5, <1>6, <1>7, <1>8, <1>9, <1>10 DEF Account

LEMMA SameAnswer ==
  ASSUME Answered, UNCHANGED <<aut, bound, pc, answer>>, DOMAIN h' = DOMAIN h
  PROVE  Answered'
<1>1. Visited' = Visited /\ (\A c : Good(Visited, c)' = Good(Visited, c))
  BY SameGraph DEF Visited
<1>2. \A v : AttainedBy(v)' = AttainedBy(v)
  BY <1>1 DEF AttainedBy
<1>3. AttainedBy(answer.value)' = AttainedBy(answer.value)
  BY <1>2
<1>4. QED
  BY <1>1, <1>3 DEF Answered

LEMMA IgnoreAccount ==
  ASSUME Account, Searching, Top(todo).rest # <<>>, NEW e, e = Head(Top(todo).rest), Ignore(e)
  PROVE  Account'
<1>1. Inv /\ IteratorsOn(todo) /\ Linked'
  <2>1. [Next]_vars
    BY DEF Next, LookAt
  <2>2. QED
    BY <2>1, StepLinked DEF Account, Linked, Shape
<1>2. /\ todo' = Advanced /\ Dest(e) \in DOMAIN h /\ h[Dest(e)] = Dead
      /\ UNCHANGED <<aut, bound, poprem, root, arc, h, num, maxVal, pc, answer>>
  BY DEF Ignore, params
<1>3. \A i : Segment(i)' = Segment(i)
  BY <1>2 DEF Segment
<1>4. PICK k \in 1 .. Len(Leaves(Top(todo).conf)) :
        /\ Target(Top(todo).conf, k) = Dest(e)
        /\ \A c : \A l \in Seen(c)' : l \in Seen(c) \/ (c = Top(todo).conf /\ l = k)
  BY <1>1, <1>2, LookAtSeen
<1>5. ASSUME NEW i \in 1 .. Len(root), CycleSeen(i)' PROVE CycleSeen(i)
  <2>1. PICK c \in Segment(i) : \E l \in Seen(c)' : Target(c, l) \in Segment(i)
    BY <1>2, <1>3, <1>5, SameGraph DEF CycleSeen
  <2>2. PICK l \in Seen(c)' : Target(c, l) \in Segment(i)
    BY <2>1
  <2>3. Target(c, l) # Dest(e)
    BY <1>1, <1>2, <2>2, SegmentFacts
  <2>4. l \in Seen(c)
    BY <1>4, <2>3
  <2>5. QED
    BY <2>2, <2>4 DEF CycleSeen
<1>6. Len(root) \in Nat
  BY <1>1, IndexFacts
<1>7. Answered'
  BY <1>2, SameAnswer DEF Account
<1>8. pc = "search" => \A c \in Visited : h'[c] = Dead /\ Good(Visited, c) => Counted(c)
  BY <1>2 DEF Account, DeadRecorded
<1>9. QED
  BY <1>1, <1>2, <1>3, <1>5, <1>6, <1>7, <1>8, QuietAccount

LEMMA BacktrackAccount == Account /\ Backtrack => Account'
<1> SUFFICES ASSUME Account, Backtrack PROVE Account'
  OBVIOUS
<1>1. /\ Linked /\ Shape /\ Inv /\ Searching /\ Linked' /\ pc = "search"
      /\ Top(todo).rest = <<>>
  <2>1. [Next]_vars
    BY DEF Next
  <2>2. QED
    BY <2>1, StepLinked DEF Account, Linked, Shape, Backtrack, Searching
<1>2. UNCHANGED <<aut, bound, maxVal, pc, answer>>
  BY DEF Backtrack, params
<1>3. \A c : Seen(c)' \subseteq Seen(c)
  <2>1. \A c : SeenOn(Pop(todo), c) \subseteq SeenOn(todo, c)
    BY <1>1, PoppedSeen
  <2>2. todo' = Pop(todo)
    BY DEF Backtrack
  <2>3. \A c : Seen(c)' = SeenOn(Pop(todo), c)
    BY <1>2, <2>2, SameGraph DEF Seen, SeenOn
  <2>4. QED
    BY <2>1, <2>3 DEF Seen
<1>4. \A i : Segment(i)' = Segment(i) => (CycleSeen(i)' => CycleSeen(i))
  BY <1>2, <1>3, SameGraph DEF CycleSeen
<1>5. Len(root) \in Nat
  BY <1>1, IndexFacts
<1>6. CASE Top(root).index = h[Top(todo).conf]
  <2>1. LastExplored
    BY <1>1, <1>6 DEF LastExplored
  <2>2. PICK m : m = Len(root)
    OBVIOUS
  <2>3. /\ DOMAIN h' = DOMAIN h
        /\ \A c \in DOMAIN h : h'[c] = IF c \in Segment(m) THEN Dead ELSE h[c]
        /\ Len(root') = m - 1
        /\ \A i \in 1 .. m - 1 : root'[i] = root[i] /\ arc'[i] = arc[i]
        /\ \A i \in 1 .. m - 1 : Segment(i)' = Segment(i)
    BY <2>1, <2>2, RemoveFacts
  <2>4. m - 1 \in Nat /\ m - 1 <= m /\ m \in 1 .. m
    BY <2>1, <2>2, LastFacts
  <2>5. Answered'
    BY <1>2, <2>3, SameAnswer DEF Account
  <2>6. ASSUME NEW c \in Visited, h'[c] = Dead, Good(Visited, c) PROVE Counted(c)
    <3>1. CASE c \in Segment(m)
      <4>1. IsAccepting(root[m]) /\ CycleSeen(m)
        BY <2>1, <2>2, <2>6, <3>1, LastGood DEF Account
      <4>2. QED
        BY <1>1, <2>2, <2>4, <3>1, <4>1 DEF Account, Recorded
    <3>2. CASE c \notin Segment(m)
      BY <1>1, <2>3, <2>6, <3>2 DEF Account, DeadRecorded, Visited
    <3>3. QED
      BY <3>1, <3>2
  <2>7. PICK n : n = m - 1
    OBVIOUS
  <2>8. \A i \in 1 .. n : /\ Segment(i)' = Segment(i) /\ arc'[i] = arc[i]
                          /\ root'[i].conditions = root[i].conditions
                          /\ CycleSeen(i)' => CycleSeen(i)
    BY <1>4, <2>3, <2>7
  <2>9. n \in Nat /\ n <= Len(root) /\ Len(root') = n
    BY <2>2, <2>3, <2>4, <2>7
  <2>10. QED
    BY <1>1, <1>2, <2>3, <2>5, <2>6, <2>8, <2>9, QuietAccount
<1>7. CASE Top(root).index # h[Top(todo).conf]
  <2>1. PICK m : m = Len(root)
    OBVIOUS
  <2>2. /\ h' = h /\ arc' = arc /\ Len(root') = m
        /\ \A i \in 1 .. m : /\ root'[i].index = root[i].index
                             /\ root'[i].conditions = root[i].conditions
    BY <1>1, <1>7, <2>1, KeepFacts
  <2>3. \A i \in 1 .. m : Segment(i)' = Segment(i)
    <3> SUFFICES ASSUME NEW i \in 1 .. m PROVE Segment(i)' = Segment(i)
      OBVIOUS
    <3>1. i < m => i + 1 \in 1 .. m
      BY <1>5, <2>1
    <3>2. QED
      BY <2>1, <2>2, <3>1 DEF Segment
  <2>4. Answered'
    BY <1>2, <2>2, SameAnswer DEF Account
  <2>5. pc = "search" => \A c \in Visited : h'[c] = Dead /\ Good(Visited, c) => Counted(c)
    BY <2>2 DEF Account, DeadRecorded
  <2>6. \A i \in 1 .. m : /\ Segment(i)' = Segment(i) /\ arc'[i] = arc[i]
                          /\ root'[i].conditions = root[i].conditions
                          /\ CycleSeen(i)' => CycleSeen(i)
    BY <1>4, <2>2, <2>3
  <2>7. m \in Nat /\ m <= Len(root)
    BY <1>5, <2>1
  <2>8. DOMAIN h' = DOMAIN h
    BY <2>2
  <2>9. QED
    BY <1>1, <1>2, <2>2, <2>4, <2>5, <2>6, <2>7, <2>8, QuietAccount
<1>8. QED
  BY <1>6, <1>7

LEMMA VisitAccount ==
  ASSUME Account, Searching, Top(todo).rest # <<>>, NEW e, e = Head(Top(todo).rest), Visit(e)
  PROVE  Account'
<1> DEFINE d == Dest(e)
           m == Len(root)
           curr == Top(todo).conf
<1>1. Shape /\ Inv /\ Chain /\ IteratorsOn(todo) /\ DeadStay /\ Linked' /\ pc = "search"
  BY VisitLinked DEF Account, Linked, Shape, Searching
<1>2. /\ UNCHANGED <<aut, bound, poprem, maxVal, pc, answer>>
      /\ d \notin Visited /\ Visited' = Visited \cup {d} /\ h'[d] = num + 1
      /\ \A c \in Visited : h'[c] = h[c]
  BY <1>1, VisitFacts DEF Visited
<1>3. /\ Len(root') = m + 1 /\ root'[m+1].conditions = {}
      /\ \A i \in 1 .. m : root'[i] = root[i] /\ arc'[i] = arc[i]
      /\ arc'[m+1] = e.acc
  <2>1. Component(num + 1).conditions = {}
    BY DEF Component
  <2>2. /\ Len(root') = m + 1 /\ root'[m+1] = Component(num + 1)
        /\ \A i \in 1 .. m : root'[i] = root[i] /\ arc'[i] = arc[i]
        /\ arc'[m+1] = e.acc
    BY <1>1, VisitFacts
  <2>3. QED
    BY <2>1, <2>2
<1>4. /\ \A i \in 1 .. m : Segment(i)' = Segment(i)
      /\ \A i \in Nat : i = m + 1 => Segment(i)' = {d}
  BY <1>1, VisitSegments
<1>5. m \in Nat /\ m >= 1 /\ num \in Nat /\ curr \in Segment(m)
  BY <1>1, TopsExist, CurrFacts, IndexFacts
<1>6. PICK k \in 1 .. Len(Leaves(curr)) :
        /\ Leaves(curr)[k] = e /\ Target(curr, k) = d
        /\ \A c : \A l \in Seen(c)' : l \in Seen(c) \/ (c = curr /\ l = k)
  BY <1>1, <1>2, LookAtSeen
<1>7. \A c, l : Leaves(c)' = Leaves(c) /\ Target(c, l)' = Target(c, l)
  BY <1>2, SameGraph
<1>8. \A x : x = d => Seen(x)' = {}
  <2>1. Advanced \in Seq(FrameType) /\ IteratorsOn(Advanced) /\ TypeOK /\ d \in Configuration
        /\ todo' = Append(Advanced, Frame(d))
    BY <1>1, LookAtFacts, AdvancedFacts, VisitFacts DEF Inv
  <2>2. SeenOn(todo', d) = {}
    BY <2>1, PushedSeen
  <2>3. \A c : Seen(c)' = SeenOn(todo', c)
    BY <1>7 DEF Seen, SeenOn
  <2>4. QED
    BY <2>2, <2>3
<1> HIDE DEF d, m, curr
<1>9. \A i \in 1 .. m + 1 : i \in Nat /\ (i \in 1 .. m \/ i = m + 1)
  BY <1>5
<1>10. Carried'
  <2> SUFFICES ASSUME NEW i \in 1 .. m + 1, NEW g \in root'[i].conditions PROVE CarriedIn(i, g)'
    BY <1>3 DEF Carried
  <2>1. i \in 1 .. m
    BY <1>3, <1>9
  <2>2. CarriedIn(i, g)
    BY <1>3, <2>1 DEF Account, Carried, m
  <2>3. QED
    BY <1>4, <1>7, <2>1, <2>2 DEF CarriedIn
<1>11. Arcs'
  <2> SUFFICES ASSUME NEW i \in 1 .. m PROVE ArcFrom(i)'
    <3>1. \A i \in 1 .. m + 1 : i < m + 1 => i \in 1 .. m
      BY <1>5
    <3>2. QED
      BY <1>3, <3>1 DEF Arcs
  <2>1. CASE i < m
    <3>1. ArcFrom(i) /\ i + 1 \in 1 .. m
      BY <1>5, <2>1 DEF Account, Arcs, m
    <3>2. Segment(i+1)' = Segment(i+1) /\ arc'[i+1] = arc[i+1]
      BY <1>3, <1>4, <3>1
    <3>3. QED
      BY <1>4, <1>7, <3>1, <3>2 DEF ArcFrom
  <2>2. CASE i = m
    <3>1. i + 1 \in Nat /\ i + 1 = m + 1
      BY <2>2
    <3>2. Segment(i+1)' = {d} /\ arc'[i+1] = e.acc
      BY <1>3, <1>4, <3>1
    <3>3. curr \in Segment(i)'
      BY <1>4, <1>5, <2>2
    <3>4. QED
      BY <1>6, <1>7, <3>2, <3>3 DEF ArcFrom
  <2>3. QED
    BY <1>5, <2>1, <2>2
<1>12. \A c : Counted(c)' = Counted(c)
  BY <1>2 DEF Counted
<1>13. Recorded'
  <2> SUFFICES ASSUME NEW i \in 1 .. m + 1, IsAccepting(root[i])', CycleSeen(i)',
                      NEW c \in Segment(i)'
               PROVE  Counted(c)
    BY <1>3, <1>12 DEF Recorded
  <2>1. PICK x \in Segment(i)' : \E l \in Seen(x)' : Target(x, l) \in Segment(i)'
    BY <1>7 DEF CycleSeen
  <2>2. PICK l \in Seen(x)' : Target(x, l) \in Segment(i)'
    BY <2>1
  <2>3. i \in 1 .. m
    <3>1. CASE i = m + 1
      BY <1>4, <1>8, <1>9, <2>2, <3>1
    <3>2. QED
      BY <1>9, <3>1
  <2>4. x \in Segment(i) /\ Target(x, l) \in Segment(i) /\ c \in Segment(i)
    BY <1>4, <2>2, <2>3
  <2>5. l \in Seen(x)
    <3>1. Target(x, l) # d
      BY <1>2, <2>4 DEF Segment, Visited
    <3>2. QED
      BY <1>6, <3>1
  <2>6. IsAccepting(root[i])
    BY <1>2, <1>3, <2>3 DEF IsAccepting
  <2>7. CycleSeen(i)
    BY <2>4, <2>5 DEF CycleSeen
  <2>8. QED
    BY <1>1, <2>3, <2>4, <2>6, <2>7 DEF Account, Recorded, m
<1>14. DeadRecorded'
  <2> SUFFICES ASSUME NEW c \in Visited', h'[c] = Dead, Good(Visited, c)' PROVE Counted(c)
    BY <1>12 DEF DeadRecorded
  <2>1. c \in Visited /\ h[c] = Dead
    BY <1>2, <1>5 DEF Dead
  <2>2. Good(Visited', c)
    BY <1>2, SameGraph
  <2> DEFINE D == {x \in Visited : h[x] = Dead}
  <2>3. \A x \in D : SuccessorsOf(aut, x) \subseteq D
    BY <1>1 DEF DeadStay, Visited
  <2>4. Visited \in SUBSET Visited' /\ D \in SUBSET Visited /\ c \in D
    BY <1>2, <2>1
  <2> HIDE DEF D
  <2>5. Good(Visited, c)
    BY <2>2, <2>3, <2>4, GoodStays
  <2>6. QED
    BY <1>1, <2>1, <2>5 DEF Account, DeadRecorded
<1>15. Attained'
  <2>1. ASSUME NEW c \in Visited, Good(Visited, c) PROVE Good(Visited, c)'
    <3>1. Visited \in SUBSET Visited'
      BY <1>2
    <3>2. Good(Visited', c)
      BY <2>1, <3>1, GoodGrows
    <3>3. QED
      BY <1>2, <3>2, SameGraph
  <2>2. QED
    BY <1>2, <2>1 DEF Account, Attained, AttainedBy
<1>16. Within' /\ Answered' /\ aut' \in Automata
  BY <1>1, <1>2 DEF Account, Within, Answered
<1>17. QED
  BY <1>1, <1>10, <1>11, <1>13, <1>14, <1>15, <1>16 DEF Account

LEMMA FinishAccount == Account /\ Finish => Account'
<1> SUFFICES ASSUME Account, Finish PROVE Account'
  OBVIOUS
<1>1. /\ UNCHANGED <<aut, bound, poprem, todo, root, arc, h, num, maxVal>>
      /\ pc = "search" /\ todo = <<>> /\ pc' = "done"
      /\ answer' = [infinite |-> FALSE, value |-> maxVal]
  BY DEF Finish, params
<1>2. Linked' /\ Inv /\ AllDead /\ DeadStay
  <2>1. [Next]_vars
    BY DEF Next
  <2>2. QED
    BY <2>1, StepLinked DEF Account, Linked, Shape
<1>3. \A c \in Visited : h[c] = Dead
  BY <1>1, <1>2 DEF AllDead, Visited
<1>4. \A i : Segment(i)' = Segment(i)
  BY <1>1 DEF Segment
<1>5. \A i : CycleSeen(i)' => CycleSeen(i)
  <2>1. \A c, k : Leaves(c)' = Leaves(c) /\ Target(c, k)' = Target(c, k)
    BY <1>1, SameGraph
  <2>2. \A c : Seen(c)' = Seen(c)
    BY <1>1, <2>1 DEF Seen, SeenOn
  <2>3. QED
    BY <1>4, <2>1, <2>2 DEF CycleSeen
<1>6. Visited' = Visited /\ \A c : Good(Visited, c)' = Good(Visited, c)
  BY <1>1, SameGraph DEF Visited
<1>7. Answered'
  <2>1. /\ ~answer'.infinite /\ answer'.value = maxVal /\ maxVal <= bound /\ maxVal \in Int
        /\ bound \in Int
    BY <1>1, <1>2 DEF Account, Within, Inv, TypeOK, Unsigned
  <2>2. \A c \in Visited : SuccessorsOf(aut, c) \subseteq Visited
    BY <1>2, <1>3 DEF DeadStay, Visited
  <2>3. \A c \in Visited : Good(Visited, c) => c.bounded /\ c.value <= maxVal
    BY <1>1, <1>3 DEF Account, DeadRecorded, Counted
  <2>4. answer'.value = 0 \/ AttainedBy(answer.value)'
    <3>1. CASE maxVal = 0
      BY <2>1, <3>1
    <3>2. CASE AttainedBy(maxVal)
      BY <1>6, <2>1, <3>2 DEF AttainedBy
    <3>3. QED
      BY <3>1, <3>2 DEF Account, Attained
  <2>5. ~(answer'.value > bound')
    BY <1>1, <2>1
  <2>6. \A c \in Visited' : SuccessorsOf(aut', c) \subseteq Visited'
    BY <1>1, <1>6, <2>2
  <2>7. \A c \in Visited' : Good(Visited, c)' => c.bounded /\ c.value <= answer'.value
    BY <1>6, <2>1, <2>3
  <2>8. QED
    BY <2>1, <2>4, <2>5, <2>6, <2>7 DEF Answered
<1>8. PICK n : n = Len(root)
  OBVIOUS
<1>9. n \in Nat /\ n <= Len(root) /\ Len(root') = n
  BY <1>1, <1>2, <1>8, IndexFacts
<1>10. /\ DOMAIN h' = DOMAIN h /\ UNCHANGED <<aut, bound, maxVal>>
       /\ pc' = "search" => pc = "search"
  BY <1>1
<1>11. \A i \in 1 .. n : /\ Segment(i)' = Segment(i) /\ arc'[i] = arc[i]
                         /\ root'[i].conditions = root[i].conditions
                         /\ CycleSeen(i)' => CycleSeen(i)
  BY <1>1, <1>4, <1>5
<1>12. pc = "search" => \A c \in Visited : h'[c] = Dead /\ Good(Visited, c) => Counted(c)
  BY <1>1 DEF Account, DeadRecorded
<1>13. QED
  BY <1>2, <1>7, <1>9, <1>10, <1>11, <1>12, QuietAccount

LEMMA StutterAccount == Account /\ UNCHANGED vars => Account'
<1> SUFFICES ASSUME Account, UNCHANGED vars PROVE Account'
  OBVIOUS
<1>1. UNCHANGED <<aut, bound, poprem, todo, root, arc, h, num, maxVal, pc, answer>>
  BY DEF vars
<1>2. Linked' /\ Inv
  BY StepLinked DEF Account, Linked, Shape
<1>3. \A i : Segment(i)' = Segment(i)
  BY <1>1 DEF Segment
<1>4. \A i : CycleSeen(i)' => CycleSeen(i)
  <2>1. \A c, k : Leaves(c)' = Leaves(c) /\ Target(c, k)' = Target(c, k)
    BY <1>1, SameGraph
  <2>2. \A c : Seen(c)' = Seen(c)
    BY <1>1, <2>1 DEF Seen, SeenOn
  <2>3. QED
    BY <1>3, <2>1, <2>2 DEF CycleSeen
<1>5. Answered'
  BY <1>1, SameAnswer DEF Account
<1>6. PICK n : n = Len(root)
  OBVIOUS
<1>7. n \in Nat /\ n <= Len(root) /\ Len(root') = n
  BY <1>1, <1>2, <1>6, IndexFacts
<1>8. \A i \in 1 .. n : /\ Segment(i)' = Segment(i) /\ arc'[i] = arc[i]
                        /\ root'[i].conditions = root[i].conditions
                        /\ CycleSeen(i)' => CycleSeen(i)
  BY <1>1, <1>3, <1>4
<1>9. pc = "search" => \A c \in Visited : h'[c] = Dead /\ Good(Visited, c) => Counted(c)
  BY <1>1 DEF Account, DeadRecorded
<1>10. DOMAIN h' = DOMAIN h /\ UNCHANGED <<aut, bound, maxVal>> /\ (pc' = "search" => pc = "search")
  BY <1>1
<1>11. QED
  BY <1>2, <1>5, <1>7, <1>8, <1>9, <1>10, QuietAccount

LEMMA InitAccount == Init => Account
<1> SUFFICES ASSUME Init PROVE Account
  OBVIOUS
<1>1. /\ aut \in Automata /\ bound \in Unsigned /\ root = <<Component(1)>>
      /\ DOMAIN h = {Origin} /\ h[Origin] = 1 /\ maxVal = 0 /\ pc = "search"
      /\ todo = <<Frame(Origin)>>
  BY AutomataAssumption DEF Init, Origin
<1>2. Len(root) = 1 /\ root[1].conditions = {}
  BY <1>1 DEF Component
<1>3. \A i \in 1 .. Len(root) : i = 1
  BY <1>2
<1>4. Linked /\ Inv
  BY InitLinked, InitInv
<1>5. Carried
  BY <1>2, <1>3 DEF Carried
<1>6. Arcs
  BY <1>2, <1>3 DEF Arcs
<1>7. Recorded
  <2>1. Seen(Origin) = {}
    <3>1. Origin \in Configuration /\ TypeOK
      BY <1>1, <1>4 DEF Inv, TypeOK
    <3>2. Len(todo) = 1 /\ todo[1].conf = Origin /\ todo[1].rest = Leaves(Origin)
          /\ Len(Leaves(Origin)) \in Nat
      BY <1>1, <3>1, LeavesTyped DEF Frame, Leaves
    <3> SUFFICES ASSUME NEW k \in Seen(Origin) PROVE FALSE
      OBVIOUS
    <3>3. k \in 1 .. Len(Leaves(Origin)) /\ 1 \in 1 .. Len(todo)
      BY <3>2 DEF Seen, SeenOn
    <3>4. k <= Len(Leaves(Origin)) - Len(Leaves(Origin))
      BY <3>2, <3>3 DEF Seen, SeenOn
    <3>5. QED
      BY <3>2, <3>3, <3>4
  <2>2. \A i : \A c \in Segment(i) : c = Origin
    BY <1>1 DEF Segment
  <2>3. \A i : ~CycleSeen(i)
    BY <2>1, <2>2 DEF CycleSeen
  <2>4. QED
    BY <2>3 DEF Recorded
<1>8. DeadRecorded
  BY <1>1 DEF DeadRecorded, Visited, Dead
<1>9. Attained /\ Within /\ Answered
  BY <1>1 DEF Attained, Within, Answered, Unsigned
<1>10. QED
  BY <1>1, <1>4, <1>5, <1>6, <1>7, <1>8, <1>9 DEF Account

LEMMA MergeAccount ==
  ASSUME Account, Searching, Top(todo).rest # <<>>, NEW e, e = Head(Top(todo).rest), Merge(e)
  PROVE  Account'
<1> DEFINE d == Dest(e)
           m == Len(root)
           curr == Top(todo).conf
<1>1. Shape /\ Inv /\ Chain /\ IteratorsOn(todo) /\ Linked /\ Linked' /\ pc = "search"
  <2>1. [Next]_vars
    BY DEF Next, LookAt
  <2>2. QED
    BY <2>1, StepLinked DEF Account, Linked, Shape, Searching
<1>2. PICK k : k = KeptTop(h[d])
  OBVIOUS
<1> DEFINE comp == MergedFrom(e, k)
           stop == IsAccepting(comp) /\ (~d.bounded \/ Raised(d) > bound)
<1>3. /\ UNCHANGED <<aut, bound, poprem, h, num>>
      /\ k \in 1 .. m /\ d \in Segment(k)
      /\ Len(root') = k /\ Len(arc') = k
      /\ \A i \in 1 .. k : root'[i].index = root[i].index /\ arc'[i] = arc[i]
      /\ \A i \in 1 .. k : i < k => root'[i] = root[i]
      /\ root'[k] = comp
  BY <1>1, <1>2, MergeFacts
<1>4. /\ \A i \in 1 .. k : i < k => Segment(i)' = Segment(i)
      /\ \A c : c \in Segment(k)' <=> \E i \in k .. m : c \in Segment(i)
  BY <1>1, <1>2, MergeSegments
<1>5. m \in Nat /\ m >= 1 /\ curr \in Segment(m) /\ d \in Configuration /\ e \in Edge
  BY <1>1, TopsExist, CurrFacts, LookAtFacts
<1>6. /\ maxVal' = IF IsAccepting(comp) THEN Raised(d) ELSE maxVal
      /\ \/ /\ stop /\ todo' = <<>> /\ pc' = "done"
            /\ answer' = IF d.bounded THEN [infinite |-> FALSE, value |-> maxVal']
                                      ELSE [infinite |-> TRUE, value |-> 0]
         \/ ~stop /\ todo' = Advanced /\ pc' = pc /\ answer' = answer
  BY <1>2 DEF Merge
<1>7. PICK l \in 1 .. Len(Leaves(curr)) :
        /\ Leaves(curr)[l] = e /\ Target(curr, l) = d
        /\ todo' = Advanced =>
             \A c : \A j \in Seen(c)' : j \in Seen(c) \/ (c = curr /\ j = l)
  <2>1. CASE todo' = Advanced
    BY <1>1, <1>3, <2>1, LookAtSeen
  <2>2. CASE todo' # Advanced
    <3>1. PICK l \in 1 .. Len(Leaves(curr)) : Leaves(curr)[l] = e
      BY <1>1, AdvancedFacts
    <3>2. Target(curr, l) = d
      BY <3>1 DEF Target, Dest
    <3>3. QED
      BY <2>2, <3>1, <3>2
  <2>3. QED
    BY <2>1, <2>2
<1>8. /\ \A c, j : Leaves(c)' = Leaves(c) /\ Target(c, j)' = Target(c, j)
      /\ \A S, c : Good(S, c)' = Good(S, c)
  BY <1>3, SameGraph
<1>9. Visited' = Visited /\ \A i : i \in 1 .. k => i \in 1 .. m
  BY <1>3, <1>5 DEF Visited
(* the component that results *)
<1>10. PICK G : G = Segment(k)'
  OBVIOUS
<1>11. /\ \A c : c \in G <=> \E i \in k .. m : c \in Segment(i)
       /\ G \in SUBSET Visited /\ d \in G /\ curr \in G
       /\ \A x, y \in G : Leads(aut, Visited, x, y)
  <2>1. \A c : c \in G <=> \E i \in k .. m : c \in Segment(i)
    BY <1>4, <1>10
  <2>2. k \in k .. m /\ m \in k .. m
    BY <1>3, <1>5
  <2>3. G \in SUBSET Visited
    BY <2>1 DEF Segment, Visited
  <2>4. \A x, y \in Segment(k)' : Leads(aut', Visited', x, y)
    <3>1. k \in 1 .. Len(root')
      BY <1>3, <1>5
    <3>2. QED
      BY <1>1, <3>1 DEF Linked, Joined
  <2>5. QED
    BY <1>3, <1>5, <1>9, <1>10, <2>1, <2>2, <2>3, <2>4
<1>12. ASSUME NEW g \in comp.conditions
       PROVE  \E x \in G : \E j \in 1 .. Len(Leaves(x)) : Target(x, j) \in G /\ g \in Leaves(x)[j].acc
  <2>1. \/ g \in e.acc
        \/ \E i \in k .. m : g \in root[i].conditions
        \/ \E i \in k+1 .. m : g \in arc[i]
    BY <1>1, <1>3, MergedFacts
  <2>2. CASE g \in e.acc
    BY <1>7, <1>11, <2>2
  <2>3. CASE \E i \in k .. m : g \in root[i].conditions
    <3>1. PICK i \in k .. m : g \in root[i].conditions
      BY <2>3
    <3>2. i \in 1 .. m
      BY <1>3, <1>5
    <3>3. CarriedIn(i, g)
      BY <3>1, <3>2 DEF Account, Carried
    <3>4. QED
      BY <1>11, <3>3 DEF CarriedIn
  <2>4. CASE \E i \in k+1 .. m : g \in arc[i]
    <3>1. PICK i \in k+1 .. m : g \in arc[i]
      BY <2>4
    <3>2. PICK i0 : i0 = i - 1
      OBVIOUS
    <3>3. i0 \in 1 .. m /\ i0 < m /\ i0 \in k .. m /\ i0 + 1 = i /\ i \in k .. m
      BY <1>3, <1>5, <3>2
    <3>4. ArcFrom(i0)
      BY <3>3 DEF Account, Arcs
    <3>5. PICK x \in Segment(i0) : \E j \in 1 .. Len(Leaves(x)) :
            Target(x, j) \in Segment(i0+1) /\ arc[i0+1] = Leaves(x)[j].acc
      BY <3>4 DEF ArcFrom
    <3>6. \E j \in 1 .. Len(Leaves(x)) : Target(x, j) \in Segment(i) /\ arc[i] = Leaves(x)[j].acc
      BY <3>3, <3>5
    <3>7. QED
      BY <1>11, <3>1, <3>3, <3>5, <3>6
  <2>5. QED
    BY <2>1, <2>2, <2>3, <2>4
<1>13. comp.conditions \subseteq aut.accs
  <2> SUFFICES ASSUME NEW g \in comp.conditions PROVE g \in aut.accs
    OBVIOUS
  <2>1. PICK x \in G : \E j \in 1 .. Len(Leaves(x)) : g \in Leaves(x)[j].acc
    BY <1>12
  <2>2. x \in Configuration
    BY <1>1, <1>11 DEF Inv, TypeOK, Visited
  <2>3. QED
    BY <2>1, <2>2, AccDeclared DEF Account
<1> HIDE DEF d, m, curr, comp
<1>14. ASSUME IsAccepting(comp), NEW c \in G
       PROVE  Good(Visited, c) /\ c.bounded = d.bounded /\ c.value = d.value
  <2>1. comp.conditions = aut.accs
    BY <1>13, <1>14, AcceptingIff DEF Account
  <2>2. Good(Visited, c)
    BY <1>7, <1>11, <1>12, <2>1, GroupGood
  <2>3. c.bounded = d.bounded /\ c.value = d.value
    <3>1. Leads(aut, Visited, c, d) /\ Leads(aut, Visited, d, c) /\ c \in Visited /\ d \in Visited
      BY <1>11
    <3>2. QED
      BY <1>1, <3>1, SameValue
  <2>4. QED
    BY <2>2, <2>3
<1>15. /\ maxVal \in Nat /\ bound \in Nat /\ d.value \in Nat /\ d.bounded \in BOOLEAN
       /\ \A c \in Visited : c.value \in Nat
  BY <1>1, <1>5 DEF Inv, TypeOK, Configuration, Unsigned, Visited
<1>16. /\ maxVal' \in Nat /\ maxVal <= maxVal'
       /\ IsAccepting(comp) /\ d.bounded => d.value <= maxVal'
       /\ maxVal' = maxVal \/ (IsAccepting(comp) /\ d.bounded /\ maxVal' = d.value)
  BY <1>6, <1>15 DEF Raised
<1>17. \A c \in Visited : Counted(c) => Counted(c)'
  BY <1>15, <1>16 DEF Counted
<1>18. Carried'
  <2> SUFFICES ASSUME NEW i \in 1 .. k, NEW g \in root'[i].conditions PROVE CarriedIn(i, g)'
    BY <1>3 DEF Carried
  <2>1. CASE i < k
    <3>1. CarriedIn(i, g)
      BY <1>3, <1>9, <2>1 DEF Account, Carried, m
    <3>2. QED
      BY <1>4, <1>8, <2>1, <3>1 DEF CarriedIn
  <2>2. CASE i = k
    BY <1>3, <1>8, <1>10, <1>12, <2>2 DEF CarriedIn
  <2>3. QED
    BY <1>3, <2>1, <2>2
<1>19. Arcs'
  <2> SUFFICES ASSUME NEW i \in 1 .. k, i < k PROVE ArcFrom(i)'
    BY <1>3 DEF Arcs
  <2>1. i \in 1 .. m /\ i < m /\ i + 1 \in 1 .. k
    BY <1>3, <1>5
  <2>2. ArcFrom(i)
    BY <2>1 DEF Account, Arcs, m
  <2>3. \A x \in Segment(i+1) : x \in Segment(i+1)'
    <3>1. CASE i + 1 < k
      BY <1>4, <2>1, <3>1
    <3>2. CASE i + 1 = k
      <4>1. k \in k .. m
        BY <1>3, <1>5
      <4>2. \A x \in Segment(k) : x \in Segment(k)'
        BY <1>4, <4>1
      <4>3. QED
        BY <3>2, <4>2
    <3>3. QED
      BY <1>3, <2>1, <3>1, <3>2
  <2>4. Segment(i)' = Segment(i) /\ arc'[i+1] = arc[i+1]
    BY <1>3, <1>4, <2>1
  <2>5. QED
    BY <1>8, <2>2, <2>3, <2>4 DEF ArcFrom
<1>20. Recorded'
  <2> SUFFICES ASSUME pc' = "search", NEW i \in 1 .. k, IsAccepting(root[i])', CycleSeen(i)',
                      NEW c \in Segment(i)'
               PROVE  Counted(c)'
    BY <1>3 DEF Recorded
  <2>1. ~stop /\ todo' = Advanced
    BY <1>6
  <2>2. CASE i = k
    <3>1. IsAccepting(comp)
      BY <1>3, <2>2 DEF IsAccepting
    <3>2. d.bounded
      BY <2>1, <3>1
    <3>3. c \in G
      BY <1>10, <2>2
    <3>4. c.bounded /\ c.value <= maxVal'
      BY <1>14, <1>16, <3>1, <3>2, <3>3
    <3>5. QED
      BY <3>4 DEF Counted
  <2>3. CASE i < k
    <3>1. Segment(i)' = Segment(i) /\ i \in 1 .. m /\ root'[i] = root[i]
      BY <1>3, <1>4, <1>9, <2>3
    <3>2. PICK x \in Segment(i) : \E j \in Seen(x)' : Target(x, j) \in Segment(i)
      BY <1>8, <3>1 DEF CycleSeen
    <3>3. x # curr
      <4>1. m \in 1 .. m /\ i # m
        BY <1>3, <1>5, <2>3
      <4>2. QED
        BY <1>1, <1>5, <3>1, <4>1, SegmentUnique DEF m
    <3>4. CycleSeen(i)
      BY <1>7, <2>1, <3>2, <3>3 DEF CycleSeen
    <3>5. IsAccepting(root[i])
      BY <1>3, <3>1 DEF IsAccepting
    <3>6. Counted(c) /\ c \in Visited
      BY <1>1, <3>1, <3>4, <3>5 DEF Account, Recorded, m, Segment, Visited
    <3>7. QED
      BY <1>17, <3>6
  <2>4. QED
    BY <1>3, <2>2, <2>3
<1>21. DeadRecorded'
  BY <1>1, <1>3, <1>8, <1>9, <1>17 DEF Account, DeadRecorded
<1>22. Attained'
  <2>1. CASE IsAccepting(comp) /\ d.bounded /\ maxVal' = d.value
    <3>1. Good(Visited, d) /\ d \in Visited
      BY <1>11, <1>14, <2>1
    <3>2. \E c \in Visited' : Good(Visited, c)' /\ c.bounded /\ c.value = maxVal'
      BY <1>8, <1>9, <2>1, <3>1
    <3>3. QED
      BY <3>2 DEF Attained, AttainedBy
  <2>2. CASE maxVal' = maxVal
    BY <1>8, <1>9, <2>2 DEF Account, Attained, AttainedBy
  <2>3. QED
    BY <1>16, <2>1, <2>2
<1>23. Within'
  <2> SUFFICES ASSUME pc' = "search" PROVE maxVal' <= bound
    BY <1>3 DEF Within
  <2>1. ~stop
    BY <1>6
  <2>2. CASE IsAccepting(comp)
    <3>1. maxVal' = Raised(d) /\ ~(Raised(d) > bound)
      BY <1>6, <2>1, <2>2
    <3>2. QED
      BY <1>15, <1>16, <3>1
  <2>3. CASE ~IsAccepting(comp)
    BY <1>1, <1>6, <2>3 DEF Account, Within
  <2>4. QED
    BY <2>2, <2>3
<1>24. Answered'
  <2> SUFFICES ASSUME pc' = "done" PROVE Answered'
    BY DEF Answered
  <2>1. /\ stop
        /\ answer' = IF d.bounded THEN [infinite |-> FALSE, value |-> maxVal']
                                  ELSE [infinite |-> TRUE, value |-> 0]
    BY <1>1, <1>6
  <2>2. Good(Visited, d) /\ d \in Visited
    BY <1>11, <1>14, <2>1
  <2>3. CASE ~d.bounded
    <3>1. answer'.infinite
      BY <2>1, <2>3
    <3>2. \E c \in Visited' : Good(Visited, c)' /\ ~c.bounded
      BY <1>8, <1>9, <2>2, <2>3
    <3>3. QED
      BY <3>1, <3>2 DEF Answered
  <2>4. CASE d.bounded
    <3>1. ~answer'.infinite /\ answer'.value = maxVal' /\ maxVal' > bound
      BY <1>6, <2>1, <2>4
    <3>2. maxVal' # 0
      BY <1>15, <1>16, <3>1
    <3>3. AttainedBy(maxVal)'
      BY <1>22, <3>2 DEF Attained
    <3>4. AttainedBy(answer.value)'
      BY <3>1, <3>3 DEF AttainedBy
    <3>5. QED
      BY <1>3, <3>1, <3>4 DEF Answered
  <2>5. QED
    BY <2>3, <2>4
<1>25. QED
  BY <1>1, <1>3, <1>18, <1>19, <1>20, <1>21, <1>22, <1>23, <1>24 DEF Account

LEMMA StepAccount == Account /\ [Next]_vars => Account'
<1> SUFFICES ASSUME Account, [Next]_vars PROVE Account'
  OBVIOUS
<1>1. CASE UNCHANGED vars
  BY <1>1, StutterAccount
<1>2. CASE LookAt
  BY <1>2, VisitAccount, IgnoreAccount, MergeAccount DEF LookAt
<1>3. QED
  BY <1>1, <1>2, StutterAccount, BacktrackAccount, FinishAccount DEF Next, Terminated

(* The account the search keeps of accepting components holds in every     *)
(* state.                                                                  *)
THEOREM AccountInvariance == Spec => []Account
BY InitAccount, StepAccount, PTL DEF Spec

-----------------------------------------------------------------------------
(* Being led to a configuration is reaching it in the graph of those       *)
(* visited, so that the components are those of this graph.                *)
LEMMA ReachExact ==
  ASSUME IsFiniteSet(Visited), NEW c \in Visited
  PROVE  \A d : d \in Reach[c] <=> d \in Visited /\ Leads(aut, Visited, c, d)
<1> DEFINE R == ReachedIn(Visited, Onward, c)
<1>1. Onward \in [Visited -> SUBSET Visited]
      /\ \A x \in Visited : Onward[x] = SuccessorsOf(aut, x) \cap Visited
  BY DEF Onward, Visited
<1>2. Reach[c] = R
  BY DEF Reach, Visited
<1>3. /\ R \in SUBSET Visited /\ c \in R /\ \A x \in R : Onward[x] \subseteq R
      /\ \A X \in SUBSET Visited : c \in X /\ (\A x \in X : Onward[x] \subseteq X) => R \subseteq X
  <2>1. PICK S : S = Visited
    OBVIOUS
  <2>2. PICK next : next = Onward
    OBVIOUS
  <2>3. IsFiniteSet(S) /\ next \in [S -> SUBSET S] /\ c \in S
    BY <1>1, <2>1, <2>2
  <2>4. /\ ReachedIn(S, next, c) \in SUBSET S /\ c \in ReachedIn(S, next, c)
        /\ \A x \in ReachedIn(S, next, c) : next[x] \subseteq ReachedIn(S, next, c)
        /\ \A X \in SUBSET S : c \in X /\ (\A x \in X : next[x] \subseteq X)
                                 => ReachedIn(S, next, c) \subseteq X
    BY <2>3, ReachedFacts
  <2>5. QED
    BY <2>1, <2>2, <2>4
<1> HIDE DEF R
<1>4. \A X \in SUBSET Visited : ClosedIn(aut, Visited, X) <=> \A x \in X : Onward[x] \subseteq X
  BY <1>1 DEF ClosedIn
<1>5. ASSUME NEW d \in R PROVE Leads(aut, Visited, c, d)
  BY <1>3, <1>4 DEF Leads
<1>6. ASSUME NEW d, Leads(aut, Visited, c, d) PROVE d \in R
  BY <1>3, <1>4, <1>6 DEF Leads
<1>7. QED
  BY <1>2, <1>3, <1>5, <1>6

LEMMA GoodExact ==
  ASSUME Inv, IsFiniteSet(Visited), NEW c \in Visited
  PROVE  InAcceptingComponent(c, Reach) <=> Good(Visited, c)
<1> DEFINE scc == {d \in Reach[c] : c \in Reach[d]}
           at(d) == {j \in 1 .. Len(Leaving(aut, d)) :
                       Successor(d, Leaving(aut, d)[j]) \in scc}
           inner == UNION {{Leaving(aut, d)[i] : i \in at(d)} : d \in scc}
<1>1. \A d : d \in scc <=> Mutual(Visited, c, d)
  BY ReachExact DEF Mutual
<1>2. InAcceptingComponent(c, Reach) <=>
        inner # {} /\ aut.accs \subseteq UNION {e.acc : e \in inner}
  BY DEF InAcceptingComponent
<1> HIDE DEF scc
<1>3. \A e : e \in inner <=>
        \E x \in Visited : \E k \in 1 .. Len(Leaves(x)) : Inner(Visited, c, x, k) /\ e = Leaves(x)[k]
  <2>1. \A x, k : k \in at(x) /\ x \in scc <=> Inner(Visited, c, x, k)
    BY <1>1 DEF Inner, Leaves, Target
  <2>2. \A x, k : Inner(Visited, c, x, k) => x \in Visited /\ k \in 1 .. Len(Leaves(x))
    BY DEF Inner, Mutual
  <2>3. \A e : e \in inner <=> \E x \in scc : \E k \in at(x) : e = Leaves(x)[k]
    BY DEF Leaves
  <2> HIDE DEF inner, at
  <2>4. QED
    BY <2>1, <2>2, <2>3
<1> HIDE DEF inner
<1>4. inner # {} <=> \E x \in Visited : \E k \in 1 .. Len(Leaves(x)) : Inner(Visited, c, x, k)
  BY <1>3
<1>5. \A g : g \in UNION {e.acc : e \in inner} <=>
        \E x \in Visited : \E k \in 1 .. Len(Leaves(x)) :
          Inner(Visited, c, x, k) /\ g \in Leaves(x)[k].acc
  BY <1>3
<1>6. QED
  BY <1>2, <1>4, <1>5 DEF Good

(* What find_supremum returns is exact, for every automaton whose values   *)
(* the bound covers: infinite only with an accepting component that has no *)
(* value, and otherwise the greatest value of all those the automaton has. *)
THEOREM AnswerIsTheSupremum == Spec => []AnswerExact
<1>1. Account => AnswerExact
  <2> DEFINE init == DefaultConfig(aut.init)
             accepting == {c \in DOMAIN h : InAcceptingComponent(c, Reach)}
             covered == \A c \in accepting : c.bounded => c.value <= bound
  <2> SUFFICES ASSUME Account, pc = "done", covered PROVE AnswerExact
    BY DEF AnswerExact
  <2>1. /\ Inv /\ IsFiniteSet(Visited) /\ FromOrigin /\ Answered
        /\ bound \in Nat /\ answer.value \in Nat
    BY ConfigurationAssumption
       DEF Account, Linked, Shape, Visited, Inv, TypeOK, Unsigned
  <2>2. init \in DOMAIN h /\ Reach[init] = DOMAIN h
    <3>1. init = Origin /\ init \in Visited
      BY <2>1 DEF Origin, FromOrigin
    <3>2. \A d : d \in Reach[init] <=> d \in Visited
      BY <2>1, <3>1, ReachExact DEF FromOrigin
    <3>3. QED
      BY <3>1, <3>2 DEF Visited
  <2>3. \A c : c \in accepting <=> c \in Visited /\ Good(Visited, c)
    BY <2>1, GoodExact DEF Visited
  <2> HIDE DEF accepting, init
  <2>4. AttainedBy(answer.value) <=>
          \E c \in accepting : c.bounded /\ c.value = answer.value
    BY <2>3 DEF AttainedBy
  <2>5. ~(answer.value > bound) \/ ~AttainedBy(answer.value)
    BY <2>1, <2>4
  <2>6. IF answer.infinite THEN \E c \in accepting : ~c.bounded
        ELSE /\ \A c \in DOMAIN h : SuccessorsOf(aut, c) \subseteq DOMAIN h
             /\ \A c \in accepting : c.bounded /\ c.value <= answer.value
             /\ answer.value = 0 \/ \E c \in accepting : c.value = answer.value
    <3>1. CASE answer.infinite
      BY <2>1, <2>3, <3>1 DEF Answered
    <3>2. CASE ~answer.infinite
      <4>1. ~(answer.value > bound)
        BY <2>1, <2>5, <3>2 DEF Answered
      <4>2. /\ \A c \in Visited : SuccessorsOf(aut, c) \subseteq Visited
            /\ \A c \in Visited : Good(Visited, c) => c.bounded /\ c.value <= answer.value
            /\ answer.value = 0 \/ AttainedBy(answer.value)
        BY <2>1, <3>2, <4>1 DEF Answered
      <4>3. QED
        BY <2>3, <2>4, <3>2, <4>2 DEF Visited
    <3>3. QED
      BY <3>1, <3>2
  <2>7. QED
    BY <2>2, <2>6 DEF AnswerExact, accepting, init
<1>2. QED
  BY <1>1, AccountInvariance, PTL
===============================================================================
