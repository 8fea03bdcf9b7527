------------------------------ MODULE NatLemmas ------------------------------
(***************************************************************************)
(* Facts about natural numbers and stacks the proofs of several components *)
(* share.                                                                  *)
(***************************************************************************)
EXTENDS Integers, Sequences, SequenceTheorems,
        WellFoundedInduction, TLAPS

LessThan == {p \in Nat \X Nat : p[1] < p[2]}

LEMMA LessThanWellFounded == IsWellFoundedOn(LessThan, Nat)
BY NatLessThanWellFounded DEF OpToRel, LessThan

(* A set of naturals that is not empty has a least element.                *)
LEMMA LeastNat ==
  ASSUME NEW S \in SUBSET Nat, S # {}
  PROVE  \E m \in S : \A n \in S : m <= n
<1>1. PICK m \in S : \A y \in S : <<y, m>> \notin LessThan
  BY LessThanWellFounded, WFMin
<1>2. ASSUME NEW n \in S PROVE m <= n
  <2>1. <<n, m>> \in Nat \X Nat /\ ~(n < m)
    BY <1>1 DEF LessThan
  <2>2. QED
    BY <2>1
<1>3. QED
  BY <1>2

(* A set of naturals with an upper bound and an element has a greatest one. *)
LEMMA GreatestNat ==
  ASSUME NEW S \in SUBSET Nat, S # {}, NEW b \in Nat, \A n \in S : n <= b
  PROVE  \E m \in S : \A n \in S : n <= m
<1> DEFINE T == {b - n : n \in S}
<1>1. T \in SUBSET Nat /\ T # {}
  <2>1. \A n \in S : b - n \in Nat
    OBVIOUS
  <2>2. QED
    BY <2>1
<1>2. PICK t \in T : \A u \in T : t <= u
  BY <1>1, LeastNat
<1>3. PICK m \in S : t = b - m
  OBVIOUS
<1>4. ASSUME NEW n \in S PROVE n <= m
  <2>1. b - m <= b - n
    BY <1>2, <1>3
  <2>2. m \in Nat /\ n \in Nat
    OBVIOUS
  <2>3. QED
    BY <2>1, <2>2
<1>5. QED
  BY <1>4

(* A property of naturals, given as the set of those that have it, which   *)
(* holds of 0 and passes on to the next one, holds of all of them.         *)
LEMMA NatSetInduction ==
  ASSUME NEW P \in SUBSET Nat, 0 \in P, \A n \in P : n + 1 \in P
  PROVE  P = Nat
<1> SUFFICES ASSUME Nat \ P # {} PROVE FALSE
  OBVIOUS
<1>1. PICK m \in Nat \ P : \A n \in Nat \ P : m <= n
  BY LeastNat
<1>2. m # 0 /\ m - 1 \in Nat
  BY <1>1
<1>3. m - 1 \in P
  BY <1>1, <1>2
<1>4. QED
  BY <1>1, <1>2, <1>3

(* The iterates of a function, as long a sequence of them as one likes.    *)
Iterates(S, step, x, n) ==
  {g \in [0 .. n -> S] : g[0] = x /\ \A i \in 0 .. n-1 : g[i+1] = step[g[i]]}

LEMMA IteratesUnique ==
  ASSUME NEW S, NEW step, NEW x, NEW n \in Nat, NEW m \in Nat,
         NEW f \in Iterates(S, step, x, n), NEW g \in Iterates(S, step, x, m)
  PROVE  \A i \in Nat : i <= n /\ i <= m => f[i] = g[i]
<1> DEFINE P == {i \in Nat : i <= n /\ i <= m => f[i] = g[i]}
<1>1. 0 \in P
  BY DEF Iterates
<1>2. ASSUME NEW i \in P PROVE i + 1 \in P
  <2>1. SUFFICES ASSUME i + 1 <= n, i + 1 <= m PROVE f[i+1] = g[i+1]
    OBVIOUS
  <2>2. i \in 0 .. n-1 /\ i \in 0 .. m-1 /\ f[i] = g[i]
    BY <2>1
  <2>3. QED
    BY <2>2 DEF Iterates
<1>3. P = Nat
  <2> HIDE DEF P
  <2>1. P \in SUBSET Nat
    BY DEF P
  <2>2. QED
    BY <1>1, <1>2, <2>1, NatSetInduction
<1>4. QED
  BY <1>3

LEMMA IteratesExist ==
  ASSUME NEW S, NEW step \in [S -> S], NEW x \in S
  PROVE  \A n \in Nat : Iterates(S, step, x, n) # {}
<1> DEFINE P == {n \in Nat : Iterates(S, step, x, n) # {}}
<1>1. 0 \in P
  <2>1. [i \in 0 .. 0 |-> x] \in Iterates(S, step, x, 0)
    BY DEF Iterates
  <2>2. QED
    BY <2>1
<1>2. ASSUME NEW n \in P PROVE n + 1 \in P
  <2>1. PICK f : f \in Iterates(S, step, x, n)
    OBVIOUS
  <2> DEFINE g == [i \in 0 .. n+1 |-> IF i = n + 1 THEN step[f[n]] ELSE f[i]]
  <2>2. f \in [0 .. n -> S] /\ f[0] = x /\ \A i \in 0 .. n-1 : f[i+1] = step[f[i]]
    BY <2>1 DEF Iterates
  <2>3. g \in [0 .. n+1 -> S] /\ g[0] = x
    BY <2>2
  <2>4. ASSUME NEW i \in 0 .. n PROVE g[i+1] = step[g[i]]
    <3>1. CASE i = n
      BY <3>1
    <3>2. CASE i \in 0 .. n-1
      BY <3>2, <2>2
    <3>3. QED
      BY <3>1, <3>2
  <2>5. (n + 1) - 1 = n
    OBVIOUS
  <2> HIDE DEF g
  <2>6. g \in Iterates(S, step, x, n + 1)
    BY <2>3, <2>4, <2>5 DEF Iterates
  <2>7. QED
    BY <2>6
<1>3. P = Nat
  <2> HIDE DEF P
  <2>1. P \in SUBSET Nat
    BY DEF P
  <2>2. QED
    BY <1>1, <1>2, <2>1, NatSetInduction
<1>4. QED
  BY <1>3

(* There is a function that gives all of them: what a recursive definition *)
(* on the naturals stands for.                                             *)
AllIterates(f, S, step, x) ==
  f \in [Nat -> S] /\ f[0] = x /\ \A n \in Nat : f[n+1] = step[f[n]]

LEMMA Iteration ==
  ASSUME NEW S, NEW step \in [S -> S], NEW x \in S
  PROVE  \E f : AllIterates(f, S, step, x)
<1> DEFINE upTo(n) == CHOOSE g : g \in Iterates(S, step, x, n)
           f == [n \in Nat |-> upTo(n)[n]]
<1>1. ASSUME NEW n \in Nat PROVE upTo(n) \in Iterates(S, step, x, n)
  BY IteratesExist
<1>2. ASSUME NEW n \in Nat, NEW m \in Nat, n <= m PROVE upTo(m)[n] = upTo(n)[n]
  <2>1. upTo(n) \in Iterates(S, step, x, n) /\ upTo(m) \in Iterates(S, step, x, m)
    BY <1>1
  <2> HIDE DEF upTo
  <2>2. QED
    BY <1>2, <2>1, IteratesUnique
<1> HIDE DEF upTo
<1>3. \A n \in Nat : f[n] \in S
  BY <1>1 DEF Iterates
<1>4. f[0] = x
  BY <1>1 DEF Iterates
<1>5. ASSUME NEW n \in Nat PROVE f[n+1] = step[f[n]]
  <2>1. upTo(n+1) \in Iterates(S, step, x, n + 1) /\ n \in 0 .. (n+1)-1
    BY <1>1
  <2>2. upTo(n+1)[n+1] = step[upTo(n+1)[n]]
    BY <2>1 DEF Iterates
  <2>3. upTo(n+1)[n] = upTo(n)[n]
    BY <1>2
  <2>4. QED
    BY <2>2, <2>3
<1>6. f \in [Nat -> S]
  BY <1>3
<1>7. AllIterates(f, S, step, x)
  BY <1>4, <1>5, <1>6 DEF AllIterates
<1>8. QED
  BY <1>7

(* The stack with one more element on top.                                 *)
LEMMA PushFacts ==
  ASSUME NEW S, NEW s \in Seq(S), NEW e \in S
  PROVE  /\ Append(s, e) \in Seq(S)
         /\ Len(Append(s, e)) = Len(s) + 1
         /\ \A i \in 1 .. Len(s) : Append(s, e)[i] = s[i]
         /\ Append(s, e)[Len(s) + 1] = e
  OBVIOUS

(* The k lowest elements of a stack.                                       *)
LEMMA PrefixFacts ==
  ASSUME NEW S, NEW s \in Seq(S), NEW n \in 0 .. Len(s)
  PROVE  /\ SubSeq(s, 1, n) \in Seq(S)
         /\ Len(SubSeq(s, 1, n)) = n
         /\ \A i \in 1 .. n : SubSeq(s, 1, n)[i] = s[i]
  OBVIOUS

(* The stack without its top.                                              *)
LEMMA PopFacts ==
  ASSUME NEW S, NEW s \in Seq(S), s # <<>>
  PROVE  /\ SubSeq(s, 1, Len(s) - 1) \in Seq(S)
         /\ Len(SubSeq(s, 1, Len(s) - 1)) = Len(s) - 1
         /\ \A i \in 1 .. Len(s) - 1 : SubSeq(s, 1, Len(s) - 1)[i] = s[i]
         /\ Len(s) \in Nat /\ Len(s) >= 1
<1>1. Len(s) \in Nat /\ Len(s) # 0
  BY EmptySeq
<1> DEFINE n == Len(s) - 1
<1>2. n \in 0 .. Len(s)
  BY <1>1
<1> HIDE DEF n
<1>3. /\ SubSeq(s, 1, n) \in Seq(S) /\ Len(SubSeq(s, 1, n)) = n
      /\ \A i \in 1 .. n : SubSeq(s, 1, n)[i] = s[i]
  BY <1>2, PrefixFacts
<1>4. Len(s) \in Nat /\ Len(s) >= 1
  BY <1>1
<1>5. QED
  BY <1>3, <1>4 DEF n
=============================================================================
