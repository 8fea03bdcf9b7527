----------------------- MODULE TransitionHandles_proof ------------------------
(***************************************************************************)
(* The three promises of TransitionHandles, proved for any number of       *)
(* handles, blocks and transitions and any bound on the counts.            *)
(***************************************************************************)
EXTENDS TransitionHandles, FiniteSetTheorems, TLAPS

BlockMap == UNION {[D -> [refcount : Int, pointer : Transition]] : D \in SUBSET Block}
Heap == [transitions : SUBSET Transition, pool : SUBSET Transition, blocks : BlockMap,
         broken : BOOLEAN]
Data == [Handle -> Block \union {NotBuilt, Empty}]

(* The handles that d has on a block.                                      *)
On(d, b) == {h \in Handle : d[h] = b}

(* But for the overdrawn blocks: a block has at least the count of its     *)
(* handles, and handles have no other.                                     *)
Fits(hp, d) ==
  /\ \A h \in Handle : d[h] \in Block \ overdrawn => d[h] \in DOMAIN hp.blocks
  /\ \A b \in DOMAIN hp.blocks \ overdrawn : Cardinality(On(d, b)) <= hp.blocks[b].refcount

(* Their counts are exact, and each has a handle.                          *)
Exact(hp, d) ==
  \A b \in DOMAIN hp.blocks \ overdrawn :
    Cardinality(On(d, b)) = hp.blocks[b].refcount /\ On(d, b) # {}

(* While the system runs: a view has exactly the transitions of its        *)
(* blocks, each of one, and its pool is all of them; a stored system has   *)
(* those of its blocks.                                                    *)
Pointers(hp) == {hp.blocks[b].pointer : b \in DOMAIN hp.blocks}
Owned(hp) ==
  /\ ~hp.broken
  /\ kind = "view" => /\ hp.transitions = Pointers(hp) /\ hp.pool = Pointers(hp)
                      /\ \A b, c \in DOMAIN hp.blocks :
                           hp.blocks[b].pointer = hp.blocks[c].pointer => b = c
  /\ kind = "stored" => Pointers(hp) \subseteq hp.transitions

LEMMA BlockMapFacts ==
  ASSUME NEW m \in BlockMap
  PROVE  /\ DOMAIN m \subseteq Block
         /\ m \in [DOMAIN m -> [refcount : Int, pointer : Transition]]
         /\ \A b \in DOMAIN m : m[b].refcount \in Int /\ m[b].pointer \in Transition
                                /\ m[b] \in [refcount : Int, pointer : Transition]
BY DEF BlockMap

LEMMA BlockMapIs ==
  ASSUME NEW D \in SUBSET Block, NEW m \in [D -> [refcount : Int, pointer : Transition]]
  PROVE  m \in BlockMap
BY DEF BlockMap

LEMMA OnFinite ==
  ASSUME NEW d, NEW b
  PROVE  IsFiniteSet(On(d, b)) /\ Cardinality(On(d, b)) \in Nat
BY HandlesAssumption, FS_Subset, FS_CardinalityType DEF On

(***************************************************************************)
(* What the operations on a heap do to its parts.                          *)
(***************************************************************************)
LEMMA IncrFacts ==
  ASSUME NEW hp \in Heap, NEW d \in DOMAIN hp.blocks
  PROVE  /\ Incr(hp, d) \in Heap
         /\ Incr(hp, d).transitions = hp.transitions /\ Incr(hp, d).pool = hp.pool
         /\ Incr(hp, d).broken = hp.broken /\ DOMAIN Incr(hp, d).blocks = DOMAIN hp.blocks
         /\ \A b \in DOMAIN hp.blocks :
              /\ Incr(hp, d).blocks[b].pointer = hp.blocks[b].pointer
              /\ Incr(hp, d).blocks[b].refcount =
                   hp.blocks[b].refcount + IF b = d THEN 1 ELSE 0
<1> DEFINE m == [hp.blocks EXCEPT ![d] = [hp.blocks[d] EXCEPT !.refcount = @ + 1]]
           R == [refcount : Int, pointer : Transition]
<1>1. hp.blocks \in BlockMap /\ d \in Block
  BY BlockMapFacts DEF Heap
<1>2. Incr(hp, d) = [hp EXCEPT !.blocks = m]
  BY <1>1 DEF Incr
<1>3. m \in [DOMAIN hp.blocks -> R]
  <2>1. hp.blocks \in [DOMAIN hp.blocks -> R] /\ hp.blocks[d] \in R
    BY <1>1, BlockMapFacts
  <2>2. \A r \in R : [r EXCEPT !.refcount = @ + 1] \in R /\ [r EXCEPT !.refcount = @ - 1] \in R
    OBVIOUS
  <2> HIDE DEF R
  <2>3. QED
    BY <2>1, <2>2
<1>4. m \in BlockMap
  BY <1>1, <1>3, BlockMapFacts, BlockMapIs
<1>5. \A b \in DOMAIN hp.blocks :
        /\ m[b].pointer = hp.blocks[b].pointer
        /\ m[b].refcount = hp.blocks[b].refcount + IF b = d THEN 1 ELSE 0
  BY <1>1, BlockMapFacts
<1> HIDE DEF m
<1>6. QED
  BY <1>2, <1>3, <1>4, <1>5 DEF Heap

LEMMA DecrFacts ==
  ASSUME NEW hp \in Heap, NEW d \in DOMAIN hp.blocks
  PROVE  /\ Decr(hp, d) \in Heap
         /\ Decr(hp, d).transitions = hp.transitions /\ Decr(hp, d).pool = hp.pool
         /\ Decr(hp, d).broken = hp.broken /\ DOMAIN Decr(hp, d).blocks = DOMAIN hp.blocks
         /\ \A b \in DOMAIN hp.blocks :
              /\ Decr(hp, d).blocks[b].pointer = hp.blocks[b].pointer
              /\ Decr(hp, d).blocks[b].refcount =
                   hp.blocks[b].refcount - IF b = d THEN 1 ELSE 0
<1> DEFINE m == [hp.blocks EXCEPT ![d] = [hp.blocks[d] EXCEPT !.refcount = @ - 1]]
           R == [refcount : Int, pointer : Transition]
<1>1. hp.blocks \in BlockMap /\ d \in Block
  BY BlockMapFacts DEF Heap
<1>2. Decr(hp, d) = [hp EXCEPT !.blocks = m]
  BY <1>1 DEF Decr
<1>3. m \in [DOMAIN hp.blocks -> R]
  <2>1. hp.blocks \in [DOMAIN hp.blocks -> R] /\ hp.blocks[d] \in R
    BY <1>1, BlockMapFacts
  <2>2. \A r \in R : [r EXCEPT !.refcount = @ + 1] \in R /\ [r EXCEPT !.refcount = @ - 1] \in R
    OBVIOUS
  <2> HIDE DEF R
  <2>3. QED
    BY <2>1, <2>2
<1>4. m \in BlockMap
  BY <1>1, <1>3, BlockMapFacts, BlockMapIs
<1>5. \A b \in DOMAIN hp.blocks :
        /\ m[b].pointer = hp.blocks[b].pointer
        /\ m[b].refcount = hp.blocks[b].refcount - IF b = d THEN 1 ELSE 0
  BY <1>1, BlockMapFacts
<1> HIDE DEF m
<1>6. QED
  BY <1>2, <1>3, <1>4, <1>5 DEF Heap

LEMMA DeletedFacts ==
  ASSUME NEW hp \in Heap, NEW d \in DOMAIN hp.blocks, kind \in {"view", "stored"}
  PROVE  LET q == Deleted(hp, d)
             t == hp.blocks[d].pointer
         IN /\ q \in Heap
            /\ DOMAIN q.blocks = DOMAIN hp.blocks \ {d}
            /\ \A b \in DOMAIN q.blocks : q.blocks[b] = hp.blocks[b]
            /\ kind = "view" => /\ q.pool = hp.pool \ {t} /\ q.transitions = hp.transitions \ {t}
                                /\ q.broken = (hp.broken \/ t \notin hp.transitions)
            /\ kind = "stored" => /\ q.pool = hp.pool /\ q.transitions = hp.transitions
                                  /\ q.broken = hp.broken
<1> DEFINE m == [c \in DOMAIN hp.blocks \ {d} |-> hp.blocks[c]]
           rest == [hp EXCEPT !.blocks = m]
           t == hp.blocks[d].pointer
<1>1. hp.blocks \in BlockMap /\ DOMAIN hp.blocks \subseteq Block
  BY BlockMapFacts DEF Heap
<1>2. m \in [DOMAIN hp.blocks \ {d} -> [refcount : Int, pointer : Transition]]
  BY <1>1, BlockMapFacts
<1>3. m \in BlockMap
  BY <1>1, <1>2, BlockMapIs
<1>4. /\ DOMAIN m = DOMAIN hp.blocks \ {d}
      /\ \A b \in DOMAIN hp.blocks \ {d} : m[b] = hp.blocks[b]
  OBVIOUS
<1> HIDE DEF m
<1>5. /\ rest \in Heap /\ rest.blocks = m /\ rest.pool = hp.pool
      /\ rest.transitions = hp.transitions /\ rest.broken = hp.broken
  BY <1>3 DEF Heap
<1> HIDE DEF rest
<1>6. CASE kind = "view"
  <2>1. Deleted(hp, d) = Freed(rest, t)
    BY <1>6 DEF Deleted, rest, m
  <2>2. /\ Freed(rest, t) \in Heap /\ Freed(rest, t).blocks = m
        /\ Freed(rest, t).pool = hp.pool \ {t}
        /\ Freed(rest, t).transitions = hp.transitions \ {t}
        /\ Freed(rest, t).broken = (hp.broken \/ t \notin hp.transitions)
    BY <1>5 DEF Freed, Heap
  <2>3. QED
    BY <1>4, <1>6, <2>1, <2>2
<1>7. CASE kind = "stored"
  <2>1. Deleted(hp, d) = rest
    BY <1>7 DEF Deleted, rest, m
  <2>2. QED
    BY <1>4, <1>5, <1>7, <2>1
<1>8. QED
  BY <1>6, <1>7

(***************************************************************************)
(* A handle that is given another value.                                   *)
(***************************************************************************)
LEMMA OnExcept ==
  ASSUME NEW d \in Data, NEW h \in Handle, NEW c \in Block \union {NotBuilt, Empty}, NEW b
  PROVE  LET e == [d EXCEPT ![h] = c] IN
         /\ e \in Data
         /\ d[h] = b /\ c # b => On(e, b) = On(d, b) \ {h} /\ h \in On(d, b)
                                 /\ Cardinality(On(e, b)) = Cardinality(On(d, b)) - 1
         /\ d[h] # b /\ c = b => /\ h \in On(e, b)
                                 /\ Cardinality(On(e, b)) = Cardinality(On(d, b)) + 1
         /\ (d[h] = b <=> c = b) => On(e, b) = On(d, b)
<1> DEFINE e == [d EXCEPT ![h] = c]
<1>1. e \in Data /\ DOMAIN d = Handle /\ \A g \in Handle : e[g] = IF g = h THEN c ELSE d[g]
  BY DEF Data
<1> HIDE DEF e
<1>2. ASSUME d[h] = b, c # b
      PROVE  On(e, b) = On(d, b) \ {h} /\ h \in On(d, b)
             /\ Cardinality(On(e, b)) = Cardinality(On(d, b)) - 1
  <2>1. On(e, b) = On(d, b) \ {h} /\ h \in On(d, b)
    BY <1>1, <1>2 DEF On
  <2>2. QED
    BY <2>1, OnFinite, FS_RemoveElement
<1>3. ASSUME d[h] # b, c = b
      PROVE  h \in On(e, b) /\ Cardinality(On(e, b)) = Cardinality(On(d, b)) + 1
  <2>1. On(e, b) = On(d, b) \union {h} /\ h \notin On(d, b)
    BY <1>1, <1>3 DEF On
  <2>2. QED
    BY <2>1, OnFinite, FS_AddElement
<1>4. ASSUME d[h] = b <=> c = b PROVE On(e, b) = On(d, b)
  BY <1>1, <1>4 DEF On
<1>5. QED
  BY <1>1, <1>2, <1>3, <1>4 DEF e

(* Where the counts and pointers of a heap stay, what it owns stays.       *)
LEMMA OwnedKept ==
  ASSUME NEW hp, NEW q, Owned(hp),
         q.transitions = hp.transitions, q.pool = hp.pool, q.broken = hp.broken,
         DOMAIN q.blocks = DOMAIN hp.blocks,
         \A b \in DOMAIN hp.blocks : q.blocks[b].pointer = hp.blocks[b].pointer
  PROVE  Owned(q)
<1>1. Pointers(q) = Pointers(hp)
  BY DEF Pointers
<1>2. QED
  BY <1>1 DEF Owned

(* A new handle on a block.                                                *)
LEMMA AddKeeps ==
  ASSUME NEW hp \in Heap, NEW d \in Data, NEW h \in Handle, d[h] \notin Block,
         NEW c \in Block \union {NotBuilt, Empty}, c \in Block => c \in DOMAIN hp.blocks,
         Fits(hp, d), Owned(hp)
  PROVE  LET q == Incr(hp, c)
             e == [d EXCEPT ![h] = c]
         IN /\ q \in Heap /\ e \in Data /\ Fits(q, e) /\ Owned(q)
            /\ Exact(hp, d) => Exact(q, e)
<1> DEFINE q == Incr(hp, c)
           e == [d EXCEPT ![h] = c]
<1>1. e \in Data /\ \A g \in Handle : e[g] = IF g = h THEN c ELSE d[g]
  BY DEF Data
<1>2. hp.blocks \in BlockMap /\ DOMAIN hp.blocks \subseteq Block
  BY BlockMapFacts DEF Heap
<1>3. \A b \in DOMAIN hp.blocks : hp.blocks[b].refcount \in Int
  BY <1>2, BlockMapFacts
<1>4. \A b \in DOMAIN hp.blocks :
        /\ Cardinality(On(d, b)) \in Nat
        /\ Cardinality(On(e, b)) = Cardinality(On(d, b)) + IF b = c THEN 1 ELSE 0
        /\ On(d, b) # {} \/ b = c => On(e, b) # {}
  <2> TAKE b \in DOMAIN hp.blocks
  <2>1. Cardinality(On(d, b)) \in Nat /\ d[h] # b
    BY <1>2, OnFinite
  <2>2. /\ d[h] # b /\ c = b => /\ h \in On(e, b)
                                 /\ Cardinality(On(e, b)) = Cardinality(On(d, b)) + 1
        /\ (d[h] = b <=> c = b) => On(e, b) = On(d, b)
    BY OnExcept
  <2> HIDE DEF e, q
  <2>3. QED
    BY <2>1, <2>2
<1> HIDE DEF e
<1>5. CASE c \in Block
  <2>1. /\ q \in Heap /\ q.transitions = hp.transitions /\ q.pool = hp.pool
        /\ q.broken = hp.broken /\ DOMAIN q.blocks = DOMAIN hp.blocks
        /\ \A b \in DOMAIN hp.blocks :
             /\ q.blocks[b].pointer = hp.blocks[b].pointer
             /\ q.blocks[b].refcount = hp.blocks[b].refcount + IF b = c THEN 1 ELSE 0
    BY <1>5, IncrFacts
  <2> HIDE DEF q
  <2>2. Owned(q)
    BY <2>1, OwnedKept
  <2>3. Fits(q, e)
    <3>1. \A g \in Handle : e[g] \in Block \ overdrawn => e[g] \in DOMAIN q.blocks
      BY <1>1, <1>5, <2>1 DEF Fits
    <3>2. \A b \in DOMAIN q.blocks \ overdrawn : Cardinality(On(e, b)) <= q.blocks[b].refcount
      BY <1>3, <1>4, <2>1 DEF Fits
    <3>3. QED
      BY <3>1, <3>2 DEF Fits
  <2>4. Exact(hp, d) => Exact(q, e)
    BY <1>3, <1>4, <2>1 DEF Exact
  <2>5. QED
    BY <1>1, <2>1, <2>2, <2>3, <2>4 DEF q, e
<1>6. CASE c \notin Block
  <2>1. q = hp
    BY <1>6 DEF Incr
  <2>2. \A b \in DOMAIN hp.blocks : b # c
    BY <1>2, <1>6
  <2>3. Fits(q, e)
    <3>1. \A g \in Handle : e[g] \in Block \ overdrawn => e[g] \in DOMAIN q.blocks
      BY <1>1, <1>6, <2>1 DEF Fits
    <3>2. \A b \in DOMAIN q.blocks \ overdrawn : Cardinality(On(e, b)) <= q.blocks[b].refcount
      BY <1>3, <1>4, <2>1, <2>2 DEF Fits
    <3>3. QED
      BY <3>1, <3>2 DEF Fits
  <2>4. Exact(hp, d) => Exact(q, e)
    BY <1>3, <1>4, <2>1, <2>2 DEF Exact
  <2>5. QED
    BY <1>1, <2>1, <2>3, <2>4 DEF q, e
<1>7. QED
  BY <1>5, <1>6

(* A handle that lets go of its block.                                     *)
LEMMA DropKeeps ==
  ASSUME heap \in Heap, data \in Data, kind \in {"view", "stored"},
         NEW h \in Handle, NEW x \in {NotBuilt, Empty}, Live(h), Fits(heap, data), Owned(heap)
  PROVE  LET q == Without(h)
             e == [data EXCEPT ![h] = x]
         IN /\ q \in Heap /\ e \in Data /\ Fits(q, e) /\ Owned(q)
            /\ DOMAIN heap.blocks \ {data[h]} \subseteq DOMAIN q.blocks
            /\ Exact(heap, data) => Exact(q, e)
<1> DEFINE q == Without(h)
           e == [data EXCEPT ![h] = x]
           d == data[h]
<1>1. /\ e \in Data /\ d \in Block \union {NotBuilt, Empty} /\ x \notin Block
      /\ \A g \in Handle : e[g] = IF g = h THEN x ELSE data[g]
  BY HandlesAssumption DEF Data
<1>2. heap.blocks \in BlockMap /\ DOMAIN heap.blocks \subseteq Block
      /\ \A b \in DOMAIN heap.blocks : heap.blocks[b].refcount \in Int
  BY BlockMapFacts DEF Heap
<1>3. \A b \in Block :
        /\ Cardinality(On(data, b)) \in Nat /\ Cardinality(On(e, b)) \in Nat
        /\ Cardinality(On(e, b)) = Cardinality(On(data, b)) - IF b = d THEN 1 ELSE 0
        /\ b # d => On(e, b) = On(data, b)
        /\ Cardinality(On(e, b)) # 0 <=> On(e, b) # {}
  <2> TAKE b \in Block
  <2>1. /\ Cardinality(On(data, b)) \in Nat /\ Cardinality(On(e, b)) \in Nat
        /\ Cardinality(On(e, b)) # 0 <=> On(e, b) # {}
    BY OnFinite, FS_EmptySet
  <2>2. /\ data[h] = b /\ x # b => Cardinality(On(e, b)) = Cardinality(On(data, b)) - 1
        /\ (data[h] = b <=> x = b) => On(e, b) = On(data, b)
    BY OnExcept
  <2>3. x # b
    BY <1>1
  <2> HIDE DEF e, q
  <2>4. QED
    BY <2>1, <2>2, <2>3
<1> HIDE DEF e, d
<1>4. CASE ~Points(h)
  <2>1. q = heap /\ d \notin Block
    BY <1>4 DEF Points, IsLast, Without, Decr, d
  <2>2. \A g \in Handle : e[g] \in Block \ overdrawn => e[g] \in DOMAIN heap.blocks
    BY <1>1 DEF Fits
  <2>3. \A b \in DOMAIN heap.blocks : On(e, b) = On(data, b)
    BY <1>2, <1>3, <2>1
  <2>4. Fits(q, e)
    BY <2>1, <2>2, <2>3 DEF Fits
  <2>5. Exact(heap, data) => Exact(q, e)
    BY <2>1, <2>3 DEF Exact
  <2>6. QED
    BY <1>1, <2>1, <2>4, <2>5 DEF e
<1>5. CASE Points(h)
  <2>1. d \in Block /\ d \in DOMAIN heap.blocks
    BY <1>5 DEF Points, Live, d
  <2>2. CASE IsLast(h)
    <3>1. q = Deleted(heap, d) /\ heap.blocks[d].refcount = 1
      BY <2>2 DEF Without, IsLast, Count, d
    <3> DEFINE t == heap.blocks[d].pointer
    <3>2. /\ q \in Heap
          /\ DOMAIN q.blocks = DOMAIN heap.blocks \ {d}
          /\ \A b \in DOMAIN q.blocks : q.blocks[b] = heap.blocks[b]
          /\ kind = "view" => /\ q.pool = heap.pool \ {t}
                              /\ q.transitions = heap.transitions \ {t}
                              /\ q.broken = (heap.broken \/ t \notin heap.transitions)
          /\ kind = "stored" => /\ q.pool = heap.pool /\ q.transitions = heap.transitions
                                /\ q.broken = heap.broken
      BY <2>1, <3>1, DeletedFacts
    <3> HIDE DEF q
    <3>3. d \notin overdrawn => On(e, d) = {}
      <4>1. d \notin overdrawn => Cardinality(On(data, d)) <= 1
        BY <2>1, <3>1 DEF Fits
      <4>2. QED
        BY <1>3, <2>1, <4>1
    <3>4. Fits(q, e)
      <4>1. ASSUME NEW g \in Handle, e[g] \in Block \ overdrawn PROVE e[g] \in DOMAIN q.blocks
        <5>1. e[g] = data[g] /\ e[g] # d
          BY <1>1, <3>3, <4>1 DEF On
        <5>2. QED
          BY <3>2, <4>1, <5>1 DEF Fits
      <4>2. \A b \in DOMAIN q.blocks \ overdrawn : Cardinality(On(e, b)) <= q.blocks[b].refcount
        BY <1>2, <1>3, <3>2 DEF Fits
      <4>3. QED
        BY <4>1, <4>2 DEF Fits
    <3>5. Exact(heap, data) => Exact(q, e)
      BY <1>2, <1>3, <3>2 DEF Exact
    <3>6. Owned(q)
      <4>1. CASE kind = "view"
        <5>1. /\ heap.transitions = Pointers(heap) /\ heap.pool = Pointers(heap)
              /\ \A b, c \in DOMAIN heap.blocks :
                   heap.blocks[b].pointer = heap.blocks[c].pointer => b = c
              /\ ~heap.broken
          BY <4>1 DEF Owned
        <5>2. t \in Pointers(heap)
          BY <2>1 DEF Pointers
        <5>3. Pointers(q) = Pointers(heap) \ {t}
          BY <2>1, <3>2, <5>1 DEF Pointers
        <5> HIDE DEF t
        <5>4. ~q.broken /\ q.transitions = Pointers(q) /\ q.pool = Pointers(q)
          BY <3>2, <4>1, <5>1, <5>2, <5>3
        <5>5. \A b, c \in DOMAIN q.blocks : q.blocks[b].pointer = q.blocks[c].pointer => b = c
          BY <3>2, <5>1
        <5>6. QED
          BY <4>1, <5>4, <5>5 DEF Owned
      <4>2. CASE kind = "stored"
        <5>1. Pointers(q) \subseteq Pointers(heap)
          BY <3>2 DEF Pointers
        <5>2. QED
          BY <3>2, <4>2, <5>1 DEF Owned
      <4>3. QED
        BY <4>1, <4>2
    <3>7. QED
      BY <1>1, <3>2, <3>4, <3>5, <3>6 DEF q, e, d
  <2>3. CASE ~IsLast(h)
    <3>1. q = Decr(heap, d) /\ heap.blocks[d].refcount # 1
      BY <1>5, <2>3 DEF Without, IsLast, Count, d
    <3>2. /\ q \in Heap /\ q.transitions = heap.transitions /\ q.pool = heap.pool
          /\ q.broken = heap.broken /\ DOMAIN q.blocks = DOMAIN heap.blocks
          /\ \A b \in DOMAIN heap.blocks :
               /\ q.blocks[b].pointer = heap.blocks[b].pointer
               /\ q.blocks[b].refcount = heap.blocks[b].refcount - IF b = d THEN 1 ELSE 0
      BY <2>1, <3>1, DecrFacts
    <3> HIDE DEF q
    <3>3. Owned(q)
      BY <3>2, OwnedKept
    <3>4. Fits(q, e)
      <4>1. \A g \in Handle : e[g] \in Block \ overdrawn => e[g] \in DOMAIN q.blocks
        BY <1>1, <3>2 DEF Fits
      <4>2. \A b \in DOMAIN q.blocks \ overdrawn : Cardinality(On(e, b)) <= q.blocks[b].refcount
        BY <1>2, <1>3, <3>2 DEF Fits
      <4>3. QED
        BY <4>1, <4>2 DEF Fits
    <3>5. ASSUME Exact(heap, data) PROVE Exact(q, e)
      <4> SUFFICES ASSUME NEW b \in DOMAIN q.blocks \ overdrawn
                   PROVE  Cardinality(On(e, b)) = q.blocks[b].refcount /\ On(e, b) # {}
        BY DEF Exact
      <4>1. b \in Block /\ b \in DOMAIN heap.blocks
            /\ Cardinality(On(data, b)) = heap.blocks[b].refcount /\ On(data, b) # {}
        BY <1>2, <3>2, <3>5 DEF Exact
      <4>2. QED
        BY <1>2, <1>3, <3>1, <3>2, <4>1
    <3>6. QED
      BY <1>1, <3>2, <3>3, <3>4, <3>5 DEF q, e
  <2>4. QED
    BY <2>2, <2>3
<1>6. QED
  BY <1>4, <1>5

(* A handle that takes over what another has, which is left empty.         *)
LEMMA MoveKeeps ==
  ASSUME NEW hp \in Heap, NEW d \in Data, NEW h \in Handle, NEW g \in Handle, h # g,
         d[h] \notin Block, Fits(hp, d)
  PROVE  LET e == [d EXCEPT ![h] = d[g], ![g] = Empty] IN
         /\ e \in Data /\ Fits(hp, e)
         /\ Exact(hp, d) => Exact(hp, e)
<1> DEFINE c == d[g]
           a == [d EXCEPT ![h] = c]
           e == [d EXCEPT ![h] = c, ![g] = Empty]
<1>1. /\ e \in Data /\ a \in Data /\ c \in Block \union {NotBuilt, Empty} /\ a[g] = c
      /\ \A k \in Handle : e[k] = IF k = g THEN Empty ELSE IF k = h THEN c ELSE d[k]
  BY DEF Data
<1>2. hp.blocks \in BlockMap /\ DOMAIN hp.blocks \subseteq Block
      /\ \A b \in DOMAIN hp.blocks : hp.blocks[b].refcount \in Int
  BY BlockMapFacts DEF Heap
<1>3. e = [a EXCEPT ![g] = Empty]
  BY DEF Data
<1> HIDE DEF a, e, c
<1>4. ASSUME NEW b \in Block
      PROVE  /\ Cardinality(On(e, b)) = Cardinality(On(d, b))
             /\ On(d, b) # {} => On(e, b) # {}
  <2>1. Empty # b /\ d[h] # b
    BY HandlesAssumption
  <2>2. /\ d[h] # b /\ c = b => Cardinality(On(a, b)) = Cardinality(On(d, b)) + 1
        /\ (d[h] = b <=> c = b) => On(a, b) = On(d, b)
    BY <1>1, OnExcept DEF a
  <2>3. /\ a[g] = b /\ Empty # b => Cardinality(On(e, b)) = Cardinality(On(a, b)) - 1
        /\ (a[g] = b <=> Empty = b) => On(e, b) = On(a, b)
    <3>1. LET f == [a EXCEPT ![g] = Empty] IN
          /\ a[g] = b /\ Empty # b => Cardinality(On(f, b)) = Cardinality(On(a, b)) - 1
          /\ (a[g] = b <=> Empty = b) => On(f, b) = On(a, b)
      BY <1>1, OnExcept
    <3>2. QED
      BY <1>3, <3>1
  <2>4. Cardinality(On(d, b)) \in Nat /\ Cardinality(On(a, b)) \in Nat
    BY OnFinite
  <2>5. CASE c = b
    <3>1. h \in On(e, b)
      BY <1>1, <2>5 DEF On
    <3>2. QED
      BY <1>1, <2>1, <2>2, <2>3, <2>4, <2>5, <3>1
  <2>6. CASE c # b
    BY <1>1, <2>1, <2>2, <2>3, <2>6
  <2>7. QED
    BY <2>5, <2>6
<1>5. Fits(hp, e)
  <2>1. \A k \in Handle : e[k] \in Block \ overdrawn => e[k] \in DOMAIN hp.blocks
    BY <1>1, HandlesAssumption DEF Fits, c
  <2>2. QED
    BY <1>2, <1>4, <2>1 DEF Fits
<1>6. Exact(hp, d) => Exact(hp, e)
  BY <1>2, <1>4 DEF Exact
<1>7. QED
  BY <1>1, <1>5, <1>6 DEF e, c

(* A moved assignment that lowers the count of h and empties g.            *)
LEMMA LowerKeeps ==
  ASSUME heap \in Heap, data \in Data, NEW h \in Handle, NEW g \in Handle,
         Live(h), Fits(heap, data), Owned(heap),
         data[h] = data[g] \/ (~IsLast(h) /\ ~Shared(h))
  PROVE  LET q == Decr(heap, data[h])
             e == [data EXCEPT ![g] = Empty]
         IN /\ q \in Heap /\ e \in Data /\ Fits(q, e) /\ Owned(q)
            /\ /\ Exact(heap, data)
               /\ ~(Points(g) /\ data[h] # data[g])
               /\ ~(h = g /\ IsLast(h))
               => Exact(q, e)
<1> DEFINE q == Decr(heap, data[h])
           e == [data EXCEPT ![g] = Empty]
           d == data[h]
<1>1. /\ e \in Data /\ d \in Block \union {NotBuilt, Empty} /\ Empty \notin Block
      /\ \A k \in Handle : e[k] = IF k = g THEN Empty ELSE data[k]
  BY HandlesAssumption DEF Data
<1>2. heap.blocks \in BlockMap /\ DOMAIN heap.blocks \subseteq Block
      /\ \A b \in DOMAIN heap.blocks : heap.blocks[b].refcount \in Int
  BY BlockMapFacts DEF Heap
<1>3. \A b \in Block :
        /\ Cardinality(On(data, b)) \in Nat /\ Cardinality(On(e, b)) \in Nat
        /\ Cardinality(On(e, b)) = Cardinality(On(data, b)) - IF b = data[g] THEN 1 ELSE 0
        /\ b # data[g] => On(e, b) = On(data, b)
        /\ Cardinality(On(e, b)) # 0 <=> On(e, b) # {}
  <2> TAKE b \in Block
  <2>1. /\ Cardinality(On(data, b)) \in Nat /\ Cardinality(On(e, b)) \in Nat
        /\ Cardinality(On(e, b)) # 0 <=> On(e, b) # {}
    BY OnFinite, FS_EmptySet
  <2>2. /\ data[g] = b /\ Empty # b => Cardinality(On(e, b)) = Cardinality(On(data, b)) - 1
        /\ (data[g] = b <=> Empty = b) => On(e, b) = On(data, b)
    BY OnExcept
  <2>3. Empty # b
    BY <1>1
  <2> HIDE DEF e, q
  <2>4. QED
    BY <2>1, <2>2, <2>3
<1> HIDE DEF e
<1>4. CASE d \notin Block
  <2>1. q = heap
    BY <1>4 DEF Decr
  <2>2. \A k \in Handle : e[k] \in Block \ overdrawn => e[k] \in DOMAIN heap.blocks
    BY <1>1 DEF Fits
  <2>3. Fits(q, e)
    BY <1>2, <1>3, <2>1, <2>2 DEF Fits
  <2>4. ASSUME Exact(heap, data), ~(Points(g) /\ data[h] # data[g]) PROVE Exact(q, e)
    <3>1. data[g] \notin Block
      BY <1>4, <2>4 DEF Points
    <3>2. QED
      BY <1>2, <1>3, <2>1, <2>4, <3>1 DEF Exact
  <2>5. QED
    BY <1>1, <2>1, <2>3, <2>4 DEF e
<1>5. CASE d \in Block
  <2>1. d \in DOMAIN heap.blocks /\ Points(h)
    BY <1>5 DEF Points, Live
  <2>2. /\ q \in Heap /\ q.transitions = heap.transitions /\ q.pool = heap.pool
        /\ q.broken = heap.broken /\ DOMAIN q.blocks = DOMAIN heap.blocks
        /\ \A b \in DOMAIN heap.blocks :
             /\ q.blocks[b].pointer = heap.blocks[b].pointer
             /\ q.blocks[b].refcount = heap.blocks[b].refcount - IF b = d THEN 1 ELSE 0
    BY <2>1, DecrFacts
  <2>3. Owned(q)
    BY <2>2, OwnedKept
  <2> HIDE DEF q
  <2>4. \A k \in Handle : e[k] \in Block \ overdrawn => e[k] \in DOMAIN q.blocks
    BY <1>1, <2>2 DEF Fits
  <2>5. CASE d = data[g]
    <3>1. Fits(q, e)
      BY <1>2, <1>3, <2>2, <2>4, <2>5 DEF Fits
    <3>2. ASSUME Exact(heap, data), ~(h = g /\ IsLast(h)) PROVE Exact(q, e)
      <4>1. ASSUME d \notin overdrawn PROVE On(e, d) # {}
        <5>1. CASE h = g
          <6>1. heap.blocks[d].refcount # 1
            BY <2>1, <3>2, <5>1 DEF IsLast, Count
          <6>2. Cardinality(On(data, d)) = heap.blocks[d].refcount
            BY <2>1, <3>2, <4>1 DEF Exact
          <6>3. QED
            BY <1>3, <1>5, <2>5, <6>1, <6>2
        <5>2. CASE h # g
          <6>1. h \in On(e, d)
            BY <1>1, <5>2 DEF On
          <6>2. QED
            BY <6>1
        <5>3. QED
          BY <5>1, <5>2
      <4>2. QED
        BY <1>2, <1>3, <2>2, <2>5, <3>2, <4>1 DEF Exact
    <3>3. QED
      BY <1>1, <2>2, <2>3, <3>1, <3>2 DEF e, q
  <2>6. CASE d # data[g]
    <3>1. heap.blocks[d].refcount # 1 /\ ~Shared(h)
      BY <2>1, <2>6 DEF IsLast, Count
    <3>2. On(data, d) = {h}
      BY <1>5, <3>1 DEF Shared, Points, On
    <3>3. Cardinality(On(data, d)) = 1
      BY <3>2, FS_Singleton
    <3>4. ASSUME Exact(heap, data), ~Points(g) PROVE Exact(q, e)
      <4>1. data[g] \notin Block
        BY <3>4 DEF Points
      <4>2. d \in overdrawn
        BY <2>1, <3>1, <3>3, <3>4 DEF Exact
      <4>3. QED
        BY <1>2, <1>3, <2>2, <3>4, <4>1, <4>2 DEF Exact
    <3>5. d \notin overdrawn => heap.blocks[d].refcount >= 2
      BY <1>2, <2>1, <3>1, <3>3 DEF Fits
    <3>6. Fits(q, e)
      <4>1. ASSUME NEW b \in DOMAIN q.blocks \ overdrawn
            PROVE  Cardinality(On(e, b)) <= q.blocks[b].refcount
        <5>1. /\ b \in Block /\ b \in DOMAIN heap.blocks /\ heap.blocks[b].refcount \in Int
              /\ Cardinality(On(data, b)) <= heap.blocks[b].refcount
          BY <1>2, <2>2, <4>1 DEF Fits
        <5>2. QED
          BY <1>3, <2>2, <2>6, <3>3, <3>5, <5>1
      <4>2. QED
        BY <2>4, <4>1 DEF Fits
    <3>7. QED
      BY <1>1, <2>2, <2>3, <2>6, <3>4, <3>6 DEF e, q, d
  <2>7. QED
    BY <2>5, <2>6
<1>6. QED
  BY <1>4, <1>5

(* One that leaves h with others on a block that counts it no longer: all  *)
(* but that block keeps its count.                                         *)
LEMMA LeaveKeeps ==
  ASSUME heap \in Heap, data \in Data, NEW h \in Handle, NEW g \in Handle,
         Points(h), Live(h), Fits(heap, data), Owned(heap), data[h] # data[g]
  PROVE  LET q == Decr(heap, data[h])
             e == [data EXCEPT ![g] = Empty]
             o == overdrawn \union {data[h]}
         IN /\ q \in Heap /\ e \in Data /\ Owned(q)
            /\ \A k \in Handle : e[k] \in Block \ o => e[k] \in DOMAIN q.blocks
            /\ \A b \in DOMAIN q.blocks \ o : Cardinality(On(e, b)) <= q.blocks[b].refcount
            /\ Exact(heap, data) /\ ~Points(g) =>
                 \A b \in DOMAIN q.blocks \ o :
                   Cardinality(On(e, b)) = q.blocks[b].refcount /\ On(e, b) # {}
<1> DEFINE q == Decr(heap, data[h])
           e == [data EXCEPT ![g] = Empty]
           d == data[h]
<1>1. /\ e \in Data /\ Empty \notin Block
      /\ \A k \in Handle : e[k] = IF k = g THEN Empty ELSE data[k]
  BY HandlesAssumption DEF Data
<1>2. heap.blocks \in BlockMap /\ DOMAIN heap.blocks \subseteq Block
      /\ \A b \in DOMAIN heap.blocks : heap.blocks[b].refcount \in Int
  BY BlockMapFacts DEF Heap
<1>3. d \in DOMAIN heap.blocks
  BY DEF Live
<1>4. /\ q \in Heap /\ q.transitions = heap.transitions /\ q.pool = heap.pool
      /\ q.broken = heap.broken /\ DOMAIN q.blocks = DOMAIN heap.blocks
      /\ \A b \in DOMAIN heap.blocks :
           /\ q.blocks[b].pointer = heap.blocks[b].pointer
           /\ q.blocks[b].refcount = heap.blocks[b].refcount - IF b = d THEN 1 ELSE 0
  BY <1>3, DecrFacts
<1>5. \A b \in Block :
        /\ Cardinality(On(data, b)) \in Nat /\ Cardinality(On(e, b)) \in Nat
        /\ Cardinality(On(e, b)) <= Cardinality(On(data, b))
        /\ b # data[g] => On(e, b) = On(data, b)
  <2> TAKE b \in Block
  <2>1. Cardinality(On(data, b)) \in Nat /\ Cardinality(On(e, b)) \in Nat
    BY OnFinite
  <2>2. /\ data[g] = b /\ Empty # b => Cardinality(On(e, b)) = Cardinality(On(data, b)) - 1
        /\ (data[g] = b <=> Empty = b) => On(e, b) = On(data, b)
    BY OnExcept
  <2>3. Empty # b
    BY <1>1
  <2> HIDE DEF e, q
  <2>4. QED
    BY <2>1, <2>2, <2>3
<1> HIDE DEF q, e
<1>6. Owned(q)
  BY <1>4, OwnedKept
<1> DEFINE o == overdrawn \union {d}
<1>7. \A k \in Handle : e[k] \in Block \ o => e[k] \in DOMAIN q.blocks
  BY <1>1, <1>4 DEF Fits
<1>8. \A b \in DOMAIN q.blocks \ o : Cardinality(On(e, b)) <= q.blocks[b].refcount
  <2> TAKE b \in DOMAIN q.blocks \ o
  <2>1. /\ b \in Block /\ b \in DOMAIN heap.blocks /\ heap.blocks[b].refcount \in Int
        /\ q.blocks[b].refcount = heap.blocks[b].refcount - 0
        /\ Cardinality(On(data, b)) <= heap.blocks[b].refcount
    BY <1>2, <1>4 DEF Fits
  <2>2. QED
    BY <1>5, <2>1
<1>9. ASSUME Exact(heap, data), ~Points(g)
      PROVE  \A b \in DOMAIN q.blocks \ o :
               Cardinality(On(e, b)) = q.blocks[b].refcount /\ On(e, b) # {}
  <2> TAKE b \in DOMAIN q.blocks \ o
  <2>1. /\ b \in Block /\ b \in DOMAIN heap.blocks /\ heap.blocks[b].refcount \in Int
        /\ q.blocks[b].refcount = heap.blocks[b].refcount - 0
        /\ Cardinality(On(data, b)) = heap.blocks[b].refcount /\ On(data, b) # {}
    BY <1>2, <1>4, <1>9 DEF Exact
  <2>2. b # data[g]
    BY <1>9, <2>1 DEF Points
  <2>3. QED
    BY <1>5, <2>1, <2>2
<1>10. QED
  BY <1>1, <1>4, <1>6, <1>7, <1>8, <1>9 DEF q, e

-----------------------------------------------------------------------------
Running ==
  /\ Fits(heap, data) /\ Owned(heap)
  /\ ~forgotten => Exact(heap, data)

(* The inductive invariant.  The counts are an upper bound on the handles  *)
(* whatever was assigned, and exact until an assignment forgets one, but   *)
(* for the blocks a move overdrew; what is used after it is gone is one.   *)
Inv ==
  /\ kind \in {"view", "stored"} /\ status \in {"running", "ended", "undefined"}
  /\ heap \in Heap /\ data \in Data /\ forgotten \in BOOLEAN
  /\ status # "ended" => Running
  /\ status = "undefined" => overdrawn # {}
  /\ status = "ended" => /\ heap.transitions = {} /\ ~heap.broken
                         /\ \A h \in Handle : ~Built(h)
                         /\ ~forgotten => DOMAIN heap.blocks \subseteq overdrawn

LEMMA EmptyMap == <<>> \in BlockMap /\ DOMAIN <<>> = {}
<1> DEFINE R == [refcount : Int, pointer : Transition]
<1>1. <<>> \in [{} -> R] /\ DOMAIN <<>> = {}
  <2> HIDE DEF R
  <2>1. QED
    OBVIOUS
<1>2. QED
  BY <1>1, BlockMapIs

LEMMA InitCorrect == Init => Inv
<1> SUFFICES ASSUME Init PROVE Inv
  OBVIOUS
<1> USE EmptyMap DEF Init
<1>1. heap \in Heap /\ heap.blocks = <<>> /\ DOMAIN heap.blocks = {}
  BY DEF Heap
<1>2. data \in Data /\ \A h \in Handle : data[h] \notin Block
  BY HandlesAssumption DEF Data
<1>3. Fits(heap, data) /\ Exact(heap, data)
  BY <1>1, <1>2 DEF Fits, Exact
<1>4. Pointers(heap) = {}
  BY <1>1 DEF Pointers
<1>5. Owned(heap)
  BY <1>1, <1>4 DEF Owned
<1>6. QED
  BY <1>1, <1>2, <1>3, <1>5 DEF Inv, Running

LEMMA StoreCorrect ==
  ASSUME Inv, NEW t \in Transition, Store(t) PROVE Inv'
<1>1. /\ heap' = [heap EXCEPT !.transitions = @ \union {t}] /\ kind = "stored"
      /\ UNCHANGED <<kind, status, data, forgotten, overdrawn>> /\ Running
  BY DEF Store, Inv
<1>2. /\ heap' \in Heap /\ heap'.blocks = heap.blocks /\ heap'.broken = heap.broken
      /\ heap'.transitions = heap.transitions \union {t}
  BY <1>1 DEF Inv, Heap
<1>3. Fits(heap, data)' /\ Owned(heap)' /\ (Exact(heap, data) => Exact(heap, data)')
  BY <1>1, <1>2 DEF Running, Fits, Owned, Exact, Pointers, On
<1>4. QED
  BY <1>1, <1>2, <1>3 DEF Inv, Running, Store

(* What Dereference adds is a block of count one, its handle and, in a     *)
(* view, a transition no block has; so a view refuses none.                *)
LEMMA DereferenceCorrect ==
  ASSUME Inv, NEW h \in Handle, NEW t \in Transition, NEW b \in Block, Dereference(h, t, b)
  PROVE  Inv'
<1> DEFINE m == [c \in DOMAIN heap.blocks \union {b} |->
                   IF c = b THEN [refcount |-> 1, pointer |-> t] ELSE heap.blocks[c]]
           R == [refcount : Int, pointer : Transition]
<1>1. /\ status = "running" /\ Fits(heap, data) /\ Owned(heap) /\ data[h] = NotBuilt
      /\ ~forgotten => Exact(heap, data)
      /\ b \notin DOMAIN heap.blocks /\ kind \in {"view", "stored"}
      /\ kind = "view" <=> t \notin heap.transitions
      /\ heap \in Heap /\ data \in Data
  BY DEF Inv, Running, Dereference, Built
<1>2. ~(kind = "view" /\ t \in heap.pool)
  BY <1>1 DEF Owned
<1>3. /\ heap' = [heap EXCEPT !.transitions = @ \union {t}, !.pool = Declared(t), !.blocks = m]
      /\ data' = [data EXCEPT ![h] = b]
      /\ UNCHANGED <<kind, status, forgotten, overdrawn>>
  BY <1>2 DEF Dereference
<1>4. /\ heap.blocks \in BlockMap /\ DOMAIN heap.blocks \subseteq Block
      /\ \A c \in DOMAIN heap.blocks : heap.blocks[c].refcount \in Int
  BY <1>1, BlockMapFacts DEF Heap
<1>5. m \in BlockMap
  <2>1. \A c \in DOMAIN heap.blocks : heap.blocks[c] \in R
    BY <1>4, BlockMapFacts
  <2>2. [refcount |-> 1, pointer |-> t] \in R
    OBVIOUS
  <2>3. m \in [DOMAIN heap.blocks \union {b} -> R]
    <3> HIDE DEF R
    <3>1. QED
      BY <2>1, <2>2
  <2>4. QED
    BY <1>4, <2>3, BlockMapIs
<1>6. /\ DOMAIN m = DOMAIN heap.blocks \union {b}
      /\ m[b].refcount = 1 /\ m[b].pointer = t
      /\ \A c \in DOMAIN heap.blocks : m[c] = heap.blocks[c]
  BY <1>1
<1> HIDE DEF m
<1>7. /\ heap' \in Heap /\ heap'.blocks = m /\ heap'.broken = heap.broken
      /\ heap'.transitions = heap.transitions \union {t}
      /\ heap'.pool = IF kind = "view" THEN heap.pool \union {t} ELSE heap.pool
  BY <1>1, <1>3, <1>5 DEF Heap, Declared
<1>8. data' \in Data /\ \A g \in Handle : data'[g] = IF g = h THEN b ELSE data[g]
  BY <1>1, <1>3 DEF Data
<1>9. /\ b \notin overdrawn => On(data', b) = {h} /\ Cardinality(On(data', b)) = 1
      /\ \A c \in DOMAIN heap.blocks : On(data', c) = On(data, c)
  <2>1. b \notin overdrawn => \A g \in Handle : data[g] # b
    BY <1>1 DEF Fits
  <2>2. b \notin overdrawn => On(data', b) = {h}
    BY <1>8, <2>1 DEF On
  <2>3. \A c \in DOMAIN heap.blocks : data[h] # c /\ b # c
    BY <1>1, <1>4, HandlesAssumption
  <2>4. \A c \in DOMAIN heap.blocks : On(data', c) = On(data, c)
    BY <1>8, <2>3 DEF On
  <2>5. QED
    BY <2>2, <2>4, FS_Singleton
<1>10. Fits(heap', data')
  <2>1. \A g \in Handle : data'[g] \in Block \ overdrawn => data'[g] \in DOMAIN heap'.blocks
    BY <1>1, <1>6, <1>7, <1>8 DEF Fits
  <2>2. ASSUME NEW c \in DOMAIN heap'.blocks \ overdrawn
        PROVE  Cardinality(On(data', c)) <= heap'.blocks[c].refcount
    <3>1. CASE c = b
      BY <1>6, <1>7, <1>9, <3>1
    <3>2. CASE c # b
      BY <1>1, <1>6, <1>7, <1>9, <2>2, <3>2 DEF Fits
    <3>3. QED
      BY <3>1, <3>2
  <2>3. QED
    BY <2>1, <2>2 DEF Fits
<1>11. Exact(heap, data) => Exact(heap', data')
  BY <1>6, <1>7, <1>9 DEF Exact
<1>12. Pointers(heap') = Pointers(heap) \union {t}
  BY <1>1, <1>6, <1>7 DEF Pointers
<1>13. Owned(heap)'
  <2>1. CASE kind = "view"
    <3>1. t \notin Pointers(heap)
      BY <1>1, <2>1 DEF Owned
    <3>2. \A c \in DOMAIN heap.blocks : heap.blocks[c].pointer # t
      BY <3>1 DEF Pointers
    <3>3. \A c, f \in DOMAIN heap'.blocks :
            heap'.blocks[c].pointer = heap'.blocks[f].pointer => c = f
      BY <1>1, <1>6, <1>7, <2>1, <3>2 DEF Owned
    <3>4. QED
      BY <1>1, <1>3, <1>7, <1>12, <2>1, <3>3 DEF Owned, Pointers
  <2>2. CASE kind = "stored"
    BY <1>1, <1>3, <1>7, <1>12, <2>2 DEF Owned, Pointers
  <2>3. QED
    BY <1>1, <2>1, <2>2
<1>14. QED
  BY <1>1, <1>3, <1>7, <1>8, <1>10, <1>11, <1>13 DEF Inv, Running, Fits, Exact, On

LEMMA DestroyCorrect ==
  ASSUME Inv, NEW h \in Handle, Destroy(h) PROVE Inv'
<1>1. /\ heap' = Without(h) /\ data' = [data EXCEPT ![h] = NotBuilt]
      /\ UNCHANGED <<kind, status, forgotten, overdrawn>> /\ status = "running" /\ Running
      /\ Live(h)
  BY DEF Destroy, Lowerable, Inv
<1>2. /\ heap' \in Heap /\ data' \in Data /\ Fits(heap', data') /\ Owned(heap')
      /\ Exact(heap, data) => Exact(heap', data')
  BY <1>1, DropKeeps DEF Inv, Running
<1>3. QED
  BY <1>1, <1>2 DEF Inv, Running, Fits, Exact, Owned, On, Pointers

LEMMA CopyConstructCorrect ==
  ASSUME Inv, NEW h \in Handle, NEW g \in Handle, CopyConstruct(h, g) PROVE Inv'
<1>1. /\ heap' = Incr(heap, data[g]) /\ data' = [data EXCEPT ![h] = data[g]]
      /\ UNCHANGED <<kind, status, forgotten, overdrawn>> /\ status = "running" /\ Running
      /\ data[h] = NotBuilt /\ heap \in Heap /\ data \in Data /\ Live(g)
  BY DEF CopyConstruct, Inv, Built
<1>2. /\ data[h] \notin Block /\ data[g] \in Block \union {NotBuilt, Empty}
      /\ data[g] \in Block => data[g] \in DOMAIN heap.blocks
  BY <1>1, HandlesAssumption DEF Data, Live, Points
<1>3. /\ heap' \in Heap /\ data' \in Data /\ Fits(heap', data') /\ Owned(heap')
      /\ Exact(heap, data) => Exact(heap', data')
  BY <1>1, <1>2, AddKeeps DEF Running
<1>4. QED
  BY <1>1, <1>3 DEF Inv, Running, Fits, Exact, Owned, On, Pointers

LEMMA MoveConstructCorrect ==
  ASSUME Inv, NEW h \in Handle, NEW g \in Handle, MoveConstruct(h, g) PROVE Inv'
<1>1. /\ data' = [data EXCEPT ![h] = data[g], ![g] = Empty]
      /\ UNCHANGED <<kind, status, heap, forgotten, overdrawn>> /\ status = "running" /\ Running
      /\ data[h] = NotBuilt /\ data[g] # NotBuilt /\ heap \in Heap /\ data \in Data
  BY DEF MoveConstruct, Inv, Built
<1>2. h # g /\ data[h] \notin Block
  BY <1>1, HandlesAssumption
<1>3. data' \in Data /\ Fits(heap, data') /\ (Exact(heap, data) => Exact(heap, data'))
  BY <1>1, <1>2, MoveKeeps DEF Running
<1>4. Owned(heap)'
  BY <1>1 DEF Running, Owned, Pointers
<1>5. Fits(heap, data)' /\ (Exact(heap, data) => Exact(heap, data)')
  BY <1>1, <1>3 DEF Fits, Exact, On
<1>6. QED
  BY <1>1, <1>3, <1>4, <1>5 DEF Inv, Running

(* A copy lets go of the block of the handle and takes another; of the     *)
(* same block, it only raises the count.                                   *)
LEMMA CopyAssignCorrect ==
  ASSUME Inv, NEW h \in Handle, NEW g \in Handle, CopyAssign(h, g) PROVE Inv'
<1> DEFINE w == Without(h)
           e == [data EXCEPT ![h] = Empty]
           c == data[g]
<1>1. /\ heap' = Incr(IF data[h] = c THEN heap ELSE w, c)
      /\ data' = [data EXCEPT ![h] = c]
      /\ forgotten' = (forgotten \/ (Points(h) /\ data[h] = c))
      /\ UNCHANGED <<kind, status, overdrawn>> /\ status = "running" /\ Running /\ h # g
      /\ Live(g) /\ (data[h] # c => Live(h))
      /\ heap \in Heap /\ data \in Data /\ kind \in {"view", "stored"} /\ forgotten \in BOOLEAN
  BY DEF CopyAssign, Lowerable, Inv
<1>2. /\ c \in Block \union {NotBuilt, Empty}
      /\ c \in Block => c \in DOMAIN heap.blocks
  BY <1>1 DEF Data, Live, Points
<1>3. /\ heap' \in Heap /\ data' \in Data /\ Fits(heap', data') /\ Owned(heap')
      /\ Exact(heap, data) /\ ~forgotten' => Exact(heap', data')
  <2>1. CASE data[h] = c /\ c \in Block
    <3>1. heap' = Incr(heap, c) /\ data' = data /\ forgotten'
      BY <1>1, <2>1 DEF Points, Data
    <3>2. /\ heap' \in Heap /\ heap'.transitions = heap.transitions /\ heap'.pool = heap.pool
          /\ heap'.broken = heap.broken /\ DOMAIN heap'.blocks = DOMAIN heap.blocks
          /\ \A b \in DOMAIN heap.blocks :
               /\ heap'.blocks[b].pointer = heap.blocks[b].pointer
               /\ heap'.blocks[b].refcount = heap.blocks[b].refcount + IF b = c THEN 1 ELSE 0
      BY <1>1, <1>2, <2>1, <3>1, IncrFacts
    <3>3. Owned(heap')
      BY <1>1, <3>2, OwnedKept DEF Running
    <3>4. \A b \in DOMAIN heap.blocks : /\ Cardinality(On(data, b)) \in Nat
                                        /\ heap.blocks[b].refcount \in Int
      BY <1>1, OnFinite, BlockMapFacts DEF Heap
    <3>5. Fits(heap', data')
      BY <1>1, <3>1, <3>2, <3>4 DEF Running, Fits
    <3>6. QED
      BY <1>1, <3>1, <3>2, <3>3, <3>5
  <2>2. CASE data[h] = c /\ c \notin Block
    <3>1. heap' = heap /\ data' = data
      BY <1>1, <2>2 DEF Incr, Data
    <3>2. QED
      BY <1>1, <3>1 DEF Running
  <2>3. CASE data[h] # c
    <3>1. /\ w \in Heap /\ e \in Data /\ Fits(w, e) /\ Owned(w)
          /\ Exact(heap, data) => Exact(w, e)
          /\ DOMAIN heap.blocks \ {data[h]} \subseteq DOMAIN w.blocks
      BY <1>1, <2>3, DropKeeps DEF Running
    <3>2. /\ e[h] \notin Block /\ e[g] = c
          /\ data' = [e EXCEPT ![h] = c] /\ heap' = Incr(w, c)
      BY <1>1, <2>3, HandlesAssumption DEF Data
    <3> HIDE DEF w, e, c
    <3>3. c \in Block => c \in DOMAIN w.blocks
      BY <1>2, <2>3, <3>1
    <3>4. /\ Incr(w, c) \in Heap /\ [e EXCEPT ![h] = c] \in Data
          /\ Fits(Incr(w, c), [e EXCEPT ![h] = c]) /\ Owned(Incr(w, c))
          /\ Exact(w, e) => Exact(Incr(w, c), [e EXCEPT ![h] = c])
      BY <1>2, <3>1, <3>2, <3>3, AddKeeps
    <3>5. QED
      BY <3>1, <3>2, <3>4
  <2>4. QED
    BY <2>1, <2>2, <2>3
<1>4. QED
  BY <1>1, <1>3 DEF Inv, Running, Fits, Exact, Owned, On, Pointers

LEMMA TakenCorrect ==
  ASSUME NEW h \in Handle, NEW g \in Handle, MoveAssign(h, g), heap \in Heap, data \in Data,
         kind \in {"view", "stored"}, Fits(heap, data), Owned(heap),
         IsLast(h) /\ data[h] # data[g]
  PROVE  /\ heap' \in Heap /\ data' \in Data /\ Fits(heap', data') /\ Owned(heap')
         /\ Exact(heap, data) => Exact(heap', data')
<1> DEFINE w == Without(h)
           e == [data EXCEPT ![h] = Empty]
<1>1. h # g /\ Live(h) /\ heap' = w /\ data' = [data EXCEPT ![h] = data[g], ![g] = Empty]
  BY DEF MoveAssign, Without, Lowerable
<1>2. /\ w \in Heap /\ e \in Data /\ Fits(w, e) /\ Owned(w)
      /\ Exact(heap, data) => Exact(w, e)
  BY <1>1, DropKeeps
<1>3. e[h] \notin Block /\ data' = [e EXCEPT ![h] = e[g], ![g] = Empty]
  BY <1>1, HandlesAssumption DEF Data
<1> HIDE DEF w, e
<1>4. LET f == [e EXCEPT ![h] = e[g], ![g] = Empty] IN
      f \in Data /\ Fits(w, f) /\ (Exact(w, e) => Exact(w, f))
  BY <1>1, <1>2, <1>3, MoveKeeps
<1>5. QED
  BY <1>1, <1>2, <1>3, <1>4

(* A move takes the block of g where the handle was the last on its own,   *)
(* which is the copy that leaves g empty; else it lowers a count, and the  *)
(* block of it is overdrawn if other handles have it too.                  *)
LEMMA MoveAssignCorrect ==
  ASSUME Inv, NEW h \in Handle, NEW g \in Handle, MoveAssign(h, g) PROVE Inv'
<1> DEFINE taken == IsLast(h) /\ data[h] # data[g]
           left == Shared(h) /\ data[h] # data[g]
           w == Without(h)
           e == [data EXCEPT ![h] = Empty]
<1>1. /\ status = "running" /\ Running /\ heap \in Heap /\ data \in Data
      /\ kind \in {"view", "stored"} /\ forgotten \in BOOLEAN /\ UNCHANGED <<kind, status>>
      /\ Live(h)
      /\ overdrawn' = IF left THEN overdrawn \union {data[h]} ELSE overdrawn
  BY DEF MoveAssign, Lowerable, Inv
<1>2. ASSUME ~left
      PROVE  /\ heap' \in Heap /\ data' \in Data /\ Fits(heap', data') /\ Owned(heap')
             /\ Exact(heap, data) /\ ~forgotten' => Exact(heap', data')
  <2>1. CASE taken
    BY <1>1, <2>1, TakenCorrect DEF Running
  <2>2. CASE ~taken
    <3>1. /\ heap' = Decr(heap, data[h]) /\ data' = [data EXCEPT ![g] = Empty]
          /\ ~forgotten' => ~(Points(g) /\ data[h] # data[g]) /\ ~(h = g /\ IsLast(h))
      BY <2>2 DEF MoveAssign
    <3>2. data[h] = data[g] \/ (~IsLast(h) /\ ~Shared(h))
      BY <1>2, <2>2
    <3>3. QED
      BY <1>1, <3>1, <3>2, LowerKeeps DEF Running
  <2>3. QED
    BY <2>1, <2>2
<1>3. forgotten' \in BOOLEAN /\ (~forgotten' => ~forgotten)
  BY <1>1 DEF MoveAssign
<1>4. heap' \in Heap /\ data' \in Data /\ Running'
  <2>1. CASE ~left
    <3>1. UNCHANGED <<kind, overdrawn>>
      BY <1>1, <2>1
    <3>2. QED
      BY <1>1, <1>2, <1>3, <2>1, <3>1 DEF Running, Fits, Exact, On, Owned, Pointers
  <2>2. CASE left /\ taken
    <3>1. /\ heap' \in Heap /\ data' \in Data /\ Fits(heap', data') /\ Owned(heap')
          /\ Exact(heap, data) /\ ~forgotten' => Exact(heap', data')
      BY <1>1, <2>2, TakenCorrect DEF Running
    <3>2. overdrawn \subseteq overdrawn'
      BY <1>1
    <3>3. Fits(heap, data)' /\ (Exact(heap, data) /\ ~forgotten' => Exact(heap, data)')
      BY <3>1, <3>2 DEF Fits, Exact, On
    <3>4. QED
      BY <1>1, <1>3, <3>1, <3>3 DEF Running, Owned, Pointers
  <2>3. CASE left /\ ~taken
    <3>1. /\ heap' = Decr(heap, data[h]) /\ data' = [data EXCEPT ![g] = Empty]
          /\ ~forgotten' => ~Points(g)
          /\ overdrawn' = overdrawn \union {data[h]}
      BY <1>1, <2>3 DEF MoveAssign
    <3>2. Points(h)
      BY <2>3 DEF Shared
    <3>3. /\ heap' \in Heap /\ data' \in Data /\ Owned(heap')
          /\ \A k \in Handle : data'[k] \in Block \ overdrawn' => data'[k] \in DOMAIN heap'.blocks
          /\ \A b \in DOMAIN heap'.blocks \ overdrawn' :
               Cardinality(On(data', b)) <= heap'.blocks[b].refcount
          /\ Exact(heap, data) /\ ~Points(g) =>
               \A b \in DOMAIN heap'.blocks \ overdrawn' :
                 Cardinality(On(data', b)) = heap'.blocks[b].refcount /\ On(data', b) # {}
      <4>1. Fits(heap, data) /\ Owned(heap) /\ data[h] # data[g]
        BY <1>1, <2>3 DEF Running
      <4> DEFINE q == Decr(heap, data[h])
                 f == [data EXCEPT ![g] = Empty]
                 o == overdrawn \union {data[h]}
      <4>2. /\ q \in Heap /\ f \in Data /\ Owned(q)
            /\ \A k \in Handle : f[k] \in Block \ o => f[k] \in DOMAIN q.blocks
            /\ \A b \in DOMAIN q.blocks \ o : Cardinality(On(f, b)) <= q.blocks[b].refcount
            /\ Exact(heap, data) /\ ~Points(g) =>
                 \A b \in DOMAIN q.blocks \ o :
                   Cardinality(On(f, b)) = q.blocks[b].refcount /\ On(f, b) # {}
        BY <1>1, <3>2, <4>1, LeaveKeeps
      <4>3. heap' = q /\ data' = f /\ overdrawn' = o
        BY <3>1
      <4> HIDE DEF q, f, o
      <4>4. QED
        BY <4>2, <4>3
    <3>4. Owned(heap)'
      BY <1>1, <3>3 DEF Owned, Pointers
    <3>5. QED
      BY <1>1, <1>3, <3>1, <3>3, <3>4 DEF Running, Fits, Exact, On
  <2>4. QED
    BY <2>1, <2>2, <2>3
<1>5. QED
  BY <1>1, <1>3, <1>4 DEF Inv

(* Only a handle on an overdrawn block has one that is gone.               *)
LEMMA UseFreedCorrect ==
  ASSUME Inv, NEW h \in Handle, UseFreed(h) PROVE Inv'
<1>1. /\ Running /\ status = "running" /\ status' = "undefined" /\ ~Live(h)
      /\ UNCHANGED <<kind, heap, data, forgotten, overdrawn>>
  BY DEF UseFreed, Inv
<1>2. data[h] \in overdrawn
  BY <1>1 DEF Running, Fits, Live, Points
<1>3. QED
  BY <1>1, <1>2 DEF Inv, Running, Fits, Exact, Owned, On, Pointers

(* What the system frees at its end is what it has, and none but overdrawn *)
(* blocks are left if no handle was forgotten.                             *)
LEMMA EndCorrect ==
  ASSUME Inv, End PROVE Inv'
<1>1. /\ Running /\ status' = "ended" /\ \A h \in Handle : ~Built(h)
      /\ UNCHANGED <<kind, data, forgotten, overdrawn>>
      /\ heap \in Heap /\ data \in Data /\ kind \in {"view", "stored"} /\ forgotten \in BOOLEAN
  BY DEF End, Inv
<1>2. (IF kind = "view" THEN heap.pool ELSE heap.transitions) = heap.transitions
  BY <1>1 DEF Running, Owned
<1>3. heap' = [heap EXCEPT !.transitions = @ \ heap.transitions, !.pool = {},
                           !.broken = @ \/ ~(heap.transitions \subseteq heap.transitions)]
  BY <1>2 DEF End
<1>4. heap' \in Heap /\ heap'.transitions = {} /\ ~heap'.broken /\ heap'.blocks = heap.blocks
  BY <1>1, <1>3 DEF Heap, Running, Owned
<1>5. ~forgotten => DOMAIN heap.blocks \subseteq overdrawn
  <2>1. \A b \in DOMAIN heap.blocks : b \in Block
    BY <1>1, BlockMapFacts DEF Heap
  <2>2. \A b \in DOMAIN heap.blocks : On(data, b) = {}
    BY <1>1, <2>1, HandlesAssumption DEF On, Built
  <2>3. QED
    BY <1>1, <2>2 DEF Running, Exact
<1>6. QED
  BY <1>1, <1>4, <1>5 DEF Inv, Built

LEMMA NextCorrect == Inv /\ [Next]_vars => Inv'
<1> SUFFICES ASSUME Inv, [Next]_vars PROVE Inv'
  OBVIOUS
<1>1. ASSUME NEW t \in Transition, Store(t) PROVE Inv'
  BY <1>1, StoreCorrect
<1>2. ASSUME NEW h \in Handle, NEW t \in Transition, NEW b \in Block, Dereference(h, t, b)
      PROVE  Inv'
  BY <1>2, DereferenceCorrect
<1>3. ASSUME NEW h \in Handle, Destroy(h) PROVE Inv'
  BY <1>3, DestroyCorrect
<1>4. ASSUME NEW h \in Handle, NEW g \in Handle, CopyConstruct(h, g) PROVE Inv'
  BY <1>4, CopyConstructCorrect
<1>5. ASSUME NEW h \in Handle, NEW g \in Handle, MoveConstruct(h, g) PROVE Inv'
  BY <1>5, MoveConstructCorrect
<1>6. ASSUME NEW h \in Handle, NEW g \in Handle, CopyAssign(h, g) PROVE Inv'
  BY <1>6, CopyAssignCorrect
<1>7. ASSUME NEW h \in Handle, NEW g \in Handle, MoveAssign(h, g) PROVE Inv'
  BY <1>7, MoveAssignCorrect
<1>8. ASSUME NEW h \in Handle, UseFreed(h) PROVE Inv'
  BY <1>8, UseFreedCorrect
<1>9. CASE End
  BY <1>9, EndCorrect
<1>10. CASE UNCHANGED vars
  BY <1>10 DEF vars, Inv, Running, Fits, Exact, Owned, On, Pointers, Built
<1>11. QED
  BY <1>1, <1>2, <1>3, <1>4, <1>5, <1>6, <1>7, <1>8, <1>9, <1>10 DEF Next

LEMMA InvHolds == Spec => []Inv
  BY InitCorrect, NextCorrect, PTL DEF Spec

-----------------------------------------------------------------------------
(* No sequence of copies, moves, assignments and destructions leaves a     *)
(* handle on a block or a transition that is gone (TransitionPtr), however *)
(* many handles there are, but on blocks that a move assignment left with  *)
(* handles they do not count; and only those are used once they are gone.  *)
THEOREM NoHandleDangles == Spec => []NeverDangling
<1>1. Inv => NeverDangling
  <2> SUFFICES ASSUME Inv, NEW h \in Handle, Points(h), data[h] \notin overdrawn
               PROVE  /\ data[h] \in DOMAIN heap.blocks
                      /\ heap.blocks[data[h]].pointer \in heap.transitions
    BY DEF NeverDangling, Inv
  <2>1. Running /\ kind \in {"view", "stored"}
    BY HandlesAssumption DEF Inv, Points, Built
  <2>2. data[h] \in DOMAIN heap.blocks
    BY <2>1 DEF Running, Fits, Points
  <2>3. heap.blocks[data[h]].pointer \in Pointers(heap)
    BY <2>2 DEF Pointers
  <2>4. QED
    BY <2>1, <2>2, <2>3 DEF Running, Owned
<1>2. QED
  BY <1>1, InvHolds, PTL

(* A transition a view made, and its block, are freed with the last handle *)
(* on them and not before, unless an assignment forgot a handle or left it *)
(* uncounted.                                                              *)
THEOREM LastHandleFrees == Spec => []FreedWithLastHandle
<1>1. Inv => FreedWithLastHandle
  <2> DEFINE Pointed == {data[h] : h \in {g \in Handle : Points(g)}}
  <2> SUFFICES ASSUME Inv, ~forgotten
               PROVE  /\ DOMAIN heap.blocks \ overdrawn = Pointed \ overdrawn
                      /\ kind = "view" /\ status # "ended" =>
                           heap.transitions = Pointers(heap)
    BY DEF FreedWithLastHandle, Pointers
  <2>1. CASE status # "ended"
    <3>1. Fits(heap, data) /\ Exact(heap, data) /\ Owned(heap)
      BY <2>1 DEF Inv, Running
    <3>2. DOMAIN heap.blocks \subseteq Block
      BY BlockMapFacts DEF Inv, Heap
    <3>3. \A b \in DOMAIN heap.blocks \ overdrawn : \E h \in Handle : Points(h) /\ data[h] = b
      BY <3>1, <3>2 DEF Exact, On, Points
    <3>4. \A h \in Handle : Points(h) /\ data[h] \notin overdrawn => data[h] \in DOMAIN heap.blocks
      BY <3>1 DEF Fits, Points
    <3>5. QED
      BY <3>1, <3>3, <3>4 DEF Owned
  <2>2. CASE status = "ended"
    BY <2>2, HandlesAssumption DEF Inv, Built, Points
  <2>3. QED
    BY <2>1, <2>2
<1>2. QED
  BY <1>1, InvHolds, PTL

(* Every transition is freed exactly once, by a handle or at the end of    *)
(* the system, and a view never refuses one it makes (RefControlBlock), as *)
(* far as the program is followed: until a block that is gone is used.     *)
THEOREM EachFreedOnce == Spec => []FreedOnce
<1>1. Inv => FreedOnce
  BY DEF Inv, Running, Owned, FreedOnce
<1>2. QED
  BY <1>1, InvHolds, PTL
=============================================================================
