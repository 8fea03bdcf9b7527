--------------------------- MODULE TransitionHandles ---------------------------
(***************************************************************************)
(* The handles on the transitions of a transition system (TransitionPtr),  *)
(* the counted blocks they share (SmartBlock) and the owner of the         *)
(* transitions (ControlBlock): in a view, which makes a transition each    *)
(* time an iterator is looked at, the control block owns and frees it      *)
(* (RefControlBlock); in a stored system the system does, and its control  *)
(* block does nothing (DumbControlBlock).                                  *)
(*                                                                         *)
(* Transitions and blocks are addresses, given out again once they are     *)
(* free.                                                                   *)
(***************************************************************************)
EXTENDS Integers, FiniteSets

CONSTANTS
  Transition,  \* addresses of transitions
  Block,       \* addresses of counted blocks
  Handle,      \* variables of the clients
  MaxCount,    \* bound on the count of a block, on both sides of 0
  NotBuilt,    \* a handle outside its lifetime
  Empty        \* one that points to nothing

ASSUME HandlesAssumption ==
  /\ IsFiniteSet(Handle) /\ MaxCount \in Nat
  /\ NotBuilt \notin Block /\ Empty \notin Block /\ NotBuilt # Empty

VARIABLES
  kind,      \* the system: "view" or "stored"
  status,    \* "running", "ended"; "thrown" if it refused a transition;
             \* "undefined" if a block that is gone was used
  heap,      \* what exists: transitions, the pool of them that the control block
             \* manages, blocks; and whether one was freed that did not exist
  data,      \* _data of every handle
  forgotten, \* history: an assignment dropped a handle without counting it
  overdrawn  \* history: the blocks a move left a handle on that they do not count

vars == <<kind, status, heap, data, forgotten, overdrawn>>

Init ==
  /\ kind \in {"view", "stored"}
  /\ status = "running"
  /\ heap = [transitions |-> {}, pool |-> {}, blocks |-> <<>>, broken |-> FALSE]
  /\ data = [h \in Handle |-> NotBuilt]
  /\ forgotten = FALSE
  /\ overdrawn = {}

Built(h) == data[h] # NotBuilt
Points(h) == data[h] \in Block
Count(b) == heap.blocks[b].refcount
IsLast(h) == Points(h) /\ Count(data[h]) = 1
Shared(h) == \E g \in Handle \ {h} : Points(h) /\ data[g] = data[h]

\* What is done to the block of a handle needs one that exists.  Counts are of
\* size_t: a negative one stands for one that wrapped, and is not 1 either.
Live(h) == Points(h) => data[h] \in DOMAIN heap.blocks
Lowerable(h) == Live(h) /\ (Points(h) => Count(data[h]) > -MaxCount)

(***************************************************************************)
(* The control block and the counted blocks.                               *)
(***************************************************************************)
\* declare, of a RefControlBlock.
Declared(t) == IF kind = "view" THEN heap.pool \union {t} ELSE heap.pool

\* release, of a RefControlBlock.  Mutant: what is released stays in the pool.
FreedKept(hp, t) == [hp EXCEPT !.transitions = @ \ {t}, !.broken = @ \/ t \notin hp.transitions]
Freed(hp, t) ==
  [hp EXCEPT !.pool = @ \ {t}, !.transitions = @ \ {t}, !.broken = @ \/ t \notin hp.transitions]

\* ~SmartBlock
Deleted(hp, b) ==
  LET rest == [hp EXCEPT !.blocks = [c \in DOMAIN @ \ {b} |-> @[c]]]
  IN IF kind = "view" THEN Freed(rest, hp.blocks[b].pointer) ELSE rest

\* incr().  Mutant: the copy of a handle is not counted.
Uncounted(hp, d) == hp
Incr(hp, d) == IF d \in Block THEN [hp EXCEPT !.blocks[d].refcount = @ + 1] ELSE hp
Decr(hp, d) == IF d \in Block THEN [hp EXCEPT !.blocks[d].refcount = @ - 1] ELSE hp

\* What remains when a handle lets go of its block.  Mutant: the last one only
\* lowers the count.
Decremented(h) == Decr(heap, data[h])
Without(h) == IF IsLast(h) THEN Deleted(heap, data[h]) ELSE Decr(heap, data[h])

(***************************************************************************)
(* The clients.                                                            *)
(***************************************************************************)
\* add_transition of a stored system, for a transition it does not have.
Store(t) ==
  /\ status = "running" /\ kind = "stored" /\ t \notin heap.transitions
  /\ heap' = [heap EXCEPT !.transitions = @ \union {t}]
  /\ UNCHANGED <<kind, status, data, forgotten, overdrawn>>

\* operator* of an iterator: a view makes a transition, a stored system has it.
Dereference(h, t, b) ==
  /\ status = "running" /\ ~Built(h) /\ b \notin DOMAIN heap.blocks
  /\ kind = "view" <=> t \notin heap.transitions
  /\ IF kind = "view" /\ t \in heap.pool
     THEN status' = "thrown" /\ UNCHANGED <<heap, data>>
     ELSE /\ heap' = [heap EXCEPT
                        !.transitions = @ \union {t},
                        !.pool = Declared(t),
                        !.blocks = [c \in DOMAIN @ \union {b} |->
                                      IF c = b THEN [refcount |-> 1, pointer |-> t] ELSE @[c]]]
          /\ data' = [data EXCEPT ![h] = b]
          /\ UNCHANGED status
  /\ UNCHANGED <<kind, forgotten, overdrawn>>

CopyConstruct(h, g) ==
  /\ status = "running" /\ ~Built(h) /\ Built(g) /\ Live(g)
  /\ Points(g) => Count(data[g]) < MaxCount
  /\ heap' = Incr(heap, data[g])
  /\ data' = [data EXCEPT ![h] = data[g]]
  /\ UNCHANGED <<kind, status, forgotten, overdrawn>>

MoveConstruct(h, g) ==
  /\ status = "running" /\ ~Built(h) /\ Built(g)
  /\ data' = [data EXCEPT ![h] = data[g], ![g] = Empty]
  /\ UNCHANGED <<kind, status, heap, forgotten, overdrawn>>

Destroy(h) ==
  /\ status = "running" /\ Built(h) /\ Lowerable(h)
  /\ heap' = Without(h)
  /\ data' = [data EXCEPT ![h] = NotBuilt]
  /\ UNCHANGED <<kind, status, forgotten, overdrawn>>

\* h = g.  A block that both have is counted once more, for no new handle.
CopyAssign(h, g) ==
  /\ status = "running" /\ Built(h) /\ Built(g) /\ h # g
  /\ Live(g) /\ (data[h] # data[g] => Lowerable(h))
  /\ Points(g) => Count(data[g]) < MaxCount
  /\ heap' = Incr(IF data[h] = data[g] THEN heap ELSE Without(h), data[g])
  /\ data' = [data EXCEPT ![h] = data[g]]
  /\ forgotten' = (forgotten \/ (Points(h) /\ data[h] = data[g]))
  /\ UNCHANGED <<kind, status, overdrawn>>

\* h = std::move(g).  The handle takes the block only when it was the last on
\* its own; g is left empty in any case.  One of several handles of another
\* block stays on a block that no longer counts it.
MoveAssign(h, g) ==
  LET taken == IsLast(h) /\ data[h] # data[g]
      left == Shared(h) /\ data[h] # data[g] IN
  /\ status = "running" /\ Built(h) /\ Built(g) /\ Lowerable(h)
  /\ heap' = IF taken THEN Deleted(heap, data[h]) ELSE Decr(heap, data[h])
  /\ data' = IF taken THEN [data EXCEPT ![h] = data[g], ![g] = Empty]
             ELSE [data EXCEPT ![g] = Empty]
  /\ forgotten' = (forgotten \/ (Points(g) /\ ~taken /\ data[h] # data[g]) \/ (h = g /\ IsLast(h)))
  /\ overdrawn' = IF left THEN overdrawn \union {data[h]} ELSE overdrawn
  /\ UNCHANGED <<kind, status>>

\* A copy, an assignment or a destruction that counts in a block that is gone:
\* what the program does then is not followed.
UseFreed(h) ==
  /\ status = "running" /\ Built(h) /\ ~Live(h)
  /\ status' = "undefined"
  /\ UNCHANGED <<kind, heap, data, forgotten, overdrawn>>

\* The end of the system, which frees what it owns.  Clients end it last.
End ==
  /\ status = "running" /\ \A h \in Handle : ~Built(h)
  /\ status' = "ended"
  /\ LET owned == IF kind = "view" THEN heap.pool ELSE heap.transitions IN
     heap' = [heap EXCEPT !.transitions = @ \ owned, !.pool = {},
                          !.broken = @ \/ ~(owned \subseteq heap.transitions)]
  /\ UNCHANGED <<kind, data, forgotten, overdrawn>>

Next ==
  \/ \E t \in Transition : Store(t)
  \/ \E h \in Handle, t \in Transition, b \in Block : Dereference(h, t, b)
  \/ \E h \in Handle : Destroy(h) \/ UseFreed(h)
  \/ \E h, g \in Handle : \/ CopyConstruct(h, g) \/ MoveConstruct(h, g)
                          \/ CopyAssign(h, g) \/ MoveAssign(h, g)
  \/ End

Spec == Init /\ [][Next]_vars

-----------------------------------------------------------------------------
(* No handle points to a block or a transition that is gone, whatever was  *)
(* copied, moved, assigned and destroyed before, except on blocks that a   *)
(* move assignment left with one they do not count: the count of the       *)
(* others is never below the number of their handles (TransitionPtr), and  *)
(* only the former are ever used when they are gone.                       *)
NeverDangling ==
  /\ \A h \in Handle : Points(h) /\ data[h] \notin overdrawn =>
       /\ data[h] \in DOMAIN heap.blocks
       /\ heap.blocks[data[h]].pointer \in heap.transitions
  /\ status = "undefined" => overdrawn # {}

(* A transition a view made, and its block, exist exactly as long as a     *)
(* handle points to them, unless an assignment forgot one or left one      *)
(* uncounted: handles free what each look at an iterator allocates.  The   *)
(* end of the system frees the transition of a block left uncounted.       *)
FreedWithLastHandle ==
  ~forgotten =>
    /\ DOMAIN heap.blocks \ overdrawn = {data[h] : h \in {g \in Handle : Points(g)}} \ overdrawn
    /\ kind = "view" /\ status # "ended" =>
         heap.transitions = {heap.blocks[b].pointer : b \in DOMAIN heap.blocks}

(* Every transition is freed once: none twice, none left when the system   *)
(* has ended, even one that was forgotten, and no address is refused       *)
(* because its last use was not erased (RefControlBlock).  What uses a     *)
(* block that is gone may do all of this: see NeverDangling.               *)
FreedOnce ==
  /\ ~heap.broken
  /\ status # "thrown"
  /\ status = "ended" => heap.transitions = {}
=============================================================================
