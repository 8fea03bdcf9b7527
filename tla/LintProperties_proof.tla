---------------------- MODULE LintProperties_proof ----------------------
(***************************************************************************)
(* Properties of src/cpplint.py, proved for files of any number and length.*)
(*                                                                         *)
(* UpdatePreprocessor: for any reading of a line without its directive, its*)
(* two stacks implement the reading of the first branches alone            *)
(* (ActiveNesting).                                                        *)
(*                                                                         *)
(* CountsAgree, FunctionSizesExact and IncludesExact: what is counted, what*)
(* is reported of a function that is too long and what is reported of an   *)
(* include that is misplaced or repeated.                                  *)
(*                                                                         *)
(* PrintedExact: of what is raised, what the command line and the NOLINT   *)
(* comments of the same file and line let through is what is printed.      *)
(*                                                                         *)
(* DepthKept: the blocks open against the braces of the lines that count.  *)
(***************************************************************************)
EXTENDS LintProperties, NatLemmas, FiniteSetTheorems

(***************************************************************************)
(* The preprocessor.                                                       *)
(***************************************************************************)
Info(S) == [stack_before_if : S, stack_before_else : S, seen_else : BOOLEAN]

(* The conditionals are a stack of what UpdatePreprocessor saves.          *)
Saved == \E S : pp_stack \in Seq(Info(S))

(* ActiveStack and SeenElse, of any stacks.                                *)
DeadIn(pp) == {i \in DOMAIN pp : pp[i].seen_else}
ActiveOf(s, pp) == IF DeadIn(pp) = {} THEN s ELSE pp[Min(DeadIn(pp))].stack_before_else
SeenOf(pp) == [i \in DOMAIN pp |-> pp[i].seen_else]

(* What a directive may do to the stacks s and pp, which become t and qq:  *)
(* when the next line counts, t is the stack of the lines that counted;    *)
(* when it does not, that stack stays where it is.                         *)
Follows(s, pp, t, qq) ==
  /\ DeadIn(qq) = {} => t = ActiveOf(s, pp)
  /\ DeadIn(qq) # {} => \A u : ActiveOf(u, qq) = ActiveOf(s, pp)

(* A sequence without its last element.                                    *)
LEMMA FrontFacts ==
  ASSUME NEW S, NEW q \in Seq(S), q # <<>>
  PROVE  /\ Len(q) \in Nat /\ Len(q) >= 1
         /\ Front(q) \in Seq(S) /\ Len(Front(q)) = Len(q) - 1
         /\ DOMAIN Front(q) = 1 .. Len(q) - 1
         /\ \A i \in 1 .. Len(q) - 1 : Front(q)[i] = q[i]
         /\ Last(q) = q[Len(q)] /\ Last(q) \in S
<1>1. Len(q) \in Nat /\ Len(q) >= 1 /\ Last(q) \in S
  BY DEF Last
<1>2. /\ SubSeq(q, 1, Len(q) - 1) \in Seq(S) /\ Len(SubSeq(q, 1, Len(q) - 1)) = Len(q) - 1
      /\ \A i \in 1 .. Len(q) - 1 : SubSeq(q, 1, Len(q) - 1)[i] = q[i]
  BY <1>1, PopFacts
<1>3. Front(q) = SubSeq(q, 1, Len(q) - 1) /\ Last(q) = q[Len(q)]
  BY DEF Front, Last
<1>4. DOMAIN Front(q) = 1 .. Len(q) - 1
  BY <1>2, <1>3, LenProperties
<1>5. QED
  BY <1>1, <1>2, <1>3, <1>4

(* The least of a set of indices.                                          *)
LEMMA MinFacts ==
  ASSUME NEW I \in SUBSET Nat, I # {}
  PROVE  Min(I) \in I /\ \A n \in I : Min(I) <= n
BY LeastNat DEF Min

(* The least of a set is the one that is at most the others.               *)
LEMMA MinIs ==
  ASSUME NEW I \in SUBSET Nat, NEW m \in I, \A n \in I : m <= n
  PROVE  Min(I) = m
<1>1. Min(I) \in I /\ Min(I) <= m
  BY MinFacts
<1>2. m <= Min(I) /\ Min(I) \in Nat /\ m \in Nat
  BY <1>1
<1>3. QED
  BY <1>1, <1>2

(* Of a stack of conditionals, whether each has met its #else.             *)
LEMMA SeenFacts ==
  ASSUME NEW S, NEW pp \in Seq(Info(S))
  PROVE  /\ SeenOf(pp) \in Seq(BOOLEAN) /\ Len(SeenOf(pp)) = Len(pp) /\ Len(pp) \in Nat
         /\ \A i \in 1 .. Len(pp) : SeenOf(pp)[i] = pp[i].seen_else
<1>1. DOMAIN pp = 1 .. Len(pp) /\ Len(pp) \in Nat
      /\ \A i \in 1 .. Len(pp) : pp[i].seen_else \in BOOLEAN
  <2>1. DOMAIN pp = 1 .. Len(pp) /\ Len(pp) \in Nat
        /\ \A i \in 1 .. Len(pp) : pp[i] \in Info(S)
    OBVIOUS
  <2>2. \A x \in Info(S) : x.seen_else \in BOOLEAN
    BY DEF Info
  <2>3. QED
    BY <2>1, <2>2
<1>2. SeenOf(pp) \in [1 .. Len(pp) -> BOOLEAN]
  BY <1>1, Zenon DEF SeenOf
<1>3. \A i \in 1 .. Len(pp) : SeenOf(pp)[i] = pp[i].seen_else
  BY <1>1, Zenon DEF SeenOf
<1>4. QED
  BY <1>1, <1>2, <1>3

(* The marks of the branches, with one more and one less.                  *)
LEMMA SeenPush ==
  ASSUME NEW S, NEW pp \in Seq(Info(S)), NEW e \in Info(S)
  PROVE  SeenOf(Append(pp, e)) = Append(SeenOf(pp), e.seen_else)
<1> DEFINE n == Len(pp)
           qq == Append(pp, e)
           x == SeenOf(qq)
           y == Append(SeenOf(pp), e.seen_else)
<1>1. n \in Nat /\ qq \in Seq(Info(S)) /\ Len(qq) = n + 1 /\ qq[n + 1] = e
      /\ \A i \in 1 .. n : qq[i] = pp[i]
  BY PushFacts
<1> HIDE DEF qq
<1>2. e.seen_else \in BOOLEAN
  BY DEF Info
<1>3. /\ SeenOf(pp) \in Seq(BOOLEAN) /\ Len(SeenOf(pp)) = n
      /\ \A i \in 1 .. n : SeenOf(pp)[i] = pp[i].seen_else
  BY SeenFacts
<1>4. /\ x \in Seq(BOOLEAN) /\ Len(x) = n + 1
      /\ \A i \in 1 .. n + 1 : x[i] = qq[i].seen_else
  BY <1>1, SeenFacts
<1>5. /\ y \in Seq(BOOLEAN) /\ Len(y) = n + 1 /\ y[n + 1] = e.seen_else
      /\ \A i \in 1 .. n : y[i] = SeenOf(pp)[i]
  BY <1>2, <1>3, PushFacts
<1>6. \A i \in 1 .. n + 1 : i \in 1 .. n \/ i = n + 1
  BY <1>1
<1> HIDE DEF x, y, n
<1>7. \A i \in 1 .. n + 1 : x[i] = y[i]
  BY <1>1, <1>3, <1>4, <1>5, <1>6, Zenon
<1>8. x = y
  BY <1>4, <1>5, <1>7, SeqEqual
<1>9. QED
  BY <1>8 DEF x, y, qq

LEMMA SeenPop ==
  ASSUME NEW S, NEW pp \in Seq(Info(S)), pp # <<>>
  PROVE  SeenOf(Front(pp)) = Front(SeenOf(pp)) /\ SeenOf(pp) # <<>>
<1> DEFINE n == Len(pp)
           x == SeenOf(Front(pp))
           y == Front(SeenOf(pp))
<1>1. n \in Nat /\ n >= 1 /\ Front(pp) \in Seq(Info(S)) /\ Len(Front(pp)) = n - 1
      /\ \A i \in 1 .. n - 1 : Front(pp)[i] = pp[i]
  BY FrontFacts
<1>2. /\ SeenOf(pp) \in Seq(BOOLEAN) /\ Len(SeenOf(pp)) = n
      /\ \A i \in 1 .. n : SeenOf(pp)[i] = pp[i].seen_else
  BY SeenFacts
<1>3. SeenOf(pp) # <<>>
  BY <1>1, <1>2, EmptySeq
<1>4. /\ x \in Seq(BOOLEAN) /\ Len(x) = n - 1
      /\ \A i \in 1 .. n - 1 : x[i] = Front(pp)[i].seen_else
  BY <1>1, SeenFacts
<1>5. /\ y \in Seq(BOOLEAN) /\ Len(y) = n - 1
      /\ \A i \in 1 .. n - 1 : y[i] = SeenOf(pp)[i]
  BY <1>2, <1>3, FrontFacts
<1>6. 1 .. n - 1 \subseteq 1 .. n
  BY <1>1
<1> HIDE DEF x, y, n
<1>7. \A i \in 1 .. n - 1 : x[i] = y[i]
  BY <1>1, <1>2, <1>4, <1>5, <1>6, Zenon
<1>8. x = y
  BY <1>4, <1>5, <1>7, SeqEqual
<1>9. QED
  BY <1>3, <1>8 DEF x, y

(* #if, #ifdef, #ifndef.                                                   *)
LEMMA IfFollows ==
  ASSUME NEW S, NEW pp \in Seq(Info(S)), NEW s \in S, <<>> \in S
  PROVE  LET qq == Append(pp, PreprocessorInfo(s)) IN
         /\ qq \in Seq(Info(S))
         /\ Follows(s, pp, s, qq)
         /\ SeenOf(qq) = Append(SeenOf(pp), FALSE)
<1> DEFINE info == PreprocessorInfo(s)
           qq == Append(pp, info)
<1>1. info \in Info(S) /\ info.seen_else = FALSE
  BY DEF PreprocessorInfo, Info
<1>2. /\ qq \in Seq(Info(S)) /\ Len(qq) = Len(pp) + 1 /\ Len(pp) \in Nat
      /\ DOMAIN pp = 1 .. Len(pp) /\ DOMAIN qq = 1 .. Len(pp) + 1
      /\ \A i \in 1 .. Len(pp) : qq[i] = pp[i]
      /\ qq[Len(pp) + 1] = info
  BY <1>1
<1> HIDE DEF info, qq
<1>3. DeadIn(qq) = DeadIn(pp)
  BY <1>1, <1>2 DEF DeadIn
<1>4. ASSUME DeadIn(qq) # {} PROVE \A u : ActiveOf(u, qq) = ActiveOf(s, pp)
  <2>1. DeadIn(pp) \in SUBSET Nat /\ DeadIn(pp) \subseteq 1 .. Len(pp)
    BY <1>2 DEF DeadIn
  <2>2. Min(DeadIn(pp)) \in 1 .. Len(pp)
    BY <1>3, <1>4, <2>1, MinFacts
  <2>3. QED
    BY <1>2, <1>3, <1>4, <2>2 DEF ActiveOf
<1>5. DeadIn(qq) = {} => s = ActiveOf(s, pp)
  BY <1>3 DEF ActiveOf
<1>6. SeenOf(qq) = Append(SeenOf(pp), FALSE)
  BY <1>1, SeenPush DEF qq
<1>7. QED
  BY <1>2, <1>4, <1>5, <1>6 DEF Follows, qq, info

(* The stack the conditionals keep once their top is replaced by one that  *)
(* has seen its #else.                                                     *)
LEMMA ElseFollows ==
  ASSUME NEW S, NEW pp \in Seq(Info(S)), NEW s \in S, <<>> \in S, pp # <<>>
  PROVE  LET r == AtElse(s, pp) IN
         /\ r.pp \in Seq(Info(S))
         /\ Follows(s, pp, r.stack, r.pp)
         /\ SeenOf(r.pp) = Append(Front(SeenOf(pp)), TRUE)
<1> DEFINE top == Last(pp)
           info == IF top.seen_else THEN top
                   ELSE [top EXCEPT !.seen_else = TRUE, !.stack_before_else = s]
           qq == Append(Front(pp), info)
           n == Len(pp)
<1>0. AtElse(s, pp) = [stack |-> top.stack_before_if, pp |-> qq]
  BY DEF AtElse
<1>1. /\ n \in Nat /\ n >= 1 /\ top = pp[n] /\ top \in Info(S)
      /\ Front(pp) \in Seq(Info(S)) /\ Len(Front(pp)) = n - 1
      /\ DOMAIN Front(pp) = 1 .. n - 1 /\ DOMAIN pp = 1 .. n
      /\ \A i \in 1 .. n - 1 : Front(pp)[i] = pp[i]
  BY FrontFacts
<1>2. info \in Info(S) /\ info.seen_else = TRUE
      /\ (top.seen_else => info = top)
      /\ (~top.seen_else => info.stack_before_else = s)
  BY <1>1 DEF Info
<1>3. /\ qq \in Seq(Info(S)) /\ Len(qq) = n /\ DOMAIN qq = 1 .. n
      /\ \A i \in 1 .. n - 1 : qq[i] = pp[i]
      /\ qq[n] = info
  BY <1>1, <1>2
<1> HIDE DEF info, qq, n, top
<1>4. DeadIn(qq) = DeadIn(pp) \union {n} /\ DeadIn(pp) \subseteq 1 .. n
  BY <1>1, <1>2, <1>3 DEF DeadIn
<1>5. \A u : ActiveOf(u, qq) = ActiveOf(s, pp)
  <2>1. DeadIn(qq) \in SUBSET Nat /\ DeadIn(pp) \in SUBSET Nat
    BY <1>1, <1>4
  <2>2. CASE DeadIn(pp) = {}
    <3>1. Min(DeadIn(qq)) = n
      BY <1>1, <1>4, <2>1, <2>2, MinIs
    <3>2. ~top.seen_else
      BY <1>1, <2>2 DEF DeadIn
    <3>3. QED
      BY <1>2, <1>3, <1>4, <2>2, <3>1, <3>2 DEF ActiveOf
  <2>3. CASE DeadIn(pp) # {}
    <3> DEFINE m == Min(DeadIn(pp))
    <3>1. m \in DeadIn(pp) /\ \A k \in DeadIn(pp) : m <= k
      BY <2>1, <2>3, MinFacts
    <3>2. m \in 1 .. n
      BY <1>4, <3>1
    <3> HIDE DEF m
    <3>3. Min(DeadIn(qq)) = m
      BY <1>1, <1>4, <2>1, <3>1, <3>2, MinIs
    <3>4. qq[m].stack_before_else = pp[m].stack_before_else
      <4>1. CASE m = n
        BY <1>1, <1>2, <1>3, <3>1, <4>1 DEF DeadIn
      <4>2. CASE m # n
        BY <1>1, <1>3, <3>2, <4>2
      <4>3. QED
        BY <4>1, <4>2
    <3>5. QED
      BY <1>4, <2>3, <3>3, <3>4 DEF ActiveOf, m
  <2>4. QED
    BY <2>2, <2>3
<1>6. SeenOf(qq) = Append(Front(SeenOf(pp)), TRUE)
  <2>1. SeenOf(Front(pp)) = Front(SeenOf(pp))
    BY SeenPop
  <2>2. SeenOf(qq) = Append(SeenOf(Front(pp)), info.seen_else)
    BY <1>1, <1>2, SeenPush DEF qq
  <2>3. QED
    BY <1>2, <2>1, <2>2, Zenon
<1>7. AtElse(s, pp).pp = qq /\ AtElse(s, pp).stack = top.stack_before_if
  BY <1>0
<1>8. QED
  BY <1>3, <1>4, <1>5, <1>6, <1>7 DEF Follows

(* #endif.                                                                 *)
LEMMA EndifFollows ==
  ASSUME NEW S, NEW pp \in Seq(Info(S)), NEW s, pp # <<>>
  PROVE  LET r == AtEndif(s, pp) IN
         /\ r.pp \in Seq(Info(S))
         /\ Follows(s, pp, r.stack, r.pp)
         /\ SeenOf(r.pp) = Front(SeenOf(pp))
<1> DEFINE top == Last(pp)
           qq == Front(pp)
           n == Len(pp)
           t == IF top.seen_else THEN top.stack_before_else ELSE s
<1>0. AtEndif(s, pp) = [stack |-> t, pp |-> qq]
  BY DEF AtEndif
<1>1. /\ n \in Nat /\ n >= 1 /\ top = pp[n] /\ top \in Info(S)
      /\ qq \in Seq(Info(S)) /\ Len(qq) = n - 1
      /\ DOMAIN qq = 1 .. n - 1 /\ DOMAIN pp = 1 .. n
      /\ \A i \in 1 .. n - 1 : qq[i] = pp[i]
  BY FrontFacts
<1>2. (top.seen_else => t = top.stack_before_else) /\ (~top.seen_else => t = s)
  OBVIOUS
<1> HIDE DEF qq, n, top, t
<1>3. DeadIn(qq) = DeadIn(pp) \ {n} /\ DeadIn(pp) \subseteq 1 .. n
      /\ (n \in DeadIn(pp) <=> top.seen_else)
  BY <1>1 DEF DeadIn
<1>4. ASSUME DeadIn(qq) = {} PROVE t = ActiveOf(s, pp)
  <2>1. CASE top.seen_else
    <3>1. DeadIn(pp) = {n}
      BY <1>3, <1>4, <2>1
    <3>2. Min(DeadIn(pp)) = n
      BY <1>1, <3>1, MinIs
    <3>3. QED
      BY <1>1, <1>2, <2>1, <3>1, <3>2 DEF ActiveOf
  <2>2. CASE ~top.seen_else
    BY <1>2, <1>3, <1>4, <2>2 DEF ActiveOf
  <2>3. QED
    BY <2>1, <2>2
<1>5. ASSUME DeadIn(qq) # {} PROVE \A u : ActiveOf(u, qq) = ActiveOf(s, pp)
  <2> DEFINE m == Min(DeadIn(qq))
  <2>1. DeadIn(qq) \in SUBSET Nat /\ DeadIn(pp) \in SUBSET Nat
    BY <1>1, <1>3
  <2>2. m \in DeadIn(qq) /\ \A k \in DeadIn(qq) : m <= k
    BY <1>5, <2>1, MinFacts
  <2>3. m \in 1 .. n - 1 /\ m \in DeadIn(pp)
    BY <1>1, <1>3, <2>2 DEF DeadIn
  <2> HIDE DEF m
  <2>4. \A k \in DeadIn(pp) : m <= k
    BY <1>1, <1>3, <2>2, <2>3
  <2>5. Min(DeadIn(pp)) = m
    BY <2>1, <2>3, <2>4, MinIs
  <2>6. QED
    BY <1>1, <1>5, <2>3, <2>5 DEF ActiveOf, m
<1>6. SeenOf(qq) = Front(SeenOf(pp))
  BY SeenPop DEF qq
<1>7. QED
  BY <1>0, <1>1, <1>4, <1>5, <1>6 DEF Follows

(* Branch of ActiveNesting, of any conditionals.                           *)
BranchOf(q, l) ==
  CASE l.dir \in {"if", "ifdef", "ifndef"} -> Append(q, FALSE)
    [] l.dir = "else" /\ q # <<>> -> Append(Front(q), TRUE)
    [] l.dir = "endif" /\ q # <<>> -> Front(q)
    [] OTHER -> q

(* Any line.                                                               *)
LEMMA DirectiveFollows ==
  ASSUME NEW S, NEW pp \in Seq(Info(S)), NEW s \in S, <<>> \in S, NEW l
  PROVE  LET r == UpdatePreprocessor(s, pp, l) IN
         /\ r.pp \in Seq(Info(S))
         /\ Follows(s, pp, r.stack, r.pp)
         /\ SeenOf(r.pp) = BranchOf(SeenOf(pp), l)
<1> DEFINE r == UpdatePreprocessor(s, pp, l)
<1>1. pp # <<>> <=> SeenOf(pp) # <<>>
  <2>1. SeenOf(pp) \in Seq(BOOLEAN) /\ Len(SeenOf(pp)) = Len(pp)
    BY SeenFacts
  <2>2. QED
    BY <2>1, EmptySeq
<1>2. CASE l.dir \in {"if", "ifdef", "ifndef"}
  <2>1. r.stack = s /\ r.pp = Append(pp, PreprocessorInfo(s))
    BY <1>2 DEF UpdatePreprocessor
  <2>2. BranchOf(SeenOf(pp), l) = Append(SeenOf(pp), FALSE)
    BY <1>2 DEF BranchOf
  <2> HIDE DEF r
  <2>3. QED
    BY <2>1, <2>2, IfFollows DEF r
<1>3. CASE l.dir = "else" /\ pp # <<>>
  <2>1. r = AtElse(s, pp)
    BY <1>3 DEF UpdatePreprocessor
  <2>2. BranchOf(SeenOf(pp), l) = Append(Front(SeenOf(pp)), TRUE)
    BY <1>1, <1>3 DEF BranchOf
  <2> HIDE DEF r
  <2>3. QED
    BY <1>3, <2>1, <2>2, ElseFollows DEF r
<1>4. CASE l.dir = "endif" /\ pp # <<>>
  <2>1. r = AtEndif(s, pp)
    BY <1>4 DEF UpdatePreprocessor
  <2>2. BranchOf(SeenOf(pp), l) = Front(SeenOf(pp))
    BY <1>1, <1>4 DEF BranchOf
  <2> HIDE DEF r
  <2>3. QED
    BY <1>4, <2>1, <2>2, EndifFollows DEF r
<1>5. CASE /\ l.dir \notin {"if", "ifdef", "ifndef"}
           /\ ~(l.dir = "else" /\ pp # <<>>) /\ ~(l.dir = "endif" /\ pp # <<>>)
  <2>1. r = [stack |-> s, pp |-> pp]
    BY <1>5 DEF UpdatePreprocessor
  <2>2. BranchOf(SeenOf(pp), l) = SeenOf(pp)
    BY <1>1, <1>5 DEF BranchOf
  <2>3. Follows(s, pp, s, pp)
    BY DEF Follows, ActiveOf
  <2>4. QED
    BY <2>1, <2>2, <2>3
<1>6. QED
  BY <1>2, <1>3, <1>4, <1>5

(* The state functions of LintProperties are those of its stacks.          *)
LEMMA ActiveIs == ActiveStack = ActiveOf(stack, pp_stack) /\ SeenElse = SeenOf(pp_stack)
BY DEF ActiveStack, SeenElse, ActiveOf, SeenOf, DeadIn

(* What UpdatePreprocessor saves, from the first line on.                  *)
LEMMA SavedStart == pp_stack = <<>> => Saved
<1>1. <<>> \in Seq(Info({}))
  OBVIOUS
<1>2. QED
  BY <1>1 DEF Saved

LEMMA SavedWithStack ==
  ASSUME Saved
  PROVE  \E S : pp_stack \in Seq(Info(S)) /\ stack \in S /\ <<>> \in S
<1>1. PICK S : pp_stack \in Seq(Info(S))
  BY DEF Saved
<1> DEFINE T == S \union {stack, <<>>}
<1>2. Info(S) \subseteq Info(T)
  BY DEF Info
<1>3. pp_stack \in Seq(Info(T))
  BY <1>1, <1>2, SeqMonotonic
<1>4. QED
  BY <1>3

(* A line read: the conditionals keep their form, and its reading is that  *)
(* of ActiveNesting.                                                       *)
LEMMA UpdateReads ==
  ASSUME Saved, Update(lines, linenum), linenum \in 1 .. Len(lines), linenum' = linenum + 1
  PROVE  Saved' /\ Active!Read
<1> DEFINE l == lines[linenum]
           r == UpdatePreprocessor(stack, pp_stack, l)
<1>1. PICK S : pp_stack \in Seq(Info(S)) /\ stack \in S /\ <<>> \in S
  BY SavedWithStack
<1>2. /\ r.pp \in Seq(Info(S))
      /\ Follows(stack, pp_stack, r.stack, r.pp)
      /\ SeenOf(r.pp) = BranchOf(SeenOf(pp_stack), l)
  BY <1>1, DirectiveFollows
<1>3. pp_stack' = r.pp /\ stack' = AfterLine(r.stack, lines, linenum)
  BY DEF Update, AfterLine
<1> HIDE DEF r
<1>4. Saved'
  BY <1>2, <1>3 DEF Saved
<1>5. Active!Branch(l) = BranchOf(SeenElse, l)
  <2>1. Active!Front(SeenElse) = Front(SeenElse)
    BY DEF Active!Front, Front
  <2>2. QED
    BY <2>1 DEF Active!Branch, BranchOf
<1>6. /\ SeenElse' = SeenOf(pp_stack') /\ ActiveStack' = ActiveOf(stack', pp_stack')
      /\ SeenElse' = Active!Branch(l)
  <2>1. SeenElse' = SeenOf(pp_stack') /\ ActiveStack' = ActiveOf(stack', pp_stack')
    BY DEF ActiveStack, SeenElse, ActiveOf, SeenOf, DeadIn
  <2>2. QED
    BY <1>2, <1>3, <1>5, <2>1, ActiveIs
<1>7. Active!Counts(SeenElse') <=> DeadIn(pp_stack') = {}
  BY <1>6 DEF Active!Counts, SeenOf, DeadIn
<1>8. CASE DeadIn(pp_stack') = {}
  <2>1. r.stack = ActiveStack
    BY <1>2, <1>3, <1>8, ActiveIs DEF Follows
  <2>2. ActiveStack' = stack'
    BY <1>6, <1>8 DEF ActiveOf
  <2>3. QED
    BY <1>3, <1>4, <1>6, <1>7, <1>8, <2>1, <2>2 DEF Active!Read
<1>9. CASE DeadIn(pp_stack') # {}
  <2>1. ActiveStack' = ActiveStack
    BY <1>2, <1>3, <1>6, <1>9, ActiveIs DEF Follows
  <2>2. QED
    BY <1>3, <1>4, <1>6, <1>7, <1>9, <2>1 DEF Active!Read
<1>10. QED
  BY <1>8, <1>9

(* The next file: both start again.                                        *)
LEMMA ResetResets ==
  ASSUME NestingReset, linenum' = 1
  PROVE  Saved' /\ Active!Reset
<1>1. stack' = <<>> /\ pp_stack' = <<>>
  BY DEF NestingReset
<1>2. SeenElse' = <<>> /\ ActiveStack' = <<>>
  BY <1>1 DEF SeenElse, ActiveStack
<1>3. Saved'
  <2>1. <<>> \in Seq(Info({}))
    OBVIOUS
  <2>2. QED
    BY <1>1, <2>1 DEF Saved
<1>4. QED
  BY <1>2, <1>3 DEF Active!Reset

(* Saving and restoring the nesting stack around directives                *)
(* (UpdatePreprocessor) amounts to reading the lines of the first branches *)
(* alone, for any number of files of any length, however the directives    *)
(* nest and whether or not they match.                                     *)
THEOREM FirstBranchesAlone == Spec => SkipsElseBranches
<1>1. Init => Saved /\ Active!Init
  <2>1. ASSUME Init PROVE stack = <<>> /\ pp_stack = <<>>
    BY <2>1 DEF Init, NestingInit
  <2>2. ASSUME Init PROVE ActiveStack = <<>> /\ SeenElse = <<>>
    BY <2>1, <2>2 DEF ActiveStack, SeenElse
  <2>3. QED
    BY <2>1, <2>2, SavedStart DEF Active!Init
<1>2. Saved /\ [Next]_vars => Saved' /\ [Active!Next]_Active!vars
  <2> SUFFICES ASSUME Saved, [Next]_vars PROVE Saved' /\ [Active!Next]_Active!vars
    OBVIOUS
  <2>1. CASE UNCHANGED nestingVars
    <3>1. stack' = stack /\ pp_stack' = pp_stack
      BY <2>1 DEF nestingVars
    <3>2. Saved' /\ ActiveStack' = ActiveStack /\ SeenElse' = SeenElse
      BY <3>1 DEF Saved, ActiveStack, SeenElse
    <3>3. QED
      BY <3>2 DEF Active!vars
  <2>2. CASE OpenFile
    <3>1. NestingReset /\ linenum' = 1
      BY <2>2 DEF OpenFile
    <3>2. QED
      BY <3>1, ResetResets DEF Active!Next
  <2>3. CASE ProcessLine
    <3>1. Update(lines, linenum) /\ linenum \in 1 .. Len(lines) /\ linenum' = linenum + 1
      BY <2>3 DEF ProcessLine
    <3>2. QED
      BY <3>1, UpdateReads DEF Active!Next
  <2>4. ASSUME ParseArguments \/ SkipFile \/ CloseFile \/ Exit \/ UNCHANGED vars
        PROVE  UNCHANGED nestingVars
    BY <2>4 DEF ParseArguments, SkipFile, CloseFile, Exit, vars
  <2>5. QED
    BY <2>1, <2>2, <2>3, <2>4 DEF Next
<1>3. QED
  BY <1>1, <1>2, PTL DEF Spec, SkipsElseBranches, Active!Spec

(***************************************************************************)
(* Maxima, folds and sequences of sequences.                               *)
(***************************************************************************)
LEMMA MaxFacts ==
  ASSUME NEW n \in Nat, NEW s \in SUBSET (1 .. n), s # {}
  PROVE  Max(s) \in s /\ (\A i \in s : i <= Max(s))
<1>1. s \in SUBSET Nat /\ \A i \in s : i <= n
  OBVIOUS
<1>2. \E m \in s : \A i \in s : i <= m
  BY <1>1, GreatestNat
<1>3. \E m \in s : \A i \in s : m >= i
  BY <1>1, <1>2
<1>4. Max(s) \in s /\ \A i \in s : Max(s) >= i
  BY <1>3 DEF Max
<1>5. QED
  BY <1>1, <1>4

(* Of the sets of the first indices, those that have the last one.         *)
LEMMA SubsetsUpTo ==
  ASSUME NEW m \in Nat, NEW s \in SUBSET (1 .. m + 1)
  PROVE  /\ m + 1 \in s => Max(s) = m + 1 /\ s \ {Max(s)} \in SUBSET (1 .. m)
         /\ m + 1 \notin s => s \in SUBSET (1 .. m) /\ s \ {Max(s)} \in SUBSET (1 .. m)
         /\ m + 1 \notin s \ {Max(s)}
<1>1. m + 1 \in Nat
  OBVIOUS
<1>2. ASSUME m + 1 \in s PROVE Max(s) = m + 1
  <2>1. Max(s) \in s /\ m + 1 <= Max(s)
    BY <1>1, <1>2, MaxFacts
  <2>2. \A i \in s : i \in Int /\ i <= m + 1
    OBVIOUS
  <2>3. Max(s) \in Int /\ Max(s) <= m + 1
    BY <2>1, <2>2
  <2>4. QED
    BY <2>1, <2>3
<1>3. \A i \in 1 .. m + 1 : i \in 1 .. m \/ i = m + 1
  OBVIOUS
<1>4. QED
  BY <1>2, <1>3


(* What holds of the empty set, and of a set of first indices when it      *)
(* holds of the set without its greatest, holds of all of them.            *)
LEMMA SubsetInduction ==
  ASSUME NEW n \in Nat, NEW T, {} \in T,
         \A s \in SUBSET (1 .. n) : s # {} /\ s \ {Max(s)} \in T => s \in T
  PROVE  SUBSET (1 .. n) \subseteq T
<1> DEFINE P == {m \in Nat : m <= n => SUBSET (1 .. m) \subseteq T}
<1>1. 0 \in P
  <2>1. SUBSET (1 .. 0) = {{}}
    OBVIOUS
  <2>2. QED
    BY <2>1
<1>2. ASSUME NEW m \in P PROVE m + 1 \in P
  <2>1. SUFFICES ASSUME m + 1 <= n, NEW s \in SUBSET (1 .. m + 1) PROVE s \in T
    OBVIOUS
  <2>2. SUBSET (1 .. m) \subseteq T /\ s \in SUBSET (1 .. n) /\ m \in Nat
    BY <2>1
  <2>3. s \in SUBSET (1 .. m) \/ s \ {Max(s)} \in SUBSET (1 .. m)
    BY <2>2, SubsetsUpTo
  <2>4. QED
    BY <2>2, <2>3
<1>3. P = Nat
  <2> HIDE DEF P
  <2>1. P \in SUBSET Nat
    BY DEF P
  <2>2. QED
    BY <1>1, <1>2, <2>1, NatSetInduction
<1>4. QED
  BY <1>3

(* The function that a fold over a sequence stands for: what comes of the  *)
(* elements at a set of indices, the last one last.                        *)
Folds(g, S, step, base, es) ==
  /\ g \in [SUBSET DOMAIN es -> S]
  /\ \A s \in SUBSET DOMAIN es :
       g[s] = IF s = {} THEN base ELSE step[<<g[s \ {Max(s)}], es[Max(s)]>>]

(* A fold over a list has a function that computes it.                     *)
LEMMA FoldExists ==
  ASSUME NEW S, NEW E, NEW step \in [S \X E -> S], NEW base \in S, NEW es \in Seq(E)
  PROVE  \E g : Folds(g, S, step, base, es)
<1> DEFINE Is(g, D) == /\ g \in [SUBSET D -> S]
                       /\ \A s \in SUBSET D :
                            g[s] = IF s = {} THEN base ELSE step[<<g[s \ {Max(s)}], es[Max(s)]>>]
           P == {m \in Nat : m <= Len(es) => \E g : Is(g, 1 .. m)}
<1>0. Len(es) \in Nat /\ DOMAIN es = 1 .. Len(es)
  OBVIOUS
<1>1. 0 \in P
  <2>1. SUBSET (1 .. 0) = {{}}
    OBVIOUS
  <2>2. Is([s \in SUBSET (1 .. 0) |-> base], 1 .. 0)
    BY <2>1
  <2>3. QED
    BY <2>2
<1>2. ASSUME NEW m \in P PROVE m + 1 \in P
  <2>0. m \in Nat /\ (m <= Len(es) => \E g : Is(g, 1 .. m))
    <3> HIDE DEF Is
    <3>1. QED
      OBVIOUS
  <2>s. SUFFICES ASSUME m + 1 <= Len(es) PROVE \E g : Is(g, 1 .. m + 1)
    <3> HIDE DEF Is
    <3>1. QED
      BY <2>0
  <2>1. PICK g : Is(g, 1 .. m)
    <3> HIDE DEF Is
    <3>1. QED
      BY <1>0, <2>0, <2>s
  <2>e. es[m + 1] \in E /\ m \in Nat
    BY <1>0, <2>0, <2>s
  <2> DEFINE Value(s) == IF m + 1 \in s THEN step[<<g[s \ {m + 1}], es[m + 1]>>] ELSE g[s]
             f == [s \in SUBSET (1 .. m + 1) |-> Value(s)]
  <2>2. ASSUME NEW s \in SUBSET (1 .. m + 1)
        PROVE  /\ f[s] \in S
               /\ f[s] = IF s = {} THEN base ELSE step[<<f[s \ {Max(s)}], es[Max(s)]>>]
    <3>1. CASE s = {}
      BY <2>1, <3>1
    <3>2. CASE m + 1 \in s
      <4>1. Max(s) = m + 1 /\ s \ {m + 1} \in SUBSET (1 .. m)
        BY <2>e, <3>2, SubsetsUpTo
      <4>2. f[s \ {m + 1}] = g[s \ {m + 1}] /\ g[s \ {m + 1}] \in S
        BY <2>1, <4>1
      <4>3. f[s] = step[<<g[s \ {m + 1}], es[m + 1]>>]
        BY <3>2
      <4> HIDE DEF f
      <4>4. f[s] \in S
        BY <2>e, <4>2, <4>3
      <4>5. QED
        BY <3>2, <4>1, <4>2, <4>3, <4>4
    <3>3. CASE s # {} /\ m + 1 \notin s
      <4>1. s \in SUBSET (1 .. m) /\ s \ {Max(s)} \in SUBSET (1 .. m)
        BY <2>e, <3>3, SubsetsUpTo
      <4>2. f[s] = g[s]
        BY <3>3
      <4>3. f[s \ {Max(s)}] = g[s \ {Max(s)}]
        BY <4>1
      <4>4. g[s] = step[<<g[s \ {Max(s)}], es[Max(s)]>>] /\ g[s] \in S
        BY <2>1, <3>3, <4>1
      <4> HIDE DEF f
      <4>5. QED
        BY <3>3, <4>2, <4>3, <4>4
    <3>4. QED
      BY <3>1, <3>2, <3>3
  <2>3. f \in [SUBSET (1 .. m + 1) -> S]
    BY <2>2
  <2> HIDE DEF f
  <2>4. Is(f, 1 .. m + 1)
    BY <2>2, <2>3
  <2>5. QED
    BY <2>4
<1>3. P = Nat
  <2> HIDE DEF P
  <2>1. P \in SUBSET Nat
    BY DEF P
  <2>2. QED
    BY <1>1, <1>2, <2>1, NatSetInduction
<1>4. \E g : Is(g, DOMAIN es)
  <2> HIDE DEF Is
  <2>1. Len(es) \in P
    BY <1>0, <1>3
  <2>2. QED
    BY <1>0, <2>1
<1>5. QED
  BY <1>4 DEF Folds

(* What holds of all such functions at all sets holds of the fold: types.  *)
LEMMA FlattenType ==
  ASSUME NEW E, NEW q \in Seq(Seq(E))
  PROVE  FlattenSeq(q) \in Seq(E)
<1>0. Len(q) \in Nat /\ DOMAIN q = 1 .. Len(q) /\ \A i \in 1 .. Len(q) : q[i] \in Seq(E)
  OBVIOUS
<1>1. CASE Len(q) = 0
  <2>1. FlattenSeq(q) = q
    BY <1>1 DEF FlattenSeq
  <2>2. q \in [1 .. 0 -> E]
    BY <1>1, <1>0
  <2>3. QED
    BY <2>1, <2>2
<1>2. CASE Len(q) # 0
  <2> DEFINE n == Len(q)
             flatten[i \in 1 .. n] == IF i = 1 THEN q[i] ELSE flatten[i-1] \o q[i]
             Is(g, m) == g = [i \in 1 .. m |-> IF i = 1 THEN q[i] ELSE g[i-1] \o q[i]]
  <2>1. FlattenSeq(q) = flatten[n]
    BY <1>2 DEF FlattenSeq
  <2>2. flatten = CHOOSE g : Is(g, n)
    BY DEF flatten
  <2> HIDE DEF flatten
  <2> DEFINE P == {m \in Nat : \E g : Is(g, m)}
  <2>3. 0 \in P
    <3>1. Is([i \in 1 .. 0 |-> q], 0)
      OBVIOUS
    <3>2. QED
      BY <3>1
  <2>4. ASSUME NEW m \in P PROVE m + 1 \in P
    <3>1. PICK g : Is(g, m)
      OBVIOUS
    <3> DEFINE Value(i) == IF i = m + 1 THEN (IF i = 1 THEN q[i] ELSE g[i-1] \o q[i]) ELSE g[i]
               f == [i \in 1 .. m + 1 |-> Value(i)]
    <3>2. ASSUME NEW i \in 1 .. m + 1
          PROVE  f[i] = IF i = 1 THEN q[i] ELSE f[i-1] \o q[i]
      <4>1. i # 1 => f[i-1] = g[i-1]
        OBVIOUS
      <4>2. CASE i = m + 1
        BY <4>1, <4>2
      <4>3. CASE i # m + 1
        <5>1. i \in 1 .. m /\ f[i] = g[i]
          BY <4>3
        <5>2. g[i] = IF i = 1 THEN q[i] ELSE g[i-1] \o q[i]
          BY <3>1, <5>1
        <5>3. QED
          BY <4>1, <5>1, <5>2
      <4>4. QED
        BY <4>2, <4>3
    <3> HIDE DEF Value
    <3>3. Is(f, m + 1)
      BY <3>2
    <3> HIDE DEF f, Is
    <3>4. m + 1 \in Nat /\ \E k : Is(k, m + 1)
      BY <3>3
    <3>5. QED
      BY <3>4
  <2>5. P = Nat
    <3> HIDE DEF P
    <3>1. P \in SUBSET Nat
      BY DEF P
    <3>2. QED
      BY <2>3, <2>4, <3>1, NatSetInduction
  <2>6. \E g : Is(g, n)
    BY <1>0, <2>5
  <2>7. Is(flatten, n)
    <3> HIDE DEF Is
    <3>1. QED
      BY <2>2, <2>6
  <2> DEFINE T == {m \in Nat : m + 1 <= n => flatten[m + 1] \in Seq(E)}
  <2>8. 0 \in T
    BY <1>0, <2>7
  <2>9. ASSUME NEW m \in T PROVE m + 1 \in T
    <3> SUFFICES ASSUME (m + 1) + 1 <= n PROVE flatten[(m + 1) + 1] \in Seq(E)
      OBVIOUS
    <3> DEFINE i == (m + 1) + 1
    <3>1. i \in 1 .. n /\ i # 1 /\ i - 1 = m + 1 /\ m + 1 <= n
      BY <1>0
    <3>2. flatten[i] = flatten[i-1] \o q[i]
      BY <2>7, <3>1
    <3>3. flatten[i-1] \in Seq(E) /\ q[i] \in Seq(E)
      BY <1>0, <3>1
    <3> HIDE DEF i
    <3>4. flatten[i-1] \o q[i] \in Seq(E)
      BY <3>3
    <3>5. QED
      BY <3>2, <3>4 DEF i
  <2>10. T = Nat
    <3> HIDE DEF T
    <3>1. T \in SUBSET Nat
      BY DEF T
    <3>2. QED
      BY <2>8, <2>9, <3>1, NatSetInduction
  <2>11. n - 1 \in Nat /\ (n - 1) + 1 = n
    BY <1>0, <1>2
  <2>12. n - 1 \in T
    <3> HIDE DEF T, n
    <3>1. QED
      BY <2>10, <2>11
  <2>13. flatten[n] \in Seq(E)
    BY <2>11, <2>12
  <2>14. QED
    BY <2>1, <2>13
<1>3. QED
  BY <1>1, <1>2

(* The events are met one after the other.                                 *)
StepsOf(h, n, events) == \A k \in 1 .. n : h[k] = Met(h[k-1], events[k])

LEMMA ReportedSteps ==
  ASSUME NEW r, NEW events, NEW n \in Nat, DOMAIN events = 1 .. n
  PROVE  \E h : h[0] = r /\ h[n] = Reported(r, events) /\ StepsOf(h, n, events)
<1> DEFINE iter[s \in SUBSET DOMAIN events] ==
             IF s = {} THEN r ELSE LET x == Max(s) IN Met(iter[s \ {x}], events[x])
           Is(g, S) == g = [s \in SUBSET S |->
                              IF s = {} THEN r ELSE LET x == Max(s) IN Met(g[s \ {x}], events[x])]
<1>1. Reported(r, events) = iter[DOMAIN events]
  BY DEF Reported, FoldLeft, MapThenFoldSet
<1>2. iter = CHOOSE g : Is(g, DOMAIN events)
  BY DEF iter
<1> HIDE DEF iter
<1> DEFINE P == {m \in Nat : \E g : Is(g, 1 .. m)}
<1>3. 0 \in P
  <2>1. SUBSET (1 .. 0) = {{}}
    OBVIOUS
  <2>2. Is([s \in SUBSET (1 .. 0) |-> r], 1 .. 0)
    BY <2>1
  <2>3. QED
    BY <2>2
<1>4. ASSUME NEW m \in P PROVE m + 1 \in P
  <2>1. PICK g : Is(g, 1 .. m)
    OBVIOUS
  <2> DEFINE Value(s) == IF m + 1 \in s THEN Met(g[s \ {m + 1}], events[m + 1]) ELSE g[s]
             f == [s \in SUBSET (1 .. m + 1) |-> Value(s)]
  <2>2. ASSUME NEW s \in SUBSET (1 .. m + 1)
        PROVE  f[s] = IF s = {} THEN r ELSE LET x == Max(s) IN Met(f[s \ {x}], events[x])
    <3>1. CASE s = {}
      BY <2>1, <3>1
    <3>2. CASE m + 1 \in s
      <4>1. Max(s) = m + 1 /\ s \ {m + 1} \in SUBSET (1 .. m)
        BY <3>2, SubsetsUpTo
      <4>2. f[s \ {m + 1}] = g[s \ {m + 1}]
        BY <4>1
      <4>3. f[s] = Met(g[s \ {m + 1}], events[m + 1])
        BY <3>2
      <4> HIDE DEF f
      <4>4. QED
        BY <3>2, <4>1, <4>2, <4>3
    <3>3. CASE s # {} /\ m + 1 \notin s
      <4>1. s \in SUBSET (1 .. m) /\ s \ {Max(s)} \in SUBSET (1 .. m)
        BY <3>3, SubsetsUpTo
      <4>2. f[s] = g[s]
        BY <3>3
      <4>3. f[s \ {Max(s)}] = g[s \ {Max(s)}]
        BY <4>1
      <4>4. g[s] = Met(g[s \ {Max(s)}], events[Max(s)])
        BY <2>1, <3>3, <4>1
      <4> HIDE DEF f
      <4>5. QED
        BY <3>3, <4>2, <4>3, <4>4
    <3>4. QED
      BY <3>1, <3>2, <3>3
  <2> HIDE DEF Value
  <2>3. Is(f, 1 .. m + 1)
    BY <2>2
  <2> HIDE DEF f, Is
  <2>4. m + 1 \in Nat /\ \E k : Is(k, 1 .. m + 1)
    BY <2>3
  <2>5. QED
    BY <2>4
<1>5. P = Nat
  <2> HIDE DEF P
  <2>1. P \in SUBSET Nat
    BY DEF P
  <2>2. QED
    BY <1>3, <1>4, <2>1, NatSetInduction
<1>6. \E g : Is(g, DOMAIN events)
  BY <1>5
<1>7. Is(iter, DOMAIN events)
  <2> HIDE DEF Is
  <2>1. QED
    BY <1>2, <1>6
<1> DEFINE h == [k \in 0 .. n |-> iter[1 .. k]]
<1>8. h[0] = r /\ h[n] = Reported(r, events)
  <2>1. 1 .. 0 = {} /\ {} \in SUBSET DOMAIN events
    OBVIOUS
  <2>2. iter[{}] = r
    BY <1>7, <2>1
  <2>3. QED
    BY <1>1, <2>1, <2>2
<1>9. ASSUME NEW k \in 1 .. n PROVE h[k] = Met(h[k-1], events[k])
  <2>1. 1 .. k \in SUBSET DOMAIN events /\ 1 .. k # {} /\ (1 .. k) \ {k} = 1 .. k - 1
    OBVIOUS
  <2>2. Max(1 .. k) = k
    <3>1. k \in 1 .. k /\ 1 .. k \in SUBSET (1 .. k) /\ k \in Nat
      OBVIOUS
    <3>2. Max(1 .. k) \in 1 .. k /\ k <= Max(1 .. k)
      BY <3>1, MaxFacts
    <3>3. QED
      BY <3>2
  <2>3. iter[1 .. k] = Met(iter[1 .. k - 1], events[k])
    BY <1>7, <2>1, <2>2
  <2>4. h[k] = iter[1 .. k] /\ h[k-1] = iter[1 .. k - 1]
    OBVIOUS
  <2>5. QED
    BY <2>3, <2>4
<1>10. StepsOf(h, n, events)
  BY <1>9 DEF StepsOf
<1> HIDE DEF h
<1>11. QED
  BY <1>8, <1>10

(***************************************************************************)
(* Sequences.                                                              *)
(***************************************************************************)
LEMMA ListFacts ==
  ASSUME NEW S, NEW s \in Seq(S)
  PROVE  /\ IsList(s) /\ Len(s) \in Nat /\ DOMAIN s = 1 .. Len(s)
         /\ ToSet(s) \subseteq S /\ \A i \in 1 .. Len(s) : s[i] \in ToSet(s)
<1>1. Len(s) \in Nat /\ DOMAIN s = 1 .. Len(s) /\ \A i \in 1 .. Len(s) : s[i] \in S
  OBVIOUS
<1>2. s \in [1 .. Len(s) -> ToSet(s)] /\ ToSet(s) \subseteq S
  BY <1>1 DEF ToSet
<1>3. s \in Seq(ToSet(s))
  BY <1>1, <1>2
<1>4. QED
  BY <1>1, <1>2, <1>3 DEF IsList, ToSet

(* A list with one more element.                                           *)
LEMMA AppendFacts ==
  ASSUME NEW s, IsList(s), NEW x
  PROVE  /\ IsList(Append(s, x)) /\ Len(Append(s, x)) = Len(s) + 1
         /\ \A i \in 1 .. Len(s) : Append(s, x)[i] = s[i]
         /\ Append(s, x)[Len(s) + 1] = x
         /\ ToSet(Append(s, x)) = ToSet(s) \cup {x}
         /\ DOMAIN s = 1 .. Len(s) /\ DOMAIN Append(s, x) = 1 .. Len(s) + 1 /\ Len(s) \in Nat
<1>1. s \in Seq(ToSet(s) \cup {x}) /\ x \in ToSet(s) \cup {x}
  <2>1. s \in Seq(ToSet(s))
    BY DEF IsList
  <2>2. QED
    BY <2>1
<1> DEFINE S == ToSet(s) \cup {x}
           t == Append(s, x)
<1>2. /\ t \in Seq(S) /\ Len(t) = Len(s) + 1 /\ Len(s) \in Nat
      /\ DOMAIN s = 1 .. Len(s) /\ DOMAIN t = 1 .. Len(s) + 1
  <2> HIDE DEF S
  <2>1. t \in Seq(S) /\ Len(t) = Len(s) + 1
    BY <1>1 DEF S
  <2>2. QED
    BY <1>1, <2>1 DEF S
<1>3. (\A i \in 1 .. Len(s) : t[i] = s[i]) /\ t[Len(s) + 1] = x
  BY <1>1
<1> HIDE DEF S, t
<1>4. IsList(t)
  BY <1>2, ListFacts
<1>5. ToSet(t) = ToSet(s) \cup {x}
  <2>1. \A i \in 1 .. Len(s) + 1 : i \in 1 .. Len(s) \/ i = Len(s) + 1
    BY <1>2
  <2>2. \A i \in 1 .. Len(s) : i \in 1 .. Len(s) + 1
    BY <1>2
  <2>3. Len(s) + 1 \in 1 .. Len(s) + 1
    BY <1>2
  <2>4. QED
    BY <1>2, <1>3, <2>1, <2>2, <2>3 DEF ToSet
<1>6. QED
  BY <1>2, <1>3, <1>4, <1>5 DEF t

(***************************************************************************)
(* Reports.                                                                *)
(***************************************************************************)
(* The state Error works on.                                               *)
IsState(r) ==
  /\ r = [file |-> r.file, suppressions |-> r.suppressions, count |-> r.count,
          by |-> r.by, raised |-> r.raised, printed |-> r.printed]
  /\ IsList(r.raised) /\ IsList(r.printed)

At(s, c) == {i \in DOMAIN s : CountedAs(s[i]) = c}
ByCategory == counting \in {"toplevel", "detailed"}
BagOf(b, s) ==
  /\ DOMAIN b = {CountedAs(s[i]) : i \in DOMAIN s}
  /\ \A c \in DOMAIN b : b[c] = Cardinality(At(s, c))

Agrees(r) ==
  /\ r.count = Len(r.printed)
  /\ ByCategory => BagOf(r.by, r.printed)

(* One more of a category.                                                 *)
LEMMA BagGrows ==
  ASSUME NEW b, NEW s, IsList(s), NEW x, BagOf(b, s), NEW y, CountedAs(x) = y
  PROVE  BagOf(b (+) SetToBag({y}), Append(s, x))
<1> DEFINE t == Append(s, x)
           n == Len(s) + 1
           new == b (+) SetToBag({y})
<1>1. /\ DOMAIN s = 1 .. Len(s) /\ DOMAIN t = 1 .. n /\ Len(s) \in Nat
      /\ \A i \in 1 .. Len(s) : t[i] = s[i]
      /\ t[n] = x
  BY AppendFacts
<1>2. n \in 1 .. n /\ n \notin 1 .. Len(s) /\ \A i \in 1 .. n : i \in 1 .. Len(s) \/ i = n
  BY <1>1
<1>3. \A i \in 1 .. Len(s) : i \in 1 .. n
  BY <1>1
<1>4. /\ DOMAIN new = DOMAIN b \cup {y}
      /\ \A c \in DOMAIN b \cup {y} :
           new[c] = (IF c \in DOMAIN b THEN b[c] ELSE 0) + (IF c = y THEN 1 ELSE 0)
  BY Zenon DEF SetToBag, (+)
<1> HIDE DEF t, n, new
<1>5. {CountedAs(t[i]) : i \in DOMAIN t} = {CountedAs(s[i]) : i \in DOMAIN s} \cup {y}
  BY <1>1, <1>2, <1>3
<1>6. \A c : At(t, c) = IF c = y THEN At(s, c) \cup {n} ELSE At(s, c)
  BY <1>1, <1>2, <1>3 DEF At
<1>7. \A c : IsFiniteSet(At(s, c)) /\ n \notin At(s, c) /\ Cardinality(At(s, c)) \in Nat
  <2>1. IsFiniteSet(1 .. Len(s))
    BY <1>1, FS_Interval
  <2>2. \A c : At(s, c) \subseteq 1 .. Len(s)
    BY <1>1 DEF At
  <2>3. \A c : IsFiniteSet(At(s, c))
    BY <2>1, <2>2, FS_Subset
  <2>4. QED
    BY <1>2, <2>2, <2>3, FS_CardinalityType
<1>8. Cardinality(At(s, y) \cup {n}) = Cardinality(At(s, y)) + 1
  BY <1>7, FS_AddElement
<1>9. \A c : c \notin DOMAIN b => Cardinality(At(s, c)) = 0
  <2>1. \A c : c \notin DOMAIN b => At(s, c) = {}
    BY DEF BagOf, At
  <2>2. QED
    BY <2>1, FS_EmptySet
<1>10. ASSUME NEW c \in DOMAIN new PROVE new[c] = Cardinality(At(t, c))
  <2>1. (IF c \in DOMAIN b THEN b[c] ELSE 0) = Cardinality(At(s, c))
    BY <1>9 DEF BagOf
  <2>2. new[c] = Cardinality(At(s, c)) + (IF c = y THEN 1 ELSE 0)
    BY <1>4, <1>10, <2>1
  <2>3. QED
    BY <1>6, <1>7, <1>8, <2>2
<1>11. QED
  BY <1>4, <1>5, <1>10 DEF BagOf, t, new

(* Error(): what it raises, and that the counts still agree.               *)
LEMMA ReportFacts ==
  ASSUME NEW r, IsState(r), NEW e
  PROVE  /\ IsState(Report(r, e)) /\ Report(r, e).file = r.file
         /\ Report(r, e).raised = Append(r.raised, InFile(e, r.file))
         /\ Report(r, e).suppressions = r.suppressions
         /\ Report(r, e).printed = IF ShouldPrint(r.suppressions, e)
                                   THEN Append(r.printed, InFile(e, r.file)) ELSE r.printed
         /\ Agrees(r) => Agrees(Report(r, e))
<1> DEFINE named == InFile(e, r.file)
           raising == Append(r.raised, named)
           printing == Append(r.printed, named)
           seen == [r EXCEPT !.raised = raising]
           more == IF ByCategory THEN r.by (+) SetToBag({CountedAs(e)}) ELSE r.by
           full == [file |-> r.file, suppressions |-> r.suppressions, count |-> r.count + 1,
                    by |-> more, raised |-> raising, printed |-> printing]
<1>1. r = [file |-> r.file, suppressions |-> r.suppressions, count |-> r.count,
           by |-> r.by, raised |-> r.raised, printed |-> r.printed]
      /\ IsList(r.raised) /\ IsList(r.printed)
  BY DEF IsState
<1>2. seen = [file |-> r.file, suppressions |-> r.suppressions, count |-> r.count,
              by |-> r.by, raised |-> raising, printed |-> r.printed]
  <2> HIDE DEF raising
  <2>1. QED
    BY <1>1
<1>3. Report(r, e) = IF ShouldPrint(r.suppressions, e) THEN full ELSE seen
  <2>1. Increment(seen, e) = [seen EXCEPT !.count = @ + 1, !.by = more]
    <3> HIDE DEF seen
    <3>1. QED
      BY <1>2 DEF Increment, ByCategory
  <2>2. [Increment(seen, e) EXCEPT !.printed = printing] = full
    <3> HIDE DEF more, raising, printing, seen
    <3>1. Increment(seen, e) = [file |-> r.file, suppressions |-> r.suppressions,
                                count |-> r.count + 1, by |-> more, raised |-> raising,
                                printed |-> r.printed]
      BY <1>2, <2>1
    <3>2. QED
      BY <3>1
  <2>3. Report(r, e) = IF ShouldPrint(r.suppressions, e)
                       THEN [Increment(seen, e) EXCEPT !.printed = Append(@, named)] ELSE seen
    BY DEF Report
  <2>4. Increment(seen, e).printed = r.printed
    <3> HIDE DEF more, raising, seen
    <3>1. QED
      BY <1>2, <2>1
  <2> HIDE DEF full, seen, named
  <2>5. QED
    BY <2>2, <2>3, <2>4
<1>4. IsList(Append(r.raised, named)) /\ IsList(Append(r.printed, named))
      /\ Len(Append(r.printed, named)) = Len(r.printed) + 1
  BY <1>1, AppendFacts
<1>5. CountedAs(named) = CountedAs(e)
  BY DEF CountedAs, InFile
<1>6. ASSUME Agrees(r) PROVE Agrees(full)
  <2>1. full.count = Len(full.printed)
    BY <1>4, <1>6 DEF Agrees
  <2>2. ASSUME ByCategory PROVE BagOf(full.by, full.printed)
    <3>1. BagOf(r.by, r.printed)
      BY <1>6, <2>2 DEF Agrees
    <3>2. BagOf(r.by (+) SetToBag({CountedAs(e)}), Append(r.printed, named))
      BY <1>1, <1>5, <3>1, BagGrows
    <3>3. QED
      BY <2>2, <3>2
  <2>3. QED
    BY <2>1, <2>2 DEF Agrees
<1>7. Agrees(r) => Agrees(seen)
  BY <1>2 DEF Agrees
<1>8. IsState(full) /\ IsState(seen)
  BY <1>2, <1>4, <1>1 DEF IsState
<1>9. full.file = r.file /\ seen.file = r.file /\ full.raised = Append(r.raised, named)
      /\ seen.raised = Append(r.raised, named)
      /\ full.suppressions = r.suppressions /\ seen.suppressions = r.suppressions
      /\ full.printed = Append(r.printed, named) /\ seen.printed = r.printed
  BY <1>2
<1> HIDE DEF full, seen
<1>10. QED
  BY <1>3, <1>6, <1>7, <1>8, <1>9

NolintCategory == <<"readability", "nolint">>

(* The errors of a category that were raised, and those that the first n   *)
(* events of a file raise.                                                 *)
Raising(s, c) == {x \in ToSet(s) : x.category = c}
Meeting(events, n, file, c) ==
  {InFile(events[k], file) : k \in {i \in 1 .. n : ~IsNolint(events[i]) /\ events[i].category = c}}

(* An event raises itself, or one error of the category of comments.       *)
LEMMA MetFacts ==
  ASSUME NEW r, IsState(r), NEW e
  PROVE  /\ IsState(Met(r, e)) /\ Met(r, e).file = r.file
         /\ Agrees(r) => Agrees(Met(r, e))
         /\ ~IsNolint(e) => Met(r, e).raised = Append(r.raised, InFile(e, r.file))
         /\ IsNolint(e) => \/ Met(r, e).raised = r.raised
                           \/ Met(r, e).raised = Append(r.raised, InFile(UnknownNolint(e.line), r.file))
<1>1. CASE ~IsNolint(e)
  <2>1. Met(r, e) = Report(r, e)
    BY <1>1 DEF Met
  <2>2. QED
    BY <1>1, <2>1, ReportFacts
<1>2. CASE IsNolint(e)
  <2>1. Met(r, e) = ParseNolint(r, e)
    BY <1>2 DEF Met
  <2> DEFINE more == r.suppressions \union {<<e.nolint, e.line>>}
             some == [r EXCEPT !.suppressions = more]
             told == Report(r, UnknownNolint(e.line))
  <2>2. ParseNolint(r, e) = r \/ ParseNolint(r, e) = some \/ ParseNolint(r, e) = told
    BY DEF ParseNolint
  <2>3. /\ IsState(told) /\ told.file = r.file /\ (Agrees(r) => Agrees(told))
        /\ told.raised = Append(r.raised, InFile(UnknownNolint(e.line), r.file))
    BY ReportFacts
  <2>4. IsState(some) /\ some.file = r.file /\ some.raised = r.raised /\ (Agrees(r) => Agrees(some))
    <3> HIDE DEF more
    <3>1. /\ r = [file |-> r.file, suppressions |-> r.suppressions, count |-> r.count,
                  by |-> r.by, raised |-> r.raised, printed |-> r.printed]
          /\ IsList(r.raised) /\ IsList(r.printed)
      BY DEF IsState
    <3>2. some = [file |-> r.file, suppressions |-> more, count |-> r.count,
                  by |-> r.by, raised |-> r.raised, printed |-> r.printed]
      BY <3>1
    <3> HIDE DEF some
    <3>3. some.raised = r.raised /\ some.printed = r.printed /\ some.count = r.count
          /\ some.by = r.by /\ some.file = r.file /\ some.suppressions = more
      BY <3>2
    <3>4. IsState(some)
      BY <3>1, <3>2, <3>3 DEF IsState
    <3>5. QED
      BY <3>3, <3>4 DEF Agrees
  <2> HIDE DEF some, told
  <2>5. QED
    BY <1>2, <2>1, <2>2, <2>3, <2>4
<1>3. QED
  BY <1>1, <1>2

(* A sequence of events raises the errors among them, in the file at hand, *)
(* but for those of the category of comments.                              *)
LEMMA ReportedFacts ==
  ASSUME NEW r, IsState(r), NEW events, IsList(events)
  PROVE  /\ IsState(Reported(r, events)) /\ Reported(r, events).file = r.file
         /\ Agrees(r) => Agrees(Reported(r, events))
         /\ \A x \in ToSet(Reported(r, events).raised) : x \in ToSet(r.raised) \/ x.file = r.file
         /\ \A c : c # NolintCategory =>
              Raising(Reported(r, events).raised, c)
                = Raising(r.raised, c) \cup Meeting(events, Len(events), r.file, c)
<1> DEFINE n == Len(events)
<1>1. n \in Nat /\ DOMAIN events = 1 .. n
  BY ListFacts DEF IsList
<1>2. PICK h : /\ h[0] = r /\ h[n] = Reported(r, events)
               /\ \A k \in 1 .. n : h[k] = Met(h[k-1], events[k])
  <2>1. \E h : h[0] = r /\ h[n] = Reported(r, events) /\ StepsOf(h, n, events)
    BY <1>1, ReportedSteps
  <2>2. QED
    BY <2>1 DEF StepsOf
<1> DEFINE Good(q, k) ==
             /\ IsState(q) /\ q.file = r.file
             /\ Agrees(r) => Agrees(q)
             /\ \A x \in ToSet(q.raised) : x \in ToSet(r.raised) \/ x.file = r.file
             /\ \A c : c # NolintCategory =>
                  Raising(q.raised, c) = Raising(r.raised, c) \cup Meeting(events, k, r.file, c)
           P == {k \in Nat : k <= n => Good(h[k], k)}
<1>3. 0 \in P
  <2>1. \A c : Meeting(events, 0, r.file, c) = {}
    BY DEF Meeting
  <2>2. Good(r, 0)
    BY <2>1
  <2> HIDE DEF Good
  <2>3. QED
    BY <1>2, <2>2
<1>4. ASSUME NEW k \in P PROVE k + 1 \in P
  <2>1. SUFFICES ASSUME k + 1 <= n PROVE Good(h[k + 1], k + 1)
    <3> HIDE DEF Good, n
    <3>1. QED
      OBVIOUS
  <2> DEFINE q == h[k]
             e == events[k + 1]
             t == h[k + 1]
  <2>2. k \in Nat /\ Good(q, k)
    <3> HIDE DEF Good, n
    <3>1. k \in Nat /\ (k <= n => Good(h[k], k))
      OBVIOUS
    <3>2. k <= n
      BY <1>1, <2>1, <3>1
    <3>3. QED
      BY <3>1, <3>2
  <2>3. t = Met(q, e)
    <3>1. k + 1 \in 1 .. n /\ (k + 1) - 1 = k
      BY <1>1, <2>1, <2>2
    <3>2. QED
      BY <1>2, <3>1
  <2> HIDE DEF q, e, t
  <2>4. /\ IsState(t) /\ t.file = r.file /\ (Agrees(q) => Agrees(t))
        /\ ~IsNolint(e) => t.raised = Append(q.raised, InFile(e, r.file))
        /\ IsNolint(e) => \/ t.raised = q.raised
                          \/ t.raised = Append(q.raised, InFile(UnknownNolint(e.line), r.file))
    <3>1. IsState(q) /\ q.file = r.file
      BY <2>2
    <3> HIDE DEF Good, P
    <3>2. /\ IsState(Met(q, e)) /\ Met(q, e).file = q.file
          /\ Agrees(q) => Agrees(Met(q, e))
          /\ ~IsNolint(e) => Met(q, e).raised = Append(q.raised, InFile(e, q.file))
          /\ IsNolint(e) => \/ Met(q, e).raised = q.raised
                            \/ Met(q, e).raised = Append(q.raised, InFile(UnknownNolint(e.line), q.file))
      BY <3>1, MetFacts
    <3>3. QED
      BY <2>3, <3>1, <3>2
  <2>5. IsList(q.raised)
    BY <2>2 DEF IsState
  <2>6. \A x : ToSet(Append(q.raised, x)) = ToSet(q.raised) \cup {x}
    BY <2>5, AppendFacts
  <2>7. /\ \A x, f : InFile(x, f).file = f /\ InFile(x, f).category = x.category
        /\ \A l : UnknownNolint(l).category = NolintCategory
    BY DEF InFile, UnknownNolint, Error, NolintCategory
  <2>8. \A i \in 1 .. k + 1 : i \in 1 .. k \/ i = k + 1
    BY <2>2
  <2>9. \A i \in 1 .. k : i \in 1 .. k + 1
    BY <2>2
  <2>9a. k + 1 \in 1 .. k + 1
    BY <2>2
  <2>10. ASSUME NEW c
         PROVE  Meeting(events, k + 1, r.file, c) =
                  IF ~IsNolint(e) /\ e.category = c
                  THEN Meeting(events, k, r.file, c) \cup {InFile(e, r.file)}
                  ELSE Meeting(events, k, r.file, c)
    BY <2>8, <2>9, <2>9a DEF Meeting, e
  <2>11. ASSUME NEW x \in ToSet(t.raised) PROVE x \in ToSet(r.raised) \/ x.file = r.file
    <3>0. PICK y : y.file = r.file /\ (t.raised = q.raised \/ t.raised = Append(q.raised, y))
      <4>1. CASE IsNolint(e)
        BY <2>4, <2>7, <4>1
      <4>2. CASE ~IsNolint(e)
        BY <2>4, <2>7, <4>2
      <4>3. QED
        BY <4>1, <4>2
    <3>1. x \in ToSet(q.raised) \/ x.file = r.file
      <4>1. CASE t.raised = q.raised
        BY <2>11, <4>1
      <4>2. CASE t.raised = Append(q.raised, y)
        <5>1. ToSet(t.raised) = ToSet(q.raised) \cup {y}
          BY <2>6, <4>2
        <5>2. QED
          BY <2>11, <3>0, <5>1
      <4>3. QED
        BY <3>0, <4>1, <4>2
    <3>2. QED
      BY <2>2, <3>1
  <2>12. ASSUME NEW c, c # NolintCategory
         PROVE  Raising(t.raised, c) = Raising(r.raised, c) \cup Meeting(events, k + 1, r.file, c)
    <3>1. Raising(q.raised, c) = Raising(r.raised, c) \cup Meeting(events, k, r.file, c)
      BY <2>2, <2>12
    <3>2. Raising(t.raised, c) =
            IF ~IsNolint(e) /\ e.category = c
            THEN Raising(q.raised, c) \cup {InFile(e, r.file)} ELSE Raising(q.raised, c)
      <4>1. CASE ~IsNolint(e)
        <5>1. ToSet(t.raised) = ToSet(q.raised) \cup {InFile(e, r.file)}
              /\ InFile(e, r.file).category = e.category
          BY <2>4, <2>6, <2>7, <4>1
        <5>2. QED
          BY <4>1, <5>1 DEF Raising
      <4>2. CASE IsNolint(e)
        <5> DEFINE u == InFile(UnknownNolint(e.line), r.file)
        <5>1. ToSet(t.raised) = ToSet(q.raised) \/ ToSet(t.raised) = ToSet(q.raised) \cup {u}
          BY <2>4, <2>6, <4>2
        <5>2. u.category # c
          BY <2>7, <2>12
        <5> HIDE DEF u
        <5>3. QED
          BY <4>2, <5>1, <5>2 DEF Raising
      <4>3. QED
        BY <4>1, <4>2
    <3>3. QED
      BY <2>10, <3>1, <3>2
  <2>13. QED
    BY <2>2, <2>4, <2>11, <2>12 DEF t
<1>5. P = Nat
  <2> HIDE DEF P
  <2>1. P \in SUBSET Nat
    BY DEF P
  <2>2. QED
    BY <1>3, <1>4, <2>1, NatSetInduction
<1>6. Good(h[n], n)
  <2> HIDE DEF Good
  <2>1. n \in P
    BY <1>1, <1>5
  <2>2. QED
    BY <1>1, <2>1
<1>7. QED
  BY <1>2, <1>6

(***************************************************************************)
(* The categories two checks alone report, and those of the others.        *)
(***************************************************************************)
FnSize == <<"readability", "fn_size">>
IncludeOrder == <<"build", "include_order">>
IncludeCategory == <<"build", "include">>
Guard == <<"build", "header_guard">>
Watched == {FnSize, IncludeOrder, IncludeCategory}
Common == RaisedCategories \ (Watched \cup {NolintCategory, Guard})

(* The errors of the other checks, on lines of N.                          *)
Own(N) == [line : N, category : Common, confidence : 0 .. 5]

LEMMA ErrorFacts ==
  \A n, c, k : /\ ~IsNolint(Error(n, c, k))
               /\ Error(n, c, k).category = c /\ Error(n, c, k).line = n
               /\ Error(n, c, k).confidence = k
BY DEF IsNolint, Error

LEMMA CommonCategories ==
  /\ <<"readability", "constructors">> \in Common
  /\ <<"whitespace", "blank_line">> \in Common
  /\ <<"whitespace", "indent">> \in Common
  /\ <<"readability", "namespace">> \in Common
  /\ <<"build", "class">> \in Common
  /\ <<"build", "namespaces">> \in Common
  /\ <<"legal", "copyright">> \in Common
  /\ <<"readability", "multiline_comment">> \in Common
  /\ <<"readability", "utf8">> \in Common
  /\ <<"whitespace", "ending_newline">> \in Common
  /\ <<"whitespace", "newline">> \in Common
  /\ <<"build", "include_what_you_use">> \in Common
  /\ <<"build", "include_alpha">> \in Common
  /\ <<"readability", "streams">> \in Common
BY DEF Common, RaisedCategories, Watched, FnSize, IncludeOrder, IncludeCategory, Guard, NolintCategory

LEMMA OtherCategories ==
  /\ Guard \notin Watched /\ NolintCategory \notin Watched /\ Guard # NolintCategory
  /\ Watched \cup {NolintCategory, Guard} \subseteq RaisedCategories
BY DEF RaisedCategories, Watched, FnSize, IncludeOrder, IncludeCategory, Guard, NolintCategory

(* The categories there are errors of once the lines are read.             *)
Checkable == Common \cup Watched

LEMMA CheckableFacts ==
  /\ Common \subseteq Checkable /\ Watched \subseteq Checkable
  /\ Checkable = RaisedCategories \ {NolintCategory, Guard}
BY OtherCategories DEF Checkable, Common

(* One such error, or none.                                                *)
LEMMA OwnError ==
  ASSUME NEW N, NEW n \in N, NEW c \in Common, NEW k \in 0 .. 5
  PROVE  Error(n, c, k) \in Own(N)
BY DEF Error, Own

LEMMA NoErrors == \A K : <<>> \in Seq(K)
OBVIOUS

LEMMA OwnWhen ==
  ASSUME NEW N, NEW n \in N, NEW c \in Common, NEW k \in 0 .. 5, NEW b
  PROVE  When(b, Error(n, c, k)) \in Seq(Own(N))
<1> DEFINE e == Error(n, c, k)
           K == Own(N)
<1>1. e \in K
  BY OwnError
<1> HIDE DEF e, K
<1>2. When(b, e) \in Seq(K)
  BY <1>1 DEF When
<1>3. QED
  BY <1>2 DEF e, K

LEMMA OwnLevels ==
  ASSUME NEW N, NEW n \in N, NEW c \in Common, NEW b
  PROVE  /\ When(b, Error(n, c, 1)) \in Seq(Own(N)) /\ When(b, Error(n, c, 2)) \in Seq(Own(N))
         /\ When(b, Error(n, c, 3)) \in Seq(Own(N)) /\ When(b, Error(n, c, 4)) \in Seq(Own(N))
         /\ When(b, Error(n, c, 5)) \in Seq(Own(N))
<1>1. 1 \in 0 .. 5 /\ 2 \in 0 .. 5 /\ 3 \in 0 .. 5 /\ 4 \in 0 .. 5 /\ 5 \in 0 .. 5
  OBVIOUS
<1>2. QED
  BY <1>1, OwnWhen

LEMMA OwnHere ==
  ASSUME NEW n, NEW c \in Common, NEW b
  PROVE  /\ When(b, Error(n, c, 1)) \in Seq(Own({n})) /\ When(b, Error(n, c, 2)) \in Seq(Own({n}))
         /\ When(b, Error(n, c, 3)) \in Seq(Own({n})) /\ When(b, Error(n, c, 4)) \in Seq(Own({n}))
         /\ When(b, Error(n, c, 5)) \in Seq(Own({n}))
<1>1. n \in {n}
  OBVIOUS
<1>2. QED
  BY <1>1, OwnLevels

LEMMA Concatenated ==
  ASSUME NEW K, NEW s \in Seq(K), NEW t \in Seq(K)
  PROVE  s \o t \in Seq(K)
OBVIOUS

(* Such lists, one for each index, put together.                           *)
LEMMA Flattened ==
  ASSUME NEW K, NEW n \in Nat, NEW q, DOMAIN q = 1 .. n, q = [i \in 1 .. n |-> q[i]],
         \A i \in 1 .. n : q[i] \in Seq(K)
  PROVE  FlattenSeq(q) \in Seq(K)
<1>1. q \in Seq(Seq(K))
  OBVIOUS
<1>2. QED
  BY <1>1, FlattenType

(* NOLINT comments.                                                        *)
LEMMA NolintFacts ==
  \A n, l : /\ Nolint(n, l) = <<[line |-> n, nolint |-> l.nolint]>>
            /\ IsNolint([line |-> n, nolint |-> l.nolint])
BY DEF Nolint, IsNolint

(***************************************************************************)
(* The reading of a line, Rest: the blocks it leaves and what it reports.  *)
(* asms is what the blocks may have to do with inline assembly.            *)
(***************************************************************************)
NoAsm == {"no"}
AnyAsm == {"no", "block", "inside", "end"}

Fine(b, asms) == "inline_asm" \in DOMAIN b /\ b.inline_asm \in asms
Blocks(s, asms) == IsList(s) /\ \A i \in 1 .. Len(s) : Fine(s[i], asms)

(* Such stacks, with one block more and one less.                          *)
LEMMA BlocksIn ==
  ASSUME NEW asms, NEW S, NEW s \in Seq(S), \A b \in S : Fine(b, asms)
  PROVE  Blocks(s, asms)
BY ListFacts DEF Blocks

LEMMA BlocksOut ==
  ASSUME NEW asms, NEW s, Blocks(s, asms)
  PROVE  s \in Seq(ToSet(s)) /\ \A b \in ToSet(s) : Fine(b, asms)
<1>1. s \in Seq(ToSet(s))
  BY DEF Blocks, IsList
<1>2. DOMAIN s = 1 .. Len(s)
  BY <1>1
<1>3. QED
  BY <1>1, <1>2 DEF Blocks, ToSet

LEMMA BlocksAppend ==
  ASSUME NEW asms, NEW s, Blocks(s, asms), NEW b, Fine(b, asms)
  PROVE  Blocks(Append(s, b), asms)
<1>1. IsList(s)
  BY DEF Blocks
<1>2. /\ IsList(Append(s, b)) /\ Len(Append(s, b)) = Len(s) + 1 /\ Len(s) \in Nat
      /\ \A i \in 1 .. Len(s) : Append(s, b)[i] = s[i]
      /\ Append(s, b)[Len(s) + 1] = b
  BY <1>1, AppendFacts
<1>3. \A i \in 1 .. Len(s) + 1 : i \in 1 .. Len(s) \/ i = Len(s) + 1
  BY <1>2
<1>4. QED
  BY <1>2, <1>3 DEF Blocks

LEMMA BlocksFront ==
  ASSUME NEW asms, NEW s, Blocks(s, asms), s # <<>>
  PROVE  Blocks(Front(s), asms) /\ Fine(Last(s), asms) /\ Last(s) \in ToSet(s)
<1>1. s \in Seq(ToSet(s)) /\ \A b \in ToSet(s) : Fine(b, asms)
  BY BlocksOut
<1>2. Front(s) \in Seq(ToSet(s)) /\ Last(s) \in ToSet(s)
  BY <1>1, FrontFacts
<1>3. QED
  BY <1>1, <1>2, BlocksIn

(* A block with the brace seen, with another label, with its parentheses   *)
(* counted.                                                                *)
LEMMA FineWith ==
  ASSUME NEW asms, NEW b, Fine(b, asms)
  PROVE  /\ \A x : Fine([b EXCEPT !.seen_open_brace = x], asms)
         /\ \A x : Fine([b EXCEPT !.access = x], asms)
         /\ \A x, y : y \in asms =>
              Fine([b EXCEPT !.open_parentheses = x, !.inline_asm = y], asms)
BY DEF Fine

(* The blocks there are.                                                   *)
LEMMA FineNew ==
  ASSUME NEW asms, "no" \in asms
  PROVE  /\ Fine(Block, asms) /\ Fine(ExternCInfo, asms)
         /\ \A n, open : Fine(NamespaceInfo(n, open), asms)
         /\ \A ls, n, word : Fine(ClassInfo(ls, n, word), asms)
         /\ \A y : y \in asms => Fine([Block EXCEPT !.inline_asm = y], asms)
<1>1. Block.inline_asm = "no" /\ DOMAIN Block = {"kind", "seen_open_brace", "open_parentheses", "inline_asm", "access", "indent", "start", "last"}
  BY DEF Block
<1>2. Fine(Block, asms)
  BY <1>1 DEF Fine
<1>3. Fine(ExternCInfo, asms)
  BY <1>1 DEF Fine, ExternCInfo
<1>4. \A n, open : Fine(NamespaceInfo(n, open), asms)
  BY <1>1 DEF Fine, NamespaceInfo
<1>5. ASSUME NEW ls, NEW n, NEW word PROVE Fine(ClassInfo(ls, n, word), asms)
  BY <1>1 DEF Fine, ClassInfo
<1>6. \A y : y \in asms => Fine([Block EXCEPT !.inline_asm = y], asms)
  BY <1>1 DEF Fine
<1>7. QED
  BY <1>2, <1>3, <1>4, <1>5, <1>6

(* No inline assembly starts on a line without its keyword.                *)
LEMMA AsmNeedsKeyword ==
  ASSUME NEW toks, IsList(toks), \A i \in 1 .. Len(toks) : toks[i] # "asm"
  PROVE  ~StartsAsm(toks)
<1>1. Len(toks) \in Nat
  BY ListFacts DEF IsList
<1>2. Len(toks) >= 2 => toks[1] # "asm"
  BY <1>1
<1>3. QED
  BY <1>2 DEF StartsAsm

(* Counting the parentheses of a line.                                     *)
LEMMA ParenthesizedFacts ==
  ASSUME NEW asms, NEW s, Blocks(s, asms), NEW l, IsLine(l), asms \in {NoAsm, AnyAsm}, asms = NoAsm => ~HasToken(l, "asm")
  PROVE  Blocks(Parenthesized(s, l), asms)
<1>1. CASE s = <<>>
  BY <1>1 DEF Parenthesized
<1>2. CASE s # <<>>
  <2> DEFINE top == Last(s)
             change == CountOf(l, "(") - CountOf(l, ")")
             depth == top.open_parentheses + change
             asm == AsmAfter(top.inline_asm, change, depth, l)
             p == [top EXCEPT !.open_parentheses = @ + change, !.inline_asm = asm]
  <2>1. Blocks(Front(s), asms) /\ Fine(top, asms)
    BY <1>2, BlocksFront
  <2>2. asm \in asms
    <3>1. CASE asms = NoAsm
      <4>1. IsList(l.toks) /\ \A i \in 1 .. Len(l.toks) : l.toks[i] # "asm"
        BY <3>1 DEF HasToken, Contains, IsLine
      <4>2. ~StartsAsm(l.toks) /\ top.inline_asm = "no"
        BY <2>1, <3>1, <4>1, AsmNeedsKeyword DEF Fine, NoAsm
      <4>3. QED
        BY <3>1, <4>2 DEF AsmAfter, NoAsm
    <3>2. CASE asms = AnyAsm
      <4>1. top.inline_asm \in AnyAsm
        BY <2>1, <3>2 DEF Fine
      <4>2. QED
        BY <3>2, <4>1 DEF AsmAfter, AnyAsm
    <3>3. QED
      BY <3>1, <3>2
  <2>3. Counted(top, change, l) = p
    BY DEF Counted
  <2>4. Fine([top EXCEPT !.open_parentheses = @ + change, !.inline_asm = asm], asms)
    <3> HIDE DEF top, asm, change
    <3>1. QED
      BY <2>1, <2>2, FineWith
  <2>5. Parenthesized(s, l) = Append(Front(s), Counted(top, change, l))
    BY <1>2 DEF Parenthesized
  <2> HIDE DEF top, change, asm, p
  <2>6. QED
    BY <2>1, <2>3, <2>4, <2>5, BlocksAppend DEF p
<1>3. QED
  BY <1>1, <1>2

(***************************************************************************)
(* The parts of Rest, one after the other.                                 *)
(***************************************************************************)
LEMMA ReadingWith ==
  ASSUME NEW r, r = [stack |-> r.stack, errors |-> r.errors, at |-> r.at]
  PROVE  \A s, a : [r EXCEPT !.stack = s, !.at = a] = [stack |-> s, errors |-> r.errors, at |-> a]
<1>1. ASSUME NEW x, NEW y, NEW z, NEW s
      PROVE  [[stack |-> x, errors |-> y, at |-> z] EXCEPT !.stack = s]
               = [stack |-> s, errors |-> y, at |-> z]
  OBVIOUS
<1>2. ASSUME NEW x, NEW y, NEW z, NEW s
      PROVE  [[stack |-> x, errors |-> y, at |-> z] EXCEPT !.at = s]
               = [stack |-> x, errors |-> y, at |-> s]
  OBVIOUS
<1>3. ASSUME NEW s, NEW a
      PROVE [r EXCEPT !.stack = s, !.at = a] = [stack |-> s, errors |-> r.errors, at |-> a]
  <2>1. [r EXCEPT !.stack = s, !.at = a] = [[r EXCEPT !.stack = s] EXCEPT !.at = a]
    OBVIOUS
  <2>2. [r EXCEPT !.stack = s] = [stack |-> s, errors |-> r.errors, at |-> r.at]
    BY <1>1
  <2>3. [[stack |-> s, errors |-> r.errors, at |-> r.at] EXCEPT !.at = a]
          = [stack |-> s, errors |-> r.errors, at |-> a]
    BY <1>2
  <2>4. QED
    BY <2>1, <2>2, <2>3, Zenon
<1>4. QED
  BY <1>3

(* The nesting of the namespaces a line opens.                             *)
LEMMA NamespacesFacts ==
  ASSUME NEW asms, "no" \in asms, NEW l, IsList(l.toks), NEW n,
         NEW r0, NEW s0, Blocks(s0, asms), r0 = [stack |-> s0, errors |-> <<>>, at |-> 1]
  PROVE  LET r == Namespaces(r0, l, n) IN
           /\ r = [stack |-> r.stack, errors |-> <<>>, at |-> r.at]
           /\ Blocks(r.stack, asms) /\ r.at \in Nat \ {0}
<1> DEFINE new == {NamespaceInfo(n, open) : open \in BOOLEAN}
           U == ToSet(s0) \cup new
           T == [stack : Seq(U), errors : {<<>>}, at : Nat \ {0}]
           toks == l.toks
           Entered(r, braces) ==
             [r EXCEPT !.stack = Append(@, NamespaceInfo(n, braces # {})),
                       !.at = IF braces = {} THEN @ + 1 ELSE Min(braces) + 1]
           Step(r, i) ==
             IF r.at > Len(toks) \/ toks[r.at] # "namespace" THEN r
             ELSE Entered(r, {j \in r.at .. Len(toks) : toks[j] = "{"})
           iter[s \in SUBSET DOMAIN toks] ==
             IF s = {} THEN r0 ELSE LET x == Max(s) IN Step(iter[s \ {x}], toks[x])
           Is(g) == g = [s \in SUBSET DOMAIN toks |->
                           IF s = {} THEN r0 ELSE LET x == Max(s) IN Step(g[s \ {x}], toks[x])]
<1>1. Namespaces(r0, l, n) = iter[DOMAIN toks]
  BY DEF Namespaces, FoldLeft, MapThenFoldSet
<1>2. iter = CHOOSE g : Is(g)
  BY DEF iter
<1> HIDE DEF iter
<1>3. /\ Len(toks) \in Nat /\ DOMAIN toks = 1 .. Len(toks) /\ toks \in Seq(ToSet(toks))
      /\ \A i \in 1 .. Len(toks) : toks[i] \in ToSet(toks)
  <2>1. toks \in Seq(ToSet(toks))
    BY DEF IsList
  <2>2. QED
    BY <2>1, ListFacts
<1>4. (\A b \in U : Fine(b, asms)) /\ s0 \in Seq(U)
  <2>1. s0 \in Seq(ToSet(s0)) /\ \A b \in ToSet(s0) : Fine(b, asms)
    BY BlocksOut
  <2>2. \A b \in new : Fine(b, asms)
    BY FineNew
  <2>3. s0 \in Seq(U)
    BY <2>1, SeqMonotonic
  <2>4. QED
    BY <2>1, <2>2, <2>3
<1>5. r0 \in T
  <2> HIDE DEF U
  <2>1. QED
    BY <1>4
<1>6. ASSUME NEW r \in T, NEW i PROVE Step(r, i) \in T
  <2>1. r.stack \in Seq(U) /\ r.errors = <<>> /\ r.at \in Nat \ {0}
        /\ r = [stack |-> r.stack, errors |-> r.errors, at |-> r.at]
    <3> HIDE DEF U
    <3>1. QED
      OBVIOUS
  <2>2. ASSUME NEW braces, braces = {j \in r.at .. Len(toks) : toks[j] = "{"}
        PROVE  Entered(r, braces) \in T
    <3> DEFINE a == IF braces = {} THEN r.at + 1 ELSE Min(braces) + 1
               b == NamespaceInfo(n, braces # {})
    <3>1. a \in Nat \ {0}
      <4>1. CASE braces = {}
        BY <2>1, <4>1
      <4>2. CASE braces # {}
        <5> HIDE DEF T, U, toks
        <5>0. r.at \in Nat /\ Len(toks) \in Nat
          BY <1>3, <2>1
        <5>1. \A j \in r.at .. Len(toks) : j \in Nat
          BY <5>0
        <5>2. braces \in SUBSET Nat
          BY <2>2, <5>1
        <5>3. Min(braces) \in Nat
          BY <4>2, <5>2, MinFacts
        <5>4. QED
          BY <4>2, <5>3
      <4>3. QED
        BY <4>1, <4>2
    <3>2. b \in U
      <4>1. (braces # {}) \in BOOLEAN
        OBVIOUS
      <4>2. QED
        BY <4>1
    <3>3. Entered(r, braces) = [stack |-> Append(r.stack, b), errors |-> r.errors, at |-> a]
      <4> HIDE DEF b, U
      <4> DEFINE longer == Append(r.stack, b)
      <4>1. Entered(r, braces) = [r EXCEPT !.stack = longer, !.at = a]
        BY DEF b
      <4> HIDE DEF a, longer, T, Entered
      <4>2. [r EXCEPT !.stack = longer, !.at = a]
            = [stack |-> longer, errors |-> r.errors, at |-> a]
        <5>1. r = [stack |-> r.stack, errors |-> r.errors, at |-> r.at]
          BY <2>1
        <5>2. QED
          BY <5>1, ReadingWith
      <4>3. QED
        BY <4>1, <4>2 DEF longer
    <3> HIDE DEF a, b, U, Entered
    <3>4. Append(r.stack, b) \in Seq(U)
      BY <2>1, <3>2
    <3>5. QED
      BY <2>1, <3>1, <3>3, <3>4
  <2> HIDE DEF Entered, T
  <2>3. QED
    BY <2>2
<1> HIDE DEF U, T, Step
<1> DEFINE E == ToSet(toks)
           step == [p \in T \X E |-> Step(p[1], p[2])]
<1>7. step \in [T \X E -> T]
  BY <1>6
<1>8. PICK g : Folds(g, T, step, r0, toks)
  <2> HIDE DEF step, E
  <2>1. QED
    BY <1>3, <1>5, <1>7, FoldExists DEF E
<1>9. ASSUME NEW s \in SUBSET DOMAIN toks, s # {}
      PROVE  Max(s) \in DOMAIN toks /\ toks[Max(s)] \in E /\ s \ {Max(s)} \in SUBSET DOMAIN toks
  BY <1>3, <1>9, MaxFacts
<1>10. Is(g)
  <2>1. ASSUME NEW s \in SUBSET DOMAIN toks, s # {}
        PROVE  g[s] = Step(g[s \ {Max(s)}], toks[Max(s)])
    <3>1. g[s] = step[<<g[s \ {Max(s)}], toks[Max(s)]>>] /\ g[s \ {Max(s)}] \in T
      BY <1>8, <1>9, <2>1 DEF Folds
    <3>2. QED
      BY <1>9, <2>1, <3>1
  <2>2. g[{}] = r0
    BY <1>8 DEF Folds
  <2>3. g = [s \in SUBSET DOMAIN toks |-> g[s]]
    BY <1>8 DEF Folds
  <2>4. QED
    BY <2>1, <2>2, <2>3
<1>11. Is(iter)
  <2> HIDE DEF Is
  <2>1. QED
    BY <1>2, <1>10
<1> DEFINE Q == {s \in SUBSET DOMAIN toks : iter[s] \in T}
<1>12. SUBSET (1 .. Len(toks)) \subseteq Q
  <2>1. {} \in Q
    BY <1>5, <1>11
  <2>2. ASSUME NEW s \in SUBSET (1 .. Len(toks)), s # {}, s \ {Max(s)} \in Q PROVE s \in Q
    <3>1. iter[s] = Step(iter[s \ {Max(s)}], toks[Max(s)])
      BY <1>3, <1>11, <2>2
    <3>2. QED
      BY <1>3, <1>6, <2>2, <3>1
  <2> HIDE DEF Q
  <2>3. QED
    BY <1>3, <2>1, <2>2, SubsetInduction
<1>13. Namespaces(r0, l, n) \in T
  BY <1>1, <1>3, <1>12
<1>14. ASSUME NEW r \in T
       PROVE  /\ r = [stack |-> r.stack, errors |-> <<>>, at |-> r.at]
              /\ Blocks(r.stack, asms) /\ r.at \in Nat \ {0}
  <2>1. r.stack \in Seq(U) /\ r = [stack |-> r.stack, errors |-> <<>>, at |-> r.at] /\ r.at \in Nat \ {0}
    BY DEF T
  <2>2. Blocks(r.stack, asms)
    BY <1>4, <2>1, BlocksIn
  <2>3. QED
    BY <2>1, <2>2
<1>15. QED
  BY <1>13, <1>14

(* The parts of the state of a reading, set one at a time.                 *)
LEMMA LabelledWith ==
  ASSUME NEW r, r = [stack |-> r.stack, errors |-> r.errors, at |-> r.at]
  PROVE  \A s, e : [r EXCEPT !.stack = s, !.errors = e] = [stack |-> s, errors |-> e, at |-> r.at]
<1>1. ASSUME NEW x, NEW y, NEW z, NEW s
      PROVE  [[stack |-> x, errors |-> y, at |-> z] EXCEPT !.stack = s]
               = [stack |-> s, errors |-> y, at |-> z]
  OBVIOUS
<1>2. ASSUME NEW x, NEW y, NEW z, NEW s
      PROVE  [[stack |-> x, errors |-> y, at |-> z] EXCEPT !.errors = s]
               = [stack |-> x, errors |-> s, at |-> z]
  OBVIOUS
<1>3. ASSUME NEW s, NEW e
      PROVE [r EXCEPT !.stack = s, !.errors = e] = [stack |-> s, errors |-> e, at |-> r.at]
  <2>1. [r EXCEPT !.stack = s, !.errors = e] = [[r EXCEPT !.stack = s] EXCEPT !.errors = e]
    OBVIOUS
  <2>2. [r EXCEPT !.stack = s] = [stack |-> s, errors |-> r.errors, at |-> r.at]
    BY <1>1
  <2>3. [[stack |-> s, errors |-> r.errors, at |-> r.at] EXCEPT !.errors = e]
          = [stack |-> s, errors |-> e, at |-> r.at]
    BY <1>2
  <2>4. QED
    BY <2>1, <2>2, <2>3, Zenon
<1>4. QED
  BY <1>3

(* A state of the reading of line n.                                       *)
Reads(r, asms, n) ==
  /\ r = [stack |-> r.stack, errors |-> r.errors, at |-> r.at]
  /\ Blocks(r.stack, asms) /\ r.errors \in Seq(Own({n})) /\ r.at \in Nat \ {0}

(* A class head and an access label leave such stacks.                     *)
LEMMA DeclaredFacts ==
  ASSUME NEW asms, "no" \in asms, NEW ls, NEW n, NEW r, Reads(r, asms, n)
  PROVE  Reads(Declared(r, ls, n), asms, n)
<1>1. CASE ~Declares(r, ls, n)
  BY <1>1 DEF Declared
<1>2. CASE Declares(r, ls, n)
  <2> DEFINE b == ClassInfo(ls, n, ls[n].toks[r.at])
             longer == Append(r.stack, b)
             t == [stack |-> longer, errors |-> r.errors, at |-> r.at + 1]
  <2>1. Declared(r, ls, n) = [r EXCEPT !.stack = longer, !.at = r.at + 1]
    BY <1>2 DEF Declared
  <2>2. Blocks(longer, asms)
    <3>1. Fine(b, asms)
      BY FineNew
    <3> HIDE DEF b
    <3>2. QED
      BY <3>1, BlocksAppend DEF Reads
  <2> HIDE DEF longer
  <2>3. Declared(r, ls, n) = t
    BY <2>1, ReadingWith DEF Reads
  <2>4. t.stack = longer /\ t.errors = r.errors /\ t.at = r.at + 1 /\ r.at \in Nat
    BY DEF Reads
  <2>5. Reads(t, asms, n)
    <3>1. t = [stack |-> t.stack, errors |-> t.errors, at |-> t.at]
      OBVIOUS
    <3> HIDE DEF t
    <3>2. r.errors \in Seq(Own({n}))
      BY DEF Reads
    <3>3. QED
      BY <2>2, <2>4, <3>1, <3>2 DEF Reads
  <2>6. QED
    BY <2>3, <2>5
<1>3. QED
  BY <1>1, <1>2

LEMMA LabelledFacts ==
  ASSUME NEW asms, NEW l, NEW n, NEW i, NEW r, Reads(r, asms, n)
  PROVE  Reads(Labelled(r, l, n, i), asms, n)
<1>1. CASE i = 0 \/ ~TopIs(r.stack, Classes)
  BY <1>1 DEF Labelled
<1>2. CASE ~(i = 0 \/ ~TopIs(r.stack, Classes))
  <2> DEFINE b == [Last(r.stack) EXCEPT !.access = l.toks[i]]
             longer == Append(Front(r.stack), b)
             more == When(i = 1 /\ l.indent # Last(r.stack).indent + 1,
                          Error(n, <<"whitespace", "indent">>, 3))
             e == r.errors \o more
             t == [stack |-> longer, errors |-> e, at |-> r.at]
  <2>1. Labelled(r, l, n, i) = [r EXCEPT !.stack = longer, !.errors = e]
    BY <1>2 DEF Labelled
  <2>2. Blocks(longer, asms)
    <3>1. r.stack # <<>> /\ Blocks(r.stack, asms)
      BY <1>2 DEF TopIs, Reads
    <3>2. Blocks(Front(r.stack), asms) /\ Fine(Last(r.stack), asms)
      BY <3>1, BlocksFront
    <3>3. Fine(b, asms)
      BY <3>2, FineWith
    <3> HIDE DEF b
    <3>4. QED
      BY <3>2, <3>3, BlocksAppend
  <2>3. e \in Seq(Own({n}))
    <3>1. more \in Seq(Own({n}))
      BY OwnHere, CommonCategories
    <3> HIDE DEF more
    <3>2. QED
      BY <3>1, Concatenated DEF Reads
  <2> HIDE DEF longer, e
  <2>4. Labelled(r, l, n, i) = t
    BY <2>1, LabelledWith DEF Reads
  <2>5. t.stack = longer /\ t.errors = e /\ t.at = r.at /\ r.at \in Nat \ {0}
    BY DEF Reads
  <2>6. Reads(t, asms, n)
    <3>1. t = [stack |-> t.stack, errors |-> t.errors, at |-> t.at]
      OBVIOUS
    <3> HIDE DEF t
    <3>2. QED
      BY <2>2, <2>3, <2>5, <3>1 DEF Reads
  <2>7. QED
    BY <2>4, <2>6
<1>3. QED
  BY <1>1, <1>2

(* What closing a block reports.                                           *)
LEMMA CheckEndFacts ==
  ASSUME NEW b, NEW l, NEW n, NEW E,
         Error(n, <<"whitespace", "indent">>, 3) \in E,
         Error(n, <<"readability", "namespace">>, 5) \in E
  PROVE  CheckEnd(b, l, n) \in Seq(E)
<1>1. ASSUME NEW c, NEW e \in E PROVE When(c, e) \in Seq(E)
  BY DEF When
<1>2. <<>> \in Seq(E)
  OBVIOUS
<1>3. QED
  BY <1>1, <1>2 DEF CheckEnd

LEMMA AppendIn ==
  ASSUME NEW S, NEW s \in Seq(S), NEW e \in S
  PROVE  Append(s, e) \in Seq(S)
OBVIOUS

(* A state of Consume.                                                     *)
Scan(a, e, h, f) == [stack |-> a, errors |-> e, head |-> h, first |-> f]

WithStack(r, x) == [r EXCEPT !.stack = x]
WithErrors(r, x) == [r EXCEPT !.errors = x]
WithHead(r, x) == [r EXCEPT !.head = x]
Past(r, x) == [r EXCEPT !.head = <<>>, !.first = x]

(* The parts of the state of Consume, set one at a time.                   *)
LEMMA ScanWithStack ==
  \A a, e, h, f, x : WithStack(Scan(a, e, h, f), x) = Scan(x, e, h, f)
BY DEF Scan, WithStack

LEMMA ScanWithErrors ==
  \A a, e, h, f, x : WithErrors(Scan(a, e, h, f), x) = Scan(a, x, h, f)
BY DEF Scan, WithErrors

LEMMA ScanWithHead ==
  \A a, e, h, f, x : WithHead(Scan(a, e, h, f), x) = Scan(a, e, x, f)
BY DEF Scan, WithHead

LEMMA ScanErrors ==
  \A a, e, h, f : Scan(a, e, h, f).errors = e
BY DEF Scan

LEMMA ScanPast ==
  \A a, e, h, f, x : Past(Scan(a, e, h, f), x) = Scan(a, e, <<>>, x)
<1>1. ASSUME NEW a, NEW e, NEW h, NEW f, NEW x
      PROVE  Past(Scan(a, e, h, f), x) = Scan(a, e, <<>>, x)
  <2>1. Past(Scan(a, e, h, f), x) = [[Scan(a, e, h, f) EXCEPT !.head = <<>>] EXCEPT !.first = x]
    BY DEF Past
  <2>2. [Scan(a, e, h, f) EXCEPT !.head = <<>>] = Scan(a, e, <<>>, f)
    BY DEF Scan
  <2>3. [Scan(a, e, <<>>, f) EXCEPT !.first = x] = Scan(a, e, <<>>, x)
    BY DEF Scan
  <2>4. QED
    BY <2>1, <2>2, <2>3, Zenon
<1>2. QED
  BY <1>1

(* The reading of the braces, semicolons and parentheses of a line.        *)
LEMMA ConsumeFacts ==
  ASSUME NEW asms, "no" \in asms, "block" \in asms \/ asms = NoAsm,
         NEW l, IsList(l.toks), asms = NoAsm => ~HasToken(l, "asm"), NEW n,
         NEW r, Reads(r, asms, n)
  PROVE  Blocks(Consume(r, l, n).stack, asms) /\ Consume(r, l, n).errors \in Seq(Own({n}))
<1> DEFINE toks == SubSeq(l.toks, r.at, Len(l.toks))
           E == ToSet(l.toks)
           asm(y) == [Block EXCEPT !.inline_asm = y]
           new == {ExternCInfo} \cup {asm(y) : y \in asms}
           U0 == ToSet(r.stack) \cup new
           seen(b) == [b EXCEPT !.seen_open_brace = TRUE]
           U == U0 \cup {seen(b) : b \in U0}
           indent == Error(n, <<"whitespace", "indent">>, 3)
           namespace == Error(n, <<"readability", "namespace">>, 5)
           EE == Own({n})
           T == [stack : Seq(U), errors : Seq(EE), head : Seq(E), first : BOOLEAN]
           Step(acc, t) ==
             LET s == acc.stack
                 past == [acc EXCEPT !.head = <<>>, !.first = FALSE]
             IN CASE t = "{" -> [past EXCEPT !.stack = Opened(s, acc.head, l, acc.first)]
                  [] t \in {";", ")"} -> [past EXCEPT !.stack = IF SeenOpenBrace(s) THEN s ELSE Front(s)]
                  [] t = "}" /\ s = <<>> -> past
                  [] t = "}" /\ s # <<>> ->
                       [past EXCEPT !.stack = Front(s), !.errors = @ \o CheckEnd(Last(s), l, n)]
                  [] OTHER -> [acc EXCEPT !.head = Append(@, t)]
           r0 == [stack |-> r.stack, errors |-> r.errors, head |-> <<>>, first |-> r.at = 1]
           iter[s \in SUBSET DOMAIN toks] ==
             IF s = {} THEN r0 ELSE LET x == Max(s) IN Step(iter[s \ {x}], toks[x])
           Is(g) == g = [s \in SUBSET DOMAIN toks |->
                           IF s = {} THEN r0 ELSE LET x == Max(s) IN Step(g[s \ {x}], toks[x])]
<1>1. Consume(r, l, n) = iter[DOMAIN toks]
  BY DEF Consume, FoldLeft, MapThenFoldSet
<1>2. iter = CHOOSE g : Is(g)
  BY DEF iter
<1> HIDE DEF iter
<1>3. /\ toks \in Seq(E) /\ Len(toks) \in Nat /\ DOMAIN toks = 1 .. Len(toks)
      /\ \A i \in 1 .. Len(toks) : toks[i] \in E
  <2>1. l.toks \in Seq(E) /\ r.at \in Nat \ {0}
    BY DEF IsList, Reads
  <2> HIDE DEF E
  <2>2. toks \in Seq(E)
    BY <2>1
  <2> HIDE DEF toks
  <2>3. QED
    BY <2>2
<1> HIDE DEF toks
<1>4. (\A b \in U0 : Fine(b, asms)) /\ r.stack \in Seq(U)
  <2>1. r.stack \in Seq(ToSet(r.stack)) /\ \A b \in ToSet(r.stack) : Fine(b, asms)
    BY BlocksOut DEF Reads
  <2>2. \A b \in new : Fine(b, asms)
    BY FineNew
  <2>3. r.stack \in Seq(U)
    BY <2>1, SeqMonotonic
  <2>4. QED
    BY <2>1, <2>2, <2>3
<1>5. \A b \in U : Fine(b, asms)
  <2>1. ASSUME NEW b \in U0 PROVE Fine(seen(b), asms)
    BY <1>4, FineWith
  <2> HIDE DEF U0, seen
  <2>2. QED
    BY <1>4, <2>1
<1>6. \A b \in U : seen(b) \in U
  <2>1. ASSUME NEW b PROVE seen(seen(b)) = seen(b)
    OBVIOUS
  <2> HIDE DEF U0, seen
  <2>2. QED
    BY <2>1
<1>7. ExternCInfo \in U /\ \A y \in asms : asm(y) \in U
  <2> HIDE DEF asm
  <2>1. QED
    OBVIOUS
<1> HIDE DEF U, U0, asm, seen
<1>8. r.errors \in Seq(EE) /\ indent \in EE /\ namespace \in EE
  <2>1. n \in {n} /\ 3 \in 0 .. 5 /\ 5 \in 0 .. 5
    OBVIOUS
  <2>2. r.errors \in Seq(EE)
    BY DEF Reads
  <2>3. indent \in EE /\ namespace \in EE
    BY <2>1, OwnError, CommonCategories
  <2>4. QED
    BY <2>2, <2>3
<1>9. \A b : CheckEnd(b, l, n) \in Seq(EE)
  BY <1>8, CheckEndFacts
<1> HIDE DEF EE
<1>10. r0 \in T
  <2>1. (r.at = 1) \in BOOLEAN
    OBVIOUS
  <2>2. <<>> \in Seq(E)
    OBVIOUS
  <2> HIDE DEF E
  <2>3. QED
    BY <1>4, <1>8, <2>1, <2>2
<1>11. ASSUME NEW h \in Seq(E), asms = NoAsm PROVE ~StartsAsm(Append(h, "{"))
  <2> DEFINE h2 == Append(h, "{")
             E2 == E \cup {"{"}
  <2>1. "asm" \notin E2
    <3>1. DOMAIN l.toks = 1 .. Len(l.toks)
      BY ListFacts DEF IsList
    <3>2. QED
      BY <1>11, <3>1 DEF HasToken, Contains, ToSet
  <2>2. h \in Seq(E2) /\ "{" \in E2
    BY SeqMonotonic
  <2> HIDE DEF E2
  <2>3. h2 \in Seq(E2)
    BY <2>2, AppendIn
  <2> HIDE DEF h2
  <2>4. IsList(h2) /\ \A i \in 1 .. Len(h2) : h2[i] # "asm"
    BY <2>1, <2>3, ListFacts
  <2>5. QED
    BY <2>4, AsmNeedsKeyword DEF h2
<1>12. ASSUME NEW s \in Seq(U), NEW h \in Seq(E), NEW first PROVE Opened(s, h, l, first) \in Seq(U)
  <2>1. CASE ~SeenOpenBrace(s)
    <3>1. s # <<>>
      BY <2>1 DEF SeenOpenBrace
    <3>2. Front(s) \in Seq(U) /\ Last(s) \in U
      BY <3>1, FrontFacts
    <3>3. seen(Last(s)) \in U
      BY <1>6, <3>2
    <3>4. Opened(s, h, l, first) = Append(Front(s), seen(Last(s)))
      BY <2>1 DEF Opened, seen
    <3>5. QED
      BY <3>2, <3>3, <3>4
  <2>2. CASE SeenOpenBrace(s) /\ OpensExtern(h, l, first)
    BY <1>7, <2>2 DEF Opened
  <2>3. CASE SeenOpenBrace(s) /\ ~OpensExtern(h, l, first)
    <3> DEFINE y == IF StartsAsm(Append(h, "{")) THEN "block" ELSE "no"
    <3>1. y \in asms
      BY <1>11
    <3>2. Opened(s, h, l, first) = Append(s, asm(y))
      BY <2>3 DEF Opened, asm
    <3> HIDE DEF y
    <3>3. asm(y) \in U
      BY <1>7, <3>1
    <3>4. QED
      BY <3>2, <3>3
  <2>4. QED
    BY <2>1, <2>2, <2>3
<1>13. ASSUME NEW s \in Seq(U), s # <<>> PROVE Front(s) \in Seq(U)
  BY <1>13, FrontFacts
<1> HIDE DEF E, indent, namespace
<1>14. ASSUME NEW acc \in T, NEW t \in E PROVE Step(acc, t) \in T
  <2> DEFINE s == acc.stack
             no == FALSE
             past == Past(acc, no)
  <2>1. /\ s \in Seq(U) /\ acc.errors \in Seq(EE) /\ acc.head \in Seq(E) /\ acc.first \in BOOLEAN
        /\ acc = Scan(s, acc.errors, acc.head, acc.first)
    BY DEF Scan
  <2>3. ASSUME NEW a \in Seq(U), NEW e \in Seq(EE), NEW h \in Seq(E), NEW f \in BOOLEAN
        PROVE  Scan(a, e, h, f) \in T
    BY DEF Scan
  <2>e. <<>> \in Seq(E) /\ no \in BOOLEAN
    OBVIOUS
  <2> HIDE DEF T
  <2>2. past = Scan(s, acc.errors, <<>>, no)
    <3> HIDE DEF s, no
    <3>1. QED
      BY <2>1, ScanPast
  <2>4. ASSUME NEW a PROVE WithStack(past, a) = Scan(a, acc.errors, <<>>, no)
    <3> HIDE DEF past, no, s
    <3>1. QED
      BY <2>2, ScanWithStack
  <2>5. CASE t = "{"
    <3> DEFINE a == Opened(s, acc.head, l, acc.first)
    <3>1. Step(acc, t) = WithStack(past, a)
      BY <2>5 DEF WithStack, Past
    <3>2. a \in Seq(U)
      BY <1>12, <2>1
    <3> HIDE DEF a, past, Step, no, s
    <3>3. Step(acc, t) = Scan(a, acc.errors, <<>>, no)
      BY <2>4, <3>1
    <3>4. QED
      BY <2>1, <2>e, <2>3, <3>2, <3>3
  <2>6. CASE t \in {";", ")"}
    <3> DEFINE a == IF SeenOpenBrace(s) THEN s ELSE Front(s)
    <3>1. Step(acc, t) = WithStack(past, a)
      BY <2>6 DEF WithStack, Past
    <3>2. a \in Seq(U)
      BY <1>13, <2>1 DEF SeenOpenBrace
    <3> HIDE DEF a, past, Step, no, s
    <3>3. Step(acc, t) = Scan(a, acc.errors, <<>>, no)
      BY <2>4, <3>1
    <3>4. QED
      BY <2>1, <2>e, <2>3, <3>2, <3>3
  <2>7. CASE t = "}" /\ s = <<>>
    <3>1. Step(acc, t) = past
      BY <2>7 DEF Past
    <3> HIDE DEF past, Step, no, s
    <3>2. QED
      BY <2>1, <2>e, <2>2, <2>3, <3>1
  <2>8. CASE t = "}" /\ s # <<>>
    <3> DEFINE a == Front(s)
               e == acc.errors \o CheckEnd(Last(s), l, n)
    <3>1. Step(acc, t) = [past EXCEPT !.stack = a, !.errors = past.errors \o CheckEnd(Last(s), l, n)]
      BY <2>8 DEF Past
    <3>2. a \in Seq(U)
      BY <1>13, <2>1, <2>8
    <3>3. e \in Seq(EE)
      BY <1>9, <2>1
    <3>4. past.errors = acc.errors
      <4> HIDE DEF past, no, s
      <4>1. QED
        BY <2>2, ScanErrors
    <3>5. Step(acc, t) = [past EXCEPT !.stack = a, !.errors = e]
      BY <3>1, <3>4
    <3> HIDE DEF a, e, past, Step, no, s
    <3>6. [past EXCEPT !.stack = a, !.errors = e] = WithErrors(WithStack(past, a), e)
      BY DEF WithErrors, WithStack
    <3>7. WithStack(past, a) = Scan(a, acc.errors, <<>>, no)
      BY <2>4
    <3>8. WithErrors(Scan(a, acc.errors, <<>>, no), e) = Scan(a, e, <<>>, no)
      BY ScanWithErrors
    <3>9. Step(acc, t) = Scan(a, e, <<>>, no)
      BY <3>5, <3>6, <3>7, <3>8
    <3>10. QED
      BY <2>e, <2>3, <3>2, <3>3, <3>9
  <2>9. CASE t \notin {"{", ";", ")", "}"}
    <3> DEFINE h == Append(acc.head, t)
    <3>1. Step(acc, t) = WithHead(acc, h)
      BY <2>9 DEF WithHead
    <3>2. h \in Seq(E)
      BY <2>1
    <3> HIDE DEF h, past, Step, no, s
    <3>3. WithHead(acc, h) = Scan(s, acc.errors, h, acc.first)
      <4> HIDE DEF s, no
      <4>1. QED
        BY <2>1, ScanWithHead
    <3>4. QED
      BY <2>1, <2>3, <3>1, <3>2, <3>3
  <2> HIDE DEF s
  <2>10. QED
    BY <2>5, <2>6, <2>7, <2>8, <2>9
<1> HIDE DEF T, Step, r0
<1> DEFINE step == [p \in T \X E |-> Step(p[1], p[2])]
<1>15. step \in [T \X E -> T]
  BY <1>14
<1>16. PICK g : Folds(g, T, step, r0, toks)
  <2> HIDE DEF step
  <2>1. QED
    BY <1>3, <1>10, <1>15, FoldExists
<1>17. ASSUME NEW s \in SUBSET DOMAIN toks, s # {}
       PROVE  Max(s) \in DOMAIN toks /\ toks[Max(s)] \in E /\ s \ {Max(s)} \in SUBSET DOMAIN toks
  BY <1>3, <1>17, MaxFacts
<1>18. Is(g)
  <2>1. ASSUME NEW s \in SUBSET DOMAIN toks, s # {}
        PROVE  g[s] = Step(g[s \ {Max(s)}], toks[Max(s)])
    <3>1. g[s] = step[<<g[s \ {Max(s)}], toks[Max(s)]>>] /\ g[s \ {Max(s)}] \in T
      BY <1>16, <1>17, <2>1 DEF Folds
    <3>2. QED
      BY <1>17, <2>1, <3>1
  <2>2. g[{}] = r0
    BY <1>16 DEF Folds
  <2>3. g = [s \in SUBSET DOMAIN toks |-> g[s]]
    BY <1>16 DEF Folds
  <2>4. QED
    BY <2>1, <2>2, <2>3
<1>19. Is(iter)
  <2> HIDE DEF Is
  <2>1. QED
    BY <1>2, <1>18
<1> DEFINE Q == {s \in SUBSET DOMAIN toks : iter[s] \in T}
<1>20. SUBSET (1 .. Len(toks)) \subseteq Q
  <2>1. {} \in Q
    BY <1>10, <1>19
  <2>2. ASSUME NEW s \in SUBSET (1 .. Len(toks)), s # {}, s \ {Max(s)} \in Q PROVE s \in Q
    <3>1. iter[s] = Step(iter[s \ {Max(s)}], toks[Max(s)])
      BY <1>3, <1>19, <2>2
    <3>2. toks[Max(s)] \in E /\ s \in SUBSET DOMAIN toks
      BY <1>3, <1>17, <2>2
    <3>3. QED
      BY <1>14, <2>2, <3>1, <3>2
  <2> HIDE DEF Q
  <2>3. QED
    BY <1>3, <2>1, <2>2, SubsetInduction
<1>21. Consume(r, l, n) \in T
  BY <1>1, <1>3, <1>20
<1>22. Consume(r, l, n).stack \in Seq(U) /\ Consume(r, l, n).errors \in Seq(EE)
  BY <1>21 DEF T
<1>23. QED
  BY <1>5, <1>22, BlocksIn DEF EE

(* The reading of a line.                                                  *)
LEMMA RestFacts ==
  ASSUME NEW asms \in {NoAsm, AnyAsm}, NEW s, Blocks(s, asms), NEW ls, NEW n,
         IsLine(ls[n]), asms = NoAsm => ~HasToken(ls[n], "asm")
  PROVE  Blocks(Rest(s, ls, n).stack, asms) /\ Rest(s, ls, n).errors \in Seq(Own({n}))
<1> DEFINE l == ls[n]
           p == Parenthesized(s, l)
           start == [stack |-> p, errors |-> <<>>, at |-> 1]
           r1 == Namespaces(start, l, n)
           r2 == Declared(r1, ls, n)
           r3 == Accessed(r2, l, n)
<1>1. "no" \in asms /\ ("block" \in asms \/ asms = NoAsm) /\ IsList(l.toks)
  BY DEF NoAsm, AnyAsm, IsLine
<1>2. Blocks(p, asms)
  BY ParenthesizedFacts
<1> HIDE DEF p, l
<1>3. /\ r1 = [stack |-> r1.stack, errors |-> <<>>, at |-> r1.at]
      /\ Blocks(r1.stack, asms) /\ r1.at \in Nat \ {0}
  BY <1>1, <1>2, NamespacesFacts
<1> HIDE DEF start, r1
<1>4. Reads(r1, asms, n)
  <2>1. r1.errors = <<>>
    BY <1>3
  <2>2. QED
    BY <1>3, <2>1, NoErrors DEF Reads
<1>5. Reads(r2, asms, n)
  BY <1>1, <1>4, DeclaredFacts
<1> HIDE DEF r2
<1>6. Reads(r3, asms, n)
  BY <1>5, LabelledFacts DEF Accessed
<1> HIDE DEF r3
<1>7. Blocks(Consume(r3, l, n).stack, asms) /\ Consume(r3, l, n).errors \in Seq(Own({n}))
  BY <1>1, <1>6, ConsumeFacts DEF l
<1>8. Rest(s, ls, n) = Consume(r3, l, n)
  BY DEF Rest, r3, r2, r1, start, p, l
<1>9. QED
  BY <1>7, <1>8

(***************************************************************************)
(* What the checks report.                                                 *)
(***************************************************************************)
ConcatLists == \A s, t : IsList(s) /\ IsList(t) => IsList(s \o t) /\ ToSet(s \o t) = ToSet(s) \cup ToSet(t)

LEMMA ListConcat == ConcatLists
<1> SUFFICES ASSUME NEW s, NEW t, IsList(s), IsList(t)
             PROVE  IsList(s \o t) /\ ToSet(s \o t) = ToSet(s) \cup ToSet(t)
  BY DEF ConcatLists
<1> DEFINE S == ToSet(s) \cup ToSet(t)
           u == s \o t
<1>1. s \in Seq(S) /\ t \in Seq(S)
  BY SeqMonotonic DEF IsList
<1>2. u \in Seq(S) /\ Len(u) = Len(s) + Len(t) /\ Len(s) \in Nat /\ Len(t) \in Nat
  <2> HIDE DEF S
  <2>1. QED
    BY <1>1
<1>3. /\ \A i \in 1 .. Len(s) : u[i] = s[i]
      /\ \A i \in 1 .. Len(t) : u[Len(s) + i] = t[i]
  <2> HIDE DEF S
  <2>1. QED
    BY <1>1
<1>4. DOMAIN s = 1 .. Len(s) /\ DOMAIN t = 1 .. Len(t) /\ DOMAIN u = 1 .. Len(u)
  <2> HIDE DEF S, u
  <2>1. QED
    BY <1>1, <1>2
<1>5. IsList(u) /\ ToSet(u) \subseteq S
  <2> HIDE DEF S, u
  <2>1. QED
    BY <1>2, ListFacts
<1>6. ASSUME NEW x \in S PROVE x \in ToSet(u)
  <2> HIDE DEF u
  <2>1. CASE x \in ToSet(s)
    <3>1. PICK i \in 1 .. Len(s) : s[i] = x
      BY <1>4, <2>1 DEF ToSet
    <3>2. i \in 1 .. Len(u)
      BY <1>2
    <3>3. QED
      BY <1>3, <1>4, <3>1, <3>2 DEF ToSet
  <2>2. CASE x \in ToSet(t)
    <3>1. PICK i \in 1 .. Len(t) : t[i] = x
      BY <1>4, <2>2 DEF ToSet
    <3>2. Len(s) + i \in 1 .. Len(u)
      BY <1>2
    <3>3. QED
      BY <1>3, <1>4, <3>1, <3>2 DEF ToSet
  <2>3. QED
    BY <2>1, <2>2
<1>7. QED
  BY <1>5, <1>6

(* The errors of a category in a sequence of events.                       *)
Having(s, c) == {e \in ToSet(s) : ~IsNolint(e) /\ e.category = c}

(* The errors of a category in lists put together, and in others.          *)
LEMMA HavingConcat ==
  ASSUME NEW s, NEW t, IsList(s), IsList(t)
  PROVE  /\ IsList(s \o t)
         /\ \A c : Having(s \o t, c) = Having(s, c) \cup Having(t, c)
BY ListConcat DEF ConcatLists, Having

LEMMA HavingOwn ==
  ASSUME NEW N, NEW s \in Seq(Own(N))
  PROVE  /\ IsList(s) /\ \A e \in ToSet(s) : ~IsNolint(e) /\ e \in Own(N)
         /\ \A c \in Watched : Having(s, c) = {}
<1>1. IsList(s) /\ ToSet(s) \subseteq Own(N)
  BY ListFacts
<1>2. \A e \in Own(N) : ~IsNolint(e) /\ e.category \notin Watched
  BY DEF Own, IsNolint, Common
<1>3. QED
  BY <1>1, <1>2 DEF Having

LEMMA MeetingHaving ==
  ASSUME NEW s, IsList(s), NEW file, NEW c
  PROVE  Meeting(s, Len(s), file, c) = {InFile(e, file) : e \in Having(s, c)}
<1>1. DOMAIN s = 1 .. Len(s)
  BY ListFacts DEF IsList
<1>2. QED
  BY <1>1 DEF Meeting, Having, ToSet

(* Lists of one element and of none.                                       *)
LEMMA WhenFacts ==
  ASSUME NEW b, NEW e
  PROVE  IsList(When(b, e)) /\ \A x \in ToSet(When(b, e)) : x = e
<1> DEFINE S == {e}
<1>1. When(b, e) \in Seq(S)
  <2>1. CASE b
    BY <2>1 DEF When
  <2>2. CASE ~b
    BY <2>2 DEF When
  <2>3. QED
    BY <2>1, <2>2
<1> HIDE DEF S
<1>2. IsList(When(b, e)) /\ ToSet(When(b, e)) \subseteq S
  BY <1>1, ListFacts
<1>3. QED
  BY <1>2 DEF S

LEMMA OneFacts ==
  ASSUME NEW e
  PROVE  IsList(<<e>>) /\ ToSet(<<e>>) = {e}
<1> DEFINE S == {e}
<1>1. <<e>> \in Seq(S) /\ <<e>>[1] = e /\ 1 \in DOMAIN <<e>>
  OBVIOUS
<1>2. e \in ToSet(<<e>>)
  BY <1>1, Zenon DEF ToSet
<1> HIDE DEF S
<1>3. IsList(<<e>>) /\ ToSet(<<e>>) \subseteq S
  BY <1>1, ListFacts
<1>4. QED
  BY <1>2, <1>3 DEF S

LEMMA NoneFacts == IsList(<<>>) /\ ToSet(<<>>) = {}
<1> DEFINE S == {}
<1>1. <<>> \in Seq(S)
  OBVIOUS
<1> HIDE DEF S
<1>2. IsList(<<>>) /\ ToSet(<<>>) \subseteq S
  BY <1>1, ListFacts
<1>3. QED
  BY <1>2 DEF S

(* Before the lines: what the check of the header guard does is nothing, an*)
(* error on no line, or the NOLINT of a line and then an error on it; twice*)
(* at most.                                                                *)
Levels == {0, 5}
GuardSteps(ls) ==
  {<<>>} \cup {<<Error(0, Guard, k)>> : k \in Levels}
  \cup {Nolint(n, ls[n]) \o <<Error(n, Guard, k)>> : n \in DOMAIN ls, k \in Levels}

LEMMA GuardForms ==
  ASSUME NEW ls, NEW s \in GuardSteps(ls)
  PROVE  \/ s = <<>>
         \/ \E k \in Levels : s = <<Error(0, Guard, k)>>
         \/ \E n \in DOMAIN ls, k \in Levels : s = Nolint(n, ls[n]) \o <<Error(n, Guard, k)>>
BY DEF GuardSteps

LEMMA GuardParts ==
  ASSUME NEW ls, IsList(ls)
  PROVE  \E a, b \in GuardSteps(ls) : GuardErrors(ls) = a \o b
<1> DEFINE At2(dir) == {n \in DOMAIN ls : ls[n].dir = dir /\ (dir = "endif" => ls[n].indent = 0)}
           ifndef == Min(At2("ifndef"))
           define == Min(At2("define"))
           endif == Max({0} \union At2("endif"))
           guard == Error(0, <<"build", "header_guard">>, 5)
           tail == IF endif = 0 THEN "none" ELSE ls[endif].arg
           Wrong(n, arg) == (IF n = 0 THEN <<>> ELSE Nolint(n, ls[n]))
                            \o <<Error(n, <<"build", "header_guard">>, GuardLevel(arg))>>
           style == IF ls[ifndef].arg = "guard" THEN <<>> ELSE Wrong(ifndef, ls[ifndef].arg)
           end == IF ls[define].arg # ls[ifndef].arg THEN <<guard>>
                  ELSE IF tail = "guard" THEN <<>> ELSE Wrong(endif, tail)
           G == GuardSteps(ls)
<1>1. <<>> \in G /\ <<guard>> \in G
  BY DEF GuardSteps, Levels, Guard
<1>2. ASSUME NEW n \in {0} \cup DOMAIN ls, NEW arg PROVE Wrong(n, arg) \in G
  <2>1. GuardLevel(arg) \in Levels
    BY DEF GuardLevel, Levels
  <2>2. CASE n = 0
    <3>1. Wrong(n, arg) = <<Error(0, Guard, GuardLevel(arg))>>
      <4> DEFINE e == Error(n, <<"build", "header_guard">>, GuardLevel(arg))
      <4>1. Wrong(n, arg) = <<>> \o <<e>>
        BY <2>2
      <4>2. e = Error(0, Guard, GuardLevel(arg))
        BY <2>2 DEF Guard
      <4> HIDE DEF e, Wrong
      <4>3. QED
        BY <4>1, <4>2
    <3> HIDE DEF Wrong
    <3>2. QED
      BY <2>1, <3>1 DEF GuardSteps
  <2>3. CASE n # 0
    <3>1. n \in DOMAIN ls /\ GuardLevel(arg) \in Levels
      BY <1>2, <2>1, <2>3
    <3>2. Wrong(n, arg) = Nolint(n, ls[n]) \o <<Error(n, Guard, GuardLevel(arg))>>
      BY <2>3 DEF Guard
    <3> HIDE DEF Wrong
    <3>3. QED
      BY <3>1, <3>2 DEF GuardSteps
  <2>4. QED
    BY <2>2, <2>3
<1>3. DOMAIN ls = 1 .. Len(ls) /\ Len(ls) \in Nat
  BY ListFacts DEF IsList
<1>4. At2("ifndef") # {} => ifndef \in DOMAIN ls
  <2>1. At2("ifndef") \in SUBSET (1 .. Len(ls)) /\ At2("ifndef") \subseteq DOMAIN ls
    BY <1>3
  <2> HIDE DEF At2
  <2>2. QED
    BY <1>3, <2>1, MinFacts
<1>5. endif \in {0} \cup DOMAIN ls
  <2> DEFINE E == At2("endif")
  <2>1. E \in SUBSET (1 .. Len(ls))
    BY <1>3
  <2> HIDE DEF E
  <2>2. \E m \in {0} \union E : \A i \in {0} \union E : m >= i
    <3>1. CASE E = {}
      BY <3>1
    <3>2. CASE E # {}
      <4>1. Max(E) \in E /\ \A i \in E : i <= Max(E)
        BY <1>3, <2>1, <3>2, MaxFacts
      <4>a. \A i \in E : i \in Nat
        BY <2>1
      <4> HIDE DEF E
      <4>2. Max(E) >= 0 /\ \A i \in E : Max(E) >= i
        BY <4>1, <4>a
      <4>3. QED
        BY <4>1, <4>2
    <3>3. QED
      BY <3>1, <3>2
  <2>3. Max({0} \union E) \in {0} \union E
    BY <2>2 DEF Max
  <2>4. QED
    BY <1>3, <2>1, <2>3 DEF E
<1>6. style \in G \/ At2("ifndef") = {}
  <2> HIDE DEF Wrong, ifndef, G
  <2>1. QED
    BY <1>1, <1>2, <1>4
<1>7. end \in G
  <2> HIDE DEF Wrong, ifndef, define, guard, tail, endif, G
  <2>1. QED
    BY <1>1, <1>2, <1>5
<1>8. \/ GuardErrors(ls) = <<guard>>
      \/ At2("ifndef") # {} /\ GuardErrors(ls) = style \o end
  <2>1. GuardErrors(ls) = CASE At2("ifndef") = {} -> <<guard>>
          [] At2("ifndef") # {} /\ At2("define") = {} -> <<guard>>
          [] OTHER -> style \o end
    BY DEF GuardErrors
  <2> HIDE DEF style, end, guard, At2
  <2>2. QED
    BY <2>1
<1> HIDE DEF style, end, At2, G
<1>9. <<guard>> = <<>> \o <<guard>>
  OBVIOUS
<1> HIDE DEF guard
<1>10. QED
  BY <1>1, <1>6, <1>7, <1>8, <1>9 DEF G

(* The other two checks before the lines.                                  *)
LEMMA CopyrightOwn == \A ls : CopyrightErrors(ls) \in Seq(Own({0}))
BY OwnHere, CommonCategories DEF CopyrightErrors

UnendedAt(ls) == Comments(ls).unended + 1
LEMMA UnendedOwn ==
  \A ls : Uncommented(ls).errors \in Seq(Own({UnendedAt(ls)}))
BY OwnHere, CommonCategories DEF Uncommented, UnendedAt

(* They report nothing that is watched.                                    *)
LEMMA FirstHaving ==
  ASSUME NEW file, NEW ls, IsList(ls)
  PROVE  IsList(FirstErrors(file, ls)) /\ \A c \in Watched : Having(FirstErrors(file, ls), c) = {}
<1> DEFINE Clear(s) == IsList(s) /\ \A c \in Watched : Having(s, c) = {}
<1>1. Clear(<<>>)
  BY NoneFacts DEF Having
<1>2. ASSUME NEW s, NEW t, Clear(s), Clear(t) PROVE Clear(s \o t)
  BY <1>2, HavingConcat
<1>3. ASSUME NEW e, IsNolint(e) \/ e.category \notin Watched PROVE Clear(<<e>>)
  BY <1>3, OneFacts DEF Having
<1>4. \A n, k : Clear(<<Error(n, Guard, k)>>)
  BY <1>3, ErrorFacts, OtherCategories
<1>5. \A n, l : Clear(Nolint(n, l))
  BY <1>3, NolintFacts
<1>6. Clear(CopyrightErrors(ls)) /\ Clear(Uncommented(ls).errors)
  BY CopyrightOwn, UnendedOwn, HavingOwn
<1> HIDE DEF Clear
<1>7. ASSUME NEW s \in GuardSteps(ls) PROVE Clear(s)
  <2>1. CASE \E n \in DOMAIN ls, k \in Levels : s = Nolint(n, ls[n]) \o <<Error(n, Guard, k)>>
    <3>1. PICK n, k : s = Nolint(n, ls[n]) \o <<Error(n, Guard, k)>>
      BY <2>1
    <3>2. Clear(Nolint(n, ls[n])) /\ Clear(<<Error(n, Guard, k)>>)
      BY <1>4, <1>5
    <3>3. QED
      BY <1>2, <3>1, <3>2
  <2>2. CASE \E k \in Levels : s = <<Error(0, Guard, k)>>
    BY <1>4, <2>2
  <2>3. CASE s = <<>>
    BY <1>1, <2>3
  <2>4. QED
    BY <2>1, <2>2, <2>3, GuardForms
<1>8. Clear(GuardErrors(ls))
  BY <1>2, <1>7, GuardParts
<1>9. Clear(IF file.name.ext = "h" THEN GuardErrors(ls) ELSE <<>>)
  BY <1>1, <1>8
<1>10. Clear(FirstErrors(file, ls))
  BY <1>2, <1>6, <1>9 DEF FirstErrors
<1>11. QED
  BY <1>10 DEF Clear

(* On a line.                                                              *)
LEMMA StyleOwn ==
  ASSUME NEW s, NEW ls, NEW n
  PROVE  StyleErrors(s, ls, n) \in Seq(Own({n}))
<1>1. AccessErrors(s, ls, n) \in Seq(Own({n}))
  BY OwnHere, CommonCategories DEF AccessErrors
<1>2. BlankLineErrors(s, ls, n) \in Seq(Own({n}))
  <2> DEFINE before == LineBefore(ls, n)
             blank(condition, confidence) ==
               When(condition, Error(n, <<"whitespace", "blank_line">>, confidence))
             a == blank(LeavesOpen(before) /\ ~HeaderException(ls, n), 2)
             b == blank(EndsBlock(LineAfter(ls, n)), 3)
             c == blank(FirstIs(before, Labels), 3)
  <2>1. a \in Seq(Own({n})) /\ b \in Seq(Own({n})) /\ c \in Seq(Own({n}))
    BY OwnHere, CommonCategories
  <2>2. BlankLineErrors(s, ls, n) = <<>> \/ BlankLineErrors(s, ls, n) = a \o b \o c
    BY DEF BlankLineErrors
  <2> HIDE DEF a, b, c
  <2>3. a \o b \in Seq(Own({n}))
    BY <2>1, Concatenated
  <2>4. (a \o b) \o c \in Seq(Own({n}))
    BY <2>1, <2>3, Concatenated
  <2>5. QED
    BY <2>2, <2>4, NoErrors
<1>3. SectionErrors(s, ls, n) \in Seq(Own({n}))
  <2> DEFINE class == Last(InnermostClass(s))
             spaced == NoCode(LineBefore(ls, n)) \/ \E word \in Classes : HasToken(LineBefore(ls, n), word)
             e == When(/\ class.last - class.start > SmallClass
                       /\ n > class.start
                       /\ FirstIs(ls[n], Labels)
                       /\ ~spaced
                       /\ HeadEnd(ls, class.start, n) < n - 1,
                       Error(n, <<"whitespace", "blank_line">>, 3))
  <2>1. e \in Seq(Own({n}))
    <3>1. \A b : When(b, Error(n, <<"whitespace", "blank_line">>, 3)) \in Seq(Own({n}))
      BY OwnHere, CommonCategories
    <3>2. QED
      BY <3>1
  <2>2. SectionErrors(s, ls, n) = <<>> \/ SectionErrors(s, ls, n) = e
    BY DEF SectionErrors
  <2> HIDE DEF e
  <2>3. QED
    BY <2>1, <2>2, NoErrors
<1>4. AccessErrors(s, ls, n) \o BlankLineErrors(s, ls, n) \in Seq(Own({n}))
  BY <1>1, <1>2, Concatenated
<1>5. QED
  BY <1>3, <1>4, Concatenated DEF StyleErrors

(* The other checks of a line, and those after the lines.                  *)
LEMMA MultilineOwn == \A l : MultilineErrors(l) \in Seq(Own({linenum}))
BY OwnHere, CommonCategories DEF MultilineErrors

(* After the lines.                                                        *)
LEMMA CompletedOwn ==
  ASSUME IsList(stack), NEW N, \A i \in DOMAIN stack : stack[i].start \in N
  PROVE  CompletedBlocksErrors \in Seq(Own(N))
<1> DEFINE a(i) == When(stack[i].kind \in Classes, Error(stack[i].start, <<"build", "class">>, 5))
           b(i) == When(stack[i].kind = "namespace", Error(stack[i].start, <<"build", "namespaces">>, 5))
           q == [i \in DOMAIN stack |-> a(i) \o b(i)]
<1>1. CompletedBlocksErrors = FlattenSeq(q)
  BY DEF CompletedBlocksErrors
<1>2. DOMAIN stack = 1 .. Len(stack) /\ Len(stack) \in Nat
  BY ListFacts DEF IsList
<1>3. \A i \in 1 .. Len(stack) : a(i) \in Seq(Own(N)) /\ b(i) \in Seq(Own(N))
  BY <1>2, OwnLevels, CommonCategories
<1> HIDE DEF a, b
<1>4. \A i \in 1 .. Len(stack) : q[i] \in Seq(Own(N))
  BY <1>2, <1>3, Concatenated
<1>5. DOMAIN q = 1 .. Len(stack) /\ q = [i \in 1 .. Len(stack) |-> q[i]]
  BY <1>2
<1> HIDE DEF q
<1>6. QED
  BY <1>1, <1>2, <1>4, <1>5, Flattened

LEMMA BadCharacterOwn ==
  ASSUME NEW ls, IsList(ls), NEW N, DOMAIN ls \subseteq N
  PROVE  BadCharacterErrors(ls) \in Seq(Own(N))
<1> DEFINE a(n) == When("bad" \in ls[n].notes, Error(n, <<"readability", "utf8">>, 5))
           q == [n \in DOMAIN ls |-> a(n)]
<1>1. BadCharacterErrors(ls) = FlattenSeq(q)
  BY DEF BadCharacterErrors
<1>2. DOMAIN ls = 1 .. Len(ls) /\ Len(ls) \in Nat
  BY ListFacts DEF IsList
<1>3. \A i \in 1 .. Len(ls) : a(i) \in Seq(Own(N))
  BY <1>2, OwnLevels, CommonCategories
<1> HIDE DEF a
<1>4. \A i \in 1 .. Len(ls) : q[i] \in Seq(Own(N))
  BY <1>2, <1>3
<1>5. DOMAIN q = 1 .. Len(ls) /\ q = [i \in 1 .. Len(ls) |-> q[i]]
  BY <1>2
<1> HIDE DEF q
<1>6. QED
  BY <1>1, <1>2, <1>4, <1>5, Flattened

LEMMA NewlineOwn ==
  ASSUME NEW ls, NEW N, Len(ls) \in N
  PROVE  NewlineErrors(ls) \in Seq(Own(N))
BY OwnLevels, CommonCategories DEF NewlineErrors

LEMMA MixedNewlineOwn ==
  ASSUME NEW file, IsList(Split(file)), NEW N, DOMAIN Split(file) \subseteq N
  PROVE  MixedNewlineErrors(file) \in Seq(Own(N))
<1> DEFINE a(n) == When(n \in CrlfLines(file) /\ LfLines(file) # {},
                        Error(n, <<"whitespace", "newline">>, 1))
           q == [n \in DOMAIN Split(file) |-> a(n)]
           m == Len(Split(file))
<1>1. MixedNewlineErrors(file) = FlattenSeq(q)
  BY DEF MixedNewlineErrors
<1>2. DOMAIN Split(file) = 1 .. m /\ m \in Nat
  BY ListFacts DEF IsList
<1>3. \A i \in 1 .. m : a(i) \in Seq(Own(N))
  BY <1>2, OwnLevels, CommonCategories
<1> HIDE DEF a
<1>4. \A i \in 1 .. m : q[i] \in Seq(Own(N))
  BY <1>2, <1>3
<1>5. DOMAIN q = 1 .. m /\ q = [i \in 1 .. m |-> q[i]]
  BY <1>2
<1> HIDE DEF q, m
<1>6. QED
  BY <1>1, <1>2, <1>4, <1>5, Flattened

(* The missing headers are of another category.                            *)
LEMMA WhatYouUseOwn ==
  ASSUME NEW file, NEW ls, IsList(ls), \A n \in DOMAIN ls : IsLine(ls[n]), NEW disk, NEW N, DOMAIN ls \subseteq N
  PROVE  WhatYouUseErrors(file, ls, disk) \in Seq(Own(N))
<1> DEFINE own == OwnHeaders(file, disk)
           found == included \union UNION {disk[p] : p \in own}
           missing == IF file.ext = "cc" /\ own = {} THEN {} ELSE Required(ls) \ found
           at(n) == {p \in missing : UsedAt(ls, p) = n}
           a(n) == [k \in 1 .. Cardinality(at(n)) |-> Error(n, <<"build", "include_what_you_use">>, 4)]
           q == [n \in DOMAIN ls |-> a(n)]
<1>1. WhatYouUseErrors(file, ls, disk) = FlattenSeq(q)
  BY DEF WhatYouUseErrors
<1>2. DOMAIN ls = 1 .. Len(ls) /\ Len(ls) \in Nat
  BY ListFacts DEF IsList
<1>3. IsFiniteSet(Required(ls))
  <2> DEFINE all == {UsesOf(ls[n]) : n \in DOMAIN ls}
  <2>1. IsFiniteSet(all)
    <3>1. IsFiniteSet(DOMAIN ls)
      BY <1>2, FS_Interval
    <3>2. [n \in DOMAIN ls |-> UsesOf(ls[n])] \in Surjection(DOMAIN ls, all)
      BY DEF Surjection
    <3>3. QED
      BY <3>1, <3>2, FS_Surjection
  <2>2. \A u \in all : IsFiniteSet(u)
    BY FS_EmptySet DEF UsesOf, IsLine
  <2> HIDE DEF all
  <2>3. IsFiniteSet(UNION all)
    BY <2>1, <2>2, FS_UNION
  <2>4. QED
    BY <2>3 DEF all, Required
<1>4. \A n : Cardinality(at(n)) \in Nat
  <2>1. \A n : at(n) \subseteq Required(ls)
    OBVIOUS
  <2> HIDE DEF at
  <2>2. QED
    BY <1>3, <2>1, FS_Subset, FS_CardinalityType
<1> HIDE DEF at
<1>5. ASSUME NEW n \in N PROVE a(n) \in Seq(Own(N))
  <2> DEFINE e == Error(n, <<"build", "include_what_you_use">>, 4)
             S == Own(N)
             m == Cardinality(at(n))
  <2>1. m \in Nat
    BY <1>4
  <2>2. e \in S
    BY OwnError, CommonCategories
  <2> HIDE DEF e, m, S
  <2>3. [k \in 1 .. m |-> e] \in Seq(S)
    BY <2>1, <2>2
  <2>6. QED
    BY <2>3 DEF e, m, S
<1> HIDE DEF a
<1>6. \A i \in 1 .. Len(ls) : q[i] \in Seq(Own(N))
  BY <1>2, <1>5
<1>7. DOMAIN q = 1 .. Len(ls) /\ q = [i \in 1 .. Len(ls) |-> q[i]]
  BY <1>2
<1> HIDE DEF q
<1>8. QED
  BY <1>1, <1>2, <1>6, <1>7, Flattened

(* An include: one report of a misplaced header, one of a repeated one.    *)
LEMMA IncludeFacts ==
  ASSUME NEW file, NEW l, NEW previous, NEW n
  PROVE  LET s == LanguageErrors(file, l, previous, n)
             path == l.arg.path
             kind == ClassifyInclude(file, path, l.arg.sys)
         IN /\ IsList(s) /\ \A e \in ToSet(s) : e.line = n /\ ~IsNolint(e) /\ e.category \in Checkable
            /\ Having(s, FnSize) = {}
            /\ l.dir # "include" => Having(s, IncludeOrder) = {} /\ Having(s, IncludeCategory) = {}
            /\ l.dir = "include" =>
                 /\ Having(s, IncludeOrder) # {} <=> path \notin included /\ Misplaced(kind, section)
                 /\ path \in included => Having(s, IncludeCategory) # {}
<1> DEFINE path == l.arg.path
           kind == ClassifyInclude(file, path, l.arg.sys)
           new == path \notin included
           e1 == Error(n, <<"build", "include">>, 4)
           e3 == Error(n, <<"build", "include_order">>, 4)
           e4 == Error(n, <<"build", "include_alpha">>, 4)
           e5 == Error(n, <<"readability", "streams">>, 3)
           s1 == When(~l.arg.sys /\ path.dir = <<>> /\ path.ext = "h", e1)
           s2 == When(~new, e1)
           s3 == When(new /\ Misplaced(kind, section), e3)
           s4 == When(new /\ ~InAlphabeticalOrder(kind, path, previous), e4)
           s5 == When(path.stem \in Streams /\ ~IsTest(file), e5)
           s == s1 \o s2 \o s3 \o s4 \o s5
<1>1. LanguageErrors(file, l, previous, n) = IF l.dir = "include" THEN s ELSE <<>>
  BY DEF LanguageErrors, IncludeErrors
<1>2. /\ IsList(s1) /\ (\A x \in ToSet(s1) : x = e1)
      /\ IsList(s2) /\ (\A x \in ToSet(s2) : x = e1)
      /\ IsList(s3) /\ (\A x \in ToSet(s3) : x = e3)
      /\ IsList(s4) /\ (\A x \in ToSet(s4) : x = e4)
      /\ IsList(s5) /\ (\A x \in ToSet(s5) : x = e5)
  <2> HIDE DEF e1, e3, e4, e5
  <2>1. QED
    BY WhenFacts
<1>3. /\ e1.category = IncludeCategory /\ ~IsNolint(e1) /\ e1.line = n
      /\ e3.category = IncludeOrder /\ ~IsNolint(e3) /\ e3.line = n
      /\ e4.category \in Common /\ ~IsNolint(e4) /\ e4.line = n
      /\ e5.category \in Common /\ ~IsNolint(e5) /\ e5.line = n
  BY ErrorFacts, CommonCategories DEF IncludeCategory, IncludeOrder
<1>4. IncludeOrder # IncludeCategory /\ IncludeOrder # FnSize /\ IncludeCategory # FnSize
  BY DEF IncludeOrder, IncludeCategory, FnSize
<1>5. ~new => e1 \in ToSet(s2)
  <2> HIDE DEF e1
  <2>1. QED
    BY OneFacts DEF When
<1>6. e3 \in ToSet(s3) <=> new /\ Misplaced(kind, section)
  <2> HIDE DEF e3
  <2>1. QED
    BY OneFacts, NoneFacts DEF When
<1>s. s3 = <<>> \/ (new /\ Misplaced(kind, section))
  <2> HIDE DEF e3
  <2>1. QED
    BY DEF When
<1> HIDE DEF s1, s2, s3, s4, s5, e1, e3, e4, e5
<1>7. IsList(s) /\ ToSet(s) = ToSet(s1) \cup ToSet(s2) \cup ToSet(s3) \cup ToSet(s4) \cup ToSet(s5)
  <2>1. IsList(s1 \o s2) /\ ToSet(s1 \o s2) = ToSet(s1) \cup ToSet(s2)
    BY <1>2, ListConcat DEF ConcatLists
  <2>2. IsList((s1 \o s2) \o s3) /\ ToSet((s1 \o s2) \o s3) = ToSet(s1 \o s2) \cup ToSet(s3)
    BY <1>2, <2>1, ListConcat DEF ConcatLists
  <2>3. /\ IsList(((s1 \o s2) \o s3) \o s4)
        /\ ToSet(((s1 \o s2) \o s3) \o s4) = ToSet((s1 \o s2) \o s3) \cup ToSet(s4)
    BY <1>2, <2>2, ListConcat DEF ConcatLists
  <2>4. /\ IsList((((s1 \o s2) \o s3) \o s4) \o s5)
        /\ ToSet((((s1 \o s2) \o s3) \o s4) \o s5) = ToSet(((s1 \o s2) \o s3) \o s4) \cup ToSet(s5)
    BY <1>2, <2>3, ListConcat DEF ConcatLists
  <2>5. QED
    BY <2>1, <2>2, <2>3, <2>4
<1> HIDE DEF s
<1>w. /\ FnSize \in Watched /\ IncludeOrder \in Watched /\ IncludeCategory \in Watched
      /\ e4.category \notin Watched /\ e5.category \notin Watched
  BY <1>3 DEF Watched, Common
<1>8. Having(s, FnSize) = {}
  BY <1>2, <1>3, <1>4, <1>7, <1>w DEF Having
<1>9. \A e \in ToSet(s) : e.line = n /\ ~IsNolint(e) /\ e.category \in Checkable
  BY <1>2, <1>3, <1>7, <1>w, CheckableFacts
<1>10. Having(s, IncludeOrder) # {} <=> new /\ Misplaced(kind, section)
  <2>1. new /\ Misplaced(kind, section) => e3 \in Having(s, IncludeOrder)
    BY <1>3, <1>6, <1>7 DEF Having
  <2>2. Having(s, IncludeOrder) # {} => e3 \in ToSet(s3)
    BY <1>2, <1>3, <1>4, <1>7, <1>w DEF Having
  <2>3. QED
    BY <1>6, <2>1, <2>2
<1>11. ~new => Having(s, IncludeCategory) # {}
  BY <1>3, <1>5, <1>7 DEF Having
<1>12. CASE l.dir = "include"
  <2>1. LanguageErrors(file, l, previous, n) = s
    BY <1>1, <1>12
  <2> HIDE DEF kind
  <2>2. QED
    BY <1>7, <1>8, <1>9, <1>10, <1>11, <1>12, <2>1 DEF kind
<1>13. CASE l.dir # "include"
  <2>1. LanguageErrors(file, l, previous, n) = <<>>
    BY <1>1, <1>13
  <2>2. \A c : Having(<<>>, c) = {}
    BY NoneFacts DEF Having
  <2>3. QED
    BY <1>13, <2>1, <2>2, NoneFacts
<1>14. QED
  BY <1>12, <1>13

(* The end of a function: one report, of one that is too long.             *)
LEMMA FunctionFacts ==
  ASSUME NEW ls, NEW n, NEW v
  PROVE  LET s == FunctionErrors(ls, n, v)
             base == BaseTrigger(current_function)
         IN /\ IsList(s) /\ \A e \in ToSet(s) : e.line = n /\ ~IsNolint(e) /\ e.category \in Checkable
            /\ Having(s, IncludeOrder) = {} /\ Having(s, IncludeCategory) = {}
            /\ ~StartsFunction(ls[n]) /\ EndsFunction(ls[n]) =>
                 Having(s, FnSize) =
                   IF lines_in_function <= base * Power[v] THEN {}
                   ELSE {Error(n, FnSize, ErrorLevel(lines_in_function, base))}
<1> DEFINE l == ls[n]
           base == BaseTrigger(current_function)
           level == ErrorLevel(lines_in_function, base)
           e1 == Error(n, FnSize, 5)
           e2 == Error(n, FnSize, level)
           s1 == When(BodyLines(ls, n) = {}, e1)
           long == ~ (lines_in_function <= base * Power[v])
           s2 == IF ~long THEN <<>> ELSE <<e2>>
           s == FunctionErrors(ls, n, v)
<1>1. /\ StartsFunction(l) => s = s1
      /\ ~StartsFunction(l) /\ EndsFunction(l) => s = s2
      /\ ~StartsFunction(l) /\ ~EndsFunction(l) => s = <<>>
  BY DEF FunctionErrors, CheckLength, FnSize
<1>2. \A k : /\ Error(n, FnSize, k).category = FnSize /\ Error(n, FnSize, k).line = n
             /\ ~IsNolint(Error(n, FnSize, k))
  BY ErrorFacts
<1>3. IsList(s1) /\ \A x \in ToSet(s1) : x = e1
  BY WhenFacts
<1>4. IsList(s2) /\ ToSet(s2) = IF long THEN {e2} ELSE {}
  <2> HIDE DEF e2, long
  <2>1. QED
    BY OneFacts, NoneFacts
<1>5. IncludeOrder # FnSize /\ IncludeCategory # FnSize
  BY DEF IncludeOrder, IncludeCategory, FnSize
<1> HIDE DEF s, s1, s2, long, level, l, base
<1>6. IsList(s) /\ (\A e \in ToSet(s) : e.line = n /\ ~IsNolint(e) /\ e.category = FnSize)
  BY <1>1, <1>2, <1>3, <1>4, NoneFacts
<1>7. Having(s, IncludeOrder) = {} /\ Having(s, IncludeCategory) = {}
  BY <1>5, <1>6 DEF Having
<1>8. ~StartsFunction(l) /\ EndsFunction(l) => Having(s, FnSize) = IF long THEN {e2} ELSE {}
  <2> SUFFICES ASSUME ~StartsFunction(l) /\ EndsFunction(l)
               PROVE  Having(s, FnSize) = IF long THEN {e2} ELSE {}
    OBVIOUS
  <2>1. s = s2
    BY <1>1
  <2>2. e2.category = FnSize /\ ~IsNolint(e2)
    BY <1>2
  <2> HIDE DEF e2
  <2>3. QED
    BY <1>4, <2>1, <2>2 DEF Having
<1>w. FnSize \in Checkable
  BY CheckableFacts DEF Watched
<1>9. QED
  BY <1>6, <1>w, <1>7, <1>8 DEF s, long, level, l, base

(***************************************************************************)
(* The stacks there are.                                                   *)
(***************************************************************************)
(* The stack a directive leaves is one that was there.                     *)
LEMMA DirectiveStack ==
  ASSUME NEW S, NEW pp \in Seq(Info(S)), NEW s \in S, NEW l
  PROVE  UpdatePreprocessor(s, pp, l).stack \in S
<1> DEFINE r == UpdatePreprocessor(s, pp, l)
<1>1. CASE l.dir \in {"if", "ifdef", "ifndef"}
  <2>1. r.stack = s
    BY <1>1 DEF UpdatePreprocessor
  <2>2. QED
    BY <2>1
<1>2. ASSUME pp # <<>>
      PROVE  Last(pp).stack_before_if \in S /\ Last(pp).stack_before_else \in S
  <2>1. Last(pp) \in Info(S)
    BY <1>2, FrontFacts
  <2>2. QED
    BY <2>1 DEF Info
<1>3. CASE l.dir = "else" /\ pp # <<>>
  <2>1. r = AtElse(s, pp)
    BY <1>3 DEF UpdatePreprocessor
  <2>2. AtElse(s, pp).stack = Last(pp).stack_before_if
    BY DEF AtElse
  <2>3. QED
    BY <1>2, <1>3, <2>1, <2>2
<1>4. CASE l.dir = "endif" /\ pp # <<>>
  <2>1. r = AtEndif(s, pp)
    BY <1>4 DEF UpdatePreprocessor
  <2>2. AtEndif(s, pp).stack = IF Last(pp).seen_else THEN Last(pp).stack_before_else ELSE s
    BY DEF AtEndif
  <2>3. QED
    BY <1>2, <1>4, <2>1, <2>2
<1>5. CASE /\ l.dir \notin {"if", "ifdef", "ifndef"}
           /\ ~(l.dir = "else" /\ pp # <<>>) /\ ~(l.dir = "endif" /\ pp # <<>>)
  <2>1. r = [stack |-> s, pp |-> pp]
    BY <1>5 DEF UpdatePreprocessor
  <2>2. QED
    BY <2>1
<1>6. QED
  BY <1>1, <1>3, <1>4, <1>5

(* The stacks there are hold blocks.                                       *)
Kept(asms) ==
  \E S : /\ stack \in S /\ <<>> \in S /\ pp_stack \in Seq(Info(S))
         /\ \A s \in S : Blocks(s, asms)

(* They do when there are none, and after a line.                          *)
LEMMA BlocksEmpty == \A asms : Blocks(<<>>, asms)
BY NoneFacts DEF Blocks

LEMMA KeptStart ==
  ASSUME stack = <<>>, pp_stack = <<>>
  PROVE  \A asms : Kept(asms)
<1> DEFINE S == {<<>>}
<1>1. <<>> \in S /\ \A s \in S : s = <<>>
  OBVIOUS
<1> HIDE DEF S
<1>2. <<>> \in Seq(Info(S))
  OBVIOUS
<1>3. QED
  BY <1>1, <1>2, BlocksEmpty DEF Kept

LEMMA KeptReset ==
  ASSUME NestingReset
  PROVE  \A asms : Kept(asms)'
<1>0. stack' = <<>> /\ pp_stack' = <<>>
  BY DEF NestingReset
<1> DEFINE S == {<<>>}
<1>1. <<>> \in S /\ \A s \in S : s = <<>>
  OBVIOUS
<1> HIDE DEF S
<1>2. <<>> \in Seq(Info(S))
  OBVIOUS
<1>3. QED
  BY <1>0, <1>1, <1>2, BlocksEmpty DEF Kept

LEMMA KeptUpdate ==
  ASSUME NEW asms \in {NoAsm, AnyAsm}, Kept(asms), Update(lines, linenum),
         IsLine(lines[linenum]), asms = NoAsm => ~HasToken(lines[linenum], "asm")
  PROVE  /\ Kept(asms)' /\ Blocks(stack', asms)
         /\ UpdateErrors(lines, linenum) \in Seq(Own({linenum}))
<1> DEFINE r == UpdatePreprocessor(stack, pp_stack, lines[linenum])
<1>1. PICK S : /\ stack \in S /\ <<>> \in S /\ pp_stack \in Seq(Info(S))
               /\ \A s \in S : Blocks(s, asms)
  BY DEF Kept
<1>2. r.pp \in Seq(Info(S)) /\ r.stack \in S
  BY <1>1, DirectiveFollows, DirectiveStack
<1>3. /\ pp_stack' = r.pp /\ stack' = Rest(r.stack, lines, linenum).stack
      /\ UpdateErrors(lines, linenum) = Rest(r.stack, lines, linenum).errors
  BY DEF Update, UpdateErrors
<1> HIDE DEF r
<1>4. Blocks(r.stack, asms)
  BY <1>1, <1>2
<1>5. /\ Blocks(Rest(r.stack, lines, linenum).stack, asms)
      /\ Rest(r.stack, lines, linenum).errors \in Seq(Own({linenum}))
  BY <1>4, RestFacts
<1> DEFINE T == S \cup {stack'}
<1>6. Info(S) \subseteq Info(T)
  BY DEF Info
<1>7. pp_stack' \in Seq(Info(T))
  BY <1>2, <1>3, <1>6, SeqMonotonic
<1>8. \A s \in T : Blocks(s, asms)
  BY <1>1, <1>3, <1>5
<1>9. Kept(asms)'
  <2>1. stack' \in T /\ <<>> \in T
    BY <1>1
  <2> HIDE DEF T
  <2>2. QED
    BY <1>7, <1>8, <2>1 DEF Kept
<1>10. QED
  BY <1>3, <1>5, <1>9

(* Without inline assembly.                                                *)
LEMMA NoAsmBlock ==
  ASSUME NEW s, Blocks(s, NoAsm)
  PROVE  ~InAsmBlock(s)
<1>1. CASE s = <<>>
  BY <1>1 DEF InAsmBlock
<1>2. CASE s # <<>>
  <2>1. Fine(Last(s), NoAsm)
    BY <1>2, BlocksFront
  <2>2. QED
    BY <2>1 DEF Fine, NoAsm, InAsmBlock
<1>3. QED
  BY <1>1, <1>2

(***************************************************************************)
(* The options.                                                            *)
(***************************************************************************)
Exits == {"", "usage", "categories", "ValueError"}

(* The value of the last of the options at s that has a name.              *)
Named(options, name, s) == {i \in s : options[i].name = name}
Latest(options, name, default, s) ==
  IF Named(options, name, s) = {} THEN default ELSE options[Max(Named(options, name, s))].value

LEMMA LatestStep ==
  ASSUME NEW options, IsList(options), NEW name, NEW default,
         NEW s \in SUBSET DOMAIN options, s # {}
  PROVE  Latest(options, name, default, s)
           = IF options[Max(s)].name = name THEN options[Max(s)].value
             ELSE Latest(options, name, default, s \ {Max(s)})
<1> DEFINE m == Max(s)
           at == Named(options, name, s)
<1> DEFINE n == Len(options)
<1>0. n \in Nat /\ s \in SUBSET (1 .. n)
  BY ListFacts DEF IsList
<1>1. m \in s /\ \A i \in s : i <= m
  BY <1>0, MaxFacts
<1> HIDE DEF m, n
<1>2. CASE options[m].name = name
  <2>1. at \in SUBSET (1 .. n) /\ m \in at
    BY <1>0, <1>1, <1>2 DEF Named
  <2>2. Max(at) \in at /\ m <= Max(at)
    BY <1>0, <2>1, MaxFacts
  <2>3. Max(at) \in Nat /\ m \in Nat /\ Max(at) <= m
    BY <1>0, <1>1, <2>1, <2>2 DEF Named
  <2> HIDE DEF at
  <2>4. Max(at) = m
    BY <2>2, <2>3
  <2>5. QED
    BY <1>2, <2>1, <2>4 DEF Latest, at, m
<1>3. CASE options[m].name # name
  <2>1. at = Named(options, name, s \ {m})
    BY <1>3 DEF Named
  <2>2. QED
    BY <1>3, <2>1 DEF Latest, m
<1>4. QED
  BY <1>2, <1>3

(* What is asked for when the script goes on: the last option counts.  A   *)
(* number is what --verbose is followed by.                                *)
LEMMA ParsedFacts ==
  ASSUME NEW options, IsList(options), NEW n, verbose_level \in Nat,
         \A i \in DOMAIN options : options[i].name = "verbose" => options[i].value \in Nat
  PROVE  /\ Parsed(options, n).exit \in Exits /\ Parsed(options, n).verbosity \in Nat
         /\ n \in Nat /\ Parsed(options, n).exit = "" =>
              /\ Parsed(options, n).verbosity = Latest(options, "verbose", verbose_level, DOMAIN options)
              /\ Parsed(options, n).filters = Latest(options, "filter", <<>>, DOMAIN options)
              /\ \A i \in DOMAIN Parsed(options, n).filters :
                   Parsed(options, n).filters[i].sign \in {"+", "-"}
<1> DEFINE E == ToSet(options)
           V == {<<>>, ""} \cup {o.value : o \in E}
           T == [exit : Exits, verbosity : Nat, filters : V, counting : V]
           r0 == [exit |-> "", verbosity |-> verbose_level, filters |-> <<>>, counting |-> ""]
           iter[s \in SUBSET DOMAIN options] ==
             IF s = {} THEN r0 ELSE LET x == Max(s) IN Option(iter[s \ {x}], options[x])
           Is(g) == g = [s \in SUBSET DOMAIN options |->
                           IF s = {} THEN r0 ELSE LET x == Max(s) IN Option(g[s \ {x}], options[x])]
           asked == iter[DOMAIN options]
           unsigned == \E i \in DOMAIN asked.filters : asked.filters[i].sign \notin {"+", "-"}
           exit == CASE asked.exit # "" -> asked.exit
                     [] asked.exit = "" /\ n = 0 -> "usage"
                     [] asked.exit = "" /\ n > 0 /\ unsigned -> "ValueError"
                     [] OTHER -> ""
<1>1. Parsed(options, n) = [asked EXCEPT !.exit = exit]
  BY DEF Parsed, FoldLeft, MapThenFoldSet
<1>2. iter = CHOOSE g : Is(g)
  BY DEF iter
<1> HIDE DEF iter
<1>3. /\ Len(options) \in Nat /\ DOMAIN options = 1 .. Len(options) /\ options \in Seq(E)
      /\ \A i \in 1 .. Len(options) : options[i] \in E
  <2>1. options \in Seq(E)
    BY DEF IsList
  <2>2. QED
    BY <2>1, ListFacts
<1>4. \A o \in E : o.name = "verbose" => o.value \in Nat
  BY DEF ToSet
<1> HIDE DEF E
<1>5. r0 \in T
  BY DEF Exits
<1>6. ASSUME NEW acc \in T, NEW o \in E PROVE Option(acc, o) \in T
  <2>0. o.value \in V /\ (o.name = "verbose" => o.value \in Nat)
    BY <1>4
  <2> HIDE DEF V
  <2>1. ASSUME NEW x \in Exits PROVE [acc EXCEPT !.exit = x] \in T
    OBVIOUS
  <2>2. ASSUME NEW x \in Nat PROVE [acc EXCEPT !.verbosity = x] \in T
    OBVIOUS
  <2>3. ASSUME NEW x \in V PROVE [acc EXCEPT !.filters = x] \in T
    OBVIOUS
  <2>4. ASSUME NEW x \in V PROVE [acc EXCEPT !.counting = x] \in T
    OBVIOUS
  <2> HIDE DEF T
  <2> DEFINE usage == [acc EXCEPT !.exit = "usage"]
             categories == [acc EXCEPT !.exit = "categories"]
             verbosity == [acc EXCEPT !.verbosity = o.value]
             kept == [acc EXCEPT !.filters = o.value]
             count == [acc EXCEPT !.counting = o.value]
  <2>5. /\ usage \in T /\ categories \in T /\ kept \in T /\ count \in T
        /\ o.name = "verbose" => verbosity \in T
    BY <2>0, <2>1, <2>2, <2>3, <2>4 DEF Exits
  <2>6. \/ Option(acc, o) \in {acc, usage, categories, kept, count}
        \/ o.name = "verbose" /\ Option(acc, o) = verbosity
    BY DEF Option
  <2> HIDE DEF usage, categories, verbosity, kept, count
  <2>7. QED
    BY <2>5, <2>6
<1> HIDE DEF T, r0
<1> DEFINE step == [p \in T \X E |-> Option(p[1], p[2])]
<1>7. step \in [T \X E -> T]
  BY <1>6
<1>8. PICK g : Folds(g, T, step, r0, options)
  <2> HIDE DEF step
  <2>1. QED
    BY <1>3, <1>5, <1>7, FoldExists
<1>9. ASSUME NEW s \in SUBSET DOMAIN options, s # {}
      PROVE  Max(s) \in DOMAIN options /\ options[Max(s)] \in E /\ s \ {Max(s)} \in SUBSET DOMAIN options
  BY <1>3, <1>9, MaxFacts
<1>10. Is(g)
  <2>1. ASSUME NEW s \in SUBSET DOMAIN options, s # {}
        PROVE  g[s] = Option(g[s \ {Max(s)}], options[Max(s)])
    <3>1. g[s] = step[<<g[s \ {Max(s)}], options[Max(s)]>>] /\ g[s \ {Max(s)}] \in T
      BY <1>8, <1>9, <2>1 DEF Folds
    <3>2. QED
      BY <1>9, <2>1, <3>1
  <2>2. g[{}] = r0
    BY <1>8 DEF Folds
  <2>3. g = [s \in SUBSET DOMAIN options |-> g[s]]
    BY <1>8 DEF Folds
  <2>4. QED
    BY <2>1, <2>2, <2>3
<1>11. Is(iter)
  <2> HIDE DEF Is
  <2>1. QED
    BY <1>2, <1>10
<1> DEFINE Q == {s \in SUBSET DOMAIN options : iter[s] \in T}
<1>12. SUBSET (1 .. Len(options)) \subseteq Q
  <2>1. {} \in Q
    BY <1>5, <1>11
  <2>2. ASSUME NEW s \in SUBSET (1 .. Len(options)), s # {}, s \ {Max(s)} \in Q PROVE s \in Q
    <3>1. iter[s] = Option(iter[s \ {Max(s)}], options[Max(s)])
      BY <1>3, <1>11, <2>2
    <3>2. options[Max(s)] \in E /\ s \in SUBSET DOMAIN options
      BY <1>3, <1>9, <2>2
    <3>3. QED
      BY <1>6, <2>2, <3>1, <3>2
  <2> HIDE DEF Q
  <2>3. QED
    BY <1>3, <2>1, <2>2, SubsetInduction
<1>13. asked \in T
  BY <1>3, <1>12
<1> DEFINE Asking(s) == iter[s].exit = "" =>
                        /\ iter[s].verbosity = Latest(options, "verbose", verbose_level, s)
                        /\ iter[s].filters = Latest(options, "filter", <<>>, s)
           U == {s \in SUBSET DOMAIN options : Asking(s)}
<1>l. SUBSET (1 .. Len(options)) \subseteq U
  <2>1. {} \in U
    <3>1. iter[{}] = r0
      BY <1>11
    <3>2. Named(options, "verbose", {}) = {} /\ Named(options, "filter", {}) = {}
      BY DEF Named
    <3>3. Latest(options, "verbose", verbose_level, {}) = verbose_level /\ Latest(options, "filter", <<>>, {}) = <<>>
      BY <3>2 DEF Latest
    <3>4. r0.verbosity = verbose_level /\ r0.filters = <<>>
      BY DEF r0
    <3>5. Asking({})
      BY <3>1, <3>3, <3>4
    <3> HIDE DEF Asking
    <3>6. QED
      BY <3>5
  <2>2. ASSUME NEW s \in SUBSET (1 .. Len(options)), s # {}, s \ {Max(s)} \in U PROVE s \in U
    <3> DEFINE acc == iter[s \ {Max(s)}]
               o == options[Max(s)]
    <3>1. iter[s] = Option(acc, o)
      BY <1>3, <1>11, <2>2
    <3>2. s \in SUBSET DOMAIN options /\ s \ {Max(s)} \in SUBSET (1 .. Len(options)) /\ Asking(s \ {Max(s)})
      BY <1>3, <2>2
    <3>3. acc \in T
      BY <1>12, <3>2
    <3> DEFINE L(name, default) == Latest(options, name, default, s \ {Max(s)})
               V1 == L("verbose", verbose_level)
               F1 == L("filter", <<>>)
    <3>4. /\ Latest(options, "verbose", verbose_level, s) = IF o.name = "verbose" THEN o.value ELSE V1
          /\ Latest(options, "filter", <<>>, s) = IF o.name = "filter" THEN o.value ELSE F1
      <4> SUFFICES \A name, default :
                     Latest(options, name, default, s) = IF o.name = name THEN o.value ELSE L(name, default)
        OBVIOUS
      <4>1. IsList(options) /\ s \in SUBSET DOMAIN options /\ s # {}
        BY <2>2, <3>2
      <4>2. QED
        BY <4>1, LatestStep
    <3>5. acc.exit = "" => acc.verbosity = V1 /\ acc.filters = F1
      BY <3>2
    <3> HIDE DEF acc, o, L, V1, F1, Asking
    <3>6. Option(acc, o).exit = "" =>
            /\ acc.exit = ""
            /\ Option(acc, o).verbosity = IF o.name = "verbose" THEN o.value ELSE acc.verbosity
            /\ Option(acc, o).filters = IF o.name = "filter" THEN o.value ELSE acc.filters
      BY <3>3 DEF Option, T
    <3>7. Asking(s)
      BY <3>1, <3>4, <3>5, <3>6 DEF Asking
    <3>8. QED
      BY <3>2, <3>7
  <2> HIDE DEF U
  <2>3. QED
    BY <1>3, <2>1, <2>2, SubsetInduction
<1>a. asked.exit = "" =>
        /\ asked.verbosity = Latest(options, "verbose", verbose_level, DOMAIN options)
        /\ asked.filters = Latest(options, "filter", <<>>, DOMAIN options)
  BY <1>3, <1>l
<1>n. n \in Nat /\ n # 0 => n > 0
  OBVIOUS
<1>e. n \in Nat /\ exit = "" => asked.exit = "" /\ ~unsigned
  <2> SUFFICES ASSUME n \in Nat, exit = "" PROVE asked.exit = "" /\ ~unsigned
    OBVIOUS
  <2> HIDE DEF asked, unsigned
  <2>1. asked.exit = ""
    OBVIOUS
  <2>2. n # 0
    BY <2>1
  <2>3. n > 0
    BY <1>n, <2>2
  <2>4. QED
    BY <2>1, <2>2, <2>3
<1>14. exit \in Exits
  <2>1. asked.exit \in Exits
    BY <1>13 DEF T
  <2> HIDE DEF asked, unsigned
  <2>2. exit \in {asked.exit, "usage", "ValueError", ""}
    OBVIOUS
  <2>3. QED
    BY <2>1, <2>2 DEF Exits
<1> HIDE DEF exit, asked, V
<1> DEFINE p == [asked EXCEPT !.exit = exit]
<1>15. /\ p.exit = exit /\ p.verbosity \in Nat
       /\ p.verbosity = asked.verbosity /\ p.filters = asked.filters
  BY <1>13 DEF T
<1> HIDE DEF p
<1>16. n \in Nat /\ exit = "" => \A i \in DOMAIN asked.filters : asked.filters[i].sign \in {"+", "-"}
  BY <1>e
<1>17. Parsed(options, n) = p
  BY <1>1 DEF p
<1>18. QED
  BY <1>14, <1>15, <1>16, <1>17, <1>a, <1>e

(***************************************************************************)
(* The lines of a file.                                                    *)
(***************************************************************************)
AreLines(ls) == IsList(ls) /\ \A n \in DOMAIN ls : IsLine(ls[n])

(* What the checks put in place of a line is a line.                       *)
LEMMA LineShapes ==
  /\ IsLine(EmptyLine) /\ IsLine(DummyLine)
  /\ \A l, x : IsLine(l) => IsLine([l EXCEPT !.notes = x]) /\ [l EXCEPT !.notes = x].nolint = l.nolint
<1>1. IsLine(EmptyLine)
  <2>1. IsList(<<>>) /\ IsFiniteSet({})
    BY NoneFacts, FS_EmptySet
  <2>2. QED
    BY <2>1 DEF IsLine, EmptyLine
<1>5. ASSUME NEW l, NEW x, IsLine(l)
      PROVE  IsLine([l EXCEPT !.notes = x]) /\ [l EXCEPT !.notes = x].nolint = l.nolint
  <2> DEFINE d == l.dir
             a == l.arg
             i == l.indent
             t == l.toks
             m == l.nolint
             u == l.uses
             o == l.notes
             Line(y) == [dir |-> d, arg |-> a, indent |-> i, toks |-> t, notes |-> y, nolint |-> m, uses |-> u]
  <2>1. l = Line(o) /\ IsList(t) /\ IsFiniteSet(u)
    BY <1>5 DEF IsLine
  <2> HIDE DEF d, a, i, t, m, u, o
  <2>2. [Line(o) EXCEPT !.notes = x] = Line(x)
    OBVIOUS
  <2>3. IsLine(Line(x)) /\ Line(x).nolint = Line(o).nolint
    BY <2>1 DEF IsLine
  <2> HIDE DEF Line
  <2>4. QED
    BY <2>1, <2>2, <2>3
<1>6. QED
  BY <1>1, <1>5 DEF DummyLine

LEMMA FileLines ==
  ASSUME NEW file, AreLines(file.lines)
  PROVE  /\ IsList(Split(file)) /\ IsList(ReadLines(file)) /\ AreLines(Uncommented(ReadLines(file)).lines)
         /\ DOMAIN ReadLines(file) = DOMAIN Split(file)
         /\ \A n \in DOMAIN Split(file) : ReadLines(file)[n].nolint = Split(file)[n].nolint
<1> DEFINE last == IF file.newline THEN <<EmptyLine>> ELSE <<>>
           split == Split(file)
           read == ReadLines(file)
           L == {l \in ToSet(split) \cup {EmptyLine} : IsLine(l)}
<1>1. AreLines(last)
  <2>1. IsList(<<EmptyLine>>) /\ ToSet(<<EmptyLine>>) = {EmptyLine}
    BY OneFacts
  <2>2. AreLines(<<EmptyLine>>)
    BY <2>1, LineShapes DEF AreLines, ToSet
  <2>3. AreLines(<<>>)
    BY NoneFacts DEF AreLines
  <2>4. QED
    BY <2>2, <2>3
<1>2. split = file.lines \o last
  BY DEF Split
<1> HIDE DEF last, split
<1>3. IsList(split) /\ ToSet(split) = ToSet(file.lines) \cup ToSet(last)
  BY <1>1, <1>2, ListConcat DEF AreLines, ConcatLists
<1>4. \A l \in ToSet(split) : IsLine(l)
  BY <1>1, <1>3 DEF AreLines, ToSet
<1>5. DOMAIN split = 1 .. Len(split) /\ Len(split) \in Nat /\ \A n \in 1 .. Len(split) : IsLine(split[n])
  <2>1. DOMAIN split = 1 .. Len(split) /\ Len(split) \in Nat
    BY <1>3, ListFacts DEF IsList
  <2>2. QED
    BY <1>4, <2>1 DEF ToSet
<1> DEFINE m == Len(split)
<1>6. read = [n \in 1 .. m |-> [split[n] EXCEPT !.notes = IF n \in CrlfLines(file)
                                                         THEN split[n].notes \ {"cr"} ELSE split[n].notes]]
  BY <1>5 DEF ReadLines, split
<1> HIDE DEF read
<1>7. DOMAIN read = 1 .. m /\ \A n \in 1 .. m : IsLine(read[n]) /\ read[n].nolint = split[n].nolint
  BY <1>5, <1>6, LineShapes
<1>r. IsList(read)
  <2>1. read \in Seq({read[n] : n \in 1 .. m})
    <3> DEFINE R == {read[n] : n \in 1 .. m}
    <3>1. \A n \in 1 .. m : read[n] \in R
      OBVIOUS
    <3>2. read = [n \in 1 .. m |-> read[n]]
      BY <1>6
    <3> HIDE DEF R, m
    <3>3. read \in Seq(R)
      BY <1>5, <3>1, <3>2 DEF m
    <3>4. QED
      BY <3>3 DEF R
  <2>2. QED
    BY <2>1, ListFacts
<1> DEFINE c == Comments(read).removed
           u == [n \in 1 .. m |-> IF n \in c THEN DummyLine ELSE read[n]]
<1>8. Uncommented(read).lines = u
  BY <1>7 DEF Uncommented
<1> HIDE DEF c
<1>9. \A n \in 1 .. m : IsLine(u[n])
  BY <1>7, LineShapes
<1>10. u \in Seq({u[n] : n \in 1 .. m})
  BY <1>5
<1>11. IsList(u) /\ DOMAIN u = 1 .. m
  BY <1>10, ListFacts
<1>12. AreLines(u)
  BY <1>9, <1>11 DEF AreLines
<1>13. QED
  BY <1>3, <1>5, <1>7, <1>r, <1>8, <1>12 DEF split, read

(***************************************************************************)
(* Types, and the counts.                                                  *)
(***************************************************************************)
Asms == IF Plain THEN NoAsm ELSE AnyAsm

Shapes ==
  /\ IsRun(run)
  /\ current \in Nat \ {0} /\ verbose_level \in Nat
  /\ IsList(raised) /\ IsList(printed)
  /\ pc = "line" => AreLines(lines) /\ linenum \in 1 .. Len(lines) + 1 /\ current \in DOMAIN run.files
  /\ pc = "line" => Kept(Asms)

(* Errors are those of the files read so far.                              *)
RaisedBefore ==
  \A x \in ToSet(raised) :
    x.file \in Nat /\ x.file <= current /\ (x.file = current => pc = "line")

Counts ==
  /\ error_count = Len(printed)
  /\ ByCategory => BagOf(errors_by_category, printed)

Outcome ==
  /\ pc = "arguments" => printed = <<>> /\ raised = <<>> /\ error_count = 0 /\ errors_by_category = EmptyBag
  /\ pc = "success" => printed = <<>>
  /\ pc = "failure" => printed # <<>>

(* A step that reports keeps the counts, and raises what its events have.  *)
LEMMA Handled ==
  ASSUME NEW events, IsList(events), IsList(raised), IsList(printed),
         Handle(Current(current), events) \/ Handle(Forgotten(current), events)
  PROVE  /\ IsList(raised') /\ IsList(printed') /\ UNCHANGED settingVars
         /\ Counts => Counts'
         /\ \A x \in ToSet(raised') : x \in ToSet(raised) \/ x.file = current
         /\ \A c : c # NolintCategory =>
              Raising(raised', c) = Raising(raised, c) \cup {InFile(e, current) : e \in Having(events, c)}
<1> DEFINE State(s) == [file |-> current, suppressions |-> s, count |-> error_count,
                        by |-> errors_by_category, raised |-> raised, printed |-> printed]
<1>1. Current(current) = State(error_suppressions)
  BY DEF Current
<1>2. Forgotten(current) = State({})
  <2>1. [State(error_suppressions) EXCEPT !.suppressions = {}] = State({})
    OBVIOUS
  <2>2. QED
    BY <1>1, <2>1 DEF Forgotten
<1> HIDE DEF State
<1>3. PICK s : Handle(State(s), events)
  BY <1>1, <1>2
<1> DEFINE r == State(s)
           q == Reported(r, events)
<1>4. IsState(r) /\ r.file = current /\ r.raised = raised /\ (Counts => Agrees(r))
  BY DEF IsState, State, Counts, Agrees
<1> HIDE DEF r
<1>5. /\ raised' = q.raised /\ printed' = q.printed /\ error_count' = q.count
      /\ errors_by_category' = q.by /\ UNCHANGED settingVars
  BY <1>3 DEF Handle, Recorded, r
<1>6. /\ IsState(q) /\ q.file = current
      /\ Counts => Agrees(q)
      /\ \A x \in ToSet(q.raised) : x \in ToSet(raised) \/ x.file = current
      /\ \A c : c # NolintCategory =>
           Raising(q.raised, c) = Raising(raised, c) \cup Meeting(events, Len(events), current, c)
  BY <1>4, ReportedFacts
<1> HIDE DEF q
<1>7. IsList(raised') /\ IsList(printed')
  BY <1>5, <1>6 DEF IsState
<1>8. Counts => Counts'
  <2> SUFFICES ASSUME Counts PROVE Counts'
    OBVIOUS
  <2>1. PICK p : p = q.printed
    OBVIOUS
  <2>2. PICK b : b = q.by
    OBVIOUS
  <2>3. q.count = Len(p) /\ (ByCategory => BagOf(b, p))
    BY <1>6, <2>1, <2>2 DEF Agrees
  <2>4. counting' = counting
    BY <1>5 DEF settingVars
  <2>5. ByCategory' <=> ByCategory
    BY <2>4 DEF ByCategory
  <2>6. BagOf(b, p)' <=> BagOf(b, p)
    BY <2>4 DEF BagOf, At, CountedAs
  <2>7. printed' = p /\ errors_by_category' = b /\ error_count' = q.count
    BY <1>5, <2>1, <2>2
  <2>8. BagOf(b, p)' <=> BagOf(errors_by_category, printed)'
    BY <2>7
  <2>9. QED
    BY <2>3, <2>5, <2>6, <2>7, <2>8 DEF Counts
<1>9. \A c : Meeting(events, Len(events), current, c) = {InFile(e, current) : e \in Having(events, c)}
  BY MeetingHaving
<1>10. QED
  BY <1>5, <1>6, <1>7, <1>8, <1>9

(***************************************************************************)
(* The events of the steps.                                                *)
(***************************************************************************)
LEMMA RunFacts ==
  ASSUME IsRun(run)
  PROVE  /\ IsList(run.files) /\ DOMAIN run.files = 1 .. Len(run.files) /\ Len(run.files) \in Nat
         /\ \A i \in DOMAIN run.files : AreLines(run.files[i].lines)
         /\ IsList(run.options)
         /\ \A i \in DOMAIN run.options : run.options[i].name = "verbose" => run.options[i].value \in Nat
<1>1. IsList(run.files)
  BY DEF IsRun
<1>2. DOMAIN run.files = 1 .. Len(run.files) /\ Len(run.files) \in Nat
  BY <1>1, ListFacts DEF IsList
<1>3. \A i \in DOMAIN run.files : AreLines(run.files[i].lines)
  BY DEF IsRun, AreLines
<1>4. QED
  BY <1>1, <1>2, <1>3 DEF IsRun

(* The end of a file reports nothing that is watched.                      *)
LEMMA CloseOwn ==
  ASSUME Shapes, pc = "line"
  PROVE  \E N : CompletedBlocksErrors \o WhatYouUseErrors(File.name, lines, File.disk)
                  \o BadCharacterErrors(lines) \o NewlineErrors(lines) \o MixedNewlineErrors(File)
                    \in Seq(Own(N))
<1>1. IsList(stack)
  BY DEF Shapes, Kept, Blocks
<1>2. AreLines(File.lines)
  BY RunFacts DEF Shapes, File
<1>3. IsList(lines) /\ (\A n \in DOMAIN lines : IsLine(lines[n])) /\ IsList(Split(File))
  BY <1>2, FileLines DEF Shapes, AreLines
<1> DEFINE a == CompletedBlocksErrors
           b == WhatYouUseErrors(File.name, lines, File.disk)
           c == BadCharacterErrors(lines)
           d == NewlineErrors(lines)
           e == MixedNewlineErrors(File)
<1> DEFINE N == {stack[i].start : i \in DOMAIN stack} \cup DOMAIN lines \cup {Len(lines)} \cup DOMAIN Split(File)
<1>n. /\ \A i \in DOMAIN stack : stack[i].start \in N
      /\ DOMAIN lines \subseteq N /\ Len(lines) \in N /\ DOMAIN Split(File) \subseteq N
  OBVIOUS
<1> HIDE DEF N
<1>4. a \in Seq(Own(N)) /\ b \in Seq(Own(N)) /\ c \in Seq(Own(N)) /\ d \in Seq(Own(N)) /\ e \in Seq(Own(N))
  BY <1>1, <1>3, <1>n, CompletedOwn, WhatYouUseOwn, BadCharacterOwn, NewlineOwn, MixedNewlineOwn
<1> HIDE DEF a, b, c, d, e
<1>5. a \o b \in Seq(Own(N))
  BY <1>4, Concatenated
<1>6. (a \o b) \o c \in Seq(Own(N))
  BY <1>4, <1>5, Concatenated
<1>7. ((a \o b) \o c) \o d \in Seq(Own(N))
  BY <1>4, <1>6, Concatenated
<1>8. (((a \o b) \o c) \o d) \o e \in Seq(Own(N))
  BY <1>4, <1>7, Concatenated
<1>9. QED
  BY <1>8 DEF a, b, c, d, e

(* The errors of a line, none of which is about a guard or a comment.      *)
Reports(s, n) == IsList(s) /\ \A e \in ToSet(s) : ~IsNolint(e) /\ e.line = n /\ e.category \in Checkable

LEMMA ReportsOwn ==
  ASSUME NEW n, NEW s \in Seq(Own({n}))
  PROVE  Reports(s, n)
<1>1. IsList(s) /\ \A e \in ToSet(s) : ~IsNolint(e) /\ e \in Own({n})
  BY HavingOwn
<1>2. \A e \in Own({n}) : e.line = n /\ e.category \in Common
  BY DEF Own
<1>3. QED
  BY <1>1, <1>2, CheckableFacts DEF Reports

LEMMA ReportsConcat ==
  ASSUME NEW n, NEW s, NEW t, Reports(s, n), Reports(t, n)
  PROVE  Reports(s \o t, n)
BY ListConcat DEF Reports, ConcatLists

FirstOf(l) == Nolint(linenum, l) \o UpdateErrors(lines, linenum)
Language(l) == LanguageErrors(File.name, l, LineBefore(lines, linenum), linenum)

(* On a line, only the functions and the includes report what is watched.  *)
LEMMA LineHaving ==
  ASSUME UpdateErrors(lines, linenum) \in Seq(Own({linenum})), NEW l, NEW s
  PROVE  /\ IsList(FirstOf(l)) /\ \A c \in Watched : Having(FirstOf(l), c) = {}
         /\ IsList(FirstOf(l) \o LineErrors(l, s))
         /\ \A c \in Watched :
              Having(FirstOf(l) \o LineErrors(l, s), c)
                = Having(FunctionErrors(lines, linenum, verbose_level), c) \cup Having(Language(l), c)
         /\ Reports(UpdateErrors(lines, linenum), linenum)
         /\ Reports(UpdateErrors(lines, linenum) \o LineErrors(l, s), linenum)
         /\ FirstOf(l) \o LineErrors(l, s)
              = Nolint(linenum, l) \o (UpdateErrors(lines, linenum) \o LineErrors(l, s))
<1> DEFINE f == FirstOf(l)
           a == FunctionErrors(lines, linenum, verbose_level)
           b == MultilineErrors(l)
           c == StyleErrors(s, lines, linenum)
           d == Language(l)
<1> DEFINE K == Seq(Own({linenum}))
           o == Nolint(linenum, l)
           u == UpdateErrors(lines, linenum)
<1>1. u \in K /\ b \in K /\ c \in K /\ f = o \o u
  BY MultilineOwn, StyleOwn DEF FirstOf
<1>2. IsList(a) /\ IsList(d)
  BY FunctionFacts, IncludeFacts DEF Language
<1>p. Reports(a, linenum) /\ Reports(b, linenum) /\ Reports(c, linenum) /\ Reports(d, linenum)
      /\ Reports(u, linenum)
  <2>1. Reports(a, linenum)
    BY FunctionFacts DEF Reports, a
  <2>2. Reports(d, linenum)
    BY IncludeFacts DEF Language, Reports, d
  <2>3. QED
    BY <1>1, <2>1, <2>2, ReportsOwn
<1>3. LineErrors(l, s) = ((a \o b) \o c) \o d
  BY DEF LineErrors, Language
<1>o. IsList(o) /\ \A k : Having(o, k) = {}
  BY NolintFacts, OneFacts DEF Having
<1> HIDE DEF a, b, c, d, f, o, u
<1>u. IsList(u) /\ \A k \in Watched : Having(u, k) = {}
  BY <1>1, HavingOwn
<1>4. /\ IsList(f) /\ IsList(b) /\ IsList(c)
      /\ \A k \in Watched : Having(f, k) = {} /\ Having(b, k) = {} /\ Having(c, k) = {}
  <2>1. IsList(f) /\ \A k : Having(f, k) = Having(o, k) \cup Having(u, k)
    BY <1>1, <1>o, <1>u, HavingConcat
  <2>2. QED
    BY <1>1, <1>o, <1>u, <2>1, HavingOwn
<1>5. /\ IsList(a \o b)
      /\ \A k : Having(a \o b, k) = Having(a, k) \cup Having(b, k)
  BY <1>2, <1>4, HavingConcat
<1>6. /\ IsList((a \o b) \o c)
      /\ \A k : Having((a \o b) \o c, k) = Having(a \o b, k) \cup Having(c, k)
  BY <1>4, <1>5, HavingConcat
<1>7. /\ IsList(((a \o b) \o c) \o d)
      /\ \A k : Having(((a \o b) \o c) \o d, k) = Having((a \o b) \o c, k) \cup Having(d, k)
  BY <1>2, <1>6, HavingConcat
<1>8. /\ IsList(f \o LineErrors(l, s))
      /\ \A k : Having(f \o LineErrors(l, s), k) = Having(f, k) \cup Having(LineErrors(l, s), k)
  BY <1>3, <1>4, <1>7, HavingConcat
<1>9. ASSUME NEW k \in Watched
      PROVE  Having(f \o LineErrors(l, s), k) = Having(a, k) \cup Having(d, k)
  BY <1>3, <1>4, <1>5, <1>6, <1>7, <1>8
<1>q. Reports(u \o LineErrors(l, s), linenum)
  <2>1. Reports(a \o b, linenum)
    BY <1>p, ReportsConcat
  <2>2. Reports((a \o b) \o c, linenum)
    BY <1>p, <2>1, ReportsConcat
  <2>3. Reports(((a \o b) \o c) \o d, linenum)
    BY <1>p, <2>2, ReportsConcat
  <2>4. QED
    BY <1>3, <1>p, <2>3, ReportsConcat
<1>r. f \o LineErrors(l, s) = o \o (u \o LineErrors(l, s))
  <2> DEFINE w == LineErrors(l, s)
             T == ToSet(o) \cup ToSet(u) \cup ToSet(w)
  <2>1. IsList(w)
    BY <1>3, <1>7
  <2> HIDE DEF w
  <2>2. o \in Seq(T) /\ u \in Seq(T) /\ w \in Seq(T)
    BY <1>o, <1>u, <2>1 DEF IsList
  <2> HIDE DEF T
  <2>3. (o \o u) \o w = o \o (u \o w)
    BY <2>2
  <2>4. QED
    BY <1>1, <2>3 DEF w
<1>10. QED
  BY <1>4, <1>8, <1>9, <1>p, <1>q, <1>r DEF f, a, d, o, u

(***************************************************************************)
(* The invariant of the counts.                                            *)
(***************************************************************************)
CountInv == Shapes /\ RaisedBefore /\ Counts /\ Outcome

(* It holds at the start, and each action keeps it.                        *)
LEMMA EmptyCounts ==
  ASSUME printed = <<>>, error_count = 0, errors_by_category = EmptyBag
  PROVE  Counts
<1>1. BagOf(EmptyBag, <<>>)
  BY DEF EmptyBag, SetToBag, BagOf
<1>2. Len(<<>>) = 0
  OBVIOUS
<1>3. QED
  BY <1>1, <1>2 DEF Counts

LEMMA CountInit == Init => CountInv
<1> SUFFICES ASSUME Init PROVE CountInv
  OBVIOUS
<1>1. /\ pc = "arguments" /\ current = 1 /\ raised = <<>> /\ printed = <<>> /\ verbose_level = 1
      /\ error_count = 0 /\ errors_by_category = EmptyBag
  BY DEF Init, ReportInit
<1>2. IsRun(run)
  BY RunAssumption DEF Init
<1>3. Shapes
  BY <1>1, <1>2, NoneFacts DEF Shapes
<1>4. RaisedBefore
  BY <1>1, NoneFacts DEF RaisedBefore
<1>5. Counts
  BY <1>1, EmptyCounts
<1>6. Outcome
  BY <1>1 DEF Outcome
<1>7. QED
  BY <1>3, <1>4, <1>5, <1>6 DEF CountInv

LEMMA CountArguments ==
  ASSUME CountInv, ParseArguments
  PROVE  CountInv'
<1> DEFINE asked == Parsed(run.options, Len(run.files))
<1>1. /\ pc = "arguments" /\ printed = <<>> /\ raised = <<>> /\ error_count = 0 /\ errors_by_category = EmptyBag
      /\ Shapes
  BY DEF ParseArguments, CountInv, Outcome
<1>2. asked.exit \in Exits /\ asked.verbosity \in Nat
  BY <1>1, RunFacts, ParsedFacts DEF Shapes
<1>3. /\ UNCHANGED <<run, current, raised, printed, error_count, errors_by_category>>
      /\ pc' = "file" \/ (pc' = asked.exit /\ asked.exit # "")
      /\ verbose_level' \in Nat
  <2> HIDE DEF asked
  <2>1. CASE asked.exit = ""
    <3>1. pc' = "file" /\ SetOptions(asked) /\ UNCHANGED <<run, current>>
      BY <2>1 DEF ParseArguments, asked
    <3>2. QED
      BY <1>2, <3>1 DEF SetOptions, countVars
  <2>2. CASE asked.exit # ""
    <3>1. pc' = asked.exit /\ UNCHANGED reportVars /\ UNCHANGED <<run, current>>
      BY <2>2 DEF ParseArguments, asked
    <3>2. verbose_level \in Nat
      BY <1>1 DEF Shapes
    <3>3. QED
      BY <2>2, <3>1, <3>2 DEF reportVars, countVars, settingVars
  <2>3. QED
    BY <2>1, <2>2
<1> HIDE DEF asked
<1>4. pc' \notin {"arguments", "line", "success", "failure"}
  BY <1>2, <1>3 DEF Exits
<1>5. Shapes'
  BY <1>1, <1>3, <1>4 DEF Shapes
<1>6. RaisedBefore'
  <2>1. raised' = <<>>
    BY <1>1, <1>3
  <2>2. QED
    BY <2>1, NoneFacts DEF RaisedBefore
<1>7. Counts'
  <2>1. printed' = <<>> /\ error_count' = 0 /\ errors_by_category' = EmptyBag
    BY <1>1, <1>3
  <2>2. BagOf(EmptyBag, <<>>)'
    BY DEF EmptyBag, SetToBag, BagOf
  <2>3. Len(<<>>) = 0
    OBVIOUS
  <2>4. QED
    BY <2>1, <2>2, <2>3 DEF Counts
<1>8. Outcome'
  BY <1>4 DEF Outcome
<1>9. QED
  BY <1>5, <1>6, <1>7, <1>8 DEF CountInv

LEMMA CountSkip ==
  ASSUME CountInv, SkipFile
  PROVE  CountInv'
<1>1. /\ pc = "file" /\ pc' = "file" /\ current' = current + 1
      /\ UNCHANGED <<run, reportVars>>
  BY DEF SkipFile, NextFile
<1>2. UNCHANGED <<verbose_level, counting, error_count, errors_by_category, raised, printed>>
  BY <1>1 DEF reportVars, settingVars, countVars
<1>3. Shapes'
  BY <1>1, <1>2 DEF CountInv, Shapes
<1>4. RaisedBefore'
  BY <1>1, <1>2 DEF CountInv, RaisedBefore, Shapes
<1>5. Counts'
  BY <1>2 DEF CountInv, Counts, ByCategory, BagOf, At, CountedAs
<1>6. Outcome'
  BY <1>1 DEF Outcome
<1>7. QED
  BY <1>3, <1>4, <1>5, <1>6 DEF CountInv

LEMMA CountExit ==
  ASSUME CountInv, Exit
  PROVE  CountInv'
<1>1. /\ pc = "file" /\ pc' = (IF error_count > 0 THEN "failure" ELSE "success")
      /\ UNCHANGED <<run, current, reportVars>>
  BY DEF Exit
<1>2. UNCHANGED <<verbose_level, counting, error_count, errors_by_category, raised, printed>>
  BY <1>1 DEF reportVars, settingVars, countVars
<1>3. Shapes'
  BY <1>1, <1>2 DEF CountInv, Shapes
<1>4. RaisedBefore'
  BY <1>1, <1>2 DEF CountInv, RaisedBefore, Shapes
<1>5. Counts'
  BY <1>2 DEF CountInv, Counts, ByCategory, BagOf, At, CountedAs
<1>6. Outcome'
  <2>1. printed \in Seq(ToSet(printed)) /\ error_count = Len(printed)
    BY DEF CountInv, Shapes, Counts, IsList
  <2>2. error_count > 0 <=> printed # <<>>
    BY <2>1, EmptySeq
  <2>3. pc' # "arguments" /\ (pc' = "success" => printed' = <<>>) /\ (pc' = "failure" => printed' # <<>>)
    BY <1>1, <1>2, <2>2
  <2>4. QED
    BY <2>3 DEF Outcome
<1>7. QED
  BY <1>3, <1>4, <1>5, <1>6 DEF CountInv

(* The steps that report.                                                  *)
LEMMA CountHandled ==
  ASSUME CountInv, NEW events, IsList(events),
         Handle(Current(current), events) \/ Handle(Forgotten(current), events),
         Shapes', pc' \in {"file", "line"},
         \/ current' = current /\ pc' = "line"
         \/ current' = current + 1
  PROVE  CountInv'
<1>1. /\ IsList(raised') /\ IsList(printed')
      /\ Counts'
      /\ \A x \in ToSet(raised') : x \in ToSet(raised) \/ x.file = current
  BY Handled DEF CountInv, Shapes
<1>2. RaisedBefore'
  <2>1. current \in Nat
    BY DEF CountInv, Shapes
  <2>2. \A x \in ToSet(raised') : x.file \in Nat /\ x.file <= current
    BY <1>1, <2>1 DEF CountInv, RaisedBefore
  <2>3. \A x \in ToSet(raised)' : x.file \in Nat /\ x.file <= current' /\ (x.file = current' => pc' = "line")
    BY <2>1, <2>2
  <2>4. QED
    BY <2>3 DEF RaisedBefore
<1>3. Outcome'
  BY DEF Outcome
<1>4. QED
  BY <1>1, <1>2, <1>3 DEF CountInv

(* The steps that report, and what they report of what is watched.         *)
LEMMA OpenEvents ==
  ASSUME Shapes, OpenFile
  PROVE  /\ IsList(FirstErrors(File, ReadLines(File)))
         /\ \A c \in Watched : Having(FirstErrors(File, ReadLines(File)), c) = {}
         /\ Shapes'
<1>1. /\ pc = "file" /\ current <= Len(run.files) /\ NestingReset
      /\ Handle(Forgotten(current), FirstErrors(File, ReadLines(File)))
      /\ lines' = Uncommented(ReadLines(File)).lines /\ linenum' = 1 /\ pc' = "line"
      /\ UNCHANGED <<run, current>>
  BY DEF OpenFile
<1> DEFINE events == FirstErrors(File, ReadLines(File))
<1>3. current \in DOMAIN run.files /\ AreLines(File.lines)
  BY <1>1, RunFacts DEF Shapes, File
<1>2. IsList(events) /\ \A c \in Watched : Having(events, c) = {}
  BY <1>3, FileLines, FirstHaving
<1> HIDE DEF events
<1>4. AreLines(lines)'
  <2>1. AreLines(Uncommented(ReadLines(File)).lines)
    BY <1>3, FileLines
  <2>2. QED
    BY <1>1, <2>1 DEF AreLines
<1>5. 1 \in 1 .. Len(lines') + 1
  <2>1. Len(lines') \in Nat
    BY <1>4, ListFacts DEF AreLines, IsList
  <2>2. QED
    BY <2>1
<1>6. Kept(Asms)'
  <2>1. Kept(NoAsm)' /\ Kept(AnyAsm)'
    BY <1>1, KeptReset
  <2>2. QED
    BY <2>1 DEF Asms, Kept
<1>7. IsList(raised') /\ IsList(printed') /\ UNCHANGED settingVars
  BY <1>1, <1>2, Handled DEF Shapes, events
<1>8. Shapes'
  <2>1. verbose_level' = verbose_level
    BY <1>7 DEF settingVars
  <2>2. QED
    BY <1>1, <1>3, <1>4, <1>5, <1>6, <1>7, <2>1 DEF Shapes
<1>9. QED
  BY <1>2, <1>8 DEF events

LEMMA CountOpen ==
  ASSUME CountInv, OpenFile
  PROVE  CountInv'
<1>1. /\ Handle(Forgotten(current), FirstErrors(File, ReadLines(File)))
      /\ pc' = "line" /\ current' = current
  BY DEF OpenFile
<1>2. Shapes' /\ IsList(FirstErrors(File, ReadLines(File)))
  BY OpenEvents DEF CountInv
<1>3. QED
  BY <1>1, <1>2, CountHandled

LEMMA CloseEvents ==
  ASSUME Shapes, CloseFile
  PROVE  LET events == CompletedBlocksErrors \o WhatYouUseErrors(File.name, lines, File.disk)
                       \o BadCharacterErrors(lines) \o NewlineErrors(lines)
                       \o MixedNewlineErrors(File)
         IN /\ IsList(events) /\ Handle(Current(current), events)
            /\ \E N : events \in Seq(Own(N))
            /\ Shapes' /\ pc' = "file" /\ current' = current + 1
<1> DEFINE events == CompletedBlocksErrors \o WhatYouUseErrors(File.name, lines, File.disk)
                     \o BadCharacterErrors(lines) \o NewlineErrors(lines)
                     \o MixedNewlineErrors(File)
<1>1. /\ pc = "line" /\ Handle(Current(current), events)
      /\ pc' = "file" /\ current' = current + 1 /\ UNCHANGED run
  BY DEF CloseFile, NextFile
<1>2. IsList(events) /\ \E N : events \in Seq(Own(N))
  BY <1>1, CloseOwn, HavingOwn
<1> HIDE DEF events
<1>3. IsList(raised') /\ IsList(printed') /\ UNCHANGED settingVars
  BY <1>1, <1>2, Handled DEF Shapes
<1>4. Shapes'
  <2>1. verbose_level' = verbose_level
    BY <1>3 DEF settingVars
  <2>2. QED
    BY <1>1, <1>3, <2>1 DEF Shapes
<1>5. QED
  BY <1>1, <1>2, <1>4 DEF events

LEMMA CountClose ==
  ASSUME CountInv, CloseFile
  PROVE  CountInv'
<1> DEFINE events == CompletedBlocksErrors \o WhatYouUseErrors(File.name, lines, File.disk)
                     \o BadCharacterErrors(lines) \o NewlineErrors(lines)
                     \o MixedNewlineErrors(File)
<1>1. /\ IsList(events) /\ Handle(Current(current), events)
      /\ Shapes' /\ pc' = "file" /\ current' = current + 1
  BY CloseEvents DEF CountInv
<1> HIDE DEF events
<1>2. QED
  BY <1>1, CountHandled

(* A line that is not in inline assembly, and one that is.                 *)
Checked(events) ==
  /\ CheckForFunctionLengths(lines, linenum)
  /\ CheckLanguage(File.name, lines[linenum])
  /\ \A c \in Watched :
       Having(events, c) = Having(FunctionErrors(lines, linenum, verbose_level), c)
                             \cup Having(Language(lines[linenum]), c)

LEMMA LineEvents ==
  ASSUME Shapes, ProcessLine
  PROVE  \E events :
           /\ IsList(events) /\ Handle(Current(current), events)
           /\ Plain => Checked(events)
           /\ \E more : Reports(more, linenum) /\ events = Nolint(linenum, lines[linenum]) \o more
           /\ Shapes' /\ pc = "line" /\ linenum \in 1 .. Len(lines) /\ linenum' = linenum + 1
           /\ UNCHANGED <<run, pc, current, lines>>
           /\ Plain' <=> Plain
<1> DEFINE l == lines[linenum]
<1>1. PICK s : s = stack'
  OBVIOUS
<1>2. /\ pc = "line" /\ linenum \in 1 .. Len(lines) /\ Update(lines, linenum)
      /\ linenum' = linenum + 1 /\ UNCHANGED <<run, pc, current, lines>>
  BY DEF ProcessLine
<1>3. \/ InAsmBlock(s) /\ Handle(Current(current), FirstOf(l))
      \/ /\ ~InAsmBlock(s)
         /\ CheckForFunctionLengths(lines, linenum) /\ CheckLanguage(File.name, l)
         /\ Handle(Current(current), FirstOf(l) \o LineErrors(l, s))
  BY <1>1 DEF ProcessLine, FirstOf
<1>4. AreLines(lines) /\ DOMAIN lines = 1 .. Len(lines) /\ Len(lines) \in Nat
  <2>1. AreLines(lines)
    BY <1>2 DEF Shapes
  <2>2. QED
    BY <2>1, ListFacts DEF AreLines, IsList
<1>5. /\ Kept(Asms)'
      /\ Plain => ~InAsmBlock(s)
      /\ UpdateErrors(lines, linenum) \in Seq(Own({linenum}))
  <2>1. PICK asms : asms = Asms
    OBVIOUS
  <2>2. asms \in {NoAsm, AnyAsm} /\ (asms = NoAsm => Plain) /\ (Plain => asms = NoAsm)
    <3>1. NoAsm # AnyAsm
      BY DEF NoAsm, AnyAsm
    <3>2. QED
      BY <2>1, <3>1 DEF Asms
  <2>3. Kept(asms)
    BY <1>2, <2>1 DEF Shapes
  <2>4. IsLine(l) /\ (Plain => ~HasToken(l, "asm"))
    BY <1>2, <1>4 DEF AreLines, Plain
  <2>5. Kept(asms)' /\ Blocks(stack', asms) /\ UpdateErrors(lines, linenum) \in Seq(Own({linenum}))
    BY <1>2, <2>2, <2>3, <2>4, KeptUpdate
  <2>6. Asms' = asms
    BY <1>2, <2>1 DEF Asms, Plain
  <2>7. Kept(Asms)'
    BY <2>5, <2>6 DEF Kept
  <2>8. Plain => Blocks(s, NoAsm)
    BY <1>1, <2>2, <2>5
  <2>9. QED
    BY <2>5, <2>7, <2>8, NoAsmBlock
<1>6. /\ IsList(FirstOf(l)) /\ IsList(FirstOf(l) \o LineErrors(l, s))
      /\ \A c \in Watched :
           Having(FirstOf(l) \o LineErrors(l, s), c)
             = Having(FunctionErrors(lines, linenum, verbose_level), c) \cup Having(Language(l), c)
      /\ Reports(UpdateErrors(lines, linenum), linenum)
      /\ Reports(UpdateErrors(lines, linenum) \o LineErrors(l, s), linenum)
      /\ FirstOf(l) = Nolint(linenum, l) \o UpdateErrors(lines, linenum)
      /\ FirstOf(l) \o LineErrors(l, s)
           = Nolint(linenum, l) \o (UpdateErrors(lines, linenum) \o LineErrors(l, s))
  BY <1>5, LineHaving DEF FirstOf
<1>7. PICK events :
        /\ IsList(events) /\ Handle(Current(current), events)
        /\ Plain => Checked(events)
        /\ \E more : Reports(more, linenum) /\ events = Nolint(linenum, l) \o more
  <2>1. CASE InAsmBlock(s)
    BY <1>3, <1>5, <1>6, <2>1
  <2>2. CASE ~InAsmBlock(s)
    <3>1. Checked(FirstOf(l) \o LineErrors(l, s))
      BY <1>3, <1>6, <2>2 DEF Checked
    <3>2. QED
      BY <1>3, <1>6, <2>2, <3>1
  <2>3. QED
    BY <2>1, <2>2
<1>8. IsList(raised') /\ IsList(printed') /\ UNCHANGED settingVars
  BY <1>7, Handled DEF Shapes
<1>9. Shapes'
  <2>1. verbose_level' = verbose_level
    BY <1>8 DEF settingVars
  <2>2. AreLines(lines)'
    BY <1>2, <1>4 DEF AreLines
  <2>3. linenum' \in 1 .. Len(lines') + 1
    BY <1>2, <1>4
  <2>4. current \in DOMAIN run.files
    BY <1>2 DEF Shapes
  <2>5. QED
    BY <1>2, <1>5, <1>8, <2>1, <2>2, <2>3, <2>4 DEF Shapes
<1>10. Plain' <=> Plain
  BY <1>2 DEF Plain
<1>11. QED
  BY <1>2, <1>7, <1>9, <1>10

LEMMA CountLine ==
  ASSUME CountInv, ProcessLine
  PROVE  CountInv'
<1>1. PICK events :
        /\ IsList(events) /\ Handle(Current(current), events)
        /\ Shapes' /\ pc = "line" /\ UNCHANGED <<run, pc, current, lines>>
  BY LineEvents DEF CountInv
<1>2. QED
  BY <1>1, CountHandled

LEMMA CountStutter ==
  ASSUME CountInv, UNCHANGED vars
  PROVE  CountInv'
<1>1. /\ UNCHANGED <<run, pc, current, lines, linenum, stack, pp_stack>>
      /\ UNCHANGED <<verbose_level, counting, error_count, errors_by_category, raised, printed>>
  BY DEF vars, driverVars, nestingVars, reportVars, settingVars, countVars
<1>2. Shapes'
  <2>1. Asms' = Asms
    BY <1>1 DEF Asms, Plain
  <2>2. Kept(Asms) => Kept(Asms)'
    BY <1>1, <2>1 DEF Kept
  <2>3. QED
    BY <1>1, <2>2 DEF CountInv, Shapes, AreLines
<1>3. RaisedBefore' /\ Outcome'
  BY <1>1 DEF CountInv, RaisedBefore, Outcome
<1>4. Counts'
  BY <1>1 DEF CountInv, Counts, ByCategory, BagOf, At, CountedAs
<1>5. QED
  BY <1>2, <1>3, <1>4 DEF CountInv

LEMMA CountNext == CountInv /\ [Next]_vars => CountInv'
<1> SUFFICES ASSUME CountInv, [Next]_vars PROVE CountInv'
  OBVIOUS
<1>1. CASE ParseArguments
  BY <1>1, CountArguments
<1>2. CASE SkipFile
  BY <1>2, CountSkip
<1>3. CASE OpenFile
  BY <1>3, CountOpen
<1>4. CASE ProcessLine
  BY <1>4, CountLine
<1>5. CASE CloseFile
  BY <1>5, CountClose
<1>6. CASE Exit
  BY <1>6, CountExit
<1>7. CASE UNCHANGED vars
  BY <1>7, CountStutter
<1>8. QED
  BY <1>1, <1>2, <1>3, <1>4, <1>5, <1>6, <1>7 DEF Next

LEMMA CountAlways == Spec => []CountInv
BY CountInit, CountNext, PTL DEF Spec

(* IncrementErrorCount and main: the counts that are written last, in total*)
(* and by category, and the exit status agree with what was printed.       *)
THEOREM CountsAgreeWithPrinted == Spec => []CountsAgree
<1>1. CountInv => CountsAgree
  <2> SUFFICES ASSUME CountInv PROVE CountsAgree
    OBVIOUS
  <2>1. error_count = Len(printed) /\ (ByCategory => BagOf(errors_by_category, printed))
    BY DEF CountInv, Counts
  <2>2. (pc = "success" => printed = <<>>) /\ (pc = "failure" => printed # <<>>)
    BY DEF CountInv, Outcome
  <2>3. QED
    BY <2>1, <2>2 DEF CountsAgree, ByCategory, BagOf, BagToSet, At
<1>2. QED
  BY <1>1, CountAlways, PTL

(***************************************************************************)
(* What is raised on a line.                                               *)
(***************************************************************************)
(* What was raised on a line of a file, and that nothing was raised on the *)
(* lines of the current file that were not looked at.                      *)
On(s, file, n, c) == {x \in Raising(s, c) : x.file = file /\ x.line = n}
Recent(c) == \A x \in Raising(raised, c) : x.file = current => x.line \in Nat /\ x.line < linenum

(* The same, as the properties say it.                                     *)
LEMMA RaisedAtOn ==
  \A n, c : /\ RaisedAt(n, c) # {} <=> On(raised, current, n, c) # {}
            /\ \A i \in RaisedAt(n, c) : raised[i] \in On(raised, current, n, c)
BY DEF RaisedAt, On, Raising, ToSet

(* A file starts with nothing raised on its lines.                         *)
LEMMA OpenRaised ==
  ASSUME CountInv, OpenFile, NEW c \in Watched
  PROVE  Recent(c)'
<1>1. /\ Handle(Forgotten(current), FirstErrors(File, ReadLines(File)))
      /\ pc = "file" /\ current' = current
  BY DEF OpenFile
<1> DEFINE events == FirstErrors(File, ReadLines(File))
<1>2. IsList(events) /\ Having(events, c) = {}
  BY OpenEvents DEF CountInv
<1>3. Raising(raised', c) = Raising(raised, c)
  <2> HIDE DEF events
  <2>1. IsList(raised) /\ IsList(printed) /\ c # NolintCategory
    BY OtherCategories DEF CountInv, Shapes
  <2>2. Handle(Forgotten(current), events)
    BY <1>1 DEF events
  <2>3. Raising(raised', c) = Raising(raised, c) \cup {InFile(e, current) : e \in Having(events, c)}
    BY <1>2, <2>1, <2>2, Handled
  <2>4. QED
    BY <1>2, <2>3
<1>4. \A x \in Raising(raised, c) : x.file # current
  BY <1>1 DEF CountInv, RaisedBefore, Raising
<1>5. QED
  BY <1>1, <1>3, <1>4 DEF Recent, Raising

(* What the reading of a line raises.                                      *)
LineRaises(c) ==
  {InFile(e, current) : e \in Having(FunctionErrors(lines, linenum, verbose_level), c)
                                \cup Having(Language(lines[linenum]), c)}

LEMMA LineRaised ==
  ASSUME CountInv, Plain, ProcessLine, NEW c \in Watched, Recent(c)
  PROVE  /\ Recent(c)'
         /\ \A n \in Nat : n < linenum => On(raised', current, n, c) = On(raised, current, n, c)
         /\ On(raised', current, linenum, c) = LineRaises(c)
<1>1. PICK events :
        /\ IsList(events) /\ Handle(Current(current), events) /\ Checked(events)
        /\ pc = "line" /\ linenum \in 1 .. Len(lines) /\ linenum' = linenum + 1
        /\ UNCHANGED <<current, lines>>
  BY LineEvents DEF CountInv
<1> DEFINE new == LineRaises(c)
<1>2. Raising(raised', c) = Raising(raised, c) \cup new
  <2>1. Raising(raised', c) = Raising(raised, c) \cup {InFile(e, current) : e \in Having(events, c)}
    BY <1>1, Handled, OtherCategories DEF CountInv, Shapes
  <2>2. QED
    BY <1>1, <2>1 DEF Checked, LineRaises
<1>3. \A x \in new : x.file = current /\ x.line = linenum /\ x.category = c
  <2>1. \A e \in ToSet(FunctionErrors(lines, linenum, verbose_level)) : e.line = linenum
    BY FunctionFacts
  <2>2. \A e \in ToSet(Language(lines[linenum])) : e.line = linenum
    BY IncludeFacts DEF Language
  <2>3. \A e : InFile(e, current).file = current /\ InFile(e, current).line = e.line
               /\ InFile(e, current).category = e.category
    BY DEF InFile
  <2>4. QED
    BY <2>1, <2>2, <2>3 DEF LineRaises, Having
<1> HIDE DEF new
<1>4. linenum \in Nat /\ linenum < linenum + 1
  BY <1>1
<1>5. Recent(c)'
  <2>1. ASSUME NEW x \in Raising(raised', c), x.file = current
        PROVE  x.line \in Nat /\ x.line < linenum + 1
    <3>1. CASE x \in new
      BY <1>3, <1>4, <3>1
    <3>2. CASE x \in Raising(raised, c)
      <4>1. x.line \in Nat /\ x.line < linenum
        BY <2>1, <3>2 DEF Recent
      <4>2. QED
        BY <1>4, <4>1
    <3>3. QED
      BY <1>2, <2>1, <3>1, <3>2
  <2>2. QED
    BY <1>1, <2>1 DEF Recent, Raising
<1>6. \A n \in Nat : n < linenum => On(raised', current, n, c) = On(raised, current, n, c)
  BY <1>2, <1>3, <1>4 DEF On
<1>7. On(raised, current, linenum, c) = {}
  BY <1>4 DEF On, Recent
<1>8. On(raised', current, linenum, c) = new
  BY <1>2, <1>3, <1>7 DEF On
<1>9. QED
  BY <1>5, <1>6, <1>8 DEF new

(***************************************************************************)
(* Powers, quotients and the confidence of a report.                       *)
(***************************************************************************)
LEMMA PowerFacts == Power \in [Nat -> Nat]
<1> DEFINE Is(g) == g = [n \in Nat |-> IF n = 0 THEN 1 ELSE 2 * g[n - 1]]
           twice == [n \in Nat |-> 2 * n]
<1>1. PICK f : AllIterates(f, Nat, twice, 1)
  <2>1. twice \in [Nat -> Nat] /\ 1 \in Nat
    OBVIOUS
  <2> HIDE DEF twice
  <2>2. QED
    BY <2>1, Iteration
<1>2. Is(f)
  <2>1. f \in [Nat -> Nat] /\ f[0] = 1 /\ \A n \in Nat : f[n + 1] = 2 * f[n]
    BY <1>1 DEF AllIterates
  <2>2. ASSUME NEW n \in Nat PROVE f[n] = IF n = 0 THEN 1 ELSE 2 * f[n - 1]
    <3>1. CASE n = 0
      BY <2>1, <3>1
    <3>2. CASE n # 0
      <4>1. n - 1 \in Nat /\ (n - 1) + 1 = n
        BY <3>2
      <4>2. f[(n - 1) + 1] = 2 * f[n - 1]
        BY <2>1, <4>1
      <4>3. QED
        BY <3>2, <4>1, <4>2
    <3>3. QED
      BY <3>1, <3>2
  <2>3. QED
    BY <2>1, <2>2
<1>3. Power = CHOOSE g : Is(g)
  BY DEF Power
<1>4. Is(Power)
  <2> HIDE DEF Is
  <2>1. QED
    BY <1>2, <1>3
<1> DEFINE P == {n \in Nat : Power[n] \in Nat}
<1>5. 0 \in P
  BY <1>4
<1>6. ASSUME NEW n \in P PROVE n + 1 \in P
  <2>1. n + 1 \in Nat /\ n + 1 # 0 /\ (n + 1) - 1 = n
    OBVIOUS
  <2>2. Power[n + 1] = 2 * Power[(n + 1) - 1]
    BY <1>4, <2>1
  <2>3. QED
    BY <2>1, <2>2
<1>7. P = Nat
  <2> HIDE DEF P
  <2>0. P \in SUBSET Nat
    BY DEF P
  <2>1. QED
    BY <1>5, <1>6, <2>0, NatSetInduction
<1>8. QED
  BY <1>4, <1>7

(* More than b times p is at least p times b.                              *)
LEMMA Quotient ==
  ASSUME NEW a \in Nat, NEW b \in Nat \ {0}, NEW p \in Nat, b * p < a
  PROVE  a \div b \in Nat /\ p <= a \div b
<1> DEFINE q == a \div b
<1>1. q \in Int /\ b * q <= a /\ a < b * (q + 1)
  OBVIOUS
<1>2. q + 1 > p
  <2> SUFFICES ASSUME q + 1 <= p PROVE FALSE
    BY <1>1
  <2>1. b * (q + 1) <= b * p
    BY <1>1
  <2>2. b * (q + 1) \in Int /\ b * p \in Int
    BY <1>1
  <2>3. QED
    BY <1>1, <2>1, <2>2
<1>3. QED
  BY <1>1, <1>2

(* The trigger of a name, and the confidence of a report.                  *)
LEMMA TriggerFacts == \A name : BaseTrigger(name) \in Nat \ {0}
BY Triggers DEF BaseTrigger

LEMMA LevelFacts ==
  ASSUME NEW count \in Nat, NEW base \in Nat \ {0}, NEW v \in Nat, v <= MaxLevel,
         ~ (count <= base * Power[v])
  PROVE  ErrorLevel(count, base) >= v
<1> DEFINE s == {k \in 0 .. MaxLevel : Power[k] <= count \div base}
<1>1. Power[v] \in Nat
  BY PowerFacts
<1>2. base * Power[v] < count
  <2>1. base * Power[v] \in Int
    BY <1>1
  <2>2. QED
    BY <2>1
<1>3. Power[v] <= count \div base
  BY <1>1, <1>2, Quotient
<1>4. v \in s /\ s \subseteq Nat /\ \A k \in s : k <= 5
  BY <1>3 DEF MaxLevel
<1>5. ErrorLevel(count, base) = Max(s)
  BY DEF ErrorLevel
<1> HIDE DEF s
<1>6. \E m \in s : \A n \in s : m >= n
  <2>1. \E m \in s : \A n \in s : n <= m
    BY <1>4, GreatestNat
  <2>2. QED
    BY <1>4, <2>1
<1>7. \A n \in s : Max(s) >= n
  BY <1>6 DEF Max
<1>8. QED
  BY <1>4, <1>5, <1>7

(***************************************************************************)
(* The size of functions.                                                  *)
(***************************************************************************)
StartedBy(n) == {s \in Starts : s < n}
NoEnd(s, n) == \A e \in Ends : s < e => n <= e
CountedLines(s, n) == {m \in BodyOf(s) : m < n}

(* A start is no end, and both have code.                                  *)
LEMMA LineNumbers ==
  ASSUME AreLines(lines)
  PROVE  /\ Len(lines) \in Nat /\ DOMAIN lines = 1 .. Len(lines)
         /\ Starts \subseteq 1 .. Len(lines) /\ Ends \subseteq 1 .. Len(lines)
         /\ \A n : StartsFunction(lines[n]) => ~EndsFunction(lines[n]) /\ ~NoCode(lines[n])
         /\ \A n : EndsFunction(lines[n]) => ~NoCode(lines[n])
<1>1. Len(lines) \in Nat /\ DOMAIN lines = 1 .. Len(lines)
  BY ListFacts DEF AreLines, IsList
<1>2. Starts \subseteq 1 .. Len(lines) /\ Ends \subseteq 1 .. Len(lines)
  BY <1>1 DEF Starts, Ends
<1>3. ASSUME NEW n, StartsFunction(lines[n]) PROVE Len(lines[n].toks) - 1 >= 1
  <2>1. PICK k \in 1 .. Len(lines[n].toks) - 1 : TRUE
    BY <1>3 DEF StartsFunction
  <2>2. QED
    BY <2>1
<1>4. Len(<<"}">>) = 1 /\ Len(<<>>) = 0 /\ <<"}">> # <<>>
  OBVIOUS
<1>5. ASSUME NEW n, StartsFunction(lines[n])
      PROVE  ~EndsFunction(lines[n]) /\ ~NoCode(lines[n])
  <2>1. Len(lines[n].toks) - 1 >= 1
    BY <1>3, <1>5
  <2>2. lines[n].toks # <<"}">> /\ lines[n].toks # <<>>
    <3> DEFINE t == lines[n].toks
               one == <<"}">>
    <3>1. Len(t) - 1 >= 1 /\ Len(one) = 1 /\ Len(<<>>) = 0
      BY <1>4, <2>1
    <3> HIDE DEF t, one
    <3>2. t # one /\ t # <<>>
      BY <3>1
    <3>3. QED
      BY <3>2 DEF t, one
  <2>3. QED
    BY <2>2 DEF EndsFunction, NoCode
<1>6. \A n : EndsFunction(lines[n]) => ~NoCode(lines[n])
  BY <1>4 DEF EndsFunction, NoCode
<1>7. QED
  BY <1>1, <1>2, <1>5, <1>6

(* The lines of a function are those with no end before them.              *)
LEMMA BodyFacts ==
  ASSUME AreLines(lines), NEW s \in 1 .. Len(lines)
  PROVE  /\ BodyOf(s) \in SUBSET (1 .. Len(lines)) /\ IsFiniteSet(BodyOf(s))
         /\ \A n \in 1 .. Len(lines) :
              n \in BodyOf(s) <=> /\ s < n /\ NoEnd(s, n + 1)
                                  /\ ~StartsFunction(lines[n]) /\ ~NoCode(lines[n])
<1> DEFINE X == {n \in Ends : n > s} \cup {Len(lines) + 1}
           e == Min(X)
<1>1. Len(lines) \in Nat /\ Ends \subseteq 1 .. Len(lines)
  BY LineNumbers
<1>2. X \in SUBSET Nat /\ X # {} /\ Len(lines) + 1 \in X
  <2>1. Len(lines) + 1 \in Nat /\ \A n \in Ends : n \in Nat
    BY <1>1
  <2>2. QED
    BY <2>1
<1>3. e \in X /\ (\A n \in X : e <= n) /\ e \in Nat
  BY <1>2, MinFacts
<1>4. BodyOf(s) = {n \in s + 1 .. e - 1 : ~StartsFunction(lines[n]) /\ ~NoCode(lines[n])}
  BY DEF BodyOf
<1>5. e <= Len(lines) + 1
  BY <1>2, <1>3
<1>6. \A n \in 1 .. Len(lines) : n < e <=> NoEnd(s, n + 1)
  <2> TAKE n \in 1 .. Len(lines)
  <2>1. ASSUME n < e PROVE NoEnd(s, n + 1)
    <3>1. ASSUME NEW m \in Ends, s < m PROVE n + 1 <= m
      <4>1. m \in X /\ m \in Nat
        BY <1>1, <3>1
      <4>2. e <= m
        BY <1>3, <4>1
      <4>3. QED
        BY <1>1, <1>3, <2>1, <4>1, <4>2
    <3>2. QED
      BY <3>1 DEF NoEnd
  <2>2. ASSUME NoEnd(s, n + 1) PROVE n < e
    <3>1. CASE e \in Ends /\ e > s
      <4>1. n + 1 <= e
        BY <1>1, <2>2, <3>1 DEF NoEnd
      <4>2. QED
        BY <1>1, <1>3, <4>1
    <3>2. CASE e = Len(lines) + 1
      BY <1>1, <3>2
    <3>3. QED
      BY <1>3, <3>1, <3>2
  <2>3. QED
    BY <2>1, <2>2
<1> HIDE DEF e, X
<1>7. BodyOf(s) \subseteq 1 .. Len(lines)
  BY <1>1, <1>3, <1>4, <1>5
<1>8. IsFiniteSet(BodyOf(s))
  <2>1. IsFiniteSet(1 .. Len(lines))
    BY <1>1, FS_Interval
  <2>2. QED
    BY <1>7, <2>1, FS_Subset
<1>9. \A n \in 1 .. Len(lines) : n \in s + 1 .. e - 1 <=> s < n /\ n < e
  BY <1>1, <1>3
<1>10. QED
  BY <1>4, <1>6, <1>7, <1>8, <1>9

(* A line more.                                                            *)
LEMMA StartedFacts ==
  ASSUME AreLines(lines), NEW n \in 1 .. Len(lines) + 1, StartedBy(n) # {}
  PROVE  /\ Max(StartedBy(n)) \in Starts /\ Max(StartedBy(n)) < n
         /\ Max(StartedBy(n)) \in 1 .. Len(lines)
         /\ \A m \in StartedBy(n) : m <= Max(StartedBy(n))
<1>1. Len(lines) \in Nat /\ StartedBy(n) \in SUBSET (1 .. Len(lines))
  BY LineNumbers DEF StartedBy
<1> DEFINE B == StartedBy(n)
<1>2. Max(B) \in B /\ \A i \in B : i <= Max(B)
  <2> HIDE DEF B
  <2>1. QED
    BY <1>1, MaxFacts DEF B
<1>3. QED
  BY <1>1, <1>2 DEF StartedBy

LEMMA StartedNext ==
  ASSUME AreLines(lines), NEW n \in 1 .. Len(lines)
  PROVE  /\ n \notin Starts => StartedBy(n + 1) = StartedBy(n)
         /\ n \in Starts => StartedBy(n + 1) # {} /\ Max(StartedBy(n + 1)) = n
<1>1. Len(lines) \in Nat /\ Starts \subseteq 1 .. Len(lines)
  BY LineNumbers
<1>2. \A m \in 1 .. Len(lines) : m < n + 1 <=> m < n \/ m = n
  BY <1>1
<1>3. n \notin Starts => StartedBy(n + 1) = StartedBy(n)
  BY <1>1, <1>2 DEF StartedBy
<1>4. ASSUME n \in Starts PROVE StartedBy(n + 1) # {} /\ Max(StartedBy(n + 1)) = n
  <2>1. n \in StartedBy(n + 1) /\ n + 1 \in 1 .. Len(lines) + 1
    BY <1>1, <1>2, <1>4 DEF StartedBy
  <2> DEFINE m == Max(StartedBy(n + 1))
  <2>2. m < n + 1 /\ m \in 1 .. Len(lines) /\ n <= m
    BY <2>1, StartedFacts
  <2>3. m = n
    <3> HIDE DEF m
    <3>1. QED
      BY <1>1, <2>2
  <2>4. QED
    BY <2>1, <2>3
<1>5. QED
  BY <1>3, <1>4

LEMMA CountedNext ==
  ASSUME AreLines(lines), NEW s \in 1 .. Len(lines), NEW n \in 1 .. Len(lines)
  PROVE  /\ Cardinality(CountedLines(s, n)) \in Nat
         /\ n \notin BodyOf(s) => CountedLines(s, n + 1) = CountedLines(s, n)
         /\ n \in BodyOf(s) =>
              Cardinality(CountedLines(s, n + 1)) = Cardinality(CountedLines(s, n)) + 1
         /\ Cardinality(CountedLines(n, n + 1)) = 0
<1>1. /\ Len(lines) \in Nat
      /\ BodyOf(s) \subseteq 1 .. Len(lines) /\ IsFiniteSet(BodyOf(s))
      /\ \A m \in BodyOf(n) : m \in 1 .. Len(lines) /\ n < m
  BY LineNumbers, BodyFacts
<1>2. \A m \in 1 .. Len(lines) : m < n + 1 <=> m < n \/ m = n
  BY <1>1
<1> DEFINE c == CountedLines(s, n)
<1>3. c \subseteq BodyOf(s) /\ n \notin c /\ IsFiniteSet(c)
  <2>1. c \subseteq BodyOf(s) /\ n \notin c
    BY <1>1 DEF CountedLines
  <2>2. QED
    BY <1>1, <2>1, FS_Subset
<1>4. Cardinality(c) \in Nat
  BY <1>3, FS_CardinalityType
<1>5. n \notin BodyOf(s) => CountedLines(s, n + 1) = c
  BY <1>1, <1>2 DEF CountedLines
<1>6. n \in BodyOf(s) => CountedLines(s, n + 1) = c \cup {n}
  BY <1>1, <1>2 DEF CountedLines
<1>7. CountedLines(n, n + 1) = {}
  BY <1>1, <1>2 DEF CountedLines
<1> HIDE DEF c
<1>8. Cardinality(c \cup {n}) = Cardinality(c) + 1
  BY <1>3, FS_AddElement
<1>9. Cardinality(CountedLines(n, n + 1)) = 0
  BY <1>7, FS_EmptySet
<1>10. QED
  BY <1>4, <1>5, <1>6, <1>8, <1>9 DEF c

(* At an end all of the lines have been counted.                           *)
LEMMA CountedAtEnd ==
  ASSUME AreLines(lines), NEW s \in 1 .. Len(lines), NEW n \in Ends, s < n
  PROVE  CountedLines(s, n) = BodyOf(s)
<1>1. Len(lines) \in Nat /\ n \in 1 .. Len(lines) /\ BodyOf(s) \subseteq 1 .. Len(lines)
  BY LineNumbers, BodyFacts
<1>2. ASSUME NEW m \in BodyOf(s) PROVE m < n
  <2>1. NoEnd(s, m + 1)
    BY <1>1, BodyFacts
  <2>2. m + 1 <= n
    BY <2>1 DEF NoEnd
  <2>3. QED
    BY <1>1, <2>2
<1>3. QED
  BY <1>2 DEF CountedLines

(* The function the script is in, read from the text.                      *)
Followed(n, inside, count, name) ==
  IF StartedBy(n) = {} THEN count = 0 /\ ~inside
  ELSE LET s == Max(StartedBy(n)) IN
       /\ name = FunctionName(lines[s])
       /\ count = Cardinality(CountedLines(s, n))
       /\ inside <=> NoEnd(s, n)

LEMMA FollowedStep ==
  ASSUME AreLines(lines), linenum \in 1 .. Len(lines), CheckForFunctionLengths(lines, linenum),
         Followed(linenum, in_a_function, lines_in_function, current_function)
  PROVE  Followed(linenum + 1, in_a_function', lines_in_function', current_function')
<1> DEFINE n == linenum
           l == lines[n]
           a == in_a_function'
           c == lines_in_function'
           name == current_function'
<1>1. /\ Len(lines) \in Nat /\ DOMAIN lines = 1 .. Len(lines) /\ n \in DOMAIN lines
      /\ Starts \subseteq 1 .. Len(lines) /\ Ends \subseteq 1 .. Len(lines)
      /\ (StartsFunction(l) => ~EndsFunction(l) /\ ~NoCode(l))
      /\ (EndsFunction(l) => ~NoCode(l))
      /\ n \in 1 .. Len(lines) /\ n \in 1 .. Len(lines) + 1
  BY LineNumbers
<1>2. (n \in Starts <=> StartsFunction(l) /\ HasBody(lines, n)) /\ (n \in Ends <=> ~StartsFunction(l) /\ EndsFunction(l))
  BY <1>1 DEF Starts, Ends
<1>3. /\ n \notin Starts => StartedBy(n + 1) = StartedBy(n)
      /\ n \in Starts => StartedBy(n + 1) # {} /\ Max(StartedBy(n + 1)) = n
  BY <1>1, StartedNext
<1> DEFINE s == Max(StartedBy(n))
<1>4. ASSUME StartedBy(n) # {}
      PROVE  /\ s \in 1 .. Len(lines) /\ s < n
             /\ name = current_function => name = FunctionName(lines[s])
             /\ n \notin BodyOf(s) => Cardinality(CountedLines(s, n + 1)) = lines_in_function
             /\ n \in BodyOf(s) => Cardinality(CountedLines(s, n + 1)) = lines_in_function + 1
             /\ in_a_function <=> NoEnd(s, n)
             /\ n \notin Ends => (NoEnd(s, n + 1) <=> NoEnd(s, n))
             /\ n \in Ends => ~NoEnd(s, n + 1)
             /\ n \in BodyOf(s) <=> NoEnd(s, n + 1) /\ ~StartsFunction(l) /\ ~NoCode(l)
  <2>1. s \in 1 .. Len(lines) /\ s < n
    BY <1>1, <1>4, StartedFacts
  <2>2. /\ current_function = FunctionName(lines[s])
        /\ lines_in_function = Cardinality(CountedLines(s, n))
        /\ in_a_function <=> NoEnd(s, n)
    BY <1>4 DEF Followed
  <2> HIDE DEF s
  <2>3. /\ n \notin BodyOf(s) => Cardinality(CountedLines(s, n + 1)) = lines_in_function
        /\ n \in BodyOf(s) => Cardinality(CountedLines(s, n + 1)) = lines_in_function + 1
    BY <1>1, <2>1, <2>2, CountedNext
  <2>4. n \in BodyOf(s) <=> NoEnd(s, n + 1) /\ ~StartsFunction(l) /\ ~NoCode(l)
    BY <1>1, <2>1, BodyFacts
  <2>5. n \notin Ends => (NoEnd(s, n + 1) <=> NoEnd(s, n))
    <3>1. ASSUME n \notin Ends PROVE \A e \in Ends : n + 1 <= e <=> n <= e
      BY <1>1, <3>1
    <3>2. QED
      BY <3>1 DEF NoEnd
  <2>6. n \in Ends => ~NoEnd(s, n + 1)
    BY <1>1, <2>1 DEF NoEnd
  <2>7. QED
    BY <2>1, <2>2, <2>3, <2>4, <2>5, <2>6
<1>5. ASSUME StartedBy(n) = {} PROVE lines_in_function = 0 /\ ~in_a_function
  BY <1>5 DEF Followed
<1>6. CASE n \in Starts
  <2>1. a = TRUE /\ c = 0 /\ name = FunctionName(l)
    BY <1>1, <1>2, <1>6 DEF CheckForFunctionLengths, Begin, Count, End
  <2>2. Cardinality(CountedLines(n, n + 1)) = 0 /\ NoEnd(n, n + 1)
    <3>1. NoEnd(n, n + 1)
      BY <1>1 DEF NoEnd
    <3>2. QED
      BY <1>1, <3>1, CountedNext
  <2>3. QED
    BY <1>3, <1>6, <2>1, <2>2 DEF Followed
<1>7. CASE n \notin Starts
  <2> HIDE DEF s
  <2>1. \/ a = FALSE /\ c = lines_in_function /\ name = current_function /\ n \in Ends
        \/ /\ a = in_a_function /\ name = current_function /\ n \notin Ends
           /\ ~StartsFunction(l) /\ ~NoCode(l)
           /\ c = lines_in_function + IF in_a_function THEN 1 ELSE 0
        \/ /\ a = in_a_function /\ name = current_function /\ c = lines_in_function /\ n \notin Ends
           /\ StartsFunction(l) \/ NoCode(l)
    BY <1>1, <1>2, <1>7 DEF CheckForFunctionLengths, Begin, Count, End, functionVars
  <2>2. CASE StartedBy(n) = {}
    <3>1. c = 0 /\ ~a
      BY <1>5, <2>1, <2>2
    <3>2. QED
      BY <1>3, <1>7, <2>2, <3>1 DEF Followed
  <2>3. CASE StartedBy(n) # {}
    <3>1. name = FunctionName(lines[s])
      BY <1>4, <2>1, <2>3
    <3>2. c = Cardinality(CountedLines(s, n + 1)) /\ (a <=> NoEnd(s, n + 1))
      <4>1. CASE n \in Ends
        BY <1>4, <2>1, <2>3, <4>1
      <4>2. CASE n \notin Ends /\ (StartsFunction(l) \/ NoCode(l))
        BY <1>4, <2>1, <2>3, <4>2
      <4>3. CASE n \notin Ends /\ ~StartsFunction(l) /\ ~NoCode(l)
        <5>1. a = in_a_function /\ c = lines_in_function + IF in_a_function THEN 1 ELSE 0
          BY <2>1, <4>3
        <5>2. CASE NoEnd(s, n + 1)
          BY <1>4, <2>3, <4>3, <5>1, <5>2
        <5>3. CASE ~NoEnd(s, n + 1)
          <6>1. lines_in_function = Cardinality(CountedLines(s, n + 1)) /\ ~in_a_function
            BY <1>4, <2>3, <4>3, <5>3
          <6>2. lines_in_function \in Nat
            <7>1. Cardinality(CountedLines(s, n)) \in Nat
              BY <1>1, <1>4, <2>3, CountedNext
            <7>2. QED
              BY <2>3, <7>1 DEF Followed, s
          <6>3. QED
            BY <5>1, <5>3, <6>1, <6>2
        <5>4. QED
          BY <5>2, <5>3
      <4>4. QED
        BY <4>1, <4>2, <4>3
    <3>3. QED
      BY <1>3, <1>7, <2>3, <3>1, <3>2 DEF Followed, s
  <2>4. QED
    BY <2>2, <2>3
<1>8. QED
  BY <1>6, <1>7

FunctionFollowed == Followed(linenum, in_a_function, lines_in_function, current_function)

LongAt(n) == StartedBy(n) # {} /\ TooLong(Max(StartedBy(n)))

(* What was reported at an end.                                            *)
Fits(n, reports) ==
  /\ reports # {} <=> LongAt(n)
  /\ verbose_level <= MaxLevel => \A x \in reports : x.confidence >= verbose_level

FunctionsReported ==
  \A n \in Ends : n < linenum => Fits(n, On(raised, current, n, FnSize))

FunctionInv == Plain => Recent(FnSize) /\ FunctionFollowed /\ FunctionsReported

(* What an end reports.                                                    *)
LEMMA EndReports ==
  ASSUME CountInv, pc = "line", FunctionFollowed, linenum \in Ends
  PROVE  Fits(linenum, LineRaises(FnSize))
<1> DEFINE n == linenum
           base == BaseTrigger(current_function)
           level == ErrorLevel(lines_in_function, base)
           e == Error(n, FnSize, level)
<1>1. AreLines(lines) /\ n \in 1 .. Len(lines) + 1 /\ verbose_level \in Nat
  BY DEF CountInv, Shapes
<1>2. ~StartsFunction(lines[n]) /\ EndsFunction(lines[n])
  BY DEF Ends
<1>3. LineRaises(FnSize) = IF lines_in_function <= base * Power[verbose_level] THEN {}
                           ELSE {InFile(e, current)}
  <2>1. Having(FunctionErrors(lines, n, verbose_level), FnSize)
          = IF lines_in_function <= base * Power[verbose_level] THEN {} ELSE {e}
    BY <1>2, FunctionFacts
  <2>2. Having(Language(lines[n]), FnSize) = {}
    BY IncludeFacts DEF Language
  <2>3. QED
    BY <2>1, <2>2 DEF LineRaises
<1>4. base \in Nat \ {0} /\ Power[verbose_level] \in Nat /\ base * Power[verbose_level] \in Nat
  <2>1. base \in Nat \ {0} /\ Power[verbose_level] \in Nat
    BY <1>1, TriggerFacts, PowerFacts
  <2> HIDE DEF base
  <2>2. QED
    BY <2>1
<1>5. InFile(e, current).confidence = level
  BY ErrorFacts DEF InFile
<1>6. /\ lines_in_function \in Nat
      /\ lines_in_function <= base * Power[verbose_level] <=> ~LongAt(n)
  <2>1. CASE StartedBy(n) = {}
    <3>1. lines_in_function = 0 /\ ~LongAt(n)
      BY <2>1 DEF FunctionFollowed, Followed, LongAt
    <3>2. QED
      BY <1>4, <3>1
  <2>2. CASE StartedBy(n) # {}
    <3> DEFINE s == Max(StartedBy(n))
    <3>1. s \in 1 .. Len(lines) /\ s < n
      BY <1>1, <2>2, StartedFacts
    <3>2. /\ current_function = FunctionName(lines[s])
          /\ lines_in_function = Cardinality(CountedLines(s, n))
      BY <2>2 DEF FunctionFollowed, Followed
    <3>3. CountedLines(s, n) = BodyOf(s)
      BY <1>1, <3>1, CountedAtEnd
    <3>4. lines_in_function \in Nat
      <4>1. IsFiniteSet(BodyOf(s))
        BY <1>1, <3>1, BodyFacts
      <4>2. QED
        BY <3>2, <3>3, <4>1, FS_CardinalityType
    <3>5. LongAt(n) <=> Cardinality(BodyOf(s)) > base * Power[verbose_level]
      BY <2>2, <3>2 DEF LongAt, TooLong
    <3> HIDE DEF s, base
    <3>6. QED
      BY <1>4, <3>2, <3>3, <3>4, <3>5
  <2>3. QED
    BY <2>1, <2>2
<1>7. ASSUME verbose_level <= MaxLevel, ~ (lines_in_function <= base * Power[verbose_level])
      PROVE  level >= verbose_level
  BY <1>1, <1>4, <1>6, <1>7, LevelFacts
<1> HIDE DEF base, level, e
<1>8. QED
  BY <1>3, <1>5, <1>6, <1>7 DEF Fits

(* The text does not change while it is read.                              *)
LEMMA TextStays ==
  ASSUME lines' = lines, verbose_level' = verbose_level
  PROVE  /\ Ends' = Ends
         /\ \A n : StartedBy(n)' = StartedBy(n) /\ (LongAt(n)' <=> LongAt(n))
         /\ \A n, inside, count, name :
              Followed(n, inside, count, name)' <=> Followed(n, inside, count, name)
<1>1. Starts' = Starts /\ Ends' = Ends
  BY DEF Starts, Ends
<1>2. \A n : StartedBy(n)' = StartedBy(n)
  BY <1>1 DEF StartedBy
<1>3. \A s : BodyOf(s)' = BodyOf(s)
  BY <1>1 DEF BodyOf
<1>4. \A n : LongAt(n)' <=> LongAt(n)
  BY <1>2, <1>3 DEF LongAt, TooLong
<1>5. \A s, n : CountedLines(s, n)' = CountedLines(s, n) /\ (NoEnd(s, n)' <=> NoEnd(s, n))
  BY <1>1, <1>3 DEF CountedLines, NoEnd
<1>6. ASSUME NEW n, NEW inside, NEW count, NEW name
      PROVE  Followed(n, inside, count, name)' <=> Followed(n, inside, count, name)
  BY <1>2, <1>5 DEF Followed
<1>7. QED
  BY <1>1, <1>2, <1>4, <1>6

(* Each action keeps the invariant of the functions.                       *)
LEMMA FunctionOpen ==
  ASSUME CountInv, OpenFile
  PROVE  FunctionInv'
<1>1. Recent(FnSize)'
  BY OpenRaised DEF Watched
<1>2. linenum' = 1 /\ lines_in_function' = 0 /\ in_a_function' = FALSE
  BY DEF OpenFile, FunctionReset
<1>3. AreLines(lines)'
  BY OpenEvents DEF CountInv, Shapes, OpenFile
<1>4. Starts' \subseteq 1 .. Len(lines') /\ Ends' \subseteq 1 .. Len(lines') /\ Len(lines') \in Nat
  <2>1. Len(lines') \in Nat /\ DOMAIN lines' = 1 .. Len(lines')
    BY <1>3, ListFacts DEF AreLines, IsList
  <2>2. QED
    BY <2>1 DEF Starts, Ends
<1>5. StartedBy(linenum)' = {} /\ \A n \in Ends' : ~ (n < linenum')
  <2>1. (\A n \in Starts' : ~ (n < 1)) /\ (\A n \in Ends' : ~ (n < 1))
    BY <1>4
  <2>2. StartedBy(linenum)' = {}
    BY <1>2, <2>1 DEF StartedBy
  <2>3. QED
    BY <1>2, <2>1, <2>2
<1>6. FunctionFollowed'
  BY <1>2, <1>5 DEF FunctionFollowed, Followed
<1>7. FunctionsReported'
  BY <1>5 DEF FunctionsReported
<1>8. QED
  BY <1>1, <1>6, <1>7 DEF FunctionInv

LEMMA FunctionLine ==
  ASSUME CountInv, FunctionInv, ProcessLine
  PROVE  FunctionInv'
<1>1. PICK events :
        /\ IsList(events) /\ Handle(Current(current), events)
        /\ Plain => Checked(events)
        /\ pc = "line" /\ linenum \in 1 .. Len(lines) /\ linenum' = linenum + 1
        /\ UNCHANGED <<current, lines>> /\ (Plain' <=> Plain)
  BY LineEvents DEF CountInv
<1> SUFFICES ASSUME Plain PROVE FunctionInv'
  BY <1>1 DEF FunctionInv
<1>2. verbose_level' = verbose_level
  BY <1>1, Handled DEF CountInv, Shapes, settingVars
<1>3. AreLines(lines) /\ Recent(FnSize) /\ FunctionFollowed /\ FunctionsReported
  BY <1>1 DEF FunctionInv, CountInv, Shapes
<1>4. FnSize \in Watched
  BY DEF Watched
<1>5. /\ Recent(FnSize)'
      /\ \A n \in Nat : n < linenum => On(raised', current, n, FnSize) = On(raised, current, n, FnSize)
      /\ On(raised', current, linenum, FnSize) = LineRaises(FnSize)
  BY <1>3, <1>4, LineRaised
<1>6. FunctionFollowed'
  <2>1. Followed(linenum + 1, in_a_function', lines_in_function', current_function')
    BY <1>1, <1>3, FollowedStep DEF Checked, FunctionFollowed
  <2>2. PICK a, c, name : a = in_a_function' /\ c = lines_in_function' /\ name = current_function'
    OBVIOUS
  <2>3. PICK n : n = linenum + 1
    OBVIOUS
  <2>4. Followed(n, a, c, name)'
    BY <1>1, <1>2, <2>1, <2>2, <2>3, TextStays
  <2>5. QED
    BY <1>1, <2>2, <2>3, <2>4 DEF FunctionFollowed
<1>7. FunctionsReported'
  <2>1. ASSUME NEW n \in Ends, n < linenum + 1
        PROVE  Fits(n, On(raised', current, n, FnSize))
    <3>1. n \in Nat /\ linenum \in Nat /\ (n < linenum \/ n = linenum)
      BY <1>1, <1>3, <2>1, LineNumbers
    <3>2. CASE n < linenum
      BY <1>3, <1>5, <3>1, <3>2 DEF FunctionsReported
    <3>3. CASE n = linenum
      BY <1>1, <1>3, <1>5, <2>1, <3>3, EndReports
    <3>4. QED
      BY <3>1, <3>2, <3>3
  <2>2. PICK q : q = raised'
    OBVIOUS
  <2>3. Ends' = Ends /\ \A n : LongAt(n)' <=> LongAt(n)
    BY <1>1, <1>2, TextStays
  <2>4. \A n : On(q, current, n, FnSize)' = On(q, current, n, FnSize)
    BY <1>1 DEF On, Raising
  <2>5. ASSUME NEW n \in Ends', n < linenum'
        PROVE  Fits(n, On(raised, current, n, FnSize))'
    <3>1. Fits(n, On(q, current, n, FnSize))
      BY <1>1, <2>1, <2>2, <2>3, <2>5
    <3>2. PICK on : on = On(q, current, n, FnSize)
      OBVIOUS
    <3>3. On(raised, current, n, FnSize)' = on
      BY <2>2, <2>4, <3>2
    <3>4. Fits(n, on)'
      BY <1>2, <2>3, <3>1, <3>2 DEF Fits
    <3>5. QED
      BY <3>3, <3>4
  <2>6. QED
    BY <2>5 DEF FunctionsReported
<1>8. QED
  BY <1>5, <1>6, <1>7 DEF FunctionInv

LEMMA FunctionStutter ==
  ASSUME CountInv, FunctionInv, UNCHANGED vars
  PROVE  FunctionInv'
<1>1. /\ UNCHANGED <<pc, current, lines, linenum, raised, verbose_level>>
      /\ UNCHANGED functionVars
  BY DEF vars, driverVars, reportVars, settingVars, countVars
<1>2. Plain' <=> Plain
  BY <1>1 DEF Plain
<1>3. Recent(FnSize) => Recent(FnSize)'
  BY <1>1 DEF Recent, Raising
<1>4. FunctionFollowed => FunctionFollowed'
  <2>1. PICK n, a, c, name : n = linenum /\ a = in_a_function /\ c = lines_in_function /\ name = current_function
    OBVIOUS
  <2>2. Followed(n, a, c, name)' <=> Followed(n, a, c, name)
    BY <1>1, TextStays
  <2>3. QED
    BY <1>1, <2>1, <2>2 DEF FunctionFollowed, functionVars
<1>5. FunctionsReported => FunctionsReported'
  <2>1. Ends' = Ends /\ \A n : LongAt(n)' <=> LongAt(n)
    BY <1>1, TextStays
  <2>2. \A n : On(raised, current, n, FnSize)' = On(raised, current, n, FnSize)
    BY <1>1 DEF On, Raising
  <2>3. ASSUME NEW n, Fits(n, On(raised, current, n, FnSize))
        PROVE  Fits(n, On(raised, current, n, FnSize))'
    <3>1. PICK on : on = On(raised, current, n, FnSize)
      OBVIOUS
    <3>2. Fits(n, on)'
      BY <1>1, <2>1, <2>3, <3>1 DEF Fits
    <3>3. QED
      BY <2>2, <3>1, <3>2
  <2>4. QED
    BY <1>1, <2>1, <2>3 DEF FunctionsReported
<1>6. QED
  BY <1>2, <1>3, <1>4, <1>5 DEF FunctionInv

(* The other steps leave no line to be looked at.                          *)
LEMMA NoLines ==
  ASSUME CountInv, ParseArguments \/ SkipFile \/ CloseFile \/ Exit
  PROVE  pc' # "line"
<1>1. CASE ParseArguments
  <2>1. pc = "arguments" /\ Shapes
    BY <1>1 DEF ParseArguments, CountInv
  <2>2. Parsed(run.options, Len(run.files)).exit \in Exits
    BY <2>1, RunFacts, ParsedFacts DEF Shapes
  <2>3. pc' = "file" \/ pc' = Parsed(run.options, Len(run.files)).exit
    BY <1>1 DEF ParseArguments
  <2>4. QED
    BY <2>2, <2>3 DEF Exits
<1>2. CASE SkipFile
  BY <1>2 DEF SkipFile, NextFile
<1>3. CASE CloseFile
  BY <1>3 DEF CloseFile, NextFile
<1>4. CASE Exit
  BY <1>4 DEF Exit
<1>5. QED
  BY <1>1, <1>2, <1>3, <1>4

LEMMA FunctionNext == CountInv /\ FunctionInv /\ [Next]_vars => FunctionInv'
<1> SUFFICES ASSUME CountInv, FunctionInv, [Next]_vars PROVE FunctionInv'
  OBVIOUS
<1>1. ASSUME pc' # "line" PROVE FunctionInv'
  BY <1>1 DEF FunctionInv, Plain
<1>2. CASE OpenFile
  BY <1>2, FunctionOpen
<1>3. CASE ProcessLine
  BY <1>3, FunctionLine
<1>4. CASE UNCHANGED vars
  BY <1>4, FunctionStutter
<1>5. CASE ParseArguments \/ SkipFile \/ CloseFile \/ Exit
  BY <1>1, <1>5, NoLines
<1>6. QED
  BY <1>2, <1>3, <1>4, <1>5 DEF Next

(* _FunctionState.Count and Check: the end of a function is reported exactly*)
(* when the function is longer than its trigger allows, and then with a    *)
(* confidence that the verbosity lets through; a lone brace before any     *)
(* function is not reported.                                               *)
THEOREM LongFunctionsReported == Spec => []FunctionSizesExact
<1>1. Init => FunctionInv
  BY DEF Init, FunctionInv, Plain
<1>2. FunctionInv => FunctionSizesExact
  <2> SUFFICES ASSUME FunctionInv, Plain, NEW n \in Ends, n < linenum
               PROVE  LET before == {s \in Starts : s < n}
                          reports == RaisedAt(n, <<"readability", "fn_size">>)
                      IN /\ IsEndOf(n, before) => (TooLong(Max(before)) <=> reports # {})
                         /\ before = {} => reports = {}
                         /\ verbose_level <= MaxLevel =>
                              \A i \in reports : raised[i].confidence >= verbose_level
    BY DEF FunctionSizesExact
  <2>1. Fits(n, On(raised, current, n, FnSize))
    BY DEF FunctionInv, FunctionsReported
  <2>2. /\ RaisedAt(n, FnSize) # {} <=> On(raised, current, n, FnSize) # {}
        /\ \A i \in RaisedAt(n, FnSize) : raised[i] \in On(raised, current, n, FnSize)
    BY RaisedAtOn
  <2>3. LET before == {s \in Starts : s < n}
            reports == RaisedAt(n, <<"readability", "fn_size">>)
            long == before # {} /\ TooLong(Max(before))
        IN /\ long <=> reports # {}
           /\ verbose_level <= MaxLevel =>
                \A i \in reports : raised[i].confidence >= verbose_level
    BY <2>1, <2>2 DEF Fits, LongAt, StartedBy, FnSize
  <2>4. QED
    BY <2>3 DEF IsEndOf
<1>3. QED
  BY <1>1, <1>2, CountAlways, FunctionNext, PTL DEF Spec

(***************************************************************************)
(* The order of includes.                                                  *)
(***************************************************************************)
Branches == {"ifdef", "else", "endif"}

(* The headers since the last of these directives before line n.           *)
Group(n) == {m \in 1 .. n - 1 : NewAt(m) /\ \A k \in m .. n - 1 : lines[k].dir \notin Branches}

(* The state the lines before n leave.                                     *)
Included(n, inc, sec) ==
  /\ inc = {lines[m].arg.path : m \in {k \in 1 .. n - 1 : IncludeAt(k)}}
  /\ sec \in 0 .. 4
  /\ \A m \in Group(n) : PlaceOf(m) <= sec
  /\ Group(n) = {} => sec = 0
  /\ Group(n) # {} => \E m \in Group(n) : PlaceOf(m) = sec

Mine == {"likely", "possible"}

(* The places and the sections, by kind.                                   *)
LEMMA PlaceFacts ==
  ASSUME NEW n
  PROVE  /\ PlaceOf(n) \in 1 .. 4
         /\ KindAt(n) = "c" => PlaceOf(n) = 2
         /\ KindAt(n) = "cpp" => PlaceOf(n) = 3
         /\ KindAt(n) \in Mine /\ (\A m \in GroupBefore(n) : KindAt(m) \in Mine) => PlaceOf(n) = 1
         /\ KindAt(n) \notin {"c", "cpp"} /\ ~(KindAt(n) \in Mine /\ \A m \in GroupBefore(n) : KindAt(m) \in Mine)
              => PlaceOf(n) = 4
<1> DEFINE k == KindAt(n)
           all == \A m \in GroupBefore(n) : KindAt(m) \in Mine
<1>1. PlaceOf(n) = CASE k = "c" -> 2 [] k = "cpp" -> 3 [] k \in Mine /\ all -> 1 [] OTHER -> 4
  BY DEF PlaceOf, C_SECTION, CPP_SECTION, MY_H_SECTION, OTHER_H_SECTION, Mine
<1> HIDE DEF k, all
<1>2. /\ k = "c" => PlaceOf(n) = 2
      /\ k = "cpp" => PlaceOf(n) = 3
      /\ k \in Mine /\ all => PlaceOf(n) = 1
      /\ k \notin {"c", "cpp"} /\ ~(k \in Mine /\ all) => PlaceOf(n) = 4
  BY <1>1 DEF Mine
<1>3. PlaceOf(n) \in 1 .. 4
  BY <1>2
<1>4. QED
  BY <1>2, <1>3 DEF k, all

LEMMA SectionFacts ==
  ASSUME NEW kind, NEW sec
  PROVE  /\ kind = "c" => SectionOf(kind, sec) = 2
         /\ kind = "cpp" => SectionOf(kind, sec) = 3
         /\ kind \in Mine /\ sec <= 1 => SectionOf(kind, sec) = 1
         /\ kind \notin {"c", "cpp"} /\ ~(kind \in Mine /\ sec <= 1) => SectionOf(kind, sec) = 4
BY DEF SectionOf, C_SECTION, CPP_SECTION, MY_H_SECTION, OTHER_H_SECTION, Mine

(* The groups, line by line.                                               *)
LEMMA GroupFacts ==
  ASSUME AreLines(lines), NEW n \in 1 .. Len(lines)
  PROVE  /\ lines[n].dir \in Branches => Group(n + 1) = {}
         /\ lines[n].dir \notin Branches => GroupBefore(n) = Group(n)
         /\ lines[n].dir \notin Branches /\ NewAt(n) => Group(n + 1) = Group(n) \cup {n}
         /\ lines[n].dir \notin Branches /\ ~NewAt(n) => Group(n + 1) = Group(n)
         /\ \A m \in Group(n) : GroupBefore(m) \subseteq Group(n)
<1>1. Len(lines) \in Nat
  BY LineNumbers
<1>2. \A m \in 1 .. n : n \in m .. n
  BY <1>1
<1>3. /\ (n + 1) - 1 = n /\ \A m : m \in 1 .. n <=> m \in 1 .. n - 1 \/ m = n
      /\ \A m \in 1 .. n - 1 : \A k : k \in m .. n <=> k \in m .. n - 1 \/ k = n
      /\ \A k : k \in n .. n <=> k = n
  BY <1>1
<1>4. lines[n].dir \in Branches => Group(n + 1) = {}
  BY <1>2, <1>3 DEF Group
<1>5. lines[n].dir \notin Branches => GroupBefore(n) = Group(n)
  BY <1>3 DEF Group, GroupBefore, Branches
<1>6. lines[n].dir \notin Branches /\ NewAt(n) => Group(n + 1) = Group(n) \cup {n}
  BY <1>3 DEF Group
<1>7. lines[n].dir \notin Branches /\ ~NewAt(n) => Group(n + 1) = Group(n)
  BY <1>3 DEF Group
<1>8. ASSUME NEW m \in Group(n), NEW j \in GroupBefore(m) PROVE j \in Group(n)
  <2>1. m \in 1 .. n - 1 /\ j \in 1 .. m - 1
    BY DEF Group, GroupBefore
  <2>2. j \in 1 .. n - 1 /\ \A k \in j .. n - 1 : k \in j .. m \/ k \in m .. n - 1
    BY <1>1, <2>1
  <2>3. QED
    BY <2>2 DEF Group, GroupBefore, Branches
<1>9. QED
  BY <1>4, <1>5, <1>6, <1>7, <1>8

(* The section tells the place of the next header.                         *)
LEMMA Placed ==
  ASSUME AreLines(lines), NEW n \in 1 .. Len(lines), NEW inc, NEW sec, Included(n, inc, sec),
         IncludeAt(n)
  PROVE  /\ NewAt(n) <=> lines[n].arg.path \notin inc
         /\ PlaceOf(n) = SectionOf(KindAt(n), sec)
         /\ GroupBefore(n) = Group(n)
         /\ Misplaced(KindAt(n), sec) <=>
              KindAt(n) \in {"c", "cpp"} /\ \E m \in GroupBefore(n) : PlaceOf(m) > PlaceOf(n)
<1>1. lines[n].dir = "include" /\ lines[n].dir \notin Branches
  BY DEF IncludeAt, Branches
<1>2. GroupBefore(n) = Group(n) /\ \A m \in Group(n) : GroupBefore(m) \subseteq Group(n)
  BY <1>1, GroupFacts
<1>3. NewAt(n) <=> lines[n].arg.path \notin inc
  BY DEF Included, NewAt
<1>4. sec \in 0 .. 4 /\ \A m \in Group(n) : PlaceOf(m) \in 1 .. 4 /\ PlaceOf(m) <= sec
  BY PlaceFacts DEF Included
<1>5. sec <= 1 => \A m \in Group(n) : KindAt(m) \in Mine
  <2> SUFFICES ASSUME sec <= 1, NEW m \in Group(n) PROVE KindAt(m) \in Mine
    OBVIOUS
  <2>1. PlaceOf(m) = 1
    BY <1>4
  <2>2. QED
    BY <2>1, PlaceFacts
<1>6. ASSUME \A m \in Group(n) : KindAt(m) \in Mine PROVE sec <= 1
  <2>1. CASE Group(n) = {}
    BY <2>1 DEF Included
  <2>2. CASE Group(n) # {}
    <3>1. PICK m \in Group(n) : PlaceOf(m) = sec
      BY <2>2 DEF Included
    <3>2. KindAt(m) \in Mine /\ \A j \in GroupBefore(m) : KindAt(j) \in Mine
      BY <1>2, <1>6
    <3>3. PlaceOf(m) = 1
      BY <3>2, PlaceFacts
    <3>4. QED
      BY <3>1, <3>3
  <2>3. QED
    BY <2>1, <2>2
<1>7. PlaceOf(n) = SectionOf(KindAt(n), sec)
  <2>1. sec <= 1 <=> \A m \in GroupBefore(n) : KindAt(m) \in Mine
    BY <1>2, <1>5, <1>6
  <2>2. CASE KindAt(n) = "c"
    BY <2>2, PlaceFacts, SectionFacts
  <2>3. CASE KindAt(n) = "cpp"
    BY <2>3, PlaceFacts, SectionFacts
  <2>4. CASE KindAt(n) \in Mine /\ sec <= 1
    BY <2>1, <2>4, PlaceFacts, SectionFacts
  <2>5. CASE KindAt(n) \notin {"c", "cpp"} /\ ~(KindAt(n) \in Mine /\ sec <= 1)
    BY <2>1, <2>5, PlaceFacts, SectionFacts
  <2>6. QED
    BY <2>2, <2>3, <2>4, <2>5
<1>8. sec > PlaceOf(n) <=> \E m \in Group(n) : PlaceOf(m) > PlaceOf(n)
  <2>1. PlaceOf(n) \in 1 .. 4
    BY PlaceFacts
  <2>2. ASSUME sec > PlaceOf(n) PROVE \E m \in Group(n) : PlaceOf(m) > PlaceOf(n)
    <3>1. Group(n) # {}
      BY <2>1, <2>2 DEF Included
    <3>2. QED
      BY <2>2, <3>1 DEF Included
  <2>3. ASSUME NEW m \in Group(n), PlaceOf(m) > PlaceOf(n) PROVE sec > PlaceOf(n)
    <3>1. PlaceOf(m) \in 1 .. 4 /\ PlaceOf(m) <= sec
      BY <1>4
    <3>2. QED
      BY <1>4, <2>1, <2>3, <3>1
  <2>4. QED
    BY <2>2, <2>3
<1>9. QED
  BY <1>2, <1>3, <1>7, <1>8 DEF Misplaced

(* A line more.                                                            *)
LEMMA IncludedStep ==
  ASSUME AreLines(lines), linenum \in 1 .. Len(lines), CheckLanguage(File.name, lines[linenum]),
         Included(linenum, included, section)
  PROVE  Included(linenum + 1, included', section')
<1> DEFINE n == linenum
           l == lines[n]
           path == l.arg.path
           kind == KindAt(n)
           inc == included'
           sec == section'
           Paths(m) == {lines[j].arg.path : j \in {k \in 1 .. m - 1 : IncludeAt(k)}}
<1>1. Len(lines) \in Nat /\ DOMAIN lines = 1 .. Len(lines)
  BY LineNumbers
<1>2. \A m : m \in 1 .. (n + 1) - 1 <=> m \in 1 .. n - 1 \/ m = n
  BY <1>1
<1>3. /\ IncludeAt(n) => Paths(n + 1) = Paths(n) \cup {path}
      /\ ~IncludeAt(n) => Paths(n + 1) = Paths(n)
  BY <1>2
<1>4. included = Paths(n) /\ section \in 0 .. 4
  BY DEF Included
<1>5. IncludeAt(n) <=> l.dir = "include"
  BY <1>1 DEF IncludeAt
<1> HIDE DEF Paths
<1>6. CASE l.dir \in Branches
  <2>1. sec = 0 /\ inc = included /\ ~IncludeAt(n)
    BY <1>5, <1>6 DEF CheckLanguage, ResetSection, Branches, INITIAL_SECTION
  <2>2. Group(n + 1) = {}
    BY <1>6, GroupFacts
  <2>3. inc = Paths(n + 1)
    BY <1>3, <1>4, <2>1
  <2>4. QED
    BY <2>1, <2>2, <2>3 DEF Included, Paths
<1>7. CASE l.dir \notin Branches /\ ~NewAt(n)
  <2>1. sec = section /\ inc = included /\ (IncludeAt(n) => path \in included)
    <3>1. CASE IncludeAt(n)
      <4>1. path \in included
        BY <1>7, <3>1, Placed
      <4>2. UNCHANGED includeVars
        BY <1>5, <3>1, <4>1 DEF CheckLanguage, CheckIncludeLine
      <4>3. QED
        BY <4>1, <4>2 DEF includeVars
    <3>2. CASE ~IncludeAt(n)
      BY <1>5, <1>7, <3>2 DEF CheckLanguage, Branches, includeVars
    <3>3. QED
      BY <3>1, <3>2
  <2>2. Group(n + 1) = Group(n)
    BY <1>7, GroupFacts
  <2>3. inc = Paths(n + 1)
    BY <1>3, <1>4, <2>1
  <2>4. QED
    BY <2>1, <2>2, <2>3 DEF Included, Paths
<1>8. CASE l.dir \notin Branches /\ NewAt(n)
  <2>1. IncludeAt(n) /\ l.dir = "include"
    BY <1>5, <1>8 DEF NewAt
  <2>2. path \notin included /\ PlaceOf(n) = SectionOf(kind, section)
    BY <1>8, <2>1, Placed
  <2>3. CheckIncludeLine(File.name, l)
    BY <2>1 DEF CheckLanguage
  <2>4. /\ inc = included \cup {path}
        /\ sec = IF Misplaced(kind, section) THEN section ELSE SectionOf(kind, section)
    BY <2>2, <2>3 DEF CheckIncludeLine, KindAt
  <2>5. Group(n + 1) = Group(n) \cup {n}
    BY <1>8, GroupFacts
  <2>6. inc = Paths(n + 1)
    BY <1>3, <1>4, <2>1, <2>4
  <2> DEFINE p == PlaceOf(n)
  <2>7. p \in 1 .. 4 /\ \A m \in Group(n) : PlaceOf(m) \in 1 .. 4 /\ PlaceOf(m) <= section
    BY PlaceFacts DEF Included
  <2>8. CASE Misplaced(kind, section)
    <3>1. sec = section /\ section > p
      BY <2>2, <2>4, <2>8 DEF Misplaced
    <3>2. \A m \in Group(n + 1) : PlaceOf(m) <= sec
      BY <1>4, <2>5, <2>7, <3>1
    <3>3. Group(n) # {}
      BY <2>7, <3>1 DEF Included
    <3>4. \E m \in Group(n + 1) : PlaceOf(m) = sec
      BY <2>5, <3>1, <3>3 DEF Included
    <3>5. QED
      BY <1>4, <2>6, <3>1, <3>2, <3>4 DEF Included, Paths
  <2>9. CASE ~Misplaced(kind, section)
    <3>1. sec = p
      BY <2>2, <2>4, <2>9
    <3>2. section <= p
      <4>1. CASE kind \in {"c", "cpp"}
        <5>1. ~ (section > p)
          BY <2>2, <2>9, <4>1 DEF Misplaced
        <5> HIDE DEF p
        <5>2. QED
          BY <1>4, <2>7, <5>1
      <4>2. CASE kind \notin {"c", "cpp"} /\ kind \in Mine /\ section <= 1
        <5>1. p \in 1 .. 4 /\ section <= 1
          BY <2>7, <4>2
        <5> HIDE DEF p
        <5>2. QED
          BY <1>4, <5>1
      <4>3. CASE kind \notin {"c", "cpp"} /\ ~(kind \in Mine /\ section <= 1)
        <5>1. p = 4
          BY <2>2, <4>3, SectionFacts
        <5>2. QED
          BY <1>4, <5>1
      <4>4. QED
        BY <4>1, <4>2, <4>3
    <3>3. \A m \in Group(n + 1) : PlaceOf(m) <= sec
      BY <1>4, <2>5, <2>7, <3>1, <3>2
    <3>4. \E m \in Group(n + 1) : PlaceOf(m) = sec
      BY <2>5, <3>1
    <3>5. sec \in 0 .. 4
      BY <2>7, <3>1
    <3>6. QED
      BY <2>6, <3>3, <3>4, <3>5 DEF Included, Paths
  <2>10. QED
    BY <2>8, <2>9
<1>9. QED
  BY <1>6, <1>7, <1>8

IncludesFollowed == Included(linenum, included, section)

(* What was reported of an include.                                        *)
Ordered(n, orders, repeats) ==
  /\ orders # {} <=> /\ NewAt(n) /\ KindAt(n) \in {"c", "cpp"}
                     /\ \E m \in GroupBefore(n) : PlaceOf(m) > PlaceOf(n)
  /\ ~NewAt(n) => repeats # {}

IncludesReported ==
  \A n \in 1 .. linenum - 1 : IncludeAt(n) =>
    Ordered(n, On(raised, current, n, IncludeOrder), On(raised, current, n, IncludeCategory))

IncludeInv ==
  Plain => Recent(IncludeOrder) /\ Recent(IncludeCategory) /\ IncludesFollowed /\ IncludesReported

(* What an include reports.                                                *)
LEMMA IncludeReports ==
  ASSUME AreLines(lines), linenum \in 1 .. Len(lines), IncludesFollowed, IncludeAt(linenum)
  PROVE  Ordered(linenum, LineRaises(IncludeOrder), LineRaises(IncludeCategory))
<1> DEFINE n == linenum
           l == lines[n]
           path == l.arg.path
           kind == KindAt(n)
<1>1. l.dir = "include"
  BY DEF IncludeAt
<1>2. /\ NewAt(n) <=> path \notin included
      /\ Misplaced(kind, section) <=>
           kind \in {"c", "cpp"} /\ \E m \in GroupBefore(n) : PlaceOf(m) > PlaceOf(n)
  BY Placed DEF IncludesFollowed
<1>3. /\ Having(FunctionErrors(lines, n, verbose_level), IncludeOrder) = {}
      /\ Having(FunctionErrors(lines, n, verbose_level), IncludeCategory) = {}
  BY FunctionFacts
<1>4. /\ Having(Language(l), IncludeOrder) # {} <=> path \notin included /\ Misplaced(kind, section)
      /\ path \in included => Having(Language(l), IncludeCategory) # {}
  <2> DEFINE s == LanguageErrors(File.name, l, LineBefore(lines, n), n)
  <2>1. Language(l) = s
    BY DEF Language
  <2>2. kind = ClassifyInclude(File.name, path, l.arg.sys)
    BY DEF KindAt
  <2>3. /\ Having(s, IncludeOrder) # {} <=>
             path \notin included /\ Misplaced(ClassifyInclude(File.name, path, l.arg.sys), section)
        /\ path \in included => Having(s, IncludeCategory) # {}
    BY <1>1, IncludeFacts
  <2> HIDE DEF s
  <2>4. QED
    BY <2>1, <2>2, <2>3
<1>5. \A c : Having(FunctionErrors(lines, n, verbose_level), c) = {} =>
               (LineRaises(c) # {} <=> Having(Language(l), c) # {})
  BY DEF LineRaises
<1>6. QED
  BY <1>2, <1>3, <1>4, <1>5 DEF Ordered

(* The text does not change while it is read.                              *)
LEMMA IncludesStay ==
  ASSUME lines' = lines, run' = run, current' = current
  PROVE  /\ \A n : IncludeAt(n)' <=> IncludeAt(n)
         /\ \A n, orders, repeats : Ordered(n, orders, repeats)' <=> Ordered(n, orders, repeats)
         /\ \A n, inc, sec : Included(n, inc, sec)' <=> Included(n, inc, sec)
<1>1. \A n : IncludeAt(n)' <=> IncludeAt(n)
  BY DEF IncludeAt
<1>2. \A n : NewAt(n)' <=> NewAt(n)
  BY <1>1 DEF NewAt
<1>3. \A n : KindAt(n)' = KindAt(n)
  BY DEF KindAt, File
<1>4. \A n : GroupBefore(n)' = GroupBefore(n) /\ Group(n)' = Group(n)
  BY <1>2 DEF GroupBefore, Group
<1>5. \A n : PlaceOf(n)' = PlaceOf(n)
  BY <1>3, <1>4 DEF PlaceOf
<1>6. \A n, orders, repeats : Ordered(n, orders, repeats)' <=> Ordered(n, orders, repeats)
  BY <1>2, <1>3, <1>4, <1>5 DEF Ordered
<1>7. \A n, inc, sec : Included(n, inc, sec)' <=> Included(n, inc, sec)
  BY <1>1, <1>4, <1>5 DEF Included
<1>8. QED
  BY <1>1, <1>6, <1>7

(* Each action keeps the invariant of the includes.                        *)
LEMMA IncludeOpen ==
  ASSUME CountInv, OpenFile
  PROVE  IncludeInv'
<1>1. Recent(IncludeOrder)' /\ Recent(IncludeCategory)'
  BY OpenRaised DEF Watched
<1>2. linenum' = 1 /\ included' = {} /\ section' = 0
  BY DEF OpenFile, IncludeReset, INITIAL_SECTION
<1>3. 1 .. 1 - 1 = {}
  OBVIOUS
<1>4. Group(linenum)' = {}
  BY <1>2, <1>3 DEF Group
<1>5. IncludesFollowed'
  BY <1>2, <1>3, <1>4 DEF IncludesFollowed, Included
<1>6. IncludesReported'
  BY <1>2, <1>3 DEF IncludesReported
<1>7. QED
  BY <1>1, <1>5, <1>6 DEF IncludeInv

LEMMA IncludeLine ==
  ASSUME CountInv, IncludeInv, ProcessLine
  PROVE  IncludeInv'
<1>1. PICK events :
        /\ IsList(events) /\ Handle(Current(current), events)
        /\ Plain => Checked(events)
        /\ pc = "line" /\ linenum \in 1 .. Len(lines) /\ linenum' = linenum + 1
        /\ UNCHANGED <<run, current, lines>> /\ (Plain' <=> Plain)
  BY LineEvents DEF CountInv
<1> SUFFICES ASSUME Plain PROVE IncludeInv'
  BY <1>1 DEF IncludeInv
<1>2. /\ AreLines(lines) /\ Recent(IncludeOrder) /\ Recent(IncludeCategory)
      /\ IncludesFollowed /\ IncludesReported
  BY <1>1 DEF IncludeInv, CountInv, Shapes
<1>3. \A c \in {IncludeOrder, IncludeCategory} :
        /\ Recent(c)'
        /\ \A n \in Nat : n < linenum => On(raised', current, n, c) = On(raised, current, n, c)
        /\ On(raised', current, linenum, c) = LineRaises(c)
  BY <1>2, LineRaised DEF Watched
<1>4. IncludesFollowed'
  <2>1. Included(linenum + 1, included', section')
    BY <1>1, <1>2, IncludedStep DEF Checked, IncludesFollowed
  <2>2. PICK inc, sec, n : inc = included' /\ sec = section' /\ n = linenum + 1
    OBVIOUS
  <2>3. Included(n, inc, sec)'
    BY <1>1, <2>1, <2>2, IncludesStay
  <2>4. QED
    BY <1>1, <2>2, <2>3 DEF IncludesFollowed
<1>5. IncludesReported'
  <2>1. ASSUME NEW n \in 1 .. linenum, IncludeAt(n)
        PROVE  Ordered(n, On(raised', current, n, IncludeOrder), On(raised', current, n, IncludeCategory))
    <3>1. n \in Nat /\ linenum \in Nat /\ (n = linenum \/ (n < linenum /\ n \in 1 .. linenum - 1))
      BY <1>1
    <3>2. CASE n = linenum
      BY <1>1, <1>2, <1>3, <2>1, <3>2, IncludeReports
    <3>3. CASE n < linenum /\ n \in 1 .. linenum - 1
      BY <1>2, <1>3, <2>1, <3>1, <3>3 DEF IncludesReported
    <3>4. QED
      BY <3>1, <3>2, <3>3
  <2>2. PICK q : q = raised'
    OBVIOUS
  <2>3. \A n, c : On(q, current, n, c)' = On(q, current, n, c)
    BY <1>1 DEF On, Raising
  <2>4. \A n : IncludeAt(n)' <=> IncludeAt(n)
    BY <1>1, IncludesStay
  <2>5. linenum' - 1 = linenum
    BY <1>1
  <2>6. ASSUME NEW n \in 1 .. linenum' - 1, IncludeAt(n)'
        PROVE  Ordered(n, On(raised, current, n, IncludeOrder), On(raised, current, n, IncludeCategory))'
    <3>1. PICK a, b : a = On(q, current, n, IncludeOrder) /\ b = On(q, current, n, IncludeCategory)
      OBVIOUS
    <3>2. Ordered(n, a, b)
      BY <2>1, <2>2, <2>4, <2>5, <2>6, <3>1
    <3>3. Ordered(n, a, b)'
      BY <1>1, <3>2, IncludesStay
    <3>4. On(raised, current, n, IncludeOrder)' = a /\ On(raised, current, n, IncludeCategory)' = b
      BY <2>2, <2>3, <3>1
    <3>5. QED
      BY <3>3, <3>4
  <2>7. QED
    BY <2>6 DEF IncludesReported
<1>6. QED
  BY <1>3, <1>4, <1>5 DEF IncludeInv

LEMMA IncludeStutter ==
  ASSUME CountInv, IncludeInv, UNCHANGED vars
  PROVE  IncludeInv'
<1>1. /\ UNCHANGED <<run, pc, current, lines, linenum, raised>>
      /\ UNCHANGED <<included, section>>
  BY DEF vars, driverVars, reportVars, includeVars
<1>2. Plain' <=> Plain
  BY <1>1 DEF Plain
<1>3. \A c : Recent(c) => Recent(c)'
  BY <1>1 DEF Recent, Raising
<1>4. IncludesFollowed => IncludesFollowed'
  <2>1. PICK n, inc, sec : n = linenum /\ inc = included /\ sec = section
    OBVIOUS
  <2>2. Included(n, inc, sec)' <=> Included(n, inc, sec)
    BY <1>1, IncludesStay
  <2>3. QED
    BY <1>1, <2>1, <2>2 DEF IncludesFollowed
<1>5. IncludesReported => IncludesReported'
  <2>1. \A n, c : On(raised, current, n, c)' = On(raised, current, n, c)
    BY <1>1 DEF On, Raising
  <2>2. \A n : IncludeAt(n)' <=> IncludeAt(n)
    BY <1>1, IncludesStay
  <2>3. ASSUME NEW n, Ordered(n, On(raised, current, n, IncludeOrder), On(raised, current, n, IncludeCategory))
        PROVE  Ordered(n, On(raised, current, n, IncludeOrder), On(raised, current, n, IncludeCategory))'
    <3>1. PICK a, b : a = On(raised, current, n, IncludeOrder) /\ b = On(raised, current, n, IncludeCategory)
      OBVIOUS
    <3>2. Ordered(n, a, b)'
      BY <1>1, <2>3, <3>1, IncludesStay
    <3>3. QED
      BY <2>1, <3>1, <3>2
  <2>4. QED
    BY <1>1, <2>2, <2>3 DEF IncludesReported
<1>6. QED
  BY <1>2, <1>3, <1>4, <1>5 DEF IncludeInv

LEMMA IncludeNext == CountInv /\ IncludeInv /\ [Next]_vars => IncludeInv'
<1> SUFFICES ASSUME CountInv, IncludeInv, [Next]_vars PROVE IncludeInv'
  OBVIOUS
<1>1. ASSUME pc' # "line" PROVE IncludeInv'
  BY <1>1 DEF IncludeInv, Plain
<1>2. CASE OpenFile
  BY <1>2, IncludeOpen
<1>3. CASE ProcessLine
  BY <1>3, IncludeLine
<1>4. CASE UNCHANGED vars
  BY <1>4, IncludeStutter
<1>5. CASE ParseArguments \/ SkipFile \/ CloseFile \/ Exit
  BY <1>1, <1>5, NoLines
<1>6. QED
  BY <1>2, <1>3, <1>4, <1>5 DEF Next

(* CheckNextIncludeOrder: a system header is reported exactly when a header*)
(* of a later place came before it in its group, and a header that the file*)
(* has already is reported.                                                *)
THEOREM MisplacedIncludesReported == Spec => []IncludesExact
<1>1. Init => IncludeInv
  BY DEF Init, IncludeInv, Plain
<1>2. IncludeInv => IncludesExact
  <2> SUFFICES ASSUME IncludeInv, Plain, NEW n \in 1 .. linenum - 1, IncludeAt(n)
               PROVE  /\ RaisedAt(n, <<"build", "include_order">>) # {} <=>
                           /\ NewAt(n)
                           /\ KindAt(n) \in {"c", "cpp"}
                           /\ \E m \in GroupBefore(n) : PlaceOf(m) > PlaceOf(n)
                      /\ ~NewAt(n) => RaisedAt(n, <<"build", "include">>) # {}
    BY DEF IncludesExact
  <2>1. Ordered(n, On(raised, current, n, IncludeOrder), On(raised, current, n, IncludeCategory))
    BY DEF IncludeInv, IncludesReported
  <2>2. /\ RaisedAt(n, IncludeOrder) # {} <=> On(raised, current, n, IncludeOrder) # {}
        /\ RaisedAt(n, IncludeCategory) # {} <=> On(raised, current, n, IncludeCategory) # {}
    BY RaisedAtOn
  <2>3. QED
    BY <2>1, <2>2 DEF Ordered, IncludeOrder, IncludeCategory
<1>3. QED
  BY <1>1, <1>2, CountAlways, IncludeNext, PTL DEF Spec

(***************************************************************************)
(* What is wanted of what is raised.                                       *)
(***************************************************************************)
(* The errors that are wanted among rs, and that ps is exactly those.      *)
Picked(rs) == {i \in DOMAIN rs : Wanted(rs, i)}
Rank(rs, i) == Cardinality({j \in Picked(rs) : j <= i})
Selected(rs, ps) ==
  /\ Len(ps) = Cardinality(Picked(rs))
  /\ \A i \in Picked(rs) : ps[Rank(rs, i)] = rs[i]

LEMMA PrefixSet ==
  ASSUME NEW rs, IsList(rs), NEW i \in 0 .. Len(rs)
  PROVE  ToSet(SubSeq(rs, 1, i)) = {rs[j] : j \in 1 .. i}
<1>1. rs \in Seq(ToSet(rs)) /\ Len(rs) \in Nat
  BY ListFacts DEF IsList
<1>2. DOMAIN SubSeq(rs, 1, i) = 1 .. i /\ \A j \in 1 .. i : SubSeq(rs, 1, i)[j] = rs[j]
  BY <1>1
<1>3. QED
  BY <1>2 DEF ToSet

(* Whether an error is wanted depends on what was raised before it alone.  *)
LEMMA WantedStays ==
  ASSUME NEW rs, IsList(rs), NEW x, NEW i \in 1 .. Len(rs)
  PROVE  Wanted(Append(rs, x), i) <=> Wanted(rs, i)
<1> DEFINE t == Append(rs, x)
<1>1. /\ IsList(t) /\ Len(t) = Len(rs) + 1 /\ Len(rs) \in Nat
      /\ \A j \in 1 .. Len(rs) : t[j] = rs[j]
  BY AppendFacts
<1> HIDE DEF t
<1>2. t[i] = rs[i] /\ \A j \in 1 .. i - 1 : t[j] = rs[j]
  BY <1>1
<1>3. ToSet(SubSeq(t, 1, i)) = ToSet(SubSeq(rs, 1, i))
  <2>1. i \in 0 .. Len(rs) /\ i \in 0 .. Len(t) /\ 1 .. i \subseteq 1 .. Len(rs)
    BY <1>1
  <2>2. \A j \in 1 .. i : t[j] = rs[j]
    BY <1>1, <2>1
  <2>3. {t[j] : j \in 1 .. i} = {rs[j] : j \in 1 .. i}
    BY <2>2
  <2>4. ToSet(SubSeq(rs, 1, i)) = {rs[j] : j \in 1 .. i}
    BY <2>1, PrefixSet
  <2>5. ToSet(SubSeq(t, 1, i)) = {t[j] : j \in 1 .. i}
    BY <1>1, <2>1, PrefixSet
  <2>6. QED
    BY <2>3, <2>4, <2>5
<1>4. \A f : GuardsReported(SubSeq(t, 1, i), f) = GuardsReported(SubSeq(rs, 1, i), f)
  BY <1>3 DEF GuardsReported
<1>5. UnendedComment(t, i) <=> UnendedComment(rs, i)
  BY <1>2 DEF UnendedComment
<1>6. Excused(t, i) <=> Excused(rs, i)
  BY <1>2, <1>4, <1>5 DEF Excused
<1>7. QED
  BY <1>2, <1>6 DEF Wanted, t

(* One more error, that is printed if it is wanted.                        *)
LEMMA SelectedGrows ==
  ASSUME NEW rs, IsList(rs), NEW ps, IsList(ps), Selected(rs, ps), NEW x,
         NEW qs, qs = IF Wanted(Append(rs, x), Len(rs) + 1) THEN Append(ps, x) ELSE ps
  PROVE  Selected(Append(rs, x), qs)
<1> DEFINE t == Append(rs, x)
           n == Len(rs) + 1
           A == Picked(rs)
           B == Picked(t)
<1>1. /\ IsList(t) /\ Len(rs) \in Nat /\ DOMAIN rs = 1 .. Len(rs) /\ DOMAIN t = 1 .. n
      /\ \A j \in 1 .. Len(rs) : t[j] = rs[j]
      /\ t[n] = x
  BY AppendFacts
<1>2. \A i \in 1 .. Len(rs) : Wanted(t, i) <=> Wanted(rs, i)
  BY WantedStays
<1> HIDE DEF t
<1>3. B = IF Wanted(t, n) THEN A \cup {n} ELSE A
  <2>1. \A i : i \in 1 .. n <=> i \in 1 .. Len(rs) \/ i = n
    BY <1>1
  <2>2. QED
    BY <1>1, <1>2, <2>1 DEF Picked
<1>4. A \subseteq 1 .. Len(rs) /\ n \notin A /\ \A i \in A : i \in Nat /\ i < n /\ t[i] = rs[i]
  BY <1>1 DEF Picked
<1>5. IsFiniteSet(A) /\ Cardinality(A) \in Nat
  <2>1. IsFiniteSet(1 .. Len(rs))
    BY <1>1, FS_Interval
  <2>2. QED
    BY <1>4, <2>1, FS_Subset, FS_CardinalityType
<1>6. Cardinality(A \cup {n}) = Cardinality(A) + 1
  BY <1>4, <1>5, FS_AddElement
<1>7. n \in Nat
  BY <1>1
<1>8. ASSUME NEW i \in A PROVE {j \in B : j <= i} = {j \in A : j <= i}
  BY <1>3, <1>4, <1>7
<1>9. Wanted(t, n) => {j \in B : j <= n} = B
  BY <1>3, <1>4, <1>7
<1>10. \A i \in A : Rank(t, i) = Rank(rs, i)
  BY <1>8 DEF Rank
<1>11. \A i \in A : Rank(rs, i) \in 1 .. Cardinality(A)
  <2> SUFFICES ASSUME NEW i \in A PROVE Rank(rs, i) \in 1 .. Cardinality(A)
    OBVIOUS
  <2> DEFINE C == {j \in A : j <= i}
  <2>1. C \subseteq A /\ i \in C
    BY <1>4
  <2> HIDE DEF C, A
  <2>2. IsFiniteSet(C) /\ Cardinality(C) <= Cardinality(A) /\ Cardinality(C) \in Nat /\ C # {}
    BY <1>5, <2>1, FS_Subset, FS_CardinalityType
  <2>3. Cardinality(C) # 0
    BY <2>2, FS_EmptySet
  <2>4. Rank(rs, i) = Cardinality(C)
    BY DEF Rank, C, A
  <2>5. QED
    BY <1>5, <2>2, <2>3, <2>4
<1>12. Len(ps) = Cardinality(A) /\ \A i \in A : ps[Rank(rs, i)] = rs[i]
  BY DEF Selected
<1> HIDE DEF A, B
<1>13. CASE ~Wanted(t, n)
  <2>1. B = A /\ qs = ps
    BY <1>3, <1>13 DEF t, n
  <2>2. QED
    BY <1>4, <1>10, <1>12, <2>1 DEF Selected, A, B, t
<1>14. CASE Wanted(t, n)
  <2>1. B = A \cup {n} /\ qs = Append(ps, x)
    BY <1>3, <1>14 DEF t, n
  <2>2. /\ Len(qs) = Len(ps) + 1 /\ qs[Len(ps) + 1] = x
        /\ \A k \in 1 .. Len(ps) : qs[k] = ps[k]
    BY <2>1, AppendFacts
  <2>3. Len(qs) = Cardinality(B)
    BY <1>6, <1>12, <2>1, <2>2
  <2>4. Rank(t, n) = Cardinality(B)
    BY <1>9, <1>14 DEF Rank, B
  <2>5. qs[Rank(t, n)] = t[n]
    BY <1>1, <1>6, <1>12, <2>1, <2>2, <2>4
  <2>6. \A i \in A : qs[Rank(t, i)] = t[i]
    BY <1>4, <1>10, <1>11, <1>12, <2>2
  <2>7. \A i \in B : qs[Rank(t, i)] = t[i]
    BY <2>1, <2>5, <2>6
  <2>8. QED
    BY <2>3, <2>7 DEF Selected, B, t
<1>15. QED
  BY <1>13, <1>14

(***************************************************************************)
(* The NOLINT comments that were read.                                     *)
(***************************************************************************)
(* A NOLINT that is taken note of, and those of some lines of a file.      *)
Readable(c) == c # <<>> /\ (c = AllCategories \/ c \in ErrorCategories)
Marked(file, M) ==
  {<<Split(file)[m].nolint, m>> : m \in {i \in M \cap DOMAIN Split(file) : Readable(Split(file)[i].nolint)}}

(* The lines whose NOLINT counts for an error that is raised next: what    *)
(* Excused says, and that these are the lines of M.                        *)
Counting(rs, f, n) ==
  \/ n \in GuardsReported(rs, f)
  \/ ~InComment(run.files[f], n) /\ ~UnendedComment(rs, Len(rs))
Timely(rs, f, M, e) ==
  LET split == Split(run.files[f]) IN
  e.line \in DOMAIN split /\ split[e.line].nolint \in {AllCategories, e.category} =>
    (e.line \in M <=> Counting(Append(rs, InFile(e, f)), f, e.line))

(* Then it is suppressed exactly when it is excused.                       *)
LEMMA SuppressedExcused ==
  ASSUME NEW rs, IsList(rs), NEW f, NEW M, NEW e, e.category \in RaisedCategories,
         Timely(rs, f, M, e)
  PROVE  Suppressed(Marked(run.files[f], M), e) <=> Excused(Append(rs, InFile(e, f)), Len(rs) + 1)
<1> DEFINE t == Append(rs, InFile(e, f))
           n == Len(rs) + 1
           split == Split(run.files[f])
           c == e.category
           here == e.line \in DOMAIN split /\ split[e.line].nolint \in {AllCategories, c}
<1>1. /\ IsList(t) /\ Len(t) = n /\ t[n] = InFile(e, f) /\ Len(rs) \in Nat
      /\ DOMAIN t = 1 .. n
  BY AppendFacts
<1>2. /\ InFile(e, f).file = f /\ InFile(e, f).line = e.line /\ InFile(e, f).category = c
  BY DEF InFile
<1>3. ToSet(SubSeq(t, 1, n)) = ToSet(t)
  <2>1. n \in 0 .. Len(t)
    BY <1>1
  <2>2. ToSet(SubSeq(t, 1, n)) = {t[j] : j \in 1 .. n}
    BY <1>1, <2>1, PrefixSet
  <2>3. QED
    BY <1>1, <2>2 DEF ToSet
<1> HIDE DEF t, n
<1>4. GuardsReported(SubSeq(t, 1, n), f) = GuardsReported(t, f)
  BY <1>3 DEF GuardsReported
<1>5. Excused(t, n) <=> here /\ Counting(t, f, e.line)
  BY <1>1, <1>2, <1>4 DEF Excused, Counting
<1>6. c \in ErrorCategories /\ c # <<>> /\ AllCategories # <<>>
  <2>1. <<>> \notin RaisedCategories
    BY DEF RaisedCategories
  <2>2. QED
    BY <2>1, CategoriesAssumption DEF AllCategories
<1>7. Suppressed(Marked(run.files[f], M), e) <=> here /\ e.line \in M
  <2>1. \A a, b, S : S \cap {a, b} # {} <=> a \in S \/ b \in S
    OBVIOUS
  <2>2. \A k : <<k, e.line>> \in Marked(run.files[f], M)
                <=> e.line \in M \cap DOMAIN split /\ k = split[e.line].nolint /\ Readable(k)
    BY DEF Marked
  <2>3. Readable(c) /\ Readable(AllCategories)
    BY <1>6 DEF Readable
  <2>4. Suppressed(Marked(run.files[f], M), e)
          <=> \/ <<c, e.line>> \in Marked(run.files[f], M)
              \/ <<AllCategories, e.line>> \in Marked(run.files[f], M)
    BY <2>1 DEF Suppressed
  <2> HIDE DEF split, c
  <2>5. QED
    BY <2>2, <2>3, <2>4
<1>8. here => (e.line \in M <=> Counting(t, f, e.line))
  BY DEF Timely, t
<1>9. QED
  BY <1>5, <1>7, <1>8 DEF t, n

(***************************************************************************)
(* The events, one after the other.                                        *)
(***************************************************************************)
(* The settings are those asked for.                                       *)
AsAsked ==
  /\ verbose_level = AskedFor("verbose", 1)
  /\ \A e, x : x.category = e.category => (Filtered(e) <=> ~LetThrough(x))

(* What is printed is what is wanted, and the NOLINT comments of the lines *)
(* of M are noted.                                                         *)
Faithful(r, M) ==
  /\ IsState(r)
  /\ Selected(r.raised, r.printed)
  /\ r.suppressions = Marked(run.files[r.file], M)

LEMMA ErrorKeeps ==
  ASSUME AsAsked, NEW r, NEW M, Faithful(r, M), NEW e, e.category \in RaisedCategories,
         Timely(r.raised, r.file, M, e)
  PROVE  /\ Faithful(Report(r, e), M) /\ Report(r, e).file = r.file
         /\ Report(r, e).raised = Append(r.raised, InFile(e, r.file))
<1> DEFINE x == InFile(e, r.file)
           q == Report(r, e)
           n == Len(r.raised) + 1
           t == Append(r.raised, x)
<1>1. IsState(r) /\ IsList(r.raised) /\ IsList(r.printed) /\ Selected(r.raised, r.printed)
      /\ r.suppressions = Marked(run.files[r.file], M)
  BY DEF Faithful, IsState
<1>2. /\ IsState(q) /\ q.file = r.file /\ q.raised = t /\ q.suppressions = r.suppressions
      /\ q.printed = IF ShouldPrint(r.suppressions, e) THEN Append(r.printed, x) ELSE r.printed
  BY <1>1, ReportFacts
<1> HIDE DEF q
<1>3. /\ x.category = e.category /\ x.confidence = e.confidence
      /\ t[n] = x
  BY <1>1, AppendFacts DEF InFile
<1>4. Suppressed(r.suppressions, e) <=> Excused(t, n)
  BY <1>1, SuppressedExcused
<1>5. Filtered(e) <=> ~LetThrough(x)
  BY <1>3 DEF AsAsked
<1> HIDE DEF x, t, n
<1>6. ShouldPrint(r.suppressions, e) <=> Wanted(t, n)
  BY <1>3, <1>4, <1>5 DEF ShouldPrint, Wanted, AsAsked
<1>7. Selected(t, q.printed)
  BY <1>1, <1>2, <1>6, SelectedGrows DEF t, n
<1>8. QED
  BY <1>1, <1>2, <1>7 DEF Faithful, x, t, q

(* The NOLINT of a line of the file.                                       *)
LEMMA NolintKeeps ==
  ASSUME AsAsked, NEW r, NEW M, Faithful(r, M), NEW n, NEW l, n \in DOMAIN Split(run.files[r.file]),
         l.nolint = Split(run.files[r.file])[n].nolint
  PROVE  LET q == Met(r, [line |-> n, nolint |-> l.nolint]) IN
         /\ Faithful(q, M \cup {n}) /\ q.file = r.file
         /\ \/ q.raised = r.raised
            \/ q.raised = Append(r.raised, InFile(UnknownNolint(n), r.file))
<1> DEFINE e == [line |-> n, nolint |-> l.nolint]
           c == l.nolint
           F == run.files[r.file]
           q == Met(r, e)
<1>1. IsNolint(e) /\ e.nolint = c /\ e.line = n
  BY DEF IsNolint
<1> HIDE DEF e
<1>2. q = IF c = <<>> THEN r
          ELSE IF Readable(c) THEN [r EXCEPT !.suppressions = @ \union {<<c, n>>}]
          ELSE Report(r, UnknownNolint(n))
  BY <1>1 DEF Met, ParseNolint, Readable
<1>3. Marked(F, M \cup {n}) = IF Readable(c) THEN Marked(F, M) \cup {<<c, n>>} ELSE Marked(F, M)
  <2>1. CASE Readable(c)
    BY <2>1 DEF Marked
  <2>2. CASE ~Readable(c)
    BY <2>2 DEF Marked
  <2>3. QED
    BY <2>1, <2>2
<1>4. /\ r = [file |-> r.file, suppressions |-> r.suppressions, count |-> r.count,
              by |-> r.by, raised |-> r.raised, printed |-> r.printed]
      /\ IsState(r) /\ IsList(r.raised) /\ IsList(r.printed) /\ Selected(r.raised, r.printed)
      /\ r.suppressions = Marked(F, M)
  BY DEF Faithful, IsState
<1>5. CASE c = <<>>
  <2>1. q = r /\ ~Readable(c)
    BY <1>2, <1>5 DEF Readable
  <2>2. QED
    BY <1>3, <1>4, <2>1 DEF Faithful, e
<1>6. CASE Readable(c)
  <2> DEFINE more == r.suppressions \union {<<c, n>>}
  <2>1. q = [r EXCEPT !.suppressions = more]
    BY <1>2, <1>6 DEF Readable
  <2> HIDE DEF more, q, c
  <2>2. q = [file |-> r.file, suppressions |-> more, count |-> r.count,
             by |-> r.by, raised |-> r.raised, printed |-> r.printed]
    BY <1>4, <2>1
  <2>3. /\ q.file = r.file /\ q.suppressions = more /\ q.count = r.count
        /\ q.by = r.by /\ q.raised = r.raised /\ q.printed = r.printed
    BY <2>2
  <2>4. IsState(q)
    BY <1>4, <2>2, <2>3 DEF IsState
  <2>5. QED
    BY <1>3, <1>4, <1>6, <2>3, <2>4 DEF Faithful, more, q, e, c
<1>7. CASE c # <<>> /\ ~Readable(c)
  <2> DEFINE u == UnknownNolint(n)
  <2>1. q = Report(r, u)
    BY <1>2, <1>7
  <2>2. u.category = NolintCategory /\ u.line = n
    BY DEF UnknownNolint, Error, NolintCategory
  <2>3. NolintCategory \in RaisedCategories /\ NolintCategory # <<>>
    BY DEF RaisedCategories, NolintCategory
  <2>4. c # AllCategories /\ c # NolintCategory
    BY <1>7, <2>3, CategoriesAssumption DEF Readable
  <2>5. Timely(r.raised, r.file, M, u)
    BY <2>2, <2>4 DEF Timely
  <2> HIDE DEF u
  <2>6. /\ Faithful(Report(r, u), M) /\ Report(r, u).file = r.file
        /\ Report(r, u).raised = Append(r.raised, InFile(u, r.file))
    BY <2>2, <2>3, <2>5, ErrorKeeps
  <2>7. QED
    BY <1>3, <1>7, <2>1, <2>6 DEF Faithful, u, e
<1>8. QED
  BY <1>5, <1>6, <1>7

(* Events in a row.                                                        *)
LEMMA SameSteps ==
  ASSUME NEW n \in Nat, NEW es, NEW g, NEW h, g[0] = h[0],
         StepsOf(g, n, es), StepsOf(h, n, es)
  PROVE  \A k \in 0 .. n : g[k] = h[k]
<1> DEFINE P == {k \in Nat : k <= n => g[k] = h[k]}
<1>1. 0 \in P
  OBVIOUS
<1>2. ASSUME NEW k \in P PROVE k + 1 \in P
  <2>1. k \in Nat /\ (k + 1 <= n => k + 1 \in 1 .. n /\ (k + 1) - 1 = k /\ g[k] = h[k])
    OBVIOUS
  <2>2. ASSUME k + 1 \in 1 .. n
        PROVE  g[k + 1] = Met(g[(k + 1) - 1], es[k + 1]) /\ h[k + 1] = Met(h[(k + 1) - 1], es[k + 1])
    BY <2>2 DEF StepsOf
  <2>3. QED
    BY <2>1, <2>2
<1>3. P = Nat
  <2> HIDE DEF P
  <2>1. P \in SUBSET Nat
    BY DEF P
  <2>2. QED
    BY <1>1, <1>2, <2>1, NatSetInduction
<1>4. QED
  BY <1>3

LEMMA ReportedConcat ==
  ASSUME NEW r, NEW s, IsList(s), NEW t, IsList(t)
  PROVE  Reported(r, s \o t) = Reported(Reported(r, s), t)
<1> DEFINE m == Len(s)
           n == Len(t)
           u == s \o t
<1>1. /\ m \in Nat /\ n \in Nat /\ DOMAIN s = 1 .. m /\ DOMAIN t = 1 .. n
      /\ DOMAIN u = 1 .. m + n
      /\ \A k \in 1 .. m : u[k] = s[k]
      /\ \A k \in 1 .. n : u[m + k] = t[k]
  <2> DEFINE S == ToSet(s) \cup ToSet(t)
  <2>1. s \in Seq(ToSet(s)) /\ t \in Seq(ToSet(t))
    BY DEF IsList
  <2>2. s \in Seq(S) /\ t \in Seq(S)
    BY <2>1
  <2> HIDE DEF S
  <2>3. QED
    BY <2>2
<1> HIDE DEF m, n, u
<1>s. m \in Nat /\ DOMAIN s = 1 .. m
  BY <1>1
<1>t. n \in Nat /\ DOMAIN t = 1 .. n
  BY <1>1
<1>2. PICK h : /\ h[0] = r /\ h[m + n] = Reported(r, u)
               /\ StepsOf(h, m + n, u)
  <2>1. m + n \in Nat /\ DOMAIN u = 1 .. m + n
    BY <1>1
  <2>2. QED
    BY <2>1, ReportedSteps
<1>3. PICK g : /\ g[0] = r /\ g[m] = Reported(r, s)
               /\ StepsOf(g, m, s)
  BY <1>s, ReportedSteps
<1>4. h[m] = Reported(r, s)
  <2>1. \A k \in 1 .. m : k \in 1 .. m + n /\ h[k] = Met(h[k-1], s[k])
    BY <1>1, <1>2 DEF StepsOf
  <2>a. m \in Nat /\ g[0] = h[0]
    BY <1>1, <1>2, <1>3
  <2>b. StepsOf(g, m, s)
    BY <1>3
  <2>c. StepsOf(h, m, s)
    BY <2>1 DEF StepsOf
  <2>2. \A k \in 0 .. m : g[k] = h[k]
    BY <2>a, <2>b, <2>c, SameSteps
  <2>3. QED
    BY <1>1, <1>3, <2>2
<1>5. PICK p : /\ p[0] = h[m] /\ p[n] = Reported(h[m], t)
               /\ StepsOf(p, n, t)
  BY <1>t, ReportedSteps
<1> DEFINE q == [k \in 0 .. n |-> h[m + k]]
<1>6. q[0] = p[0] /\ q[n] = h[m + n]
  BY <1>1, <1>5
<1>7. ASSUME NEW k \in 1 .. n PROVE q[k] = Met(q[k-1], t[k])
  <2>1. /\ m + k \in 1 .. m + n /\ (m + k) - 1 = m + (k - 1)
        /\ k \in 0 .. n /\ k - 1 \in 0 .. n /\ u[m + k] = t[k]
    BY <1>1
  <2>2. h[m + k] = Met(h[(m + k) - 1], u[m + k])
    BY <1>2, <2>1 DEF StepsOf
  <2>3. QED
    BY <2>1, <2>2
<1> HIDE DEF q
<1>8. q[n] = p[n]
  <2>1. \A k \in 0 .. n : q[k] = p[k]
    <3>1. n \in Nat /\ q[0] = p[0]
      BY <1>1, <1>6
    <3>2. StepsOf(p, n, t)
      BY <1>5
    <3>3. StepsOf(q, n, t)
      BY <1>7 DEF StepsOf
    <3>4. QED
      BY <3>1, <3>2, <3>3, SameSteps
  <2>2. QED
    BY <1>1, <2>1
<1>9. QED
  BY <1>2, <1>4, <1>5, <1>6, <1>8 DEF u

LEMMA ReportedEnds ==
  ASSUME NEW r, NEW e
  PROVE  Reported(r, <<>>) = r /\ Reported(r, <<e>>) = Met(r, e)
<1>1. Reported(r, <<>>) = r
  <2>1. DOMAIN <<>> = 1 .. 0
    OBVIOUS
  <2>2. 0 \in Nat
    OBVIOUS
  <2>3. QED
    BY <2>1, <2>2, ReportedSteps
<1>2. Reported(r, <<e>>) = Met(r, e)
  <2> DEFINE es == <<e>>
  <2>1. 1 \in Nat /\ DOMAIN es = 1 .. 1
    OBVIOUS
  <2>4. es[1] = e
    OBVIOUS
  <2> HIDE DEF es
  <2>2. PICK h : h[0] = r /\ h[1] = Reported(r, es) /\ StepsOf(h, 1, es)
    BY <2>1, ReportedSteps
  <2>3. h[1] = Met(h[1-1], es[1]) /\ 1 - 1 = 0
    BY <2>2 DEF StepsOf
  <2>5. QED
    BY <2>2, <2>3, <2>4 DEF es
<1>3. QED
  BY <1>1, <1>2

(* Errors in a row, none of which is about a guard.                        *)
LEMMA ErrorsKeep ==
  ASSUME AsAsked, NEW r, NEW M, Faithful(r, M), NEW s, IsList(s),
         \A e \in ToSet(s) : ~IsNolint(e) /\ e.category \in Checkable,
         \A rs : /\ IsList(rs) /\ ToSet(r.raised) \subseteq ToSet(rs)
                 /\ GuardsReported(rs, r.file) = GuardsReported(r.raised, r.file)
                 => \A e \in ToSet(s) : Timely(rs, r.file, M, e)
  PROVE  LET q == Reported(r, s) IN
         /\ Faithful(q, M) /\ q.file = r.file
         /\ GuardsReported(q.raised, q.file) = GuardsReported(r.raised, r.file)
         /\ ToSet(r.raised) \subseteq ToSet(q.raised)
         /\ \A x \in ToSet(q.raised) : x \in ToSet(r.raised) \/ \E e \in ToSet(s) : x = InFile(e, r.file)
<1> DEFINE n == Len(s)
           f == r.file
           Good(q) ==
             /\ Faithful(q, M) /\ q.file = f
             /\ GuardsReported(q.raised, f) = GuardsReported(r.raised, f)
             /\ ToSet(r.raised) \subseteq ToSet(q.raised)
             /\ \A x \in ToSet(q.raised) : x \in ToSet(r.raised) \/ \E e \in ToSet(s) : x = InFile(e, f)
<1>1. n \in Nat /\ DOMAIN s = 1 .. n /\ \A k \in 1 .. n : s[k] \in ToSet(s)
  BY ListFacts DEF IsList
<1>2. PICK h : /\ h[0] = r /\ h[n] = Reported(r, s)
               /\ StepsOf(h, n, s)
  BY <1>1, ReportedSteps
<1>3. ASSUME NEW q, Good(q), NEW e \in ToSet(s) PROVE Good(Met(q, e))
  <2>1. Met(q, e) = Report(q, e) /\ e.category \in RaisedCategories /\ e.category # Guard
    BY CheckableFacts DEF Met
  <2>2. IsState(q) /\ IsList(q.raised) /\ q.file = f /\ Faithful(q, M)
    BY <1>3 DEF Faithful, IsState
  <2>3. Timely(q.raised, f, M, e)
    BY <1>3, <2>2
  <2> DEFINE p == Report(q, e)
             x == InFile(e, f)
  <2>4. Faithful(p, M) /\ p.file = f /\ p.raised = Append(q.raised, x)
    BY <2>1, <2>2, <2>3, ErrorKeeps
  <2>5. ToSet(p.raised) = ToSet(q.raised) \cup {x}
    BY <2>2, <2>4, AppendFacts
  <2>6. x.category = e.category
    BY DEF InFile
  <2> HIDE DEF p, x
  <2>7. GuardsReported(p.raised, f) = GuardsReported(q.raised, f)
    BY <2>1, <2>5, <2>6 DEF GuardsReported, Guard
  <2>8. \A y \in ToSet(p.raised) : y \in ToSet(r.raised) \/ \E d \in ToSet(s) : y = InFile(d, f)
    BY <1>3, <2>5 DEF x
  <2>9. QED
    BY <1>3, <2>1, <2>4, <2>5, <2>7, <2>8 DEF p
<1>4. Good(r)
  OBVIOUS
<1> HIDE DEF Good
<1> DEFINE P == {k \in Nat : k <= n => Good(h[k])}
<1>5. 0 \in P
  BY <1>2, <1>4
<1>6. ASSUME NEW k \in P PROVE k + 1 \in P
  <2>1. k \in Nat /\ (k <= n => Good(h[k]))
    OBVIOUS
  <2>2. ASSUME k + 1 <= n PROVE Good(h[k + 1])
    <3>1. k + 1 \in 1 .. n /\ (k + 1) - 1 = k /\ k <= n
      BY <1>1, <2>1, <2>2
    <3>2. Good(h[k]) /\ h[k + 1] = Met(h[k], s[k + 1]) /\ s[k + 1] \in ToSet(s)
      BY <1>1, <1>2, <2>1, <3>1 DEF StepsOf
    <3>3. QED
      BY <1>3, <3>2
  <2>3. QED
    BY <2>1, <2>2
<1>7. P = Nat
  <2> HIDE DEF P
  <2>1. P \in SUBSET Nat
    BY DEF P
  <2>2. QED
    BY <1>5, <1>6, <2>1, NatSetInduction
<1>8. Good(h[n])
  <2>1. n \in P
    BY <1>1, <1>7
  <2>2. QED
    BY <1>1, <2>1
<1>9. QED
  BY <1>2, <1>8 DEF Good

(***************************************************************************)
(* The options that are asked for.                                         *)
(***************************************************************************)
(* The last filter that names a category decides.                          *)
Naming(fs, c) == {i \in DOMAIN fs : IsPrefix(fs[i].prefix, c)}

LEMMA FilteredIs ==
  ASSUME NEW fs, IsList(fs), NEW e, filters = fs
  PROVE  Filtered(e) <=> Naming(fs, e.category) # {} /\ fs[Max(Naming(fs, e.category))].sign = "-"
<1> DEFINE E == ToSet(fs)
           c == e.category
           Step(out, f) == IF IsPrefix(f.prefix, c) THEN f.sign = "-" ELSE out
           iter[s \in SUBSET DOMAIN fs] ==
             IF s = {} THEN FALSE ELSE LET x == Max(s) IN Step(iter[s \ {x}], fs[x])
           Is(g) == g = [s \in SUBSET DOMAIN fs |->
                           IF s = {} THEN FALSE ELSE LET x == Max(s) IN Step(g[s \ {x}], fs[x])]
<1>1. Filtered(e) = iter[DOMAIN fs]
  BY DEF Filtered, FoldLeft, MapThenFoldSet
<1>2. iter = CHOOSE g : Is(g)
  BY DEF iter
<1> HIDE DEF iter
<1>3. /\ Len(fs) \in Nat /\ DOMAIN fs = 1 .. Len(fs) /\ fs \in Seq(E)
      /\ \A i \in 1 .. Len(fs) : fs[i] \in E
  <2>1. fs \in Seq(E)
    BY DEF IsList
  <2>2. QED
    BY <2>1, ListFacts
<1> HIDE DEF E
<1> DEFINE step == [p \in BOOLEAN \X E |-> Step(p[1], p[2])]
<1>4. ASSUME NEW b \in BOOLEAN, NEW f \in E PROVE Step(b, f) \in BOOLEAN
  OBVIOUS
<1> HIDE DEF Step
<1>5. step \in [BOOLEAN \X E -> BOOLEAN]
  BY <1>4
<1>6. PICK g : Folds(g, BOOLEAN, step, FALSE, fs)
  <2> HIDE DEF step
  <2>1. QED
    BY <1>3, <1>5, FoldExists
<1>7. ASSUME NEW s \in SUBSET DOMAIN fs, s # {}
      PROVE  Max(s) \in DOMAIN fs /\ fs[Max(s)] \in E /\ s \ {Max(s)} \in SUBSET DOMAIN fs
  BY <1>3, <1>7, MaxFacts
<1>8. Is(g)
  <2>1. ASSUME NEW s \in SUBSET DOMAIN fs, s # {}
        PROVE  g[s] = Step(g[s \ {Max(s)}], fs[Max(s)])
    <3>1. g[s] = step[<<g[s \ {Max(s)}], fs[Max(s)]>>] /\ g[s \ {Max(s)}] \in BOOLEAN
      BY <1>6, <1>7, <2>1 DEF Folds
    <3>2. QED
      BY <1>7, <2>1, <3>1
  <2>2. g[{}] = FALSE
    BY <1>6 DEF Folds
  <2>3. g = [s \in SUBSET DOMAIN fs |-> g[s]]
    BY <1>6 DEF Folds
  <2>4. QED
    BY <2>1, <2>2, <2>3
<1>9. Is(iter)
  <2> HIDE DEF Is
  <2>1. QED
    BY <1>2, <1>8
<1> DEFINE at(s) == {i \in s : IsPrefix(fs[i].prefix, c)}
           Decided(s) == iter[s] <=> at(s) # {} /\ fs[Max(at(s))].sign = "-"
           U == {s \in SUBSET DOMAIN fs : Decided(s)}
<1>10. SUBSET (1 .. Len(fs)) \subseteq U
  <2>1. {} \in U
    <3>1. iter[{}] = FALSE
      BY <1>9
    <3>2. at({}) = {}
      OBVIOUS
    <3>3. QED
      BY <3>1, <3>2
  <2>2. ASSUME NEW s \in SUBSET (1 .. Len(fs)), s # {}, s \ {Max(s)} \in U PROVE s \in U
    <3> DEFINE m == Max(s)
               t == s \ {m}
    <3>1. iter[s] = IF IsPrefix(fs[m].prefix, c) THEN fs[m].sign = "-" ELSE iter[t]
      BY <1>3, <1>9, <2>2 DEF Step
    <3>2. s \in SUBSET DOMAIN fs /\ Decided(t)
      BY <1>3, <2>2
    <3>3. m \in s /\ \A i \in s : i <= m
      BY <1>3, <2>2, MaxFacts
    <3> HIDE DEF m
    <3>4. CASE IsPrefix(fs[m].prefix, c)
      <4>1. at(s) \in SUBSET (1 .. Len(fs)) /\ m \in at(s)
        BY <1>3, <3>3, <3>4
      <4>2. Max(at(s)) \in at(s) /\ m <= Max(at(s))
        <5> HIDE DEF at
        <5>1. QED
          BY <1>3, <4>1, MaxFacts
      <4>a. Max(at(s)) \in s
        BY <4>2
      <4>3. Max(at(s)) \in Nat /\ m \in Nat /\ Max(at(s)) <= m
        <5> HIDE DEF at
        <5>1. QED
          BY <1>3, <3>2, <3>3, <4>a
      <4> HIDE DEF at
      <4>4. Max(at(s)) = m /\ at(s) # {}
        BY <4>1, <4>2, <4>3
      <4>5. Decided(s)
        BY <3>1, <3>4, <4>4
      <4>6. QED
        BY <3>2, <4>5
    <3>5. CASE ~IsPrefix(fs[m].prefix, c)
      <4>1. at(s) = at(t)
        BY <3>3, <3>5
      <4> HIDE DEF at, t
      <4>2. Decided(s)
        BY <3>1, <3>2, <3>5, <4>1
      <4>3. QED
        BY <3>2, <4>2
    <3>6. QED
      BY <3>4, <3>5
  <2> HIDE DEF U
  <2>3. QED
    BY <1>3, <2>1, <2>2, SubsetInduction
<1>11. Decided(DOMAIN fs)
  BY <1>3, <1>10
<1>12. at(DOMAIN fs) = Naming(fs, c)
  BY DEF Naming
<1> HIDE DEF at
<1>13. QED
  BY <1>1, <1>11, <1>12

(***************************************************************************)
(* Before the lines of a file.                                             *)
(***************************************************************************)
Multiline == <<"readability", "multiline_comment">>

(* The check of the guard has noted the lines it reports, and no comment   *)
(* was found to have no end.                                               *)
Starting(r) ==
  /\ Faithful(r, GuardsReported(r.raised, r.file))
  /\ \A x \in ToSet(r.raised) : x.file = r.file => x.category # Multiline

LEMMA NoLineZero ==
  ASSUME NEW file, IsList(Split(file))
  PROVE  /\ 0 \notin DOMAIN Split(file)
         /\ \A M : Marked(file, M \cup {0}) = Marked(file, M)
<1>1. 0 \notin DOMAIN Split(file)
  BY ListFacts DEF IsList
<1>2. \A M : (M \cup {0}) \cap DOMAIN Split(file) = M \cap DOMAIN Split(file)
  BY <1>1
<1>3. QED
  BY <1>1, <1>2 DEF Marked

(* The lines whose guard is reported, with one more error.                 *)
LEMMA GuardsGrow ==
  ASSUME NEW rs, IsList(rs), NEW e, NEW f
  PROVE  GuardsReported(Append(rs, InFile(e, f)), f)
           = IF e.category = Guard THEN GuardsReported(rs, f) \cup {e.line} ELSE GuardsReported(rs, f)
<1> DEFINE x == InFile(e, f)
           t == Append(rs, x)
<1>1. ToSet(t) = ToSet(rs) \cup {x}
  BY AppendFacts
<1>2. x.file = f /\ x.category = e.category /\ x.line = e.line
  BY DEF InFile
<1> HIDE DEF x, t
<1>3. GuardsReported(t, f) = {y.line : y \in {z \in ToSet(rs) \cup {x} : z.file = f /\ z.category = Guard}}
  BY <1>1 DEF GuardsReported, Guard
<1>4. GuardsReported(rs, f) = {y.line : y \in {z \in ToSet(rs) : z.file = f /\ z.category = Guard}}
  BY DEF GuardsReported, Guard
<1>5. CASE e.category = Guard
  BY <1>2, <1>3, <1>4, <1>5 DEF t, x
<1>6. CASE e.category # Guard
  BY <1>2, <1>3, <1>4, <1>6 DEF t, x
<1>7. QED
  BY <1>5, <1>6

(* An error on no line.                                                    *)
LEMMA StartingNoLine ==
  ASSUME AsAsked, NEW r, Starting(r), IsList(Split(run.files[r.file])),
         NEW e, e.line = 0, e.category \in RaisedCategories \ {Multiline}
  PROVE  Starting(Report(r, e)) /\ Report(r, e).file = r.file
<1> DEFINE f == r.file
           M == GuardsReported(r.raised, f)
           q == Report(r, e)
           x == InFile(e, f)
<1>1. Timely(r.raised, f, M, e)
  BY NoLineZero DEF Timely
<1>2. Faithful(r, M) /\ IsList(r.raised)
  BY DEF Starting, Faithful, IsState
<1>3. Faithful(q, M) /\ q.file = f /\ q.raised = Append(r.raised, x)
  BY <1>1, <1>2, ErrorKeeps
<1>4. GuardsReported(q.raised, f) \in {M, M \cup {0}}
  BY <1>2, <1>3, GuardsGrow
<1>5. ToSet(q.raised) = ToSet(r.raised) \cup {x} /\ x.category = e.category
  BY <1>2, <1>3, AppendFacts DEF InFile
<1> HIDE DEF M, q, x
<1>6. Marked(run.files[f], GuardsReported(q.raised, f)) = Marked(run.files[f], M)
  BY <1>4, NoLineZero
<1>7. Faithful(q, GuardsReported(q.raised, f))
  BY <1>3, <1>6 DEF Faithful
<1>8. \A y \in ToSet(q.raised) : y.file = f => y.category # Multiline
  BY <1>5 DEF Starting
<1>9. QED
  BY <1>3, <1>7, <1>8 DEF Starting, q

(* The NOLINT of a line and an error about the guard on it.                *)
LEMMA StartingGuard ==
  ASSUME AsAsked, NEW r, Starting(r), NEW n \in DOMAIN Split(run.files[r.file]), NEW l,
         l.nolint = Split(run.files[r.file])[n].nolint, NEW k
  PROVE  LET q == Report(Met(r, [line |-> n, nolint |-> l.nolint]), Error(n, Guard, k)) IN
         Starting(q) /\ q.file = r.file
<1> DEFINE f == r.file
           M == GuardsReported(r.raised, f)
           m == Met(r, [line |-> n, nolint |-> l.nolint])
           e == Error(n, Guard, k)
           u == UnknownNolint(n)
           q == Report(m, e)
<1>1. Faithful(r, M) /\ IsList(r.raised)
  BY DEF Starting, Faithful, IsState
<1>2. /\ Faithful(m, M \cup {n}) /\ m.file = f
      /\ m.raised = r.raised \/ m.raised = Append(r.raised, InFile(u, f))
  BY <1>1, NolintKeeps
<1>3. /\ e.line = n /\ e.category = Guard /\ u.category = NolintCategory
      /\ Guard # NolintCategory /\ Guard \in RaisedCategories
      /\ Guard # Multiline /\ NolintCategory # Multiline
  BY ErrorFacts, OtherCategories DEF UnknownNolint, NolintCategory, Guard, Multiline
<1>4. IsList(m.raised)
  BY <1>2 DEF Faithful, IsState
<1> HIDE DEF e, u, m
<1>5. GuardsReported(m.raised, f) = M
  <2>1. GuardsReported(Append(r.raised, InFile(u, f)), f) = GuardsReported(r.raised, f)
    BY <1>1, <1>3, GuardsGrow
  <2>2. QED
    BY <1>2, <2>1
<1>6. GuardsReported(Append(m.raised, InFile(e, f)), f) = M \cup {n}
  BY <1>3, <1>4, <1>5, GuardsGrow
<1>7. Timely(m.raised, f, M \cup {n}, e)
  BY <1>3, <1>6 DEF Timely, Counting
<1> HIDE DEF M
<1>8. Faithful(q, M \cup {n}) /\ q.file = f /\ q.raised = Append(m.raised, InFile(e, f))
  BY <1>2, <1>3, <1>7, ErrorKeeps
<1>9. \A y \in ToSet(m.raised) : y.file = f => y.category # Multiline
  <2>1. InFile(u, f).category # Multiline
    BY <1>3 DEF InFile
  <2>2. ToSet(Append(r.raised, InFile(u, f))) = ToSet(r.raised) \cup {InFile(u, f)}
    BY <1>1, AppendFacts
  <2>3. QED
    BY <1>2, <2>1, <2>2 DEF Starting
<1>10. \A y \in ToSet(q.raised) : y.file = f => y.category # Multiline
  <2>1. InFile(e, f).category # Multiline
    BY <1>3 DEF InFile
  <2>2. ToSet(q.raised) = ToSet(m.raised) \cup {InFile(e, f)}
    BY <1>4, <1>8, AppendFacts
  <2>3. QED
    BY <1>9, <2>1, <2>2
<1>11. QED
  BY <1>6, <1>8, <1>10 DEF Starting, q, e, m

(* A part of the check of the guard.                                       *)
LEMMA StartingStep ==
  ASSUME AsAsked, NEW r, Starting(r), AreLines(run.files[r.file].lines),
         NEW s \in GuardSteps(ReadLines(run.files[r.file]))
  PROVE  Starting(Reported(r, s)) /\ Reported(r, s).file = r.file
<1> DEFINE F == run.files[r.file]
           ls == ReadLines(F)
<1>0. /\ IsList(Split(F)) /\ DOMAIN ls = DOMAIN Split(F)
      /\ \A n \in DOMAIN Split(F) : ls[n].nolint = Split(F)[n].nolint
  BY FileLines
<1>1. CASE s = <<>>
  BY <1>1, ReportedEnds
<1>2. CASE \E k \in Levels : s = <<Error(0, Guard, k)>>
  <2>1. PICK k : s = <<Error(0, Guard, k)>>
    BY <1>2
  <2> DEFINE e == Error(0, Guard, k)
  <2>2. e.line = 0 /\ e.category \in RaisedCategories \ {Multiline} /\ ~IsNolint(e)
    BY ErrorFacts, OtherCategories DEF Guard, Multiline
  <2> HIDE DEF e
  <2>3. Reported(r, <<e>>) = Report(r, e)
    BY <2>2, ReportedEnds DEF Met
  <2>4. Starting(Report(r, e)) /\ Report(r, e).file = r.file
    BY <1>0, <2>2, StartingNoLine
  <2>5. QED
    BY <2>1, <2>3, <2>4 DEF e
<1>3. CASE \E n \in DOMAIN ls, k \in Levels : s = Nolint(n, ls[n]) \o <<Error(n, Guard, k)>>
  <2>1. PICK n, k : n \in DOMAIN ls /\ s = Nolint(n, ls[n]) \o <<Error(n, Guard, k)>>
    BY <1>3
  <2> DEFINE e == Error(n, Guard, k)
             d == [line |-> n, nolint |-> ls[n].nolint]
  <2>2. n \in DOMAIN Split(F) /\ ls[n].nolint = Split(F)[n].nolint
    BY <1>0, <2>1
  <2>3. ~IsNolint(e)
    BY ErrorFacts
  <2> HIDE DEF e, d
  <2>4. s = <<d>> \o <<e>>
    BY <2>1, NolintFacts DEF d, e
  <2>5. IsList(<<d>>) /\ IsList(<<e>>)
    BY OneFacts
  <2>6. Reported(r, s) = Report(Met(r, d), e)
    <3>1. \A q : Met(q, e) = Report(q, e)
      BY <2>3 DEF Met
    <3>2. Reported(r, s) = Reported(Reported(r, <<d>>), <<e>>)
      BY <2>4, <2>5, ReportedConcat
    <3>3. \A q, x : Reported(q, <<x>>) = Met(q, x)
      BY ReportedEnds
    <3>4. QED
      BY <3>1, <3>2, <3>3
  <2> HIDE DEF ls, F
  <2>7. QED
    BY <2>2, <2>6, StartingGuard DEF e, d, F
<1>4. QED
  BY <1>1, <1>2, <1>3, GuardForms

LEMMA GuardLists ==
  ASSUME NEW ls, NEW s \in GuardSteps(ls)
  PROVE  IsList(s)
<1>1. CASE s = <<>>
  BY <1>1, NoneFacts
<1>2. CASE \E k \in Levels : s = <<Error(0, Guard, k)>>
  BY <1>2, OneFacts
<1>3. CASE \E n \in DOMAIN ls, k \in Levels : s = Nolint(n, ls[n]) \o <<Error(n, Guard, k)>>
  BY <1>3, NolintFacts, OneFacts, ListConcat DEF ConcatLists
<1>4. QED
  BY <1>1, <1>2, <1>3, GuardForms

(* The error for a comment without an end is among those raised.           *)
EndReported(rs, f) ==
  LET errors == Uncommented(ReadLines(run.files[f])).errors
  IN errors # <<>> => InFile(errors[1], f) \in ToSet(rs)

(* It counts before any NOLINT of the lines does.                          *)
LEMMA StartingEnd ==
  ASSUME AsAsked, NEW r, Starting(r)
  PROVE  LET q == Reported(r, Uncommented(ReadLines(run.files[r.file])).errors) IN
         /\ Faithful(q, GuardsReported(q.raised, q.file)) /\ q.file = r.file
         /\ EndReported(q.raised, q.file)
<1> DEFINE f == r.file
           ls == ReadLines(run.files[f])
           c == Uncommented(ls).errors
           e == Error(Comments(ls).unended + 1, Multiline, 5)
           M == GuardsReported(r.raised, f)
           x == InFile(e, f)
           t == Append(r.raised, x)
           n == Len(r.raised) + 1
           q == Report(r, e)
<1>1. c = <<>> \/ c = <<e>>
  BY DEF Uncommented, When, Multiline
<1>2. CASE c = <<>>
  <2>1. Reported(r, c) = r
    BY <1>2, ReportedEnds
  <2>2. QED
    BY <1>2, <2>1 DEF Starting, EndReported
<1>3. CASE c = <<e>>
  <2>1. /\ e.category = Multiline /\ ~IsNolint(e)
        /\ Multiline \in RaisedCategories /\ Multiline # Guard
    BY ErrorFacts DEF Multiline, Guard, RaisedCategories
  <2>2. c[1] = e /\ c # <<>>
    BY <1>3
  <2> HIDE DEF e, c, ls
  <2>3. Reported(r, c) = q
    <3>1. Met(r, e) = Report(r, e)
      BY <2>1 DEF Met
    <3>2. Reported(r, <<e>>) = Met(r, e)
      BY ReportedEnds
    <3>3. QED
      BY <1>3, <3>1, <3>2
  <2>4. Faithful(r, M) /\ IsList(r.raised)
    BY DEF Starting, Faithful, IsState
  <2>5. /\ IsList(t) /\ Len(t) = n /\ t[n] = x /\ ToSet(t) = ToSet(r.raised) \cup {x}
        /\ \A j \in 1 .. n - 1 : t[j] \in ToSet(r.raised)
    <3>1. /\ IsList(t) /\ Len(t) = n /\ t[n] = x /\ ToSet(t) = ToSet(r.raised) \cup {x}
          /\ Len(r.raised) \in Nat /\ DOMAIN r.raised = 1 .. Len(r.raised)
          /\ \A j \in 1 .. Len(r.raised) : t[j] = r.raised[j]
      BY <2>4, AppendFacts
    <3>2. n - 1 = Len(r.raised)
      BY <3>1
    <3>3. \A j \in 1 .. n - 1 : t[j] = r.raised[j] /\ j \in DOMAIN r.raised
      BY <3>1, <3>2
    <3>4. QED
      BY <3>1, <3>3 DEF ToSet
  <2>6. x.file = f /\ x.category = Multiline
    BY <2>1 DEF InFile
  <2>7. \A y \in ToSet(r.raised) : y # x
    BY <2>6 DEF Starting
  <2>8. GuardsReported(t, f) = M
    BY <2>1, <2>4, GuardsGrow
  <2> HIDE DEF t, n, x, q
  <2>9. UnendedComment(t, Len(t))
    <3>1. Uncommented(ReadLines(run.files[t[n].file])).errors = c
      BY <2>5, <2>6 DEF c, ls
    <3>2. t[n] = InFile(c[1], t[n].file)
      BY <2>2, <2>5, <2>6 DEF x
    <3>3. \A j \in 1 .. n - 1 : t[j] # t[n]
      BY <2>5, <2>7
    <3>4. UnendedComment(t, n)
      BY <2>2, <3>1, <3>2, <3>3 DEF UnendedComment
    <3>5. QED
      BY <2>5, <3>4
  <2>10. Timely(r.raised, f, M, e)
    BY <2>8, <2>9 DEF Timely, Counting, t, x
  <2>11. Faithful(q, M) /\ q.file = f /\ q.raised = t
    BY <2>1, <2>4, <2>10, ErrorKeeps DEF q, t, x
  <2>12. EndReported(q.raised, q.file)
    <3>1. InFile(c[1], f) \in ToSet(t)
      BY <2>2, <2>5 DEF x
    <3>2. QED
      BY <2>11, <3>1 DEF EndReported, c, ls
  <2>13. QED
    BY <2>3, <2>8, <2>11, <2>12 DEF c, ls
<1>4. QED
  BY <1>1, <1>2, <1>3

(* What ProcessFileData does up to its loop.                               *)
LEMMA OpeningKeeps ==
  ASSUME AsAsked, NEW r, IsState(r), Selected(r.raised, r.printed), r.suppressions = {},
         \A x \in ToSet(r.raised) : x.file # r.file,
         AreLines(run.files[r.file].lines)
  PROVE  LET F == run.files[r.file]
             q == Reported(r, FirstErrors(F, ReadLines(F)))
         IN /\ Faithful(q, GuardsReported(q.raised, q.file)) /\ q.file = r.file
            /\ EndReported(q.raised, q.file)
<1> DEFINE f == r.file
           F == run.files[f]
           ls == ReadLines(F)
           a == CopyrightErrors(ls)
           b == IF F.name.ext = "h" THEN GuardErrors(ls) ELSE <<>>
           c == Uncommented(ls).errors
           copyright == Error(0, <<"legal", "copyright">>, 5)
<1>1. IsList(Split(F)) /\ IsList(ls)
  BY FileLines
<1>2. Starting(r)
  <2>1. GuardsReported(r.raised, f) = {}
    BY DEF GuardsReported
  <2>2. Marked(F, {}) = {}
    BY DEF Marked
  <2>3. QED
    BY <2>1, <2>2 DEF Starting, Faithful
<1>3. Starting(Reported(r, a)) /\ Reported(r, a).file = f /\ IsList(a)
  <2>1. a = <<>> \/ a = <<copyright>>
    BY DEF CopyrightErrors, When
  <2>2. /\ copyright.line = 0 /\ copyright.category \in RaisedCategories \ {Multiline}
        /\ ~IsNolint(copyright)
    BY ErrorFacts DEF RaisedCategories, Multiline
  <2> HIDE DEF copyright, a
  <2>3. Reported(r, <<copyright>>) = Report(r, copyright)
    <3>1. Met(r, copyright) = Report(r, copyright)
      BY <2>2 DEF Met
    <3>2. Reported(r, <<copyright>>) = Met(r, copyright)
      BY ReportedEnds
    <3>3. QED
      BY <3>1, <3>2
  <2>4. Starting(Report(r, copyright)) /\ Report(r, copyright).file = f
    BY <1>1, <1>2, <2>2, StartingNoLine
  <2>5. Reported(r, <<>>) = r
    BY ReportedEnds
  <2>6. IsList(a)
    BY <2>1, OneFacts, NoneFacts
  <2>7. CASE a = <<>>
    BY <1>2, <2>5, <2>6, <2>7
  <2>8. CASE a = <<copyright>>
    BY <2>3, <2>4, <2>6, <2>8
  <2>9. QED
    BY <2>1, <2>7, <2>8
<1> DEFINE p == Reported(r, a)
<1> HIDE DEF a, p
<1>4. Starting(Reported(p, b)) /\ Reported(p, b).file = f /\ IsList(b)
  <2>0. Starting(p) /\ p.file = f
    BY <1>3 DEF p
  <2>1. CASE b = <<>>
    <3>1. Reported(p, b) = p
      BY <2>1, ReportedEnds
    <3>2. QED
      BY <2>0, <2>1, <3>1, NoneFacts
  <2>2. CASE b = GuardErrors(ls)
    <3>1. PICK g, h \in GuardSteps(ls) : b = g \o h
      BY <1>1, <2>2, GuardParts
    <3> DEFINE m == Reported(p, g)
    <3> HIDE DEF b
    <3>2. AreLines(run.files[p.file].lines) /\ ls = ReadLines(run.files[p.file])
      BY <2>0
    <3>3. Starting(m) /\ m.file = f
      BY <2>0, <3>1, <3>2, StartingStep
    <3>4. Starting(Reported(m, h)) /\ Reported(m, h).file = f
      <4> HIDE DEF m
      <4>1. AreLines(run.files[m.file].lines) /\ ls = ReadLines(run.files[m.file])
        BY <3>3
      <4>2. QED
        BY <3>1, <3>3, <4>1, StartingStep
    <3> HIDE DEF ls
    <3>5. IsList(g) /\ IsList(h)
      BY <3>1, GuardLists
    <3>6. Reported(p, b) = Reported(m, h)
      BY <3>1, <3>5, ReportedConcat
    <3>7. IsList(b)
      BY <3>1, <3>5, ListConcat DEF ConcatLists
    <3>8. QED
      BY <3>4, <3>6, <3>7
  <2>3. QED
    BY <2>1, <2>2
<1>5. IsList(c)
  <2>1. c \in Seq(Own({UnendedAt(ls)}))
    BY UnendedOwn
  <2> HIDE DEF c
  <2>2. QED
    BY <2>1, HavingOwn
<1> HIDE DEF b, c
<1>6. Reported(r, (a \o b) \o c) = Reported(Reported(p, b), c)
  <2>1. IsList(a \o b)
    BY <1>3, <1>4, ListConcat DEF ConcatLists
  <2>2. Reported(r, a \o b) = Reported(p, b)
    BY <1>3, <1>4, ReportedConcat DEF p
  <2>3. QED
    BY <1>5, <2>1, <2>2, ReportedConcat
<1>7. FirstErrors(F, ls) = (a \o b) \o c
  BY DEF FirstErrors, a, b, c
<1> DEFINE m == Reported(p, b)
           q == Reported(m, c)
<1> HIDE DEF m
<1>8. Faithful(q, GuardsReported(q.raised, q.file)) /\ q.file = f /\ EndReported(q.raised, q.file)
  <2>1. Starting(m) /\ m.file = f
    BY <1>4 DEF m
  <2>2. c = Uncommented(ReadLines(run.files[m.file])).errors
    BY <2>1 DEF c
  <2>3. QED
    BY <2>1, <2>2, StartingEnd
<1>9. QED
  BY <1>6, <1>7, <1>8 DEF m

(***************************************************************************)
(* On the lines of a file, and after them.                                 *)
(***************************************************************************)
(* The lines before n, but for those of comments, and those whose NOLINT   *)
(* was noted by then.                                                      *)
ReadUpTo(f, n) == {m \in DOMAIN Split(run.files[f]) : m < n /\ ~InComment(run.files[f], m)}
Noted(r, n) == ReadUpTo(r.file, n) \cup GuardsReported(r.raised, r.file)

LEMMA TimelyAfter ==
  ASSUME NEW rs, IsList(rs), NEW f, EndReported(rs, f), NEW M, NEW e, e.category # Guard,
         e.line \in DOMAIN Split(run.files[f]) =>
           (e.line \in M <=> e.line \in GuardsReported(rs, f) \/ ~InComment(run.files[f], e.line))
  PROVE  Timely(rs, f, M, e)
<1> DEFINE x == InFile(e, f)
           t == Append(rs, x)
           n == Len(rs) + 1
           c == Uncommented(ReadLines(run.files[f])).errors
<1>1. /\ Len(t) = n /\ t[n] = x /\ n - 1 = Len(rs) /\ DOMAIN rs = 1 .. Len(rs)
      /\ \A j \in 1 .. Len(rs) : t[j] = rs[j]
  BY AppendFacts
<1>2. GuardsReported(t, f) = GuardsReported(rs, f) /\ x.file = f
  BY GuardsGrow DEF InFile
<1> HIDE DEF t, n, x
<1>3. ~UnendedComment(t, n)
  <2> SUFFICES ASSUME UnendedComment(t, n) PROVE FALSE
    OBVIOUS
  <2>1. c # <<>> /\ t[n] = InFile(c[1], f) /\ \A j \in 1 .. n - 1 : t[j] # t[n]
    BY <1>1, <1>2 DEF UnendedComment
  <2>2. t[n] \in ToSet(rs)
    BY <2>1 DEF EndReported
  <2>3. PICK j \in 1 .. Len(rs) : rs[j] = t[n]
    BY <1>1, <2>2 DEF ToSet
  <2>4. QED
    BY <1>1, <2>1, <2>3
<1>4. Counting(t, f, e.line) <=> e.line \in GuardsReported(rs, f) \/ ~InComment(run.files[f], e.line)
  BY <1>1, <1>2, <1>3 DEF Counting
<1>5. QED
  BY <1>4 DEF Timely, t, x

(* Errors on lines that were read.                                         *)
LEMMA MoreKeeps ==
  ASSUME AsAsked, NEW r, NEW n, Faithful(r, Noted(r, n)), EndReported(r.raised, r.file),
         NEW more, IsList(more),
         \A e \in ToSet(more) : /\ ~IsNolint(e) /\ e.category \in Checkable
                                /\ e.line \in DOMAIN Split(run.files[r.file]) => e.line < n
  PROVE  LET q == Reported(r, more) IN
         /\ Faithful(q, Noted(q, n)) /\ q.file = r.file
         /\ EndReported(q.raised, q.file)
<1> DEFINE f == r.file
           M == Noted(r, n)
           G == GuardsReported(r.raised, f)
           q == Reported(r, more)
<1>1. ASSUME NEW rs, IsList(rs), ToSet(r.raised) \subseteq ToSet(rs), GuardsReported(rs, f) = G,
             NEW e \in ToSet(more)
      PROVE  Timely(rs, f, M, e)
  <2>1. EndReported(rs, f)
    BY <1>1 DEF EndReported
  <2>2. e.category # Guard /\ (e.line \in DOMAIN Split(run.files[f]) => e.line < n)
    BY <1>1, CheckableFacts
  <2>3. e.line \in DOMAIN Split(run.files[f]) =>
          (e.line \in M <=> e.line \in G \/ ~InComment(run.files[f], e.line))
    BY <2>2 DEF Noted, ReadUpTo
  <2> HIDE DEF M, G
  <2>4. QED
    BY <1>1, <2>1, <2>2, <2>3, TimelyAfter
<1> HIDE DEF M, G, q
<1>2. /\ Faithful(q, M) /\ q.file = f
      /\ GuardsReported(q.raised, q.file) = G
      /\ ToSet(r.raised) \subseteq ToSet(q.raised)
  <2>1. \A rs : /\ IsList(rs) /\ ToSet(r.raised) \subseteq ToSet(rs)
                /\ GuardsReported(rs, f) = GuardsReported(r.raised, f)
                => \A e \in ToSet(more) : Timely(rs, f, M, e)
    BY <1>1 DEF G
  <2>2. \A e \in ToSet(more) : ~IsNolint(e) /\ e.category \in Checkable
    OBVIOUS
  <2>3. Faithful(r, M)
    BY DEF M
  <2>4. QED
    BY <2>1, <2>2, <2>3, ErrorsKeep DEF G, q
<1>3. Noted(q, n) = M
  BY <1>2 DEF Noted, M, G
<1>4. EndReported(q.raised, f)
  BY <1>2 DEF EndReported
<1>5. QED
  BY <1>2, <1>3, <1>4 DEF q

(* A line as the checks see it.                                            *)
LEMMA LineRead ==
  ASSUME NEW file, AreLines(file.lines), NEW n \in DOMAIN Split(file)
  PROVE  Uncommented(ReadLines(file)).lines[n].nolint
           = IF InComment(file, n) THEN <<>> ELSE Split(file)[n].nolint
<1> DEFINE ls == ReadLines(file)
           us == Uncommented(ls).lines
<1>1. DOMAIN ls = DOMAIN Split(file) /\ ls[n].nolint = Split(file)[n].nolint
  BY FileLines
<1> HIDE DEF ls
<1>2. us[n] \in {DummyLine, ls[n]}
  BY <1>1 DEF Uncommented
<1> HIDE DEF us
<1>3. InComment(file, n) <=> us[n] = DummyLine /\ ls[n] # DummyLine
  BY <1>1 DEF InComment, us, ls
<1>4. DummyLine.nolint = <<>>
  BY DEF DummyLine, EmptyLine
<1>5. QED
  BY <1>1, <1>2, <1>3, <1>4 DEF us, ls

LEMMA LineKeeps ==
  ASSUME AsAsked, NEW r, AreLines(run.files[r.file].lines),
         NEW n \in DOMAIN Split(run.files[r.file]),
         Faithful(r, Noted(r, n)), EndReported(r.raised, r.file),
         NEW l, l = Uncommented(ReadLines(run.files[r.file])).lines[n],
         NEW more, Reports(more, n)
  PROVE  LET q == Reported(r, Nolint(n, l) \o more) IN
         /\ Faithful(q, Noted(q, n + 1)) /\ q.file = r.file
         /\ EndReported(q.raised, q.file)
<1> DEFINE f == r.file
           F == run.files[f]
           d == [line |-> n, nolint |-> l.nolint]
           p == Met(r, d)
           u == UnknownNolint(n)
           G == GuardsReported(r.raised, f)
<1>1. DOMAIN Split(F) \subseteq Nat /\ n \in Nat
  <2>1. IsList(Split(F))
    BY FileLines
  <2>2. DOMAIN Split(F) = 1 .. Len(Split(F))
    BY <2>1, ListFacts DEF IsList
  <2>3. QED
    BY <2>2
<1>2. l.nolint = IF InComment(F, n) THEN <<>> ELSE Split(F)[n].nolint
  BY LineRead
<1>3. IsNolint(d) /\ d.line = n /\ d.nolint = l.nolint /\ Nolint(n, l) = <<d>>
  BY NolintFacts
<1>4. ReadUpTo(f, n + 1) = IF InComment(F, n) THEN ReadUpTo(f, n) ELSE ReadUpTo(f, n) \cup {n}
  <2>1. \A m \in DOMAIN Split(F) : m < n + 1 <=> m < n \/ m = n
    BY <1>1
  <2>2. CASE InComment(F, n)
    BY <2>1, <2>2 DEF ReadUpTo
  <2>3. CASE ~InComment(F, n)
    BY <1>1, <2>1, <2>3 DEF ReadUpTo
  <2>4. QED
    BY <2>2, <2>3
<1> HIDE DEF d
<1>5. Faithful(p, Noted(p, n + 1)) /\ p.file = f /\ EndReported(p.raised, f)
  <2>1. CASE InComment(F, n)
    <3>1. p = r
      BY <1>2, <1>3, <2>1 DEF Met, ParseNolint
    <3>2. Noted(r, n + 1) = Noted(r, n)
      BY <1>4, <2>1 DEF Noted
    <3>3. QED
      BY <3>1, <3>2
  <2>2. CASE ~InComment(F, n)
    <3>1. /\ Faithful(p, Noted(r, n) \cup {n}) /\ p.file = f
          /\ p.raised = r.raised \/ p.raised = Append(r.raised, InFile(u, f))
      BY <1>2, <2>2, NolintKeeps DEF d
    <3>2. IsList(r.raised) /\ u.category # Guard
      BY ErrorFacts, OtherCategories DEF Faithful, IsState, UnknownNolint, NolintCategory
    <3> HIDE DEF p, u
    <3>3. GuardsReported(Append(r.raised, InFile(u, f)), f) = G
      BY <3>2, GuardsGrow
    <3>a. ToSet(r.raised) \subseteq ToSet(Append(r.raised, InFile(u, f)))
      BY <3>2, AppendFacts
    <3>4. GuardsReported(p.raised, f) = G /\ ToSet(r.raised) \subseteq ToSet(p.raised)
      BY <3>1, <3>3, <3>a
    <3>5. Noted(p, n + 1) = Noted(r, n) \cup {n}
      BY <1>4, <2>2, <3>1, <3>4 DEF Noted
    <3>6. EndReported(p.raised, f)
      BY <3>4 DEF EndReported
    <3>7. QED
      BY <3>1, <3>5, <3>6
  <2>3. QED
    BY <2>1, <2>2
<1> HIDE DEF p
<1>6. Reported(r, Nolint(n, l) \o more) = Reported(p, more)
  <2>1. IsList(<<d>>) /\ IsList(more)
    BY OneFacts DEF Reports
  <2>2. Reported(r, <<d>>) = p
    BY ReportedEnds DEF p
  <2>3. QED
    BY <1>3, <2>1, <2>2, ReportedConcat
<1>7. /\ IsList(more)
      /\ \A e \in ToSet(more) : ~IsNolint(e) /\ e.category \in Checkable /\ e.line < n + 1
  <2>1. n < n + 1
    BY <1>1
  <2>2. QED
    BY <2>1 DEF Reports
<1> DEFINE q == Reported(p, more)
<1>8. Faithful(q, Noted(q, n + 1)) /\ q.file = f /\ EndReported(q.raised, q.file)
  <2>1. EndReported(p.raised, p.file)
    BY <1>5
  <2>2. QED
    BY <1>5, <1>7, <2>1, MoreKeeps
<1>9. QED
  BY <1>6, <1>8

(***************************************************************************)
(* The invariant.                                                          *)
(***************************************************************************)
(* The settings are those asked for, and each filter has a sign.           *)
Settings ==
  /\ verbose_level = AskedFor("verbose", 1)
  /\ filters = AskedFilters
  /\ IsList(filters) /\ \A f \in ToSet(filters) : f.sign \in {"+", "-"}

LEMMA SettingsAsked ==
  ASSUME Settings
  PROVE  AsAsked
<1> DEFINE fs == AskedFilters
<1>1. filters = fs /\ IsList(fs) /\ \A f \in ToSet(fs) : f.sign \in {"+", "-"}
  BY DEF Settings
<1>2. DOMAIN fs = 1 .. Len(fs) /\ Len(fs) \in Nat
  BY <1>1, ListFacts DEF IsList
<1>3. ASSUME NEW e, NEW x, x.category = e.category PROVE Filtered(e) <=> ~LetThrough(x)
  <2> DEFINE at == Naming(fs, e.category)
  <2>1. Filtered(e) <=> at # {} /\ fs[Max(at)].sign = "-"
    BY <1>1, FilteredIs
  <2>2. LetThrough(x) <=> at = {} \/ fs[Max(at)].sign = "+"
    BY <1>3 DEF LetThrough, Naming
  <2>3. at \in SUBSET (1 .. Len(fs))
    BY <1>2 DEF Naming
  <2> HIDE DEF at, fs
  <2>4. at # {} => fs[Max(at)].sign \in {"+", "-"}
    <3>1. at # {} => Max(at) \in DOMAIN fs
      BY <1>2, <2>3, MaxFacts
    <3>2. at # {} => fs[Max(at)] \in ToSet(fs)
      BY <3>1 DEF ToSet
    <3>3. QED
      BY <1>1, <3>2
  <2>5. QED
    BY <2>1, <2>2, <2>4
<1>4. QED
  BY <1>3 DEF AsAsked, Settings

(* They are set once, and kept.                                            *)
LEMMA AskedStays ==
  ASSUME run' = run
  PROVE  /\ \A name, default : AskedFor(name, default)' = AskedFor(name, default)
         /\ AskedFilters' = AskedFilters
BY DEF AskedFor, AskedFilters

LEMMA SettingsKept ==
  ASSUME Settings, UNCHANGED <<run, verbose_level, filters>>
  PROVE  Settings'
BY AskedStays DEF Settings

LEMMA SettingsSet ==
  ASSUME CountInv, verbose_level = 1, ParseArguments, pc' = "file"
  PROVE  Settings'
<1> DEFINE asked == Parsed(run.options, Len(run.files))
           os == run.options
           chosen == asked.filters
           V == Latest(os, "verbose", 1, DOMAIN os)
           F == Latest(os, "filter", <<>>, DOMAIN os)
<1>1. IsRun(run)
  BY DEF CountInv, Shapes
<1>2. /\ asked.exit \in Exits
      /\ asked.exit = "" => /\ asked.verbosity = V /\ chosen = F
                          /\ \A i \in DOMAIN chosen : chosen[i].sign \in {"+", "-"}
  BY <1>1, RunFacts, ParsedFacts
<1>3. AskedFor("verbose", 1) = V /\ AskedFor("filter", <<>>) = F
  BY DEF AskedFor, Latest, Named
<1> HIDE DEF V, F, asked
<1>4. asked.exit = "" /\ SetOptions(asked) /\ run' = run
  BY <1>2 DEF ParseArguments, Exits, asked
<1>5. verbose_level' = V /\ filters' = DEFAULT_FILTERS \o F
  BY <1>2, <1>4 DEF SetOptions
<1>6. IsList(F)
  <2> DEFINE at == Named(os, "filter", DOMAIN os)
  <2>1. CASE at = {}
    BY <2>1, NoneFacts DEF F, Latest
  <2>2. CASE at # {}
    <3>1. /\ IsList(os)
          /\ \A i \in DOMAIN os : os[i].name = "filter" => IsList(os[i].value)
      BY <1>1 DEF IsRun
    <3>2. DOMAIN os = 1 .. Len(os) /\ Len(os) \in Nat
      BY <3>1, ListFacts DEF IsList
    <3>3. at \in SUBSET (1 .. Len(os))
      BY <3>2 DEF Named
    <3>4. Max(at) \in at
      <4> HIDE DEF at
      <4>1. QED
        BY <2>2, <3>2, <3>3, MaxFacts
    <3>5. Max(at) \in DOMAIN os /\ os[Max(at)].name = "filter"
      BY <3>4 DEF Named
    <3>6. F = os[Max(at)].value
      BY <2>2 DEF F, Latest
    <3>7. QED
      BY <3>1, <3>5, <3>6
  <2>3. QED
    BY <2>1, <2>2
<1>7. \A f \in ToSet(F) : f.sign \in {"+", "-"}
  BY <1>2, <1>4 DEF ToSet
<1>8. IsList(DEFAULT_FILTERS) /\ \A f \in ToSet(DEFAULT_FILTERS) : f.sign = "-"
  BY OneFacts DEF DEFAULT_FILTERS
<1> HIDE DEF chosen
<1>9. /\ IsList(DEFAULT_FILTERS \o F)
      /\ \A f \in ToSet(DEFAULT_FILTERS \o F) : f.sign \in {"+", "-"}
  BY <1>6, <1>7, <1>8, ListConcat DEF ConcatLists
<1>10. AskedFor("verbose", 1)' = V /\ AskedFilters' = DEFAULT_FILTERS \o F
  BY <1>3, <1>4, AskedStays DEF AskedFilters
<1>11. QED
  BY <1>5, <1>9, <1>10 DEF Settings

(* What is printed is what is wanted, and while a file is read, the NOLINT *)
(* comments noted are those of the lines before the one to be looked at,   *)
(* but for comments, and of the lines reported before them.                *)
PrintFollowed ==
  pc = "line" =>
    /\ lines = Uncommented(ReadLines(File)).lines
    /\ error_suppressions = Marked(File, ReadUpTo(current, linenum) \cup GuardsReported(raised, current))
    /\ EndReported(raised, current)

PrintInv ==
  /\ Selected(raised, printed)
  /\ pc = "arguments" => verbose_level = 1
  /\ pc \in {"file", "line"} => Settings
  /\ PrintFollowed

(* What depends on the command line alone stays.                           *)
LEMMA RunStays ==
  ASSUME run' = run, NEW rs, NEW ps, NEW f, NEW n
  PROVE  /\ Selected(rs, ps)' <=> Selected(rs, ps)
         /\ EndReported(rs, f)' <=> EndReported(rs, f)
         /\ ReadUpTo(f, n)' = ReadUpTo(f, n)
<1>1. \A i : Wanted(rs, i)' <=> Wanted(rs, i)
  BY DEF Wanted, Excused, LetThrough, AskedFor, AskedFilters, UnendedComment
<1>2. Picked(rs)' = Picked(rs)
  BY <1>1 DEF Picked
<1>3. \A i : Rank(rs, i)' = Rank(rs, i)
  BY <1>2 DEF Rank
<1>4. Selected(rs, ps)' <=> Selected(rs, ps)
  BY <1>2, <1>3 DEF Selected
<1>5. (EndReported(rs, f)' <=> EndReported(rs, f)) /\ ReadUpTo(f, n)' = ReadUpTo(f, n)
  BY DEF EndReported, ReadUpTo
<1>6. QED
  BY <1>4, <1>5

(* A step that reports.                                                    *)
LEMMA PrintRecorded ==
  ASSUME NEW q, NEW n, Faithful(q, Noted(q, n)), EndReported(q.raised, q.file), q.file = current,
         Recorded(q), run' = run
  PROVE  /\ Selected(raised, printed)'
         /\ UNCHANGED <<verbose_level, filters>>
         /\ current' = current /\ linenum' = n =>
              /\ (error_suppressions = Marked(File, ReadUpTo(current, linenum)
                                                      \cup GuardsReported(raised, current)))'
              /\ EndReported(raised, current)'
<1>1. PICK rs, ps : rs = q.raised /\ ps = q.printed
  OBVIOUS
<1>2. raised' = rs /\ printed' = ps /\ error_suppressions' = q.suppressions
  BY <1>1 DEF Recorded
<1>3. Selected(rs, ps) /\ EndReported(rs, current) /\ q.suppressions = Marked(File, Noted(q, n))
  BY <1>1 DEF Faithful, File
<1>4. Selected(rs, ps)'
  BY <1>3, RunStays
<1>5. Selected(raised, printed)'
  BY <1>2, <1>4
<1>6. UNCHANGED <<verbose_level, filters>>
  BY DEF Recorded, settingVars
<1>7. ASSUME current' = current, linenum' = n
      PROVE  /\ (error_suppressions = Marked(File, ReadUpTo(current, linenum)
                                                     \cup GuardsReported(raised, current)))'
             /\ EndReported(raised, current)'
  <2>1. PICK f : f = current
    OBVIOUS
  <2>2. EndReported(rs, f)' /\ ReadUpTo(f, n)' = ReadUpTo(f, n)
    BY <1>3, <2>1, RunStays
  <2>3. EndReported(raised, current)'
    BY <1>2, <1>7, <2>1, <2>2
  <2>4. ReadUpTo(current, linenum)' = ReadUpTo(f, n)
    BY <1>7, <2>1, <2>2
  <2>5. GuardsReported(raised, current)' = GuardsReported(rs, f)
    BY <1>2, <1>7, <2>1 DEF GuardsReported
  <2>6. File' = run.files[f] /\ File = run.files[f]
    BY <1>7, <2>1 DEF File
  <2>7. Noted(q, n) = ReadUpTo(f, n) \cup GuardsReported(rs, f)
    BY <1>1, <2>1 DEF Noted
  <2> DEFINE M == ReadUpTo(f, n) \cup GuardsReported(rs, f)
  <2>8. Marked(File, ReadUpTo(current, linenum) \cup GuardsReported(raised, current))' = Marked(run.files[f], M)
    BY <2>4, <2>5, <2>6
  <2>9. error_suppressions' = Marked(run.files[f], M)
    BY <1>2, <1>3, <2>6, <2>7
  <2>10. QED
    BY <2>3, <2>8, <2>9
<1>8. QED
  BY <1>5, <1>6, <1>7

(* It holds at the start, and each action keeps it.                        *)
LEMMA PrintInit == Init => PrintInv
<1> SUFFICES ASSUME Init PROVE PrintInv
  OBVIOUS
<1>1. pc = "arguments" /\ raised = <<>> /\ printed = <<>> /\ verbose_level = 1
  BY DEF Init, ReportInit
<1>2. Picked(<<>>) = {}
  BY DEF Picked
<1>3. Selected(<<>>, <<>>)
  <2>1. Len(<<>>) = 0
    OBVIOUS
  <2>2. Cardinality({}) = 0
    BY FS_EmptySet
  <2>3. QED
    BY <1>2, <2>1, <2>2 DEF Selected
<1>4. Selected(raised, printed)
  BY <1>1, <1>3
<1>5. QED
  BY <1>1, <1>4 DEF PrintInv, PrintFollowed

(* What a step that reports nothing keeps.                                 *)
LEMMA SelectedKept ==
  ASSUME Selected(raised, printed), UNCHANGED <<run, raised, printed>>
  PROVE  Selected(raised, printed)'
<1>1. PICK rs, ps : rs = raised /\ ps = printed
  OBVIOUS
<1>2. Selected(rs, ps)'
  BY <1>1, RunStays
<1>3. raised' = rs /\ printed' = ps
  BY <1>1
<1>4. QED
  BY <1>2, <1>3

LEMMA PrintArguments ==
  ASSUME CountInv, PrintInv, ParseArguments
  PROVE  PrintInv'
<1> DEFINE asked == Parsed(run.options, Len(run.files))
<1>1. pc = "arguments" /\ verbose_level = 1 /\ Shapes
  BY DEF ParseArguments, CountInv, PrintInv
<1>2. asked.exit \in Exits
  BY <1>1, RunFacts, ParsedFacts DEF Shapes
<1>3. /\ UNCHANGED <<run, raised, printed>>
      /\ pc' = "file" \/ pc' = asked.exit
  <2> HIDE DEF asked
  <2>1. CASE asked.exit = ""
    <3>1. pc' = "file" /\ SetOptions(asked) /\ UNCHANGED run
      BY <2>1 DEF ParseArguments, asked
    <3>2. QED
      BY <3>1 DEF SetOptions
  <2>2. CASE asked.exit # ""
    <3>1. pc' = asked.exit /\ UNCHANGED reportVars /\ UNCHANGED run
      BY <2>2 DEF ParseArguments, asked
    <3>2. QED
      BY <3>1 DEF reportVars
  <2>3. QED
    BY <2>1, <2>2
<1> HIDE DEF asked
<1>4. pc' \notin {"arguments", "line"}
  BY <1>2, <1>3 DEF Exits
<1>5. pc' = "file" => Settings'
  BY <1>1, SettingsSet
<1>6. Selected(raised, printed)'
  BY <1>3, SelectedKept DEF PrintInv
<1>7. QED
  BY <1>4, <1>5, <1>6 DEF PrintInv, PrintFollowed

LEMMA PrintSilent ==
  ASSUME PrintInv, SkipFile \/ Exit
  PROVE  PrintInv'
<1>1. /\ pc = "file" /\ pc' \notin {"arguments", "line"}
      /\ UNCHANGED <<run, reportVars>>
  BY DEF SkipFile, NextFile, Exit
<1>2. UNCHANGED <<verbose_level, filters, raised, printed>>
  BY <1>1 DEF reportVars, settingVars
<1>3. Settings'
  BY <1>1, <1>2, SettingsKept DEF PrintInv
<1>4. Selected(raised, printed)'
  BY <1>1, <1>2, SelectedKept DEF PrintInv
<1>5. QED
  BY <1>1, <1>3, <1>4 DEF PrintInv, PrintFollowed

LEMMA PrintStutter ==
  ASSUME PrintInv, UNCHANGED vars
  PROVE  PrintInv'
<1>1. UNCHANGED <<run, pc, current, lines, linenum, verbose_level, filters, error_suppressions, raised, printed>>
  BY DEF vars, driverVars, reportVars, settingVars
<1>2. pc \in {"file", "line"} => Settings'
  BY <1>1, SettingsKept DEF PrintInv
<1>3. Selected(raised, printed)'
  BY <1>1, SelectedKept DEF PrintInv
<1>4. PrintFollowed'
  <2>1. PICK rs, f, n : rs = raised /\ f = current /\ n = linenum
    OBVIOUS
  <2>2. (EndReported(rs, f)' <=> EndReported(rs, f)) /\ ReadUpTo(f, n)' = ReadUpTo(f, n)
    BY <1>1, RunStays
  <2>3. rs = raised' /\ f = current' /\ n = linenum' /\ File' = File
    BY <1>1, <2>1 DEF File
  <2>4. /\ EndReported(raised, current)' <=> EndReported(raised, current)
        /\ ReadUpTo(current, linenum)' = ReadUpTo(current, linenum)
        /\ GuardsReported(raised, current)' = GuardsReported(raised, current)
    BY <2>1, <2>2, <2>3
  <2>5. Marked(File, ReadUpTo(current, linenum) \cup GuardsReported(raised, current))'
          = Marked(File, ReadUpTo(current, linenum) \cup GuardsReported(raised, current))
    BY <2>3, <2>4
  <2>6. QED
    BY <1>1, <2>3, <2>4, <2>5 DEF PrintInv, PrintFollowed
<1>5. QED
  BY <1>1, <1>2, <1>3, <1>4 DEF PrintInv

(* The state that a step that reports starts from.                         *)
LEMMA CurrentFacts ==
  ASSUME Shapes
  PROVE  /\ IsState(Current(current)) /\ Current(current).file = current
         /\ Current(current).raised = raised /\ Current(current).printed = printed
         /\ Current(current).suppressions = error_suppressions
         /\ IsState(Forgotten(current)) /\ Forgotten(current).file = current
         /\ Forgotten(current).raised = raised /\ Forgotten(current).printed = printed
         /\ Forgotten(current).suppressions = {}
<1> DEFINE State(s) == [file |-> current, suppressions |-> s, count |-> error_count,
                        by |-> errors_by_category, raised |-> raised, printed |-> printed]
<1>1. \A s : /\ IsState(State(s)) /\ State(s).file = current /\ State(s).raised = raised
             /\ State(s).printed = printed /\ State(s).suppressions = s
  BY DEF Shapes, IsState
<1>2. Current(current) = State(error_suppressions)
  BY DEF Current
<1>3. Forgotten(current) = State({})
  <2>1. [State(error_suppressions) EXCEPT !.suppressions = {}] = State({})
    OBVIOUS
  <2>2. QED
    BY <1>2, <2>1 DEF Forgotten
<1> HIDE DEF State
<1>4. QED
  BY <1>1, <1>2, <1>3

LEMMA PrintOpen ==
  ASSUME CountInv, PrintInv, OpenFile
  PROVE  PrintInv'
<1> DEFINE events == FirstErrors(File, ReadLines(File))
           r == Forgotten(current)
           q == Reported(r, events)
<1>1. /\ pc = "file" /\ current <= Len(run.files)
      /\ Recorded(q)
      /\ lines' = Uncommented(ReadLines(File)).lines /\ linenum' = 1 /\ pc' = "line"
      /\ run' = run /\ current' = current
  BY DEF OpenFile, Handle
<1>2. Shapes /\ Settings /\ AsAsked
  BY <1>1, SettingsAsked DEF CountInv, PrintInv
<1>3. /\ IsState(r) /\ r.file = current /\ r.raised = raised /\ r.printed = printed
      /\ r.suppressions = {}
  BY <1>2, CurrentFacts
<1>4. current \in DOMAIN run.files /\ AreLines(run.files[r.file].lines)
  BY <1>1, <1>2, <1>3, RunFacts DEF Shapes
<1>5. \A x \in ToSet(r.raised) : x.file # r.file
  BY <1>1, <1>3 DEF CountInv, RaisedBefore
<1>6. Selected(r.raised, r.printed)
  BY <1>3 DEF PrintInv
<1> HIDE DEF r
<1>7. File = run.files[r.file]
  BY <1>3 DEF File
<1>8. /\ Faithful(q, GuardsReported(q.raised, q.file)) /\ q.file = r.file
      /\ EndReported(q.raised, q.file)
  BY <1>2, <1>3, <1>4, <1>5, <1>6, <1>7, OpeningKeeps
<1> HIDE DEF q
<1>9. Noted(q, 1) = GuardsReported(q.raised, q.file)
  <2>1. IsList(Split(File))
    BY <1>4, <1>7, FileLines
  <2>2. \A m \in DOMAIN Split(File) : ~(m < 1)
    <3>1. DOMAIN Split(File) = 1 .. Len(Split(File))
      BY <2>1, ListFacts DEF IsList
    <3>2. QED
      BY <3>1
  <2>3. ReadUpTo(q.file, 1) = {}
    BY <1>7, <1>8, <2>2 DEF ReadUpTo
  <2>4. QED
    BY <2>3 DEF Noted
<1>10. Faithful(q, Noted(q, 1)) /\ q.file = current
  BY <1>3, <1>8, <1>9
<1>11. /\ Selected(raised, printed)'
       /\ UNCHANGED <<verbose_level, filters>>
       /\ (error_suppressions = Marked(File, ReadUpTo(current, linenum) \cup GuardsReported(raised, current)))'
       /\ EndReported(raised, current)'
  BY <1>1, <1>8, <1>10, PrintRecorded
<1>12. Settings'
  BY <1>1, <1>2, <1>11, SettingsKept
<1>13. (lines = Uncommented(ReadLines(File)).lines)'
  BY <1>1 DEF File
<1>14. PrintFollowed'
  BY <1>11, <1>13 DEF PrintFollowed
<1>15. QED
  BY <1>1, <1>11, <1>12, <1>14 DEF PrintInv

(* While a file is read.                                                   *)
LEMMA LineState ==
  ASSUME CountInv, PrintInv, pc = "line"
  PROVE  /\ AsAsked /\ Settings /\ AreLines(File.lines)
         /\ Current(current).file = current /\ File = run.files[current]
         /\ Faithful(Current(current), Noted(Current(current), linenum))
         /\ EndReported(Current(current).raised, current)
         /\ DOMAIN lines = DOMAIN Split(File) /\ DOMAIN lines = 1 .. Len(lines)
<1>1. Shapes /\ Settings /\ AsAsked /\ PrintFollowed
  BY SettingsAsked DEF CountInv, PrintInv
<1> DEFINE r == Current(current)
<1>2. /\ IsState(r) /\ r.file = current /\ r.raised = raised /\ r.printed = printed
      /\ r.suppressions = error_suppressions
  BY <1>1, CurrentFacts
<1>3. File = run.files[current] /\ AreLines(File.lines)
  BY <1>1, RunFacts DEF Shapes, File
<1> HIDE DEF r
<1>4. Faithful(r, Noted(r, linenum)) /\ EndReported(r.raised, current)
  BY <1>1, <1>2, <1>3 DEF Faithful, PrintInv, PrintFollowed, Noted
<1>5. DOMAIN lines = DOMAIN Split(File)
  <2>1. DOMAIN ReadLines(File) = DOMAIN Split(File)
    BY <1>3, FileLines
  <2>2. QED
    BY <1>1, <2>1 DEF PrintFollowed, Uncommented
<1>6. DOMAIN lines = 1 .. Len(lines)
  BY <1>1, ListFacts DEF Shapes, AreLines, IsList
<1>7. QED
  BY <1>1, <1>2, <1>3, <1>4, <1>5, <1>6 DEF r

LEMMA PrintLine ==
  ASSUME CountInv, PrintInv, ProcessLine
  PROVE  PrintInv'
<1> DEFINE r == Current(current)
           l == lines[linenum]
           n == linenum
<1>1. PICK events :
        /\ Handle(r, events)
        /\ \E more : Reports(more, n) /\ events = Nolint(n, l) \o more
        /\ pc = "line" /\ n \in 1 .. Len(lines) /\ linenum' = n + 1
        /\ UNCHANGED <<run, pc, current, lines>>
  BY LineEvents DEF CountInv
<1>2. PICK more : Reports(more, n) /\ events = Nolint(n, l) \o more
  BY <1>1
<1>3. /\ AsAsked /\ Settings /\ AreLines(File.lines)
      /\ r.file = current /\ File = run.files[current]
      /\ Faithful(r, Noted(r, n)) /\ EndReported(r.raised, current)
      /\ DOMAIN lines = DOMAIN Split(File) /\ DOMAIN lines = 1 .. Len(lines)
  BY <1>1, LineState
<1>4. l = Uncommented(ReadLines(File)).lines[n] /\ lines = Uncommented(ReadLines(File)).lines
  BY <1>1 DEF PrintInv, PrintFollowed
<1> DEFINE q == Reported(r, events)
<1> HIDE DEF r, l
<1>5. Faithful(q, Noted(q, n + 1)) /\ q.file = current /\ EndReported(q.raised, q.file)
  <2>1. n \in DOMAIN Split(run.files[r.file]) /\ AreLines(run.files[r.file].lines)
    BY <1>1, <1>3
  <2>2. l = Uncommented(ReadLines(run.files[r.file])).lines[n] /\ EndReported(r.raised, r.file)
    BY <1>3, <1>4
  <2>3. QED
    <3> DEFINE p == Reported(r, Nolint(n, l) \o more)
    <3>1. Faithful(p, Noted(p, n + 1)) /\ p.file = r.file /\ EndReported(p.raised, p.file)
      <4> HIDE DEF n, q
      <4>1. AsAsked /\ Faithful(r, Noted(r, n)) /\ Reports(more, n)
        BY <1>2, <1>3
      <4>2. QED
        BY <2>1, <2>2, <4>1, LineKeeps
    <3>2. p = q
      BY <1>2
    <3> HIDE DEF p, q
    <3>3. QED
      BY <1>3, <3>1, <3>2
<1>6. Recorded(q)
  BY <1>1 DEF Handle
<1> HIDE DEF q
<1>7. /\ Selected(raised, printed)'
      /\ UNCHANGED <<verbose_level, filters>>
      /\ (error_suppressions = Marked(File, ReadUpTo(current, linenum) \cup GuardsReported(raised, current)))'
      /\ EndReported(raised, current)'
  BY <1>1, <1>5, <1>6, PrintRecorded
<1>8. Settings'
  BY <1>1, <1>3, <1>7, SettingsKept
<1>9. (lines = Uncommented(ReadLines(File)).lines)'
  BY <1>1, <1>4 DEF File
<1>10. PrintFollowed'
  BY <1>7, <1>9 DEF PrintFollowed
<1>11. QED
  BY <1>1, <1>7, <1>8, <1>10 DEF PrintInv

LEMMA PrintClose ==
  ASSUME CountInv, PrintInv, CloseFile
  PROVE  PrintInv'
<1> DEFINE r == Current(current)
           events == CompletedBlocksErrors \o WhatYouUseErrors(File.name, lines, File.disk)
                     \o BadCharacterErrors(lines) \o NewlineErrors(lines)
                     \o MixedNewlineErrors(File)
           q == Reported(r, events)
<1>1. pc = "line" /\ linenum > Len(lines) /\ run' = run
  BY DEF CloseFile
<1>2. /\ IsList(events) /\ Recorded(q) /\ \E N : events \in Seq(Own(N))
      /\ pc' = "file"
  BY CloseEvents DEF CountInv, Handle
<1>3. /\ AsAsked /\ Settings /\ r.file = current /\ File = run.files[current]
      /\ Faithful(r, Noted(r, linenum)) /\ EndReported(r.raised, current)
      /\ DOMAIN lines = DOMAIN Split(File) /\ DOMAIN lines = 1 .. Len(lines)
  BY <1>1, LineState
<1>4. linenum \in Int /\ Len(lines) \in Nat
  <2>1. linenum \in 1 .. Len(lines) + 1 /\ AreLines(lines)
    BY <1>1 DEF CountInv, Shapes
  <2>2. Len(lines) \in Nat
    BY <2>1, ListFacts DEF AreLines, IsList
  <2>3. QED
    BY <2>1, <2>2
<1> HIDE DEF events, r
<1>5. \A e \in ToSet(events) : ~IsNolint(e) /\ e.category \in Checkable
  <2>1. PICK N : events \in Seq(Own(N))
    BY <1>2
  <2>2. \A e \in ToSet(events) : ~IsNolint(e) /\ e \in Own(N)
    BY <2>1, HavingOwn
  <2>3. \A e \in Own(N) : e.category \in Checkable
    BY CheckableFacts DEF Own
  <2>4. QED
    BY <2>2, <2>3
<1>6. \A m \in DOMAIN Split(run.files[r.file]) : m < linenum
  BY <1>1, <1>3, <1>4
<1>7. Faithful(q, Noted(q, linenum)) /\ q.file = current /\ EndReported(q.raised, q.file)
  BY <1>2, <1>3, <1>5, <1>6, MoreKeeps
<1> HIDE DEF q
<1>8. Selected(raised, printed)' /\ UNCHANGED <<verbose_level, filters>>
  BY <1>1, <1>2, <1>7, PrintRecorded
<1>9. Settings'
  BY <1>1, <1>3, <1>8, SettingsKept
<1>10. QED
  BY <1>2, <1>8, <1>9 DEF PrintInv, PrintFollowed

LEMMA PrintNext == CountInv /\ PrintInv /\ [Next]_vars => PrintInv'
<1> SUFFICES ASSUME CountInv, PrintInv, [Next]_vars PROVE PrintInv'
  OBVIOUS
<1>1. CASE ParseArguments
  BY <1>1, PrintArguments
<1>2. CASE SkipFile \/ Exit
  BY <1>2, PrintSilent
<1>3. CASE OpenFile
  BY <1>3, PrintOpen
<1>4. CASE ProcessLine
  BY <1>4, PrintLine
<1>5. CASE CloseFile
  BY <1>5, PrintClose
<1>6. CASE UNCHANGED vars
  BY <1>6, PrintStutter
<1>7. QED
  BY <1>1, <1>2, <1>3, <1>4, <1>5, <1>6 DEF Next

(* Error, _ShouldPrintError and the NOLINT comments: what is printed is    *)
(* what the command line and the NOLINT comments of the same file and line *)
(* let through, all of it and in order.                                    *)
THEOREM WantedIsPrinted == Spec => []PrintedExact
<1>1. PrintInv => PrintedExact
  BY DEF PrintInv, PrintedExact, Selected, Picked, Rank
<1>2. QED
  BY <1>1, PrintInit, PrintNext, CountInit, CountNext, PTL DEF Spec

(***************************************************************************)
(* The blocks that are open, and the braces.                               *)
(* Depth and the reading of a line are folds; a fold is a list of states,  *)
(* one for each element, and one lemma for each of the five gives the list.*)
(***************************************************************************)
(* Braces of a line: those open after it, d being open before.             *)
BraceOf(d, t) ==
  CASE t = "{" -> d + 1
    [] t = "}" -> Max({0, d - 1})
    [] OTHER -> d
BracesOf(d, toks) == FoldLeft(BraceOf, d, toks)

(* A line and a directive, in the folds of Depth and LineCounts.           *)
LineOf(d, n) == IF LineCounts(n) THEN BracesOf(d, lines[n].toks) ELSE d
Numbers(m) == [n \in 1 .. m |-> n]
LinesOf(d, ns) == FoldLeft(LineOf, d, ns)
DepthTo(m) == LinesOf(0, Numbers(m))
BranchAt(acc, m) == BranchOf(acc, lines[m])
BranchesOf(acc, ns) == FoldLeft(BranchAt, acc, ns)
BranchesTo(m) == BranchesOf(<<>>, Numbers(m))

LEMMA DepthIs == Depth = DepthTo(linenum - 1)
BY DEF Depth, DepthTo, LinesOf, LineOf, BracesOf, BraceOf, Numbers, FoldLeft, MapThenFoldSet

LEMMA LineCountsIs == \A n : LineCounts(n) <=> TRUE \notin ToSet(BranchesTo(n))
BY DEF LineCounts, BranchesTo, BranchesOf, BranchAt, BranchOf, Numbers, FoldLeft, MapThenFoldSet

(* The greatest of the first numbers.                                      *)
LEMMA MaxUpTo ==
  ASSUME NEW k \in Nat \ {0}
  PROVE  Max(1 .. k) = k
<1>1. k \in 1 .. k /\ 1 .. k \in SUBSET (1 .. k) /\ k \in Nat
  OBVIOUS
<1>2. Max(1 .. k) \in 1 .. k /\ k <= Max(1 .. k)
  BY <1>1, MaxFacts
<1>3. QED
  BY <1>2

(* The steps of Namespaces and Consume.                                    *)
EnteredAt(r, braces, n) ==
  [r EXCEPT !.stack = Append(@, NamespaceInfo(n, braces # {})),
            !.at = IF braces = {} THEN @ + 1 ELSE Min(braces) + 1]
BracesFrom(l, i) == {j \in i .. Len(l.toks) : l.toks[j] = "{"}
NamespaceStep(r, l, n) ==
  IF r.at > Len(l.toks) \/ l.toks[r.at] # "namespace" THEN r
  ELSE EnteredAt(r, BracesFrom(l, r.at), n)
NamespaceFold(r, l, n, events) ==
  LET Step(acc, i) == NamespaceStep(acc, l, n) IN FoldLeft(Step, r, events)

PastToken(acc) == [acc EXCEPT !.head = <<>>, !.first = FALSE]
ConsumeStep(acc, t, l, n) ==
  LET s == acc.stack IN
  CASE t = "{" -> [PastToken(acc) EXCEPT !.stack = Opened(s, acc.head, l, acc.first)]
    [] t \in {";", ")"} -> [PastToken(acc) EXCEPT !.stack = IF SeenOpenBrace(s) THEN s ELSE Front(s)]
    [] t = "}" /\ s = <<>> -> PastToken(acc)
    [] t = "}" /\ s # <<>> ->
         [PastToken(acc) EXCEPT !.stack = Front(s), !.errors = @ \o CheckEnd(Last(s), l, n)]
    [] OTHER -> [acc EXCEPT !.head = Append(@, t)]
ConsumeFold(r, l, n, events) ==
  LET Step(acc, t) == ConsumeStep(acc, t, l, n) IN FoldLeft(Step, r, events)

LEMMA NamespacesIs ==
  \A r, l, n : Namespaces(r, l, n) = NamespaceFold(r, l, n, l.toks)
BY DEF Namespaces, NamespaceFold, NamespaceStep, EnteredAt, BracesFrom, FoldLeft, MapThenFoldSet

LEMMA ConsumeIs ==
  \A r, l, n : Consume(r, l, n) =
    ConsumeFold([stack |-> r.stack, errors |-> r.errors, head |-> <<>>, first |-> r.at = 1],
                l, n, SubSeq(l.toks, r.at, Len(l.toks)))
BY DEF Consume, ConsumeFold, ConsumeStep, PastToken, FoldLeft, MapThenFoldSet

(* The states of the folds, one element after the other.                   *)
LEMMA BraceSteps ==
  ASSUME NEW r, NEW events, NEW n \in Nat, DOMAIN events = 1 .. n
  PROVE  \E h : /\ h[0] = r /\ h[n] = BracesOf(r, events)
               /\ \A k \in 1 .. n : h[k] = BraceOf(h[k-1], events[k])
<1> DEFINE iter[s \in SUBSET DOMAIN events] ==
             IF s = {} THEN r ELSE LET x == Max(s) IN BraceOf(iter[s \ {x}], events[x])
           Is(g, S) == g = [s \in SUBSET S |->
                              IF s = {} THEN r ELSE LET x == Max(s) IN BraceOf(g[s \ {x}], events[x])]
<1>1. BracesOf(r, events) = iter[DOMAIN events]
  BY DEF BracesOf, FoldLeft, MapThenFoldSet
<1>2. iter = CHOOSE g : Is(g, DOMAIN events)
  BY DEF iter
<1> HIDE DEF iter
<1> DEFINE P == {m \in Nat : \E g : Is(g, 1 .. m)}
<1>3. 0 \in P
  <2>1. SUBSET (1 .. 0) = {{}}
    OBVIOUS
  <2>2. Is([s \in SUBSET (1 .. 0) |-> r], 1 .. 0)
    BY <2>1
  <2>3. QED
    BY <2>2
<1>4. ASSUME NEW m \in P PROVE m + 1 \in P
  <2>1. PICK g : Is(g, 1 .. m)
    OBVIOUS
  <2> DEFINE Value(s) == IF m + 1 \in s THEN BraceOf(g[s \ {m + 1}], events[m + 1]) ELSE g[s]
             f == [s \in SUBSET (1 .. m + 1) |-> Value(s)]
  <2>2. ASSUME NEW s \in SUBSET (1 .. m + 1)
        PROVE  f[s] = IF s = {} THEN r ELSE LET x == Max(s) IN BraceOf(f[s \ {x}], events[x])
    <3>1. CASE s = {}
      BY <2>1, <3>1
    <3>2. CASE m + 1 \in s
      <4>1. Max(s) = m + 1 /\ s \ {m + 1} \in SUBSET (1 .. m)
        BY <3>2, SubsetsUpTo
      <4>2. f[s \ {m + 1}] = g[s \ {m + 1}]
        BY <4>1
      <4>3. f[s] = BraceOf(g[s \ {m + 1}], events[m + 1])
        BY <3>2
      <4> HIDE DEF f
      <4>4. QED
        BY <3>2, <4>1, <4>2, <4>3
    <3>3. CASE s # {} /\ m + 1 \notin s
      <4>1. s \in SUBSET (1 .. m) /\ s \ {Max(s)} \in SUBSET (1 .. m)
        BY <3>3, SubsetsUpTo
      <4>2. f[s] = g[s]
        BY <3>3
      <4>3. f[s \ {Max(s)}] = g[s \ {Max(s)}]
        BY <4>1
      <4>4. g[s] = BraceOf(g[s \ {Max(s)}], events[Max(s)])
        BY <2>1, <3>3, <4>1
      <4> HIDE DEF f
      <4>5. QED
        BY <3>3, <4>2, <4>3, <4>4
    <3>4. QED
      BY <3>1, <3>2, <3>3
  <2> HIDE DEF Value
  <2>3. Is(f, 1 .. m + 1)
    BY <2>2
  <2> HIDE DEF f, Is
  <2>4. m + 1 \in Nat /\ \E k : Is(k, 1 .. m + 1)
    BY <2>3
  <2>5. QED
    BY <2>4
<1>5. P = Nat
  <2> HIDE DEF P
  <2>1. P \in SUBSET Nat
    BY DEF P
  <2>2. QED
    BY <1>3, <1>4, <2>1, NatSetInduction
<1>6. \E g : Is(g, DOMAIN events)
  BY <1>5
<1>7. Is(iter, DOMAIN events)
  <2> HIDE DEF Is
  <2>1. QED
    BY <1>2, <1>6
<1> DEFINE h == [k \in 0 .. n |-> iter[1 .. k]]
<1>8. h[0] = r /\ h[n] = BracesOf(r, events)
  <2>1. 1 .. 0 = {} /\ {} \in SUBSET DOMAIN events
    OBVIOUS
  <2>2. iter[{}] = r
    BY <1>7, <2>1
  <2>3. QED
    BY <1>1, <2>1, <2>2
<1>9. ASSUME NEW k \in 1 .. n PROVE h[k] = BraceOf(h[k-1], events[k])
  <2>1. 1 .. k \in SUBSET DOMAIN events /\ 1 .. k # {} /\ (1 .. k) \ {k} = 1 .. k - 1
    OBVIOUS
  <2>2. Max(1 .. k) = k
    BY MaxUpTo
  <2>3. iter[1 .. k] = BraceOf(iter[1 .. k - 1], events[k])
    BY <1>7, <2>1, <2>2
  <2>4. h[k] = iter[1 .. k] /\ h[k-1] = iter[1 .. k - 1]
    OBVIOUS
  <2>5. QED
    BY <2>3, <2>4
<1> HIDE DEF h
<1>10. QED
  BY <1>8, <1>9

LEMMA LineStates ==
  ASSUME NEW n \in Nat
  PROVE  \E h : h[0] = 0 /\ h[n] = DepthTo(n) /\ \A k \in 1 .. n : h[k] = LineOf(h[k-1], k)
<1> DEFINE r == 0
           events == Numbers(n)
<1>0. DOMAIN events = 1 .. n /\ \A k \in 1 .. n : events[k] = k
  BY DEF Numbers
<1>t. DepthTo(n) = LinesOf(r, events)
  BY DEF DepthTo
<1> HIDE DEF r, events
<1> DEFINE iter[s \in SUBSET DOMAIN events] ==
             IF s = {} THEN r ELSE LET x == Max(s) IN LineOf(iter[s \ {x}], events[x])
           Is(g, S) == g = [s \in SUBSET S |->
                              IF s = {} THEN r ELSE LET x == Max(s) IN LineOf(g[s \ {x}], events[x])]
<1>1. LinesOf(r, events) = iter[DOMAIN events]
  BY DEF LinesOf, FoldLeft, MapThenFoldSet
<1>2. iter = CHOOSE g : Is(g, DOMAIN events)
  BY DEF iter
<1> HIDE DEF iter
<1> DEFINE P == {m \in Nat : \E g : Is(g, 1 .. m)}
<1>3. 0 \in P
  <2>1. SUBSET (1 .. 0) = {{}}
    OBVIOUS
  <2>2. Is([s \in SUBSET (1 .. 0) |-> r], 1 .. 0)
    BY <2>1
  <2>3. QED
    BY <2>2
<1>4. ASSUME NEW m \in P PROVE m + 1 \in P
  <2>1. PICK g : Is(g, 1 .. m)
    OBVIOUS
  <2> DEFINE Value(s) == IF m + 1 \in s THEN LineOf(g[s \ {m + 1}], events[m + 1]) ELSE g[s]
             f == [s \in SUBSET (1 .. m + 1) |-> Value(s)]
  <2>2. ASSUME NEW s \in SUBSET (1 .. m + 1)
        PROVE  f[s] = IF s = {} THEN r ELSE LET x == Max(s) IN LineOf(f[s \ {x}], events[x])
    <3>1. CASE s = {}
      BY <2>1, <3>1
    <3>2. CASE m + 1 \in s
      <4>1. Max(s) = m + 1 /\ s \ {m + 1} \in SUBSET (1 .. m)
        BY <3>2, SubsetsUpTo
      <4>2. f[s \ {m + 1}] = g[s \ {m + 1}]
        BY <4>1
      <4>3. f[s] = LineOf(g[s \ {m + 1}], events[m + 1])
        BY <3>2
      <4> HIDE DEF f
      <4>4. QED
        BY <3>2, <4>1, <4>2, <4>3
    <3>3. CASE s # {} /\ m + 1 \notin s
      <4>1. s \in SUBSET (1 .. m) /\ s \ {Max(s)} \in SUBSET (1 .. m)
        BY <3>3, SubsetsUpTo
      <4>2. f[s] = g[s]
        BY <3>3
      <4>3. f[s \ {Max(s)}] = g[s \ {Max(s)}]
        BY <4>1
      <4>4. g[s] = LineOf(g[s \ {Max(s)}], events[Max(s)])
        BY <2>1, <3>3, <4>1
      <4> HIDE DEF f
      <4>5. QED
        BY <3>3, <4>2, <4>3, <4>4
    <3>4. QED
      BY <3>1, <3>2, <3>3
  <2> HIDE DEF Value
  <2>3. Is(f, 1 .. m + 1)
    BY <2>2
  <2> HIDE DEF f, Is
  <2>4. m + 1 \in Nat /\ \E k : Is(k, 1 .. m + 1)
    BY <2>3
  <2>5. QED
    BY <2>4
<1>5. P = Nat
  <2> HIDE DEF P
  <2>1. P \in SUBSET Nat
    BY DEF P
  <2>2. QED
    BY <1>3, <1>4, <2>1, NatSetInduction
<1>6. \E g : Is(g, DOMAIN events)
  BY <1>0, <1>5
<1>7. Is(iter, DOMAIN events)
  <2> HIDE DEF Is
  <2>1. QED
    BY <1>2, <1>6
<1> DEFINE h == [k \in 0 .. n |-> iter[1 .. k]]
<1>8. h[0] = r /\ h[n] = LinesOf(r, events)
  <2>1. 1 .. 0 = {} /\ {} \in SUBSET DOMAIN events
    OBVIOUS
  <2>2. iter[{}] = r
    BY <1>7, <2>1
  <2>3. QED
    BY <1>0, <1>1, <2>1, <2>2
<1>9. ASSUME NEW k \in 1 .. n PROVE h[k] = LineOf(h[k-1], events[k])
  <2>1. 1 .. k \in SUBSET DOMAIN events /\ 1 .. k # {} /\ (1 .. k) \ {k} = 1 .. k - 1
    BY <1>0
  <2>2. Max(1 .. k) = k
    BY MaxUpTo
  <2>3. iter[1 .. k] = LineOf(iter[1 .. k - 1], events[k])
    BY <1>7, <2>1, <2>2
  <2>4. h[k] = iter[1 .. k] /\ h[k-1] = iter[1 .. k - 1]
    OBVIOUS
  <2>5. QED
    BY <2>3, <2>4
<1> HIDE DEF h
<1>10. QED
  BY <1>0, <1>t, <1>8, <1>9 DEF r

LEMMA BranchStates ==
  ASSUME NEW n \in Nat
  PROVE  \E h : h[0] = <<>> /\ h[n] = BranchesTo(n) /\ \A k \in 1 .. n : h[k] = BranchAt(h[k-1], k)
<1> DEFINE r == <<>>
           events == Numbers(n)
<1>0. DOMAIN events = 1 .. n /\ \A k \in 1 .. n : events[k] = k
  BY DEF Numbers
<1>t. BranchesTo(n) = BranchesOf(r, events)
  BY DEF BranchesTo
<1> HIDE DEF r, events
<1> DEFINE iter[s \in SUBSET DOMAIN events] ==
             IF s = {} THEN r ELSE LET x == Max(s) IN BranchAt(iter[s \ {x}], events[x])
           Is(g, S) == g = [s \in SUBSET S |->
                              IF s = {} THEN r ELSE LET x == Max(s) IN BranchAt(g[s \ {x}], events[x])]
<1>1. BranchesOf(r, events) = iter[DOMAIN events]
  BY DEF BranchesOf, FoldLeft, MapThenFoldSet
<1>2. iter = CHOOSE g : Is(g, DOMAIN events)
  BY DEF iter
<1> HIDE DEF iter
<1> DEFINE P == {m \in Nat : \E g : Is(g, 1 .. m)}
<1>3. 0 \in P
  <2>1. SUBSET (1 .. 0) = {{}}
    OBVIOUS
  <2>2. Is([s \in SUBSET (1 .. 0) |-> r], 1 .. 0)
    BY <2>1
  <2>3. QED
    BY <2>2
<1>4. ASSUME NEW m \in P PROVE m + 1 \in P
  <2>1. PICK g : Is(g, 1 .. m)
    OBVIOUS
  <2> DEFINE Value(s) == IF m + 1 \in s THEN BranchAt(g[s \ {m + 1}], events[m + 1]) ELSE g[s]
             f == [s \in SUBSET (1 .. m + 1) |-> Value(s)]
  <2>2. ASSUME NEW s \in SUBSET (1 .. m + 1)
        PROVE  f[s] = IF s = {} THEN r ELSE LET x == Max(s) IN BranchAt(f[s \ {x}], events[x])
    <3>1. CASE s = {}
      BY <2>1, <3>1
    <3>2. CASE m + 1 \in s
      <4>1. Max(s) = m + 1 /\ s \ {m + 1} \in SUBSET (1 .. m)
        BY <3>2, SubsetsUpTo
      <4>2. f[s \ {m + 1}] = g[s \ {m + 1}]
        BY <4>1
      <4>3. f[s] = BranchAt(g[s \ {m + 1}], events[m + 1])
        BY <3>2
      <4> HIDE DEF f
      <4>4. QED
        BY <3>2, <4>1, <4>2, <4>3
    <3>3. CASE s # {} /\ m + 1 \notin s
      <4>1. s \in SUBSET (1 .. m) /\ s \ {Max(s)} \in SUBSET (1 .. m)
        BY <3>3, SubsetsUpTo
      <4>2. f[s] = g[s]
        BY <3>3
      <4>3. f[s \ {Max(s)}] = g[s \ {Max(s)}]
        BY <4>1
      <4>4. g[s] = BranchAt(g[s \ {Max(s)}], events[Max(s)])
        BY <2>1, <3>3, <4>1
      <4> HIDE DEF f
      <4>5. QED
        BY <3>3, <4>2, <4>3, <4>4
    <3>4. QED
      BY <3>1, <3>2, <3>3
  <2> HIDE DEF Value
  <2>3. Is(f, 1 .. m + 1)
    BY <2>2
  <2> HIDE DEF f, Is
  <2>4. m + 1 \in Nat /\ \E k : Is(k, 1 .. m + 1)
    BY <2>3
  <2>5. QED
    BY <2>4
<1>5. P = Nat
  <2> HIDE DEF P
  <2>1. P \in SUBSET Nat
    BY DEF P
  <2>2. QED
    BY <1>3, <1>4, <2>1, NatSetInduction
<1>6. \E g : Is(g, DOMAIN events)
  BY <1>0, <1>5
<1>7. Is(iter, DOMAIN events)
  <2> HIDE DEF Is
  <2>1. QED
    BY <1>2, <1>6
<1> DEFINE h == [k \in 0 .. n |-> iter[1 .. k]]
<1>8. h[0] = r /\ h[n] = BranchesOf(r, events)
  <2>1. 1 .. 0 = {} /\ {} \in SUBSET DOMAIN events
    OBVIOUS
  <2>2. iter[{}] = r
    BY <1>7, <2>1
  <2>3. QED
    BY <1>0, <1>1, <2>1, <2>2
<1>9. ASSUME NEW k \in 1 .. n PROVE h[k] = BranchAt(h[k-1], events[k])
  <2>1. 1 .. k \in SUBSET DOMAIN events /\ 1 .. k # {} /\ (1 .. k) \ {k} = 1 .. k - 1
    BY <1>0
  <2>2. Max(1 .. k) = k
    BY MaxUpTo
  <2>3. iter[1 .. k] = BranchAt(iter[1 .. k - 1], events[k])
    BY <1>7, <2>1, <2>2
  <2>4. h[k] = iter[1 .. k] /\ h[k-1] = iter[1 .. k - 1]
    OBVIOUS
  <2>5. QED
    BY <2>3, <2>4
<1> HIDE DEF h
<1>10. QED
  BY <1>0, <1>t, <1>8, <1>9 DEF r

LEMMA NamespaceSteps ==
  ASSUME NEW l, NEW line, NEW r, NEW events, NEW n \in Nat, DOMAIN events = 1 .. n
  PROVE  \E h : /\ h[0] = r /\ h[n] = NamespaceFold(r, l, line, events)
               /\ \A k \in 1 .. n : h[k] = NamespaceStep(h[k-1], l, line)
<1> DEFINE iter[s \in SUBSET DOMAIN events] ==
             IF s = {} THEN r ELSE LET x == Max(s) IN NamespaceStep(iter[s \ {x}], l, line)
           Is(g, S) == g = [s \in SUBSET S |->
                              IF s = {} THEN r ELSE LET x == Max(s) IN NamespaceStep(g[s \ {x}], l, line)]
<1>1. NamespaceFold(r, l, line, events) = iter[DOMAIN events]
  BY DEF NamespaceFold, FoldLeft, MapThenFoldSet
<1>2. iter = CHOOSE g : Is(g, DOMAIN events)
  BY DEF iter
<1> HIDE DEF iter
<1> DEFINE P == {m \in Nat : \E g : Is(g, 1 .. m)}
<1>3. 0 \in P
  <2>1. SUBSET (1 .. 0) = {{}}
    OBVIOUS
  <2>2. Is([s \in SUBSET (1 .. 0) |-> r], 1 .. 0)
    BY <2>1
  <2>3. QED
    BY <2>2
<1>4. ASSUME NEW m \in P PROVE m + 1 \in P
  <2>1. PICK g : Is(g, 1 .. m)
    OBVIOUS
  <2> DEFINE Value(s) == IF m + 1 \in s THEN NamespaceStep(g[s \ {m + 1}], l, line) ELSE g[s]
             f == [s \in SUBSET (1 .. m + 1) |-> Value(s)]
  <2>2. ASSUME NEW s \in SUBSET (1 .. m + 1)
        PROVE  f[s] = IF s = {} THEN r ELSE LET x == Max(s) IN NamespaceStep(f[s \ {x}], l, line)
    <3>1. CASE s = {}
      BY <2>1, <3>1
    <3>2. CASE m + 1 \in s
      <4>1. Max(s) = m + 1 /\ s \ {m + 1} \in SUBSET (1 .. m)
        BY <3>2, SubsetsUpTo
      <4>2. f[s \ {m + 1}] = g[s \ {m + 1}]
        BY <4>1
      <4>3. f[s] = NamespaceStep(g[s \ {m + 1}], l, line)
        BY <3>2
      <4> HIDE DEF f
      <4>4. QED
        BY <3>2, <4>1, <4>2, <4>3
    <3>3. CASE s # {} /\ m + 1 \notin s
      <4>1. s \in SUBSET (1 .. m) /\ s \ {Max(s)} \in SUBSET (1 .. m)
        BY <3>3, SubsetsUpTo
      <4>2. f[s] = g[s]
        BY <3>3
      <4>3. f[s \ {Max(s)}] = g[s \ {Max(s)}]
        BY <4>1
      <4>4. g[s] = NamespaceStep(g[s \ {Max(s)}], l, line)
        BY <2>1, <3>3, <4>1
      <4> HIDE DEF f
      <4>5. QED
        BY <3>3, <4>2, <4>3, <4>4
    <3>4. QED
      BY <3>1, <3>2, <3>3
  <2> HIDE DEF Value
  <2>3. Is(f, 1 .. m + 1)
    BY <2>2
  <2> HIDE DEF f, Is
  <2>4. m + 1 \in Nat /\ \E k : Is(k, 1 .. m + 1)
    BY <2>3
  <2>5. QED
    BY <2>4
<1>5. P = Nat
  <2> HIDE DEF P
  <2>1. P \in SUBSET Nat
    BY DEF P
  <2>2. QED
    BY <1>3, <1>4, <2>1, NatSetInduction
<1>6. \E g : Is(g, DOMAIN events)
  BY <1>5
<1>7. Is(iter, DOMAIN events)
  <2> HIDE DEF Is
  <2>1. QED
    BY <1>2, <1>6
<1> DEFINE h == [k \in 0 .. n |-> iter[1 .. k]]
<1>8. h[0] = r /\ h[n] = NamespaceFold(r, l, line, events)
  <2>1. 1 .. 0 = {} /\ {} \in SUBSET DOMAIN events
    OBVIOUS
  <2>2. iter[{}] = r
    BY <1>7, <2>1
  <2>3. QED
    BY <1>1, <2>1, <2>2
<1>9. ASSUME NEW k \in 1 .. n PROVE h[k] = NamespaceStep(h[k-1], l, line)
  <2>1. 1 .. k \in SUBSET DOMAIN events /\ 1 .. k # {} /\ (1 .. k) \ {k} = 1 .. k - 1
    OBVIOUS
  <2>2. Max(1 .. k) = k
    BY MaxUpTo
  <2>3. iter[1 .. k] = NamespaceStep(iter[1 .. k - 1], l, line)
    BY <1>7, <2>1, <2>2
  <2>4. h[k] = iter[1 .. k] /\ h[k-1] = iter[1 .. k - 1]
    OBVIOUS
  <2>5. QED
    BY <2>3, <2>4
<1> HIDE DEF h
<1>10. QED
  BY <1>8, <1>9

LEMMA ConsumeSteps ==
  ASSUME NEW l, NEW line, NEW r, NEW events, NEW n \in Nat, DOMAIN events = 1 .. n
  PROVE  \E h : /\ h[0] = r /\ h[n] = ConsumeFold(r, l, line, events)
               /\ \A k \in 1 .. n : h[k] = ConsumeStep(h[k-1], events[k], l, line)
<1> DEFINE iter[s \in SUBSET DOMAIN events] ==
             IF s = {} THEN r ELSE LET x == Max(s) IN ConsumeStep(iter[s \ {x}], events[x], l, line)
           Is(g, S) == g = [s \in SUBSET S |->
                              IF s = {} THEN r ELSE LET x == Max(s) IN ConsumeStep(g[s \ {x}], events[x], l, line)]
<1>1. ConsumeFold(r, l, line, events) = iter[DOMAIN events]
  BY DEF ConsumeFold, FoldLeft, MapThenFoldSet
<1>2. iter = CHOOSE g : Is(g, DOMAIN events)
  BY DEF iter
<1> HIDE DEF iter
<1> DEFINE P == {m \in Nat : \E g : Is(g, 1 .. m)}
<1>3. 0 \in P
  <2>1. SUBSET (1 .. 0) = {{}}
    OBVIOUS
  <2>2. Is([s \in SUBSET (1 .. 0) |-> r], 1 .. 0)
    BY <2>1
  <2>3. QED
    BY <2>2
<1>4. ASSUME NEW m \in P PROVE m + 1 \in P
  <2>1. PICK g : Is(g, 1 .. m)
    OBVIOUS
  <2> DEFINE Value(s) == IF m + 1 \in s THEN ConsumeStep(g[s \ {m + 1}], events[m + 1], l, line) ELSE g[s]
             f == [s \in SUBSET (1 .. m + 1) |-> Value(s)]
  <2>2. ASSUME NEW s \in SUBSET (1 .. m + 1)
        PROVE  f[s] = IF s = {} THEN r ELSE LET x == Max(s) IN ConsumeStep(f[s \ {x}], events[x], l, line)
    <3>1. CASE s = {}
      BY <2>1, <3>1
    <3>2. CASE m + 1 \in s
      <4>1. Max(s) = m + 1 /\ s \ {m + 1} \in SUBSET (1 .. m)
        BY <3>2, SubsetsUpTo
      <4>2. f[s \ {m + 1}] = g[s \ {m + 1}]
        BY <4>1
      <4>3. f[s] = ConsumeStep(g[s \ {m + 1}], events[m + 1], l, line)
        BY <3>2
      <4> HIDE DEF f
      <4>4. QED
        BY <3>2, <4>1, <4>2, <4>3
    <3>3. CASE s # {} /\ m + 1 \notin s
      <4>1. s \in SUBSET (1 .. m) /\ s \ {Max(s)} \in SUBSET (1 .. m)
        BY <3>3, SubsetsUpTo
      <4>2. f[s] = g[s]
        BY <3>3
      <4>3. f[s \ {Max(s)}] = g[s \ {Max(s)}]
        BY <4>1
      <4>4. g[s] = ConsumeStep(g[s \ {Max(s)}], events[Max(s)], l, line)
        BY <2>1, <3>3, <4>1
      <4> HIDE DEF f
      <4>5. QED
        BY <3>3, <4>2, <4>3, <4>4
    <3>4. QED
      BY <3>1, <3>2, <3>3
  <2> HIDE DEF Value
  <2>3. Is(f, 1 .. m + 1)
    BY <2>2
  <2> HIDE DEF f, Is
  <2>4. m + 1 \in Nat /\ \E k : Is(k, 1 .. m + 1)
    BY <2>3
  <2>5. QED
    BY <2>4
<1>5. P = Nat
  <2> HIDE DEF P
  <2>1. P \in SUBSET Nat
    BY DEF P
  <2>2. QED
    BY <1>3, <1>4, <2>1, NatSetInduction
<1>6. \E g : Is(g, DOMAIN events)
  BY <1>5
<1>7. Is(iter, DOMAIN events)
  <2> HIDE DEF Is
  <2>1. QED
    BY <1>2, <1>6
<1> DEFINE h == [k \in 0 .. n |-> iter[1 .. k]]
<1>8. h[0] = r /\ h[n] = ConsumeFold(r, l, line, events)
  <2>1. 1 .. 0 = {} /\ {} \in SUBSET DOMAIN events
    OBVIOUS
  <2>2. iter[{}] = r
    BY <1>7, <2>1
  <2>3. QED
    BY <1>1, <2>1, <2>2
<1>9. ASSUME NEW k \in 1 .. n PROVE h[k] = ConsumeStep(h[k-1], events[k], l, line)
  <2>1. 1 .. k \in SUBSET DOMAIN events /\ 1 .. k # {} /\ (1 .. k) \ {k} = 1 .. k - 1
    OBVIOUS
  <2>2. Max(1 .. k) = k
    BY MaxUpTo
  <2>3. iter[1 .. k] = ConsumeStep(iter[1 .. k - 1], events[k], l, line)
    BY <1>7, <2>1, <2>2
  <2>4. h[k] = iter[1 .. k] /\ h[k-1] = iter[1 .. k - 1]
    OBVIOUS
  <2>5. QED
    BY <2>3, <2>4
<1> HIDE DEF h
<1>10. QED
  BY <1>8, <1>9

(* One line more.                                                          *)
LEMMA LinesNext ==
  /\ DepthTo(0) = 0
  /\ \A m \in Nat : DepthTo(m + 1) = LineOf(DepthTo(m), m + 1)
<1>1. DepthTo(0) = 0
  <2>1. PICK z \in Nat : z = 0
    OBVIOUS
  <2>2. PICK h : h[0] = 0 /\ h[z] = DepthTo(z)
    BY LineStates
  <2>3. QED
    BY <2>1, <2>2
<1>2. ASSUME NEW m \in Nat PROVE DepthTo(m + 1) = LineOf(DepthTo(m), m + 1)
  <2>1. PICK h : h[0] = 0 /\ h[m] = DepthTo(m) /\ \A k \in 1 .. m : h[k] = LineOf(h[k-1], k)
    BY LineStates
  <2>2. PICK n \in Nat : n = m + 1
    OBVIOUS
  <2>3. PICK g : g[0] = 0 /\ g[n] = DepthTo(n) /\ \A k \in 1 .. n : g[k] = LineOf(g[k-1], k)
    BY LineStates
  <2> DEFINE P == {k \in Nat : k <= m => h[k] = g[k]}
  <2>4. 0 \in P
    BY <2>1, <2>3
  <2>5. ASSUME NEW k \in P PROVE k + 1 \in P
    <3>1. k + 1 <= m => k + 1 \in 1 .. m /\ k + 1 \in 1 .. n /\ (k + 1) - 1 = k
      BY <2>2
    <3>2. QED
      BY <2>1, <2>3, <3>1
  <2>6. P = Nat
    <3> HIDE DEF P
    <3>1. P \in SUBSET Nat
      BY DEF P
    <3>2. QED
      BY <2>4, <2>5, <3>1, NatSetInduction
  <2>7. g[m] = h[m]
    BY <2>6
  <2>8. g[m + 1] = LineOf(g[m], m + 1)
    <3>1. m + 1 \in 1 .. n /\ (m + 1) - 1 = m
      BY <2>2
    <3>2. QED
      BY <2>3, <3>1
  <2>9. QED
    BY <2>1, <2>2, <2>3, <2>7, <2>8
<1>3. QED
  BY <1>1, <1>2

LEMMA BranchesNext ==
  /\ BranchesTo(0) = <<>>
  /\ \A m \in Nat : BranchesTo(m + 1) = BranchAt(BranchesTo(m), m + 1)
<1>1. BranchesTo(0) = <<>>
  <2>1. PICK z \in Nat : z = 0
    OBVIOUS
  <2>2. PICK h : h[0] = <<>> /\ h[z] = BranchesTo(z)
    BY BranchStates
  <2>3. QED
    BY <2>1, <2>2
<1>2. ASSUME NEW m \in Nat PROVE BranchesTo(m + 1) = BranchAt(BranchesTo(m), m + 1)
  <2>1. PICK h : h[0] = <<>> /\ h[m] = BranchesTo(m) /\ \A k \in 1 .. m : h[k] = BranchAt(h[k-1], k)
    BY BranchStates
  <2>2. PICK n \in Nat : n = m + 1
    OBVIOUS
  <2>3. PICK g : g[0] = <<>> /\ g[n] = BranchesTo(n) /\ \A k \in 1 .. n : g[k] = BranchAt(g[k-1], k)
    BY BranchStates
  <2> DEFINE P == {k \in Nat : k <= m => h[k] = g[k]}
  <2>4. 0 \in P
    BY <2>1, <2>3
  <2>5. ASSUME NEW k \in P PROVE k + 1 \in P
    <3>1. k + 1 <= m => k + 1 \in 1 .. m /\ k + 1 \in 1 .. n /\ (k + 1) - 1 = k
      BY <2>2
    <3>2. QED
      BY <2>1, <2>3, <3>1
  <2>6. P = Nat
    <3> HIDE DEF P
    <3>1. P \in SUBSET Nat
      BY DEF P
    <3>2. QED
      BY <2>4, <2>5, <3>1, NatSetInduction
  <2>7. g[m] = h[m]
    BY <2>6
  <2>8. g[m + 1] = BranchAt(g[m], m + 1)
    <3>1. m + 1 \in 1 .. n /\ (m + 1) - 1 = m
      BY <2>2
    <3>2. QED
      BY <2>3, <3>1
  <2>9. QED
    BY <2>1, <2>2, <2>3, <2>7, <2>8
<1>3. QED
  BY <1>1, <1>2

(***************************************************************************)
(* Stacks of blocks, and how many are open.                                *)
(***************************************************************************)
OpenIn(s) == {i \in DOMAIN s : s[i].seen_open_brace}
OpenCount(s) == Cardinality(OpenIn(s))
AllOpen(s) == \A i \in 1 .. Len(s) : s[i].seen_open_brace

IsBlock(b) == /\ "kind" \in DOMAIN b /\ "seen_open_brace" \in DOMAIN b
              /\ b.seen_open_brace \in BOOLEAN
One(b) == IF b.seen_open_brace THEN 1 ELSE 0

(* The head of a class or a namespace has nothing but heads above it.      *)
Stacked(s) ==
  /\ IsList(s) /\ \A i \in 1 .. Len(s) : IsBlock(s[i])
  /\ \A i \in 1 .. Len(s) - 1 : s[i].seen_open_brace \/ s[i + 1].kind # "block"

LEMMA OpenFacts ==
  ASSUME NEW s, Stacked(s)
  PROVE  /\ IsFiniteSet(OpenIn(s)) /\ OpenCount(s) \in Nat
         /\ DOMAIN s = 1 .. Len(s) /\ Len(s) \in Nat
<1>1. DOMAIN s = 1 .. Len(s) /\ Len(s) \in Nat
  BY ListFacts DEF Stacked, IsList
<1>2. IsFiniteSet(1 .. Len(s)) /\ OpenIn(s) \subseteq 1 .. Len(s)
  BY <1>1, FS_Interval DEF OpenIn
<1>3. IsFiniteSet(OpenIn(s))
  BY <1>2, FS_Subset
<1>4. QED
  BY <1>1, <1>3, FS_CardinalityType DEF OpenCount

(* No block.                                                               *)
LEMMA OpenNone == Stacked(<<>>) /\ OpenCount(<<>>) = 0 /\ AllOpen(<<>>)
<1>1. OpenIn(<<>>) = {}
  BY DEF OpenIn
<1>2. QED
  BY <1>1, NoneFacts, FS_EmptySet DEF Stacked, OpenCount, AllOpen

(* One more.                                                               *)
LEMMA OpenPush ==
  ASSUME NEW s, Stacked(s), NEW b, IsBlock(b),
         b.kind = "block" => SeenOpenBrace(s)
  PROVE  /\ Stacked(Append(s, b)) /\ OpenCount(Append(s, b)) = OpenCount(s) + One(b)
         /\ AllOpen(s) /\ b.seen_open_brace => AllOpen(Append(s, b))
<1> DEFINE t == Append(s, b)
           n == Len(s)
<1>1. /\ IsList(t) /\ Len(t) = n + 1 /\ (\A i \in 1 .. n : t[i] = s[i]) /\ t[n + 1] = b
      /\ DOMAIN s = 1 .. n /\ DOMAIN t = 1 .. n + 1 /\ n \in Nat
  BY AppendFacts DEF Stacked
<1> HIDE DEF t
<1>2. \A i \in 1 .. n + 1 : i \in 1 .. n \/ i = n + 1
  BY <1>1
<1>3. Stacked(t)
  <2>1. \A i \in 1 .. Len(t) : IsBlock(t[i])
    BY <1>1, <1>2 DEF Stacked
  <2>2. ASSUME NEW i \in 1 .. Len(t) - 1 PROVE t[i].seen_open_brace \/ t[i + 1].kind # "block"
    <3>1. CASE i \in 1 .. n - 1
      <4>1. i \in 1 .. n /\ i + 1 \in 1 .. n
        BY <1>1, <3>1
      <4>2. s[i].seen_open_brace \/ s[i + 1].kind # "block"
        BY <3>1 DEF Stacked
      <4>3. QED
        BY <1>1, <4>1, <4>2
    <3>2. CASE i = n
      <4>1. s # <<>> /\ t[i] = s[n] /\ t[i + 1] = b
        BY <1>1, <3>2
      <4>2. b.kind = "block" => s[n].seen_open_brace
        BY <4>1 DEF SeenOpenBrace, Last
      <4>3. QED
        BY <3>2, <4>1, <4>2
    <3>3. i \in 1 .. n - 1 \/ i = n
      <4>1. n \in Nat /\ i \in 1 .. (n + 1) - 1
        BY <1>1
      <4> HIDE DEF n
      <4>2. QED
        BY <4>1
    <3>4. QED
      BY <3>1, <3>2, <3>3
  <2>3. QED
    BY <1>1, <2>1, <2>2 DEF Stacked
<1>4. OpenCount(t) = OpenCount(s) + One(b)
  <2>1. n + 1 \notin OpenIn(s) /\ IsFiniteSet(OpenIn(s))
    BY <1>1, OpenFacts DEF OpenIn
  <2>2. CASE b.seen_open_brace
    <3>1. OpenIn(t) = OpenIn(s) \cup {n + 1}
      BY <1>1, <1>2, <2>2 DEF OpenIn
    <3>2. QED
      BY <2>1, <2>2, <3>1, FS_AddElement DEF OpenCount, One
  <2>3. CASE ~b.seen_open_brace
    <3>1. OpenIn(t) = OpenIn(s)
      BY <1>1, <1>2, <2>3 DEF OpenIn
    <3>2. QED
      BY <2>3, <3>1, OpenFacts DEF OpenCount, One
  <2>4. QED
    BY <2>2, <2>3
<1>5. AllOpen(s) /\ b.seen_open_brace => AllOpen(t)
  BY <1>1, <1>2 DEF AllOpen
<1>6. QED
  BY <1>3, <1>4, <1>5 DEF t

(* One less.                                                               *)
LEMMA OpenPop ==
  ASSUME NEW s, Stacked(s), s # <<>>
  PROVE  /\ Stacked(Front(s)) /\ OpenCount(s) = OpenCount(Front(s)) + One(Last(s))
         /\ IsBlock(Last(s))
         /\ AllOpen(s) => AllOpen(Front(s)) /\ Last(s).seen_open_brace
         /\ Last(s).kind = "block" => SeenOpenBrace(Front(s))
<1> DEFINE t == Front(s)
           n == Len(s)
           b == Last(s)
<1>0. s \in Seq(ToSet(s))
  BY DEF Stacked, IsList
<1>1. /\ n \in Nat /\ n >= 1 /\ t \in Seq(ToSet(s)) /\ Len(t) = n - 1 /\ DOMAIN t = 1 .. n - 1
      /\ (\A i \in 1 .. n - 1 : t[i] = s[i]) /\ b = s[n]
  BY <1>0, FrontFacts
<1>2. IsList(t) /\ DOMAIN s = 1 .. n
  BY <1>0, <1>1, ListFacts
<1> HIDE DEF t, b
<1>3. \A i \in 1 .. n : i \in 1 .. n - 1 \/ i = n
  BY <1>1
<1>4. Stacked(t)
  <2>1. \A i \in 1 .. n - 1 : i \in 1 .. n
    BY <1>1
  <2>2. \A i \in 1 .. (n - 1) - 1 : i \in 1 .. n - 1 /\ i + 1 \in 1 .. n - 1
    BY <1>1
  <2>3. QED
    BY <1>1, <1>2, <2>1, <2>2 DEF Stacked
<1>5. n \in 1 .. n
  BY <1>1
<1>6. OpenCount(s) = OpenCount(t) + One(b)
  <2>1. n \notin OpenIn(t) /\ IsFiniteSet(OpenIn(t)) /\ OpenCount(t) \in Nat
    <3>1. n \notin 1 .. n - 1
      BY <1>1
    <3>2. QED
      BY <1>1, <1>4, <3>1, OpenFacts DEF OpenIn
  <2>4. \A i \in 1 .. n - 1 : i \in 1 .. n
    BY <1>1
  <2>2. CASE b.seen_open_brace
    <3>1. OpenIn(s) = OpenIn(t) \cup {n}
      BY <1>1, <1>2, <1>3, <1>5, <2>2, <2>4 DEF OpenIn
    <3>2. QED
      BY <2>1, <2>2, <3>1, FS_AddElement DEF OpenCount, One
  <2>3. CASE ~b.seen_open_brace
    <3>1. OpenIn(s) = OpenIn(t)
      BY <1>1, <1>2, <1>3, <2>3, <2>4 DEF OpenIn
    <3>2. QED
      BY <2>1, <2>3, <3>1 DEF OpenCount, One
  <2>5. QED
    BY <2>2, <2>3
<1>7. AllOpen(s) => AllOpen(t) /\ b.seen_open_brace
  BY <1>1, <1>5 DEF AllOpen
<1>8. b.kind = "block" => SeenOpenBrace(t)
  <2> SUFFICES ASSUME b.kind = "block", t # <<>> PROVE Last(t).seen_open_brace
    BY DEF SeenOpenBrace
  <2>1. n - 1 \in 1 .. n - 1 /\ Last(t) = t[n - 1]
    <3>1. t \in Seq(ToSet(s)) /\ t # <<>>
      BY <1>1
    <3>2. Len(t) >= 1 /\ Last(t) = t[Len(t)]
      BY <3>1, FrontFacts
    <3>3. QED
      BY <1>1, <3>2
  <2>2. s[n - 1].seen_open_brace \/ s[(n - 1) + 1].kind # "block"
    BY <2>1 DEF Stacked
  <2>3. (n - 1) + 1 = n
    BY <1>1
  <2>4. QED
    BY <1>1, <2>1, <2>2, <2>3
<1>9. QED
  BY <1>1, <1>4, <1>5, <1>6, <1>7, <1>8 DEF t, b, Stacked

(* The top replaced by a block of the same kind.                           *)
LEMMA OpenTop ==
  ASSUME NEW s, Stacked(s), s # <<>>, NEW b, IsBlock(b), b.kind = Last(s).kind
  PROVE  /\ Stacked(Append(Front(s), b))
         /\ OpenCount(Append(Front(s), b)) + One(Last(s)) = OpenCount(s) + One(b)
         /\ AllOpen(s) /\ b.seen_open_brace => AllOpen(Append(Front(s), b))
<1> DEFINE t == Front(s)
           top == Last(s)
<1>1. /\ Stacked(t) /\ OpenCount(s) = OpenCount(t) + One(top)
      /\ AllOpen(s) => AllOpen(t)
      /\ top.kind = "block" => SeenOpenBrace(t)
  BY OpenPop
<1> HIDE DEF t, top
<1>2. /\ Stacked(Append(t, b)) /\ OpenCount(Append(t, b)) = OpenCount(t) + One(b)
      /\ AllOpen(t) /\ b.seen_open_brace => AllOpen(Append(t, b))
  BY <1>1, OpenPush DEF top
<1>3. OpenCount(t) \in Nat /\ One(top) \in Nat /\ One(b) \in Nat
  BY <1>1, OpenFacts DEF One
<1>4. OpenCount(Append(t, b)) + One(top) = OpenCount(s) + One(b)
  BY <1>1, <1>2, <1>3
<1>5. QED
  BY <1>1, <1>2, <1>4 DEF t, top

(* The blocks there are, and what is changed in one.                       *)
LEMMA BlockShapes ==
  /\ IsBlock(Block) /\ Block.kind = "block" /\ Block.seen_open_brace
  /\ IsBlock(ExternCInfo) /\ ExternCInfo.kind = "extern" /\ ExternCInfo.seen_open_brace
  /\ \A n : \A open \in BOOLEAN :
       LET b == NamespaceInfo(n, open) IN
       IsBlock(b) /\ b.kind = "namespace" /\ b.seen_open_brace = open
  /\ \A ls, n, word :
       LET b == ClassInfo(ls, n, word) IN IsBlock(b) /\ b.kind = word /\ ~b.seen_open_brace
  /\ \A y : LET b == [Block EXCEPT !.inline_asm = y] IN
       IsBlock(b) /\ b.kind = "block" /\ b.seen_open_brace
<1>1. /\ IsBlock(Block) /\ Block.kind = "block" /\ Block.seen_open_brace
      /\ DOMAIN Block = {"kind", "seen_open_brace", "open_parentheses", "inline_asm", "access", "indent", "start", "last"}
  BY DEF Block, IsBlock
<1>2. IsBlock(ExternCInfo) /\ ExternCInfo.kind = "extern" /\ ExternCInfo.seen_open_brace
  BY <1>1 DEF ExternCInfo, IsBlock
<1>3. ASSUME NEW n, NEW open \in BOOLEAN
      PROVE  LET b == NamespaceInfo(n, open) IN
             IsBlock(b) /\ b.kind = "namespace" /\ b.seen_open_brace = open
  BY <1>1 DEF NamespaceInfo, IsBlock
<1>4. ASSUME NEW ls, NEW n, NEW word
      PROVE  LET b == ClassInfo(ls, n, word) IN IsBlock(b) /\ b.kind = word /\ ~b.seen_open_brace
  BY <1>1 DEF ClassInfo, IsBlock
<1>5. ASSUME NEW y
      PROVE  LET b == [Block EXCEPT !.inline_asm = y] IN
             IsBlock(b) /\ b.kind = "block" /\ b.seen_open_brace
  BY <1>1 DEF IsBlock
<1>6. QED
  BY <1>1, <1>2, <1>3, <1>4, <1>5

LEMMA BlockWith ==
  ASSUME NEW b, IsBlock(b)
  PROVE  /\ \A x : LET c == [b EXCEPT !.access = x] IN
              IsBlock(c) /\ c.kind = b.kind /\ c.seen_open_brace = b.seen_open_brace
         /\ \A x, y : LET c == [b EXCEPT !.open_parentheses = x, !.inline_asm = y] IN
              IsBlock(c) /\ c.kind = b.kind /\ c.seen_open_brace = b.seen_open_brace
         /\ LET c == [b EXCEPT !.seen_open_brace = TRUE] IN
              IsBlock(c) /\ c.kind = b.kind /\ c.seen_open_brace
BY DEF IsBlock

(* A stack and the braces: no fewer blocks are open, and without the head  *)
(* of a class or a namespace as many.                                      *)
Keeps(s, d, heads) ==
  /\ Stacked(s) /\ OpenCount(s) >= d
  /\ ~heads => OpenCount(s) = d /\ AllOpen(s)

(* The braces open after each token.                                       *)
Depths(b, d, toks) ==
  /\ b[0] = d /\ b[Len(toks)] = BracesOf(d, toks)
  /\ \A k \in 0 .. Len(toks) : b[k] \in Nat
  /\ \A k \in 1 .. Len(toks) :
       /\ toks[k] = "{" => b[k] = b[k-1] + 1
       /\ toks[k] = "}" => b[k] = IF b[k-1] = 0 THEN 0 ELSE b[k-1] - 1
       /\ toks[k] \notin {"{", "}"} => b[k] = b[k-1]

LEMMA BraceNext ==
  ASSUME NEW d \in Nat, NEW t
  PROVE  /\ BraceOf(d, t) \in Nat
         /\ t = "{" => BraceOf(d, t) = d + 1
         /\ t = "}" => BraceOf(d, t) = IF d = 0 THEN 0 ELSE d - 1
         /\ t \notin {"{", "}"} => BraceOf(d, t) = d
<1>1. Max({0, d - 1}) = IF d = 0 THEN 0 ELSE d - 1
  <2>1. CASE d = 0
    <3> DEFINE m == Max({0, d - 1})
    <3>1. m \in {0, d - 1} /\ \A x \in {0, d - 1} : m >= x
      <4>1. \E x \in {0, d - 1} : \A y \in {0, d - 1} : x >= y
        BY <2>1
      <4>2. QED
        BY <4>1, Zenon DEF Max
    <3> HIDE DEF m
    <3>2. m = 0
      BY <2>1, <3>1
    <3>3. QED
      BY <2>1, <3>2 DEF m
  <2>2. CASE d # 0
    <3> DEFINE m == Max({0, d - 1})
    <3>1. m \in {0, d - 1} /\ \A x \in {0, d - 1} : m >= x
      <4>1. \E x \in {0, d - 1} : \A y \in {0, d - 1} : x >= y
        <5>1. d - 1 >= 0
          BY <2>2
        <5>2. QED
          BY <5>1
      <4>2. QED
        BY <4>1, Zenon DEF Max
    <3> HIDE DEF m
    <3>2. m = d - 1
      BY <2>2, <3>1
    <3>3. QED
      BY <2>2, <3>2 DEF m
  <2>3. QED
    BY <2>1, <2>2
<1>2. /\ t = "{" => BraceOf(d, t) = d + 1
      /\ t = "}" => BraceOf(d, t) = Max({0, d - 1})
      /\ t \notin {"{", "}"} => BraceOf(d, t) = d
  BY DEF BraceOf
<1>3. ASSUME t = "}" PROVE BraceOf(d, t) = IF d = 0 THEN 0 ELSE d - 1
  BY <1>1, <1>2, <1>3, Zenon
<1>4. (IF d = 0 THEN 0 ELSE d - 1) \in Nat
  OBVIOUS
<1>5. BraceOf(d, t) \in Nat
  <2>1. CASE t = "}"
    BY <1>3, <1>4, <2>1, Zenon
  <2>2. CASE t = "{"
    <3>1. d + 1 \in Nat
      OBVIOUS
    <3>2. QED
      BY <1>2, <2>2, <3>1, Zenon
  <2>3. CASE t \notin {"{", "}"}
    BY <1>2, <2>3, Zenon
  <2>4. QED
    BY <2>1, <2>2, <2>3
<1>6. QED
  BY <1>2, <1>3, <1>5

LEMMA DepthsExist ==
  ASSUME NEW d \in Nat, NEW toks, IsList(toks)
  PROVE  \E b : Depths(b, d, toks)
<1>1. DOMAIN toks = 1 .. Len(toks) /\ Len(toks) \in Nat
  BY ListFacts DEF IsList
<1>2. PICK e : e = d
  OBVIOUS
<1>3. PICK n \in Nat : n = Len(toks) /\ DOMAIN toks = 1 .. n
  BY <1>1
<1>4. PICK b : /\ b[0] = e /\ b[n] = BracesOf(e, toks)
               /\ \A k \in 1 .. n : b[k] = BraceOf(b[k-1], toks[k])
  BY <1>3, BraceSteps
<1> DEFINE P == {k \in Nat : k <= n => b[k] \in Nat}
<1>5. 0 \in P
  BY <1>2, <1>4
<1>6. ASSUME NEW k \in P PROVE k + 1 \in P
  <2>1. k + 1 <= n => k + 1 \in 1 .. n /\ (k + 1) - 1 = k /\ b[k] \in Nat
    OBVIOUS
  <2>2. k + 1 <= n => b[k + 1] = BraceOf(b[k], toks[k + 1])
    BY <1>4, <2>1
  <2>3. QED
    BY <2>1, <2>2, BraceNext
<1>7. P = Nat
  <2> HIDE DEF P
  <2>1. P \in SUBSET Nat
    BY DEF P
  <2>2. QED
    BY <1>5, <1>6, <2>1, NatSetInduction
<1>8. \A k \in 0 .. n : b[k] \in Nat
  BY <1>7
<1>9. ASSUME NEW k \in 1 .. n
      PROVE  /\ toks[k] = "{" => b[k] = b[k-1] + 1
             /\ toks[k] = "}" => b[k] = IF b[k-1] = 0 THEN 0 ELSE b[k-1] - 1
             /\ toks[k] \notin {"{", "}"} => b[k] = b[k-1]
  <2>1. b[k-1] \in Nat
    BY <1>8
  <2>2. b[k] = BraceOf(b[k-1], toks[k])
    BY <1>4
  <2>3. QED
    BY <2>1, <2>2, BraceNext
<1>10. QED
  BY <1>2, <1>3, <1>4, <1>8, <1>9 DEF Depths

(* From one brace to the next nothing is opened.                           *)
LEMMA DepthsFall ==
  ASSUME NEW n \in Nat, NEW b, NEW i \in 1 .. n, NEW m \in i .. n,
         \A k \in 0 .. n : b[k] \in Nat,
         \A k \in i .. m - 1 : b[k] <= b[k-1]
  PROVE  b[m - 1] <= b[i - 1]
<1> DEFINE P == {k \in Nat : i + k <= m => b[i + k - 1] <= b[i - 1]}
<1>0. i \in Nat /\ m \in Nat /\ n \in Nat /\ i >= 1 /\ m <= n
  OBVIOUS
<1>1. 0 \in P
  <2>1. b[i - 1] \in Nat
    BY <1>0
  <2>2. i + 0 - 1 = i - 1
    BY <1>0
  <2>3. QED
    BY <2>1, <2>2
<1>2. ASSUME NEW k \in P PROVE k + 1 \in P
  <2> SUFFICES ASSUME i + (k + 1) <= m PROVE b[i + (k + 1) - 1] <= b[i - 1]
    OBVIOUS
  <2>1. k \in Nat /\ i + k \in 1 .. n /\ i + k \in i .. m - 1 /\ i + k <= m
        /\ i + (k + 1) - 1 = i + k /\ i + k - 1 \in 0 .. n /\ i + k \in 0 .. n
    BY <1>0
  <2>2. b[i + k - 1] <= b[i - 1]
    BY <2>1
  <2> HIDE DEF P
  <2>3. b[i + k] <= b[i + k - 1] /\ b[i + k] \in Nat /\ b[i + k - 1] \in Nat
    BY <2>1
  <2>4. b[i - 1] \in Nat
    BY <1>0
  <2>5. QED
    BY <2>1, <2>2, <2>3, <2>4
<1>3. P = Nat
  <2> HIDE DEF P
  <2>1. P \in SUBSET Nat
    BY DEF P
  <2>2. QED
    BY <1>1, <1>2, <2>1, NatSetInduction
<1>4. m - i \in Nat /\ i + (m - i) <= m /\ i + (m - i) - 1 = m - 1
  BY <1>0
<1>5. m - i \in P
  BY <1>3, <1>4
<1>6. QED
  BY <1>4, <1>5

(* Counting parentheses.                                                   *)
LEMMA ParenthesizedKeeps ==
  ASSUME NEW s, NEW d \in Nat, NEW heads, Keeps(s, d, heads), NEW l
  PROVE  Keeps(Parenthesized(s, l), d, heads)
<1>1. CASE s = <<>>
  BY <1>1 DEF Parenthesized
<1>2. CASE s # <<>>
  <2> DEFINE top == Last(s)
             change == CountOf(l, "(") - CountOf(l, ")")
             depth == top.open_parentheses + change
             asm == AsmAfter(top.inline_asm, change, depth, l)
             b == [top EXCEPT !.open_parentheses = @ + change, !.inline_asm = asm]
  <2>1. Stacked(s) /\ IsBlock(top) /\ (AllOpen(s) => top.seen_open_brace)
    BY <1>2, OpenPop DEF Keeps
  <2>2. IsBlock(b) /\ b.kind = top.kind /\ b.seen_open_brace = top.seen_open_brace
    <3> HIDE DEF top, change, asm
    <3>1. QED
      BY <2>1, BlockWith
  <2>3. Parenthesized(s, l) = Append(Front(s), b)
    BY <1>2 DEF Parenthesized, Counted
  <2> HIDE DEF b
  <2>4. /\ Stacked(Append(Front(s), b))
        /\ OpenCount(Append(Front(s), b)) + One(top) = OpenCount(s) + One(b)
        /\ AllOpen(s) /\ b.seen_open_brace => AllOpen(Append(Front(s), b))
    BY <1>2, <2>1, <2>2, OpenTop
  <2>5. OpenCount(Append(Front(s), b)) = OpenCount(s)
    <3>1. One(top) = One(b) /\ One(b) \in Nat
      BY <2>2 DEF One
    <3>2. OpenCount(s) \in Nat /\ OpenCount(Append(Front(s), b)) \in Nat
      BY <2>1, <2>4, OpenFacts
    <3> HIDE DEF top
    <3>3. QED
      BY <2>4, <3>1, <3>2
  <2>6. QED
    BY <2>1, <2>2, <2>3, <2>4, <2>5 DEF Keeps
<1>3. QED
  BY <1>1, <1>2
(* A reading of line l that has come to its token r.at.                    *)
Abreast(r, b, l, heads) ==
  /\ r = [stack |-> r.stack, errors |-> r.errors, at |-> r.at]
  /\ r.at \in 1 .. Len(l.toks) + 1
  /\ Keeps(r.stack, b[r.at - 1], heads)

HeadWords == Classes \cup {"namespace"}
Headless(l) == \A w \in HeadWords : ~HasToken(l, w)

LEMMA DepthsStep ==
  ASSUME NEW b, NEW d, NEW toks, NEW n \in Nat, n = Len(toks), Depths(b, d, toks), NEW k \in 1 .. n
  PROVE  /\ b[k] \in Nat /\ b[k-1] \in Nat
         /\ toks[k] = "{" => b[k] = b[k-1] + 1
         /\ toks[k] # "{" => b[k] <= b[k-1]
         /\ toks[k] = "}" => b[k] = IF b[k-1] = 0 THEN 0 ELSE b[k-1] - 1
         /\ toks[k] \notin {"{", "}"} => b[k] = b[k-1]
<1>1. k \in 0 .. n /\ k - 1 \in 0 .. n
  OBVIOUS
<1>2. /\ b[k] \in Nat /\ b[k-1] \in Nat
  BY <1>1 DEF Depths
<1>3. /\ toks[k] = "{" => b[k] = b[k-1] + 1
      /\ toks[k] = "}" => b[k] = IF b[k-1] = 0 THEN 0 ELSE b[k-1] - 1
      /\ toks[k] \notin {"{", "}"} => b[k] = b[k-1]
  BY DEF Depths
<1>4. ASSUME toks[k] # "{" PROVE b[k] <= b[k-1]
  <2>1. CASE toks[k] = "}"
    <3>1. PICK x \in Nat : x = b[k-1]
      BY <1>2
    <3>2. b[k] = IF x = 0 THEN 0 ELSE x - 1
      BY <1>3, <2>1, <3>1, Zenon
    <3>3. b[k] <= x
      BY <3>1, <3>2
    <3>4. QED
      BY <3>1, <3>3
  <2>2. CASE toks[k] # "}"
    <3>1. b[k] = b[k-1]
      BY <1>3, <1>4, <2>2
    <3>2. QED
      BY <1>2, <3>1
  <2>3. QED
    BY <2>1, <2>2
<1>5. QED
  BY <1>2, <1>3, <1>4

LEMMA NamespaceKeeps ==
  ASSUME NEW b, NEW d, NEW l, IsList(l.toks), Depths(b, d, l.toks), NEW heads, ~heads => Headless(l),
         NEW line, NEW r, Abreast(r, b, l, heads)
  PROVE  Abreast(NamespaceStep(r, l, line), b, l, heads)
<1> DEFINE toks == l.toks
<1>0. PICK n \in Nat : n = Len(toks)
  BY ListFacts DEF IsList
<1>1. n \in Nat /\ DOMAIN toks = 1 .. n
  BY <1>0, ListFacts DEF IsList
<1>2. CASE r.at > n \/ toks[r.at] # "namespace"
  BY <1>0, <1>2 DEF NamespaceStep
<1>3. CASE ~(r.at > n \/ toks[r.at] # "namespace")
  <2>1. r.at \in 1 .. n /\ toks[r.at] = "namespace" /\ r.at \in Nat
    <3>1. r.at \in 1 .. n + 1
      BY <1>0 DEF Abreast
    <3>2. QED
      BY <1>1, <1>3, <3>1
  <2>2. heads
    <3>1. HasToken(l, "namespace")
      BY <1>1, <2>1 DEF HasToken, Contains
    <3>2. QED
      BY <3>1 DEF Headless, HeadWords
  <2> DEFINE braces == BracesFrom(l, r.at)
             open == braces # {}
             block == NamespaceInfo(line, open)
             longer == Append(r.stack, block)
             a == IF braces = {} THEN r.at + 1 ELSE Min(braces) + 1
             t == [stack |-> longer, errors |-> r.errors, at |-> a]
  <2>3. NamespaceStep(r, l, line) = t
    <3>1. NamespaceStep(r, l, line) = [r EXCEPT !.stack = longer, !.at = a]
      BY <1>0, <1>3 DEF NamespaceStep, EnteredAt
    <3> HIDE DEF longer, a
    <3>2. QED
      BY <3>1, ReadingWith DEF Abreast
  <2>4. IsBlock(block) /\ block.kind = "namespace" /\ block.seen_open_brace = open
    <3>1. open \in BOOLEAN
      OBVIOUS
    <3>2. QED
      BY <3>1, BlockShapes
  <2> HIDE DEF block
  <2>5. Stacked(r.stack) /\ OpenCount(r.stack) >= b[r.at - 1] /\ OpenCount(r.stack) \in Nat
    BY OpenFacts DEF Abreast, Keeps
  <2>6. Stacked(longer) /\ OpenCount(longer) = OpenCount(r.stack) + One(block)
    BY <2>4, <2>5, OpenPush
  <2> HIDE DEF longer
  <2>7. (\A k \in 0 .. n : b[k] \in Nat)
        /\ \A k \in 1 .. n : /\ toks[k] = "{" => b[k] = b[k-1] + 1
                             /\ toks[k] # "{" => b[k] <= b[k-1]
    <3>1. \A k \in 0 .. n : b[k] \in Nat
      BY <1>0 DEF Depths
    <3>2. ASSUME NEW k \in 1 .. n
          PROVE  (toks[k] = "{" => b[k] = b[k-1] + 1) /\ (toks[k] # "{" => b[k] <= b[k-1])
      <4>1. Depths(b, d, toks) /\ n = Len(toks)
        BY <1>0
      <4> HIDE DEF toks
      <4>2. /\ b[k] \in Nat /\ b[k-1] \in Nat
            /\ toks[k] = "{" => b[k] = b[k-1] + 1
            /\ toks[k] # "{" => b[k] <= b[k-1]
            /\ toks[k] = "}" => b[k] = IF b[k-1] = 0 THEN 0 ELSE b[k-1] - 1
            /\ toks[k] \notin {"{", "}"} => b[k] = b[k-1]
        BY <4>1, DepthsStep
      <4>3. QED
        BY <4>2
    <3>3. QED
      BY <3>1, <3>2
  <2>8. a \in 1 .. n + 1 /\ OpenCount(longer) >= b[a - 1]
    <3>1. CASE braces = {}
      <4>1. One(block) = 0 /\ a = r.at + 1
        BY <2>4, <3>1 DEF One
      <4>2. b[r.at] <= b[r.at - 1] /\ b[r.at] \in Nat /\ b[r.at - 1] \in Nat
        <5>1. toks[r.at] # "{" /\ r.at \in 0 .. n /\ r.at - 1 \in 0 .. n
          BY <1>1, <2>1
        <5>2. QED
          BY <2>1, <2>7, <5>1
      <4>3. a \in 1 .. n + 1 /\ a - 1 = r.at
        BY <1>1, <2>1, <4>1
      <4>4. OpenCount(longer) = OpenCount(r.stack)
        BY <2>5, <2>6, <4>1
      <4> HIDE DEF a
      <4>5. QED
        BY <2>5, <4>2, <4>3, <4>4
    <3>2. CASE braces # {}
      <4>1. PICK i \in Nat : i = r.at /\ i >= 1 /\ i <= n
        BY <1>1, <2>1
      <4>2. braces \in SUBSET Nat /\ \A j \in Nat : j \in braces <=> j >= i /\ j <= n /\ toks[j] = "{"
        <5>1. braces = {j \in i .. n : toks[j] = "{"}
          BY <1>0, <4>1 DEF BracesFrom
        <5> HIDE DEF braces
        <5>2. \A j \in i .. n : j \in Nat /\ j >= i /\ j <= n
          BY <4>1
        <5>3. \A j \in Nat : j >= i /\ j <= n => j \in i .. n
          BY <4>1
        <5>4. QED
          BY <5>1, <5>2, <5>3, Zenon
      <4> HIDE DEF braces
      <4>3. PICK m \in Nat : m = Min(braces) /\ m \in braces /\ \A j \in braces : m <= j
        BY <3>2, <4>2, MinFacts
      <4>4. m >= i /\ m <= n
        BY <4>2, <4>3
      <4>13. toks[m] = "{"
        BY <4>2, <4>3
      <4>5. a = m + 1 /\ One(block) = 1
        BY <2>4, <3>2, <4>3 DEF One
      <4> HIDE DEF a
      <4>6. b[m - 1] <= b[i - 1]
        <5>1. ASSUME NEW k \in i .. m - 1 PROVE b[k] <= b[k-1]
          <6>1. k \in Nat /\ k >= i /\ k < m /\ k <= n /\ k \in 1 .. n
            BY <4>1, <4>4
          <6>2. k \notin braces
            <7>1. ~(m <= k)
              BY <6>1
            <7>2. QED
              BY <4>3, <7>1
          <6>3. toks[k] # "{"
            BY <4>2, <6>1, <6>2, Zenon
          <6>4. QED
            BY <2>7, <6>1, <6>3, Zenon
        <5>2. \A k \in 0 .. n : b[k] \in Nat
          BY <2>7
        <5>3. i \in 1 .. n /\ m \in i .. n
          BY <4>1, <4>4
        <5>4. QED
          BY <1>1, <5>1, <5>2, <5>3, DepthsFall
      <4>7. m \in 1 .. n /\ m - 1 \in 0 .. n /\ i - 1 \in 0 .. n
        BY <4>1, <4>4
      <4>8. b[m] = b[m - 1] + 1 /\ b[m - 1] \in Nat /\ b[i - 1] \in Nat
        BY <2>7, <4>7, <4>13
      <4>9. a - 1 = m /\ a \in 1 .. n + 1
        BY <4>5, <4>7
      <4>10. b[m] <= b[i - 1] + 1 /\ b[m] \in Nat
        BY <4>6, <4>8
      <4>11. OpenCount(longer) >= b[m]
        BY <2>5, <2>6, <4>1, <4>5, <4>8, <4>10
      <4>12. QED
        BY <4>9, <4>11
    <3>3. QED
      BY <3>1, <3>2
  <2>9. t = [stack |-> t.stack, errors |-> t.errors, at |-> t.at] /\ t.at = a /\ t.stack = longer
    OBVIOUS
  <2> HIDE DEF a, t
  <2>10. Abreast(t, b, l, heads)
    BY <1>0, <2>2, <2>6, <2>8, <2>9 DEF Abreast, Keeps
  <2>11. QED
    BY <2>3, <2>10
<1>4. QED
  BY <1>2, <1>3

LEMMA NamespacesKeep ==
  ASSUME NEW b, NEW d, NEW l, IsList(l.toks), Depths(b, d, l.toks), NEW heads, ~heads => Headless(l),
         NEW line, NEW r, Abreast(r, b, l, heads)
  PROVE  Abreast(Namespaces(r, l, line), b, l, heads)
<1>1. PICK n \in Nat : DOMAIN l.toks = 1 .. n
  BY ListFacts DEF IsList
<1>2. PICK toks : toks = l.toks
  OBVIOUS
<1>3. PICK h : /\ h[0] = r /\ h[n] = NamespaceFold(r, l, line, toks)
               /\ \A k \in 1 .. n : h[k] = NamespaceStep(h[k-1], l, line)
  BY <1>1, <1>2, NamespaceSteps
<1> DEFINE P == {k \in Nat : k <= n => Abreast(h[k], b, l, heads)}
<1>4. 0 \in P
  BY <1>3
<1>5. ASSUME NEW k \in P PROVE k + 1 \in P
  <2>1. k \in Nat /\ (k + 1 <= n => k + 1 \in 1 .. n /\ (k + 1) - 1 = k /\ Abreast(h[k], b, l, heads))
    OBVIOUS
  <2>2. k + 1 <= n => h[k + 1] = NamespaceStep(h[k], l, line)
    BY <1>3, <2>1
  <2>3. k + 1 \in Nat /\ (k + 1 <= n => Abreast(h[k + 1], b, l, heads))
    <3> HIDE DEF P
    <3>1. ASSUME k + 1 <= n PROVE Abreast(h[k + 1], b, l, heads)
      <4>1. PICK t : t = h[k] /\ Abreast(t, b, l, heads) /\ h[k + 1] = NamespaceStep(t, l, line)
        BY <2>1, <2>2, <3>1
      <4>2. Abreast(NamespaceStep(t, l, line), b, l, heads)
        BY <4>1, NamespaceKeeps
      <4>3. QED
        BY <4>1, <4>2
    <3>2. QED
      BY <2>1, <3>1
  <2>4. QED
    BY <2>3
<1>6. P = Nat
  <2> HIDE DEF P
  <2>1. P \in SUBSET Nat
    BY DEF P
  <2>2. QED
    BY <1>4, <1>5, <2>1, NatSetInduction
<1>7. Abreast(h[n], b, l, heads)
  BY <1>6
<1>8. QED
  BY <1>2, <1>3, <1>7, NamespacesIs

(* A brace opens a block, or the head that awaits it.                      *)
LEMMA OpenedKeeps ==
  ASSUME NEW s, NEW d \in Nat, NEW heads, Keeps(s, d, heads), NEW head, NEW l, NEW first
  PROVE  Keeps(Opened(s, head, l, first), d + 1, heads)
<1> DEFINE t == Opened(s, head, l, first)
<1>1. Stacked(s) /\ OpenCount(s) \in Nat /\ OpenCount(s) >= d
      /\ (~heads => OpenCount(s) = d /\ AllOpen(s))
  BY OpenFacts DEF Keeps
<1>2. Stacked(t) /\ OpenCount(t) = OpenCount(s) + 1 /\ (AllOpen(s) => AllOpen(t))
  <2>1. CASE ~SeenOpenBrace(s)
    <3>1. s # <<>> /\ ~Last(s).seen_open_brace
      BY <2>1 DEF SeenOpenBrace
    <3>2. IsBlock(Last(s)) /\ (AllOpen(s) => Last(s).seen_open_brace)
      BY <1>1, <3>1, OpenPop
    <3> DEFINE b == [Last(s) EXCEPT !.seen_open_brace = TRUE]
    <3>3. IsBlock(b) /\ b.kind = Last(s).kind /\ b.seen_open_brace
      <4>1. IsBlock(b)
        BY <3>2, BlockWith
      <4>2. b.kind = Last(s).kind /\ b.seen_open_brace
        BY <3>2 DEF IsBlock
      <4>3. QED
        BY <4>1, <4>2
    <3>4. t = Append(Front(s), b)
      BY <2>1 DEF Opened
    <3> HIDE DEF b, t
    <3>5. /\ Stacked(t) /\ OpenCount(t) + One(Last(s)) = OpenCount(s) + One(b)
      BY <1>1, <3>1, <3>3, <3>4, OpenTop
    <3>6. One(Last(s)) = 0 /\ One(b) = 1 /\ OpenCount(t) \in Nat
      BY <3>1, <3>3, <3>5, OpenFacts DEF One
    <3>7. OpenCount(t) = OpenCount(s) + 1
      BY <1>1, <3>5, <3>6
    <3>8. QED
      BY <3>1, <3>2, <3>5, <3>7
  <2>2. CASE SeenOpenBrace(s)
    <3>1. PICK b : t = Append(s, b) /\ IsBlock(b) /\ b.seen_open_brace
      <4>1. CASE OpensExtern(head, l, first)
        <5>1. t = Append(s, ExternCInfo)
          BY <2>2, <4>1 DEF Opened
        <5>2. QED
          BY <5>1, BlockShapes
      <4>2. CASE ~OpensExtern(head, l, first)
        <5> DEFINE y == IF StartsAsm(Append(head, "{")) THEN "block" ELSE "no"
                   b == [Block EXCEPT !.inline_asm = y]
        <5>1. t = Append(s, b)
          BY <2>2, <4>2 DEF Opened
        <5>2. IsBlock(b) /\ b.seen_open_brace
          <6> HIDE DEF y
          <6>1. QED
            BY BlockShapes
        <5> HIDE DEF b, t
        <5>3. QED
          BY <5>1, <5>2
      <4>3. QED
        BY <4>1, <4>2
    <3> HIDE DEF t
    <3>2. /\ Stacked(t) /\ OpenCount(t) = OpenCount(s) + One(b)
          /\ AllOpen(s) => AllOpen(t)
      BY <1>1, <2>2, <3>1, OpenPush
    <3>3. One(b) = 1
      BY <3>1 DEF One
    <3>4. QED
      BY <3>2, <3>3
  <2>3. QED
    BY <2>1, <2>2
<1> HIDE DEF t
<1>3. OpenCount(t) >= d + 1 /\ (OpenCount(s) = d => OpenCount(t) = d + 1)
  BY <1>1, <1>2
<1>4. Keeps(t, d + 1, heads)
  BY <1>1, <1>2, <1>3 DEF Keeps
<1>5. QED
  BY <1>4 DEF t

(* A brace closes the top, were it a head.                                 *)
LEMMA ClosedKeeps ==
  ASSUME NEW s, NEW d \in Nat, NEW heads, Keeps(s, d, heads)
  PROVE  /\ s # <<>> => Keeps(Front(s), IF d = 0 THEN 0 ELSE d - 1, heads)
         /\ s = <<>> => Keeps(s, IF d = 0 THEN 0 ELSE d - 1, heads)
         /\ ~SeenOpenBrace(s) => Keeps(Front(s), d, heads)
<1> DEFINE less == IF d = 0 THEN 0 ELSE d - 1
<1>1. Stacked(s) /\ OpenCount(s) \in Nat /\ OpenCount(s) >= d
      /\ (~heads => OpenCount(s) = d /\ AllOpen(s))
  BY OpenFacts DEF Keeps
<1>2. less \in Nat /\ less <= d /\ d <= less + 1 /\ (d = 0 => less = 0) /\ (d # 0 => d = less + 1)
  OBVIOUS
<1> HIDE DEF less
<1>3. ASSUME s = <<>> PROVE Keeps(s, less, heads)
  <2>1. OpenCount(s) = 0
    BY <1>3, OpenNone
  <2>2. d = 0 /\ less = 0
    BY <1>1, <1>2, <2>1
  <2>3. QED
    BY <2>2
<1>4. ASSUME s # <<>>
      PROVE  Keeps(Front(s), less, heads) /\ (~SeenOpenBrace(s) => Keeps(Front(s), d, heads))
  <2> DEFINE t == Front(s)
  <2>1. /\ Stacked(t) /\ OpenCount(s) = OpenCount(t) + One(Last(s))
        /\ AllOpen(s) => AllOpen(t) /\ Last(s).seen_open_brace
    BY <1>1, <1>4, OpenPop
  <2> HIDE DEF t
  <2>2. OpenCount(t) \in Nat
    BY <2>1, OpenFacts
  <2>3. CASE Last(s).seen_open_brace
    <3>1. One(Last(s)) = 1 /\ SeenOpenBrace(s)
      BY <2>3 DEF One, SeenOpenBrace
    <3>2. OpenCount(s) = OpenCount(t) + 1
      BY <2>1, <3>1
    <3>3. OpenCount(t) >= less
      BY <1>1, <1>2, <2>2, <3>2
    <3>4. OpenCount(s) = d => OpenCount(t) = less
      BY <1>1, <1>2, <2>2, <3>2
    <3>5. QED
      BY <1>1, <2>1, <3>1, <3>3, <3>4 DEF Keeps, t
  <2>4. CASE ~Last(s).seen_open_brace
    <3>1. One(Last(s)) = 0 /\ heads
      BY <1>1, <2>1, <2>4 DEF One
    <3>2. OpenCount(s) = OpenCount(t)
      BY <2>1, <2>2, <3>1
    <3>3. OpenCount(t) >= less /\ OpenCount(t) >= d
      BY <1>1, <1>2, <2>2, <3>2
    <3>4. QED
      BY <2>1, <3>1, <3>3 DEF Keeps, t
  <2>5. QED
    BY <2>3, <2>4
<1>5. ~SeenOpenBrace(s) => s # <<>>
  BY DEF SeenOpenBrace
<1>6. QED
  BY <1>3, <1>4, <1>5 DEF less

(* A class head, and an access label.                                      *)
LEMMA DeclaredKeeps ==
  ASSUME NEW ls, NEW line, IsList(ls[line].toks), NEW b, NEW d, Depths(b, d, ls[line].toks),
         NEW heads, ~heads => Headless(ls[line]), NEW r, Abreast(r, b, ls[line], heads)
  PROVE  Abreast(Declared(r, ls, line), b, ls[line], heads)
<1>1. CASE ~Declares(r, ls, line)
  BY <1>1 DEF Declared
<1>2. CASE Declares(r, ls, line)
  <2> DEFINE l == ls[line]
             toks == l.toks
             word == toks[r.at]
             block == ClassInfo(ls, line, word)
             longer == Append(r.stack, block)
             t == [stack |-> longer, errors |-> r.errors, at |-> r.at + 1]
  <2>1. PICK n \in Nat : n = Len(toks) /\ DOMAIN toks = 1 .. n
    BY ListFacts DEF IsList
  <2>2. PICK i \in Nat : i = r.at /\ i >= 1 /\ i <= n
    <3>1. r.at \in 1 .. n + 1 /\ r.at <= n
      BY <1>2, <2>1 DEF Declares, Abreast
    <3>2. QED
      BY <3>1
  <2>3. word \in Classes
    BY <1>2 DEF Declares
  <2>4. i \in 1 .. n
    BY <2>2
  <2>5. heads
    <3>1. HasToken(l, word)
      BY <2>1, <2>2, <2>4 DEF HasToken, Contains
    <3>2. word \in HeadWords
      BY <2>3 DEF HeadWords
    <3>3. QED
      BY <3>1, <3>2 DEF Headless
  <2>6. Declared(r, ls, line) = t
    <3>1. Declared(r, ls, line) = [r EXCEPT !.stack = longer, !.at = r.at + 1]
      BY <1>2 DEF Declared
    <3> HIDE DEF longer
    <3>2. QED
      BY <3>1, ReadingWith DEF Abreast
  <2>7. IsBlock(block) /\ block.kind = word /\ ~block.seen_open_brace
    BY BlockShapes
  <2> HIDE DEF block
  <2>8. block.kind # "block" /\ One(block) = 0
    BY <2>3, <2>7 DEF Classes, One
  <2>9. Stacked(r.stack) /\ OpenCount(r.stack) >= b[i - 1] /\ OpenCount(r.stack) \in Nat
    BY <2>2, OpenFacts DEF Abreast, Keeps
  <2>10. Stacked(longer) /\ OpenCount(longer) = OpenCount(r.stack)
    <3>1. Stacked(longer) /\ OpenCount(longer) = OpenCount(r.stack) + One(block)
      BY <2>7, <2>8, <2>9, OpenPush
    <3> HIDE DEF longer
    <3>2. QED
      BY <2>8, <2>9, <3>1
  <2>11. b[i] = b[i - 1]
    <3>1. toks[i] \notin {"{", "}"}
      BY <2>2, <2>3 DEF Classes
    <3>2. QED
      BY <2>1, <2>4, <3>1 DEF Depths
  <2>12. t = [stack |-> t.stack, errors |-> t.errors, at |-> t.at] /\ t.at = i + 1 /\ t.stack = longer
    BY <2>2
  <2> HIDE DEF longer, t
  <2>13. t.at \in 1 .. n + 1 /\ t.at - 1 = i
    BY <2>2, <2>12
  <2>14. Keeps(t.stack, b[t.at - 1], heads)
    BY <2>5, <2>9, <2>10, <2>11, <2>12, <2>13 DEF Keeps
  <2>15. Abreast(t, b, l, heads)
    BY <2>1, <2>12, <2>13, <2>14 DEF Abreast
  <2>16. QED
    BY <2>6, <2>15
<1>3. QED
  BY <1>1, <1>2

LEMMA LabelledKeeps ==
  ASSUME NEW b, NEW l, NEW heads, NEW line, NEW i, NEW r, Abreast(r, b, l, heads)
  PROVE  Abreast(Labelled(r, l, line, i), b, l, heads)
<1>1. CASE i = 0 \/ ~TopIs(r.stack, Classes)
  BY <1>1 DEF Labelled
<1>2. CASE ~(i = 0 \/ ~TopIs(r.stack, Classes))
  <2> DEFINE s == r.stack
             top == Last(s)
             block == [top EXCEPT !.access = l.toks[i]]
             longer == Append(Front(s), block)
             e == r.errors \o When(i = 1 /\ l.indent # top.indent + 1,
                                   Error(line, <<"whitespace", "indent">>, 3))
             t == [stack |-> longer, errors |-> e, at |-> r.at]
  <2>1. Labelled(r, l, line, i) = [r EXCEPT !.stack = longer, !.errors = e]
    BY <1>2 DEF Labelled
  <2>2. s # <<>> /\ Keeps(s, b[r.at - 1], heads) /\ Stacked(s)
    BY <1>2 DEF TopIs, Abreast, Keeps
  <2>3. IsBlock(top) /\ (AllOpen(s) => top.seen_open_brace)
    BY <2>2, OpenPop
  <2>4. IsBlock(block) /\ block.kind = top.kind /\ block.seen_open_brace = top.seen_open_brace
    <3> HIDE DEF top
    <3>1. QED
      BY <2>3, BlockWith
  <2> HIDE DEF block
  <2>5. /\ Stacked(longer) /\ OpenCount(longer) + One(top) = OpenCount(s) + One(block)
        /\ AllOpen(s) /\ block.seen_open_brace => AllOpen(longer)
    BY <2>2, <2>4, OpenTop
  <2> HIDE DEF longer
  <2>6. OpenCount(longer) = OpenCount(s)
    <3>1. One(top) = One(block) /\ One(block) \in Nat
      BY <2>4 DEF One
    <3>2. OpenCount(s) \in Nat /\ OpenCount(longer) \in Nat
      BY <2>2, <2>5, OpenFacts
    <3> HIDE DEF top, s
    <3>3. QED
      BY <2>5, <3>1, <3>2
  <2>7. Keeps(longer, b[r.at - 1], heads)
    BY <2>2, <2>3, <2>4, <2>5, <2>6 DEF Keeps
  <2> HIDE DEF e
  <2>8. Labelled(r, l, line, i) = t
    BY <2>1, LabelledWith DEF Abreast
  <2>9. Abreast(t, b, l, heads)
    <3>1. t = [stack |-> t.stack, errors |-> t.errors, at |-> t.at] /\ t.at = r.at /\ t.stack = longer
      OBVIOUS
    <3>2. r.at \in 1 .. Len(l.toks) + 1
      BY DEF Abreast
    <3> HIDE DEF t
    <3>3. QED
      BY <2>7, <3>1, <3>2 DEF Abreast
  <2>10. QED
    BY <2>8, <2>9
<1>3. QED
  BY <1>1, <1>2

(* Consume: a token of the line, and what is left of it.                   *)
Scanning(acc, d, heads) ==
  acc = Scan(acc.stack, acc.errors, acc.head, acc.first) /\ Keeps(acc.stack, d, heads)

Turned(d, t, e) ==
  /\ t = "{" => e = d + 1
  /\ t = "}" => e = IF d = 0 THEN 0 ELSE d - 1
  /\ t \notin {"{", "}"} => e = d

LEMMA ConsumeTokenKeeps ==
  ASSUME NEW acc, NEW d \in Nat, NEW heads, Scanning(acc, d, heads), NEW t, NEW l, NEW line,
         NEW e, Turned(d, t, e)
  PROVE  Scanning(ConsumeStep(acc, t, l, line), e, heads)
<1> DEFINE s == acc.stack
           past == PastToken(acc)
           next == ConsumeStep(acc, t, l, line)
<1>1. acc = Scan(s, acc.errors, acc.head, acc.first) /\ Keeps(s, d, heads)
  BY DEF Scanning
<1> HIDE DEF s
<1>0. PICK no : no = FALSE
  OBVIOUS
<1>2. past = Scan(s, acc.errors, <<>>, no)
  <2>1. past = Past(acc, no)
    BY <1>0 DEF PastToken, Past
  <2>2. Past(acc, no) = Scan(s, acc.errors, <<>>, no)
    BY <1>1, ScanPast
  <2>3. QED
    BY <2>1, <2>2
<1> HIDE DEF past
<1>3. ASSUME NEW a, NEW x, NEW h, NEW f, next = Scan(a, x, h, f), Keeps(a, e, heads)
      PROVE  Scanning(next, e, heads)
  <2> HIDE DEF next
  <2>1. next.stack = a /\ next.errors = x /\ next.head = h /\ next.first = f
    BY <1>3 DEF Scan
  <2>2. QED
    BY <1>3, <2>1 DEF Scanning
<1>4. ASSUME NEW a PROVE [past EXCEPT !.stack = a] = Scan(a, acc.errors, <<>>, no)
  BY <1>2, ScanWithStack DEF WithStack
<1>5. CASE t = "{"
  <2> DEFINE a == Opened(s, acc.head, l, acc.first)
  <2>1. next = [past EXCEPT !.stack = a]
    BY <1>5 DEF ConsumeStep, past, s
  <2>2. Keeps(a, e, heads)
    BY <1>1, <1>5, OpenedKeeps DEF Turned
  <2> HIDE DEF a, next
  <2>3. next = Scan(a, acc.errors, <<>>, no)
    BY <1>4, <2>1
  <2>4. QED
    BY <1>3, <2>2, <2>3 DEF next
<1>6. CASE t \in {";", ")"}
  <2> DEFINE a == IF SeenOpenBrace(s) THEN s ELSE Front(s)
  <2>1. next = [past EXCEPT !.stack = a]
    BY <1>6 DEF ConsumeStep, past, s
  <2>2. Keeps(a, e, heads)
    <3>1. e = d
      BY <1>6 DEF Turned
    <3>2. QED
      BY <1>1, <3>1, ClosedKeeps
  <2> HIDE DEF a, next
  <2>3. next = Scan(a, acc.errors, <<>>, no)
    BY <1>4, <2>1
  <2>4. QED
    BY <1>3, <2>2, <2>3 DEF next
<1>7. CASE t = "}" /\ s = <<>>
  <2>1. next = past
    BY <1>7 DEF ConsumeStep, past, s
  <2>2. Keeps(s, e, heads)
    BY <1>1, <1>7, ClosedKeeps DEF Turned
  <2> HIDE DEF next
  <2>3. QED
    BY <1>2, <1>3, <2>1, <2>2 DEF next
<1>8. CASE t = "}" /\ s # <<>>
  <2> DEFINE a == Front(s)
             more == CheckEnd(Last(s), l, line)
             x == acc.errors \o more
  <2>1. next = [past EXCEPT !.stack = a, !.errors = past.errors \o more]
    BY <1>8 DEF ConsumeStep, past, s
  <2>2. Keeps(a, e, heads)
    BY <1>1, <1>8, ClosedKeeps DEF Turned
  <2>3. past.errors = acc.errors
    BY <1>2, ScanErrors
  <2>4. next = [past EXCEPT !.stack = a, !.errors = x]
    BY <2>1, <2>3
  <2> HIDE DEF a, next, x
  <2>5. [past EXCEPT !.stack = a, !.errors = x] = WithErrors([past EXCEPT !.stack = a], x)
    BY DEF WithErrors
  <2>6. WithErrors(Scan(a, acc.errors, <<>>, no), x) = Scan(a, x, <<>>, no)
    BY ScanWithErrors
  <2>7. next = Scan(a, x, <<>>, no)
    BY <1>4, <2>4, <2>5, <2>6
  <2>8. QED
    BY <1>3, <2>2, <2>7 DEF next
<1>9. CASE t \notin {"{", ";", ")", "}"}
  <2> DEFINE h == Append(acc.head, t)
  <2>1. next = WithHead(acc, h)
    BY <1>9 DEF ConsumeStep, WithHead
  <2>2. Keeps(s, e, heads)
    BY <1>1, <1>9 DEF Turned
  <2> HIDE DEF h, next
  <2>3. next = Scan(s, acc.errors, h, acc.first)
    BY <1>1, <2>1, ScanWithHead
  <2>4. QED
    BY <1>3, <2>2, <2>3 DEF next
<1>10. t = "{" \/ t \in {";", ")"} \/ t = "}" \/ t \notin {"{", ";", ")", "}"}
  OBVIOUS
<1>11. QED
  BY <1>5, <1>6, <1>7, <1>8, <1>9, <1>10

LEMMA LeftOver ==
  ASSUME NEW s, IsList(s), NEW n \in Nat, n = Len(s), NEW i \in Nat, i >= 1, i <= n + 1
  PROVE  /\ n + 1 - i \in Nat /\ DOMAIN SubSeq(s, i, n) = 1 .. n + 1 - i
         /\ \A k \in 1 .. n + 1 - i : SubSeq(s, i, n)[k] = s[i + k - 1]
<1>1. PICK S : s \in Seq(S)
  BY DEF IsList
<1>2. n + 1 - i \in Nat
  OBVIOUS
<1>3. DOMAIN SubSeq(s, i, n) = 1 .. n + 1 - i
  BY <1>1
<1>4. \A k \in 1 .. n + 1 - i : SubSeq(s, i, n)[k] = s[i + k - 1]
  BY <1>1
<1>5. QED
  BY <1>2, <1>3, <1>4

LEMMA ConsumeKeeps ==
  ASSUME NEW b, NEW d, NEW l, IsList(l.toks), Depths(b, d, l.toks), NEW heads, NEW line,
         NEW r, Abreast(r, b, l, heads)
  PROVE  Keeps(Consume(r, l, line).stack, BracesOf(d, l.toks), heads)
<1>1. PICK n \in Nat : n = Len(l.toks)
  BY ListFacts DEF IsList
<1>2. PICK i \in Nat : i = r.at /\ i >= 1 /\ i <= n + 1
  <2>1. r.at \in 1 .. n + 1
    BY <1>1 DEF Abreast
  <2>2. QED
    BY <2>1
<1>3. PICK m \in Nat : m = n + 1 - i
  BY <1>2, LeftOver, <1>1
<1> DEFINE toks == SubSeq(l.toks, r.at, Len(l.toks))
<1>4. DOMAIN toks = 1 .. m /\ \A k \in 1 .. m : toks[k] = l.toks[i + k - 1]
  <2> DEFINE u == l.toks
  <2>1. IsList(u) /\ n = Len(u) /\ toks = SubSeq(u, i, n)
    BY <1>1, <1>2
  <2> HIDE DEF u, toks
  <2>2. DOMAIN SubSeq(u, i, n) = 1 .. n + 1 - i /\ \A k \in 1 .. n + 1 - i : SubSeq(u, i, n)[k] = u[i + k - 1]
    BY <1>2, <2>1, LeftOver
  <2>3. QED
    BY <1>3, <2>1, <2>2 DEF u
<1> HIDE DEF toks
<1>5. PICK first : first = Scan(r.stack, r.errors, <<>>, r.at = 1)
  OBVIOUS
<1>6. PICK h : /\ h[0] = first /\ h[m] = ConsumeFold(first, l, line, toks)
               /\ \A k \in 1 .. m : h[k] = ConsumeStep(h[k-1], toks[k], l, line)
  <2>1. DOMAIN toks = 1 .. m
    BY <1>4
  <2>2. QED
    BY <2>1, ConsumeSteps
<1> DEFINE P == {k \in Nat : k <= m => Scanning(h[k], b[i - 1 + k], heads)}
<1>7. 0 \in P
  <2>1. i - 1 + 0 = i - 1
    BY <1>2
  <2>2. Keeps(r.stack, b[i - 1], heads)
    BY <1>2 DEF Abreast
  <2>3. first.stack = r.stack /\ first = Scan(first.stack, first.errors, first.head, first.first)
    BY <1>5 DEF Scan
  <2>4. Scanning(first, b[i - 1 + 0], heads)
    BY <2>1, <2>2, <2>3 DEF Scanning
  <2>5. QED
    BY <1>6, <2>4
<1>8. ASSUME NEW k \in P PROVE k + 1 \in P
  <2>1. k \in Nat /\ (k <= m => Scanning(h[k], b[i - 1 + k], heads))
    OBVIOUS
  <2>2. ASSUME k + 1 <= m PROVE Scanning(h[k + 1], b[i - 1 + (k + 1)], heads)
    <3> HIDE DEF P
    <3>1. k <= m /\ k + 1 \in 1 .. m /\ (k + 1) - 1 = k
      BY <2>1, <2>2
    <3>2. PICK j \in Nat : j = i + k /\ j \in 1 .. n
      BY <1>2, <1>3, <2>1, <2>2
    <3>3. i + (k + 1) - 1 = j /\ i - 1 + k = j - 1 /\ i - 1 + (k + 1) = j
      BY <1>2, <2>1, <3>2
    <3>4. h[k + 1] = ConsumeStep(h[k], l.toks[j], l, line)
      <4>1. h[k + 1] = ConsumeStep(h[k], toks[k + 1], l, line)
        BY <1>6, <3>1
      <4>2. toks[k + 1] = l.toks[j]
        BY <1>4, <3>1, <3>3
      <4>3. QED
        BY <4>1, <4>2
    <3>5. Scanning(h[k], b[j - 1], heads)
      BY <2>1, <3>1, <3>3
    <3>6. b[j] \in Nat /\ b[j-1] \in Nat /\ Turned(b[j-1], l.toks[j], b[j])
      <4> DEFINE u == l.toks
      <4>1. n = Len(u) /\ Depths(b, d, u)
        BY <1>1
      <4> HIDE DEF u
      <4>2. /\ b[j] \in Nat /\ b[j-1] \in Nat
            /\ u[j] = "{" => b[j] = b[j-1] + 1
            /\ u[j] # "{" => b[j] <= b[j-1]
            /\ u[j] = "}" => b[j] = IF b[j-1] = 0 THEN 0 ELSE b[j-1] - 1
            /\ u[j] \notin {"{", "}"} => b[j] = b[j-1]
        <5>1. j \in 1 .. n
          BY <3>2
        <5>2. QED
          BY <4>1, <5>1, DepthsStep
      <4>3. QED
        BY <4>2 DEF u, Turned
    <3>7. Scanning(ConsumeStep(h[k], l.toks[j], l, line), b[j], heads)
      BY <3>5, <3>6, ConsumeTokenKeeps
    <3>8. QED
      BY <3>3, <3>4, <3>7
  <2>3. QED
    BY <2>1, <2>2
<1>9. P = Nat
  <2> HIDE DEF P
  <2>1. P \in SUBSET Nat
    BY DEF P
  <2>2. QED
    BY <1>7, <1>8, <2>1, NatSetInduction
<1>10. Scanning(h[m], b[i - 1 + m], heads)
  BY <1>9
<1>11. b[i - 1 + m] = BracesOf(d, l.toks)
  <2>1. i - 1 + m = n
    BY <1>2, <1>3
  <2>2. b[Len(l.toks)] = BracesOf(d, l.toks)
    BY DEF Depths
  <2>3. QED
    BY <1>1, <2>1, <2>2
<1>12. Consume(r, l, line) = ConsumeFold(first, l, line, toks)
  BY <1>5, ConsumeIs DEF Scan, toks
<1>13. QED
  BY <1>6, <1>10, <1>11, <1>12 DEF Scanning

(* The line from end to end: what the braces of it do to the stack.        *)
LEMMA RestKeeps ==
  ASSUME NEW s, NEW d \in Nat, NEW heads, Keeps(s, d, heads), NEW ls, NEW line,
         IsList(ls[line].toks), ~heads => Headless(ls[line])
  PROVE  Keeps(Rest(s, ls, line).stack, BracesOf(d, ls[line].toks), heads)
<1> DEFINE l == ls[line]
           p == Parenthesized(s, l)
           start == [stack |-> p, errors |-> <<>>, at |-> 1]
           r1 == Namespaces(start, l, line)
           r2 == Declared(r1, ls, line)
           r3 == Accessed(r2, l, line)
<1>1. PICK b : Depths(b, d, l.toks)
  BY DepthsExist
<1>2. Keeps(p, d, heads)
  BY ParenthesizedKeeps
<1> HIDE DEF p
<1>3. Abreast(start, b, l, heads)
  <2>1. start.stack = p /\ start.at = 1 /\ start = [stack |-> start.stack, errors |-> start.errors, at |-> start.at]
    OBVIOUS
  <2> HIDE DEF start
  <2>2. start.at \in 1 .. Len(l.toks) + 1
    <3>1. Len(l.toks) \in Nat
      BY ListFacts DEF IsList
    <3>2. QED
      BY <2>1, <3>1
  <2>3. b[start.at - 1] = d
    <3>1. start.at - 1 = 0
      BY <2>1
    <3>2. QED
      BY <1>1, <3>1 DEF Depths
  <2>4. QED
    BY <1>2, <2>1, <2>2, <2>3 DEF Abreast
<1> HIDE DEF start
<1>4. Abreast(r1, b, l, heads)
  BY <1>1, <1>3, NamespacesKeep
<1> HIDE DEF r1
<1>5. Abreast(r2, b, l, heads)
  BY <1>1, <1>4, DeclaredKeeps
<1> HIDE DEF r2
<1>6. Abreast(r3, b, l, heads)
  BY <1>5, LabelledKeeps DEF Accessed
<1> HIDE DEF r3
<1>7. Keeps(Consume(r3, l, line).stack, BracesOf(d, l.toks), heads)
  BY <1>1, <1>6, ConsumeKeeps
<1>8. Rest(s, ls, line) = Consume(r3, l, line)
  BY DEF Rest, r3, r2, r1, start, p
<1>9. QED
  BY <1>7, <1>8

(* The stacks there are, and the one of the lines that count.              *)
AllStacked ==
  \E S : stack \in S /\ <<>> \in S /\ pp_stack \in Seq(Info(S)) /\ \A s \in S : Stacked(s)

DepthInv ==
  pc = "line" =>
    /\ Keeps(ActiveStack, DepthTo(linenum - 1), HasHead) /\ DepthTo(linenum - 1) \in Nat
    /\ SeenElse = BranchesTo(linenum - 1)
    /\ AllStacked

(* The braces of a line.                                                   *)
LEMMA BracesType ==
  ASSUME NEW d \in Nat, NEW toks, IsList(toks)
  PROVE  BracesOf(d, toks) \in Nat
<1>1. PICK b : Depths(b, d, toks)
  BY DepthsExist
<1>2. PICK n \in Nat : n = Len(toks)
  BY ListFacts DEF IsList
<1>3. n \in 0 .. n
  OBVIOUS
<1>4. QED
  BY <1>1, <1>2, <1>3 DEF Depths

(* Before the first line.                                                  *)
LEMMA DepthStart == DepthTo(0) = 0 /\ BranchesTo(0) = <<>>
BY LinesNext, BranchesNext

(* A file starts with no block open.                                       *)
LEMMA DepthOpen ==
  ASSUME OpenFile
  PROVE  DepthInv'
<1>1. stack' = <<>> /\ pp_stack' = <<>> /\ linenum' = 1
  BY DEF OpenFile, NestingReset
<1>2. (DepthTo(0) = 0 /\ BranchesTo(0) = <<>>)'
  BY DepthStart, PTL
<1>3. linenum' - 1 = 0
  BY <1>1
<1>4. (DepthTo(linenum - 1))' = 0 /\ (BranchesTo(linenum - 1))' = <<>>
  BY <1>2, <1>3
<1>5. ActiveStack' = <<>> /\ SeenElse' = <<>>
  BY <1>1 DEF ActiveStack, SeenElse
<1>6. Keeps(<<>>, 0, HasHead')
  BY OpenNone DEF Keeps
<1>7. AllStacked'
  <2> DEFINE S == {<<>>}
  <2>1. <<>> \in S /\ \A s \in S : Stacked(s)
    BY OpenNone
  <2> HIDE DEF S
  <2>2. <<>> \in Seq(Info(S))
    OBVIOUS
  <2>3. QED
    BY <1>1, <2>1, <2>2 DEF AllStacked
<1>8. QED
  BY <1>4, <1>5, <1>6, <1>7 DEF DepthInv

(* A line that counts, and one that does not.                              *)
LEMMA DepthLine ==
  ASSUME CountInv, DepthInv, ProcessLine
  PROVE  DepthInv'
<1> DEFINE l == lines[linenum]
           m == linenum - 1
           d == DepthTo(m)
           r == UpdatePreprocessor(stack, pp_stack, l)
<1>1. /\ pc = "line" /\ linenum \in 1 .. Len(lines) /\ Update(lines, linenum)
      /\ linenum' = linenum + 1 /\ lines' = lines
  BY DEF ProcessLine
<1>2. Keeps(ActiveStack, d, HasHead) /\ d \in Nat /\ SeenElse = BranchesTo(m) /\ AllStacked
  BY <1>1 DEF DepthInv
<1>3. IsList(l.toks) /\ linenum \in DOMAIN lines
  <2>1. AreLines(lines)
    BY <1>1 DEF CountInv, Shapes
  <2>2. DOMAIN lines = 1 .. Len(lines)
    BY <2>1, ListFacts DEF AreLines, IsList
  <2>3. QED
    BY <1>1, <2>1, <2>2 DEF AreLines, IsLine
<1>4. PICK S : /\ stack \in S /\ <<>> \in S /\ pp_stack \in Seq(Info(S)) /\ \A s \in S : Stacked(s)
  BY <1>2 DEF AllStacked
<1>5. Saved
  BY <1>4 DEF Saved
<1>6. Active!Read
  BY <1>1, <1>5, UpdateReads
<1>7. m \in Nat /\ m + 1 = linenum /\ linenum' - 1 = linenum /\ linenum \in Nat
  <2>1. linenum \in Nat /\ linenum >= 1
    BY <1>1, <1>3
  <2>2. QED
    BY <1>1, <2>1
<1>8. DepthTo(linenum) = LineOf(d, linenum) /\ BranchesTo(linenum) = BranchOf(SeenElse, l)
  <2> HIDE DEF m
  <2>1. DepthTo(m + 1) = LineOf(DepthTo(m), m + 1) /\ BranchesTo(m + 1) = BranchAt(BranchesTo(m), m + 1)
    BY <1>7, LinesNext, BranchesNext
  <2>2. QED
    BY <1>2, <1>7, <2>1 DEF BranchAt
<1>9. (DepthTo(linenum - 1))' = DepthTo(linenum) /\ (BranchesTo(linenum - 1))' = BranchesTo(linenum)
  <2>1. PICK n : n = linenum
    OBVIOUS
  <2>2. DepthTo(n)' = DepthTo(n)
    BY <1>1 DEF DepthTo, LinesOf, LineOf, LineCounts, BracesOf, BraceOf, BranchesTo, BranchesOf,
                BranchAt, BranchOf, Numbers, FoldLeft, MapThenFoldSet
  <2>3. BranchesTo(n)' = BranchesTo(n)
    BY <1>1 DEF BranchesTo, BranchesOf, BranchAt, BranchOf, Numbers, FoldLeft, MapThenFoldSet
  <2>4. QED
    BY <1>7, <2>1, <2>2, <2>3
<1>10. HasHead' <=> HasHead
  BY <1>1 DEF HasHead
<1>11. ~HasHead => Headless(l)
  BY <1>3 DEF HasHead, Headless, HeadWords
<1>12. r.pp \in Seq(Info(S)) /\ r.stack \in S /\ SeenOf(r.pp) = BranchOf(SeenOf(pp_stack), l)
  BY <1>4, DirectiveFollows, DirectiveStack
<1>13. pp_stack' = r.pp /\ stack' = Rest(r.stack, lines, linenum).stack
  BY <1>1 DEF Update
<1> HIDE DEF r
<1>14. SeenElse' = SeenOf(pp_stack') /\ SeenElse' = BranchesTo(linenum)
  BY <1>8, <1>12, <1>13, ActiveIs DEF SeenElse, SeenOf
<1>15. Active!Counts(SeenElse') <=> LineCounts(linenum)
  <2>1. pp_stack' \in Seq(Info(S))
    BY <1>12, <1>13
  <2>2. SeenOf(pp_stack') \in Seq(BOOLEAN)
    BY <2>1, SeenFacts
  <2>3. PICK q \in Seq(BOOLEAN) : q = SeenElse' /\ q = BranchesTo(linenum)
    BY <1>14, <2>2
  <2>4. \A i \in DOMAIN q : q[i] \in BOOLEAN
    BY <2>3
  <2>5. (\A i \in DOMAIN q : ~q[i]) <=> TRUE \notin ToSet(q)
    BY <2>4 DEF ToSet
  <2>6. QED
    BY <2>3, <2>5, LineCountsIs DEF Active!Counts
<1>16. Keeps(ActiveStack', DepthTo(linenum), HasHead) /\ DepthTo(linenum) \in Nat
  <2>1. CASE LineCounts(linenum)
    <3>1. ActiveStack' = Rest(ActiveStack, lines, linenum).stack
      BY <1>6, <1>15, <2>1 DEF Active!Read, AfterLine
    <3>2. DepthTo(linenum) = BracesOf(d, l.toks)
      BY <1>8, <2>1 DEF LineOf
    <3> HIDE DEF d
    <3>3. Keeps(Rest(ActiveStack, lines, linenum).stack, BracesOf(d, l.toks), HasHead)
      BY <1>2, <1>3, <1>11, RestKeeps
    <3>4. BracesOf(d, l.toks) \in Nat
      BY <1>2, <1>3, BracesType
    <3>5. QED
      BY <3>1, <3>2, <3>3, <3>4
  <2>2. CASE ~LineCounts(linenum)
    <3>1. ActiveStack' = ActiveStack
      BY <1>6, <1>15, <2>2 DEF Active!Read
    <3>2. DepthTo(linenum) = d
      BY <1>8, <2>2 DEF LineOf
    <3>3. QED
      BY <1>2, <3>1, <3>2
  <2>3. QED
    BY <2>1, <2>2
<1>17. AllStacked'
  <2>1. Stacked(stack')
    <3>1. Stacked(r.stack)
      BY <1>4, <1>12
    <3>2. PICK z \in Nat : z = 0
      OBVIOUS
    <3>3. Keeps(r.stack, z, TRUE)
      <4>1. OpenCount(r.stack) \in Nat
        BY <3>1, OpenFacts
      <4>2. QED
        BY <3>1, <3>2, <4>1 DEF Keeps
    <3>4. PICK heads : heads = TRUE /\ Keeps(r.stack, z, heads)
      BY <3>3
    <3>5. Keeps(Rest(r.stack, lines, linenum).stack, BracesOf(z, l.toks), heads)
      BY <1>3, <3>4, RestKeeps
    <3>6. QED
      BY <1>13, <3>5 DEF Keeps
  <2> DEFINE T == S \cup {stack'}
  <2>2. Info(S) \subseteq Info(T)
    BY DEF Info
  <2>3. pp_stack' \in Seq(Info(T))
    BY <1>12, <1>13, <2>2, SeqMonotonic
  <2>4. \A s \in T : Stacked(s)
    BY <1>4, <2>1
  <2>5. stack' \in T /\ <<>> \in T
    BY <1>4
  <2> HIDE DEF T
  <2>6. QED
    BY <2>3, <2>4, <2>5 DEF AllStacked
<1>18. QED
  BY <1>9, <1>10, <1>14, <1>16, <1>17 DEF DepthInv

LEMMA DepthNext == CountInv /\ DepthInv /\ [Next]_vars => DepthInv'
<1> SUFFICES ASSUME CountInv, DepthInv, [Next]_vars PROVE DepthInv'
  OBVIOUS
<1>1. ASSUME pc' # "line" PROVE DepthInv'
  BY <1>1 DEF DepthInv
<1>2. CASE OpenFile
  BY <1>2, DepthOpen
<1>3. CASE ProcessLine
  BY <1>3, DepthLine
<1>4. CASE UNCHANGED vars
  <2>1. UNCHANGED <<pc, lines, linenum, stack, pp_stack>>
    BY <1>4 DEF vars, driverVars, nestingVars
  <2>2. PICK n : n = linenum - 1
    OBVIOUS
  <2>3. DepthTo(n)' = DepthTo(n)
    BY <2>1 DEF DepthTo, LinesOf, LineOf, LineCounts, BracesOf, BraceOf, BranchesTo, BranchesOf,
                BranchAt, BranchOf, Numbers, FoldLeft, MapThenFoldSet
  <2>4. BranchesTo(n)' = BranchesTo(n)
    BY <2>1 DEF BranchesTo, BranchesOf, BranchAt, BranchOf, Numbers, FoldLeft, MapThenFoldSet
  <2>5. (DepthTo(linenum - 1))' = DepthTo(linenum - 1) /\ (BranchesTo(linenum - 1))' = BranchesTo(linenum - 1)
    BY <2>1, <2>2, <2>3, <2>4
  <2>6. ActiveStack' = ActiveStack /\ SeenElse' = SeenElse /\ (HasHead' <=> HasHead)
    BY <2>1 DEF ActiveStack, SeenElse, HasHead
  <2>7. AllStacked => AllStacked'
    BY <2>1 DEF AllStacked
  <2>8. Keeps(ActiveStack, DepthTo(linenum - 1), HasHead)
          => Keeps(ActiveStack', (DepthTo(linenum - 1))', HasHead')
    BY <2>5, <2>6 DEF Keeps
  <2>9. QED
    BY <2>1, <2>5, <2>6, <2>7, <2>8 DEF DepthInv
<1>5. CASE ParseArguments \/ SkipFile \/ CloseFile \/ Exit
  BY <1>1, <1>5, NoLines
<1>6. QED
  BY <1>2, <1>3, <1>4, <1>5 DEF Next

(* NestingState.Update loses no block, whatever the lines: the blocks open *)
(* for the lines that count are at least as many as their braces leave     *)
(* open, as many when the file names no class or namespace, and none is    *)
(* above a head whose brace has not come.                                  *)
THEOREM NoBlockLost == Spec => []DepthKept
<1>1. Init => DepthInv
  BY DEF Init, DepthInv
<1>2. DepthInv => DepthKept
  <2> SUFFICES ASSUME DepthInv, pc = "line"
               PROVE  /\ OpenBlocks >= Depth
                      /\ ~HasHead => OpenBlocks = Depth
                      /\ \A i \in 1 .. Len(stack) - 1 :
                           stack[i].seen_open_brace \/ stack[i + 1].kind # "block"
    BY DEF DepthKept
  <2>1. OpenBlocks = OpenCount(ActiveStack)
    BY DEF OpenBlocks, OpenCount, OpenIn
  <2>2. OpenCount(ActiveStack) >= DepthTo(linenum - 1)
        /\ (~HasHead => OpenCount(ActiveStack) = DepthTo(linenum - 1))
    BY DEF DepthInv, Keeps
  <2>3. Stacked(stack)
    BY DEF DepthInv, AllStacked
  <2>4. QED
    BY <2>1, <2>2, <2>3, DepthIs DEF Stacked
<1>3. QED
  BY <1>1, <1>2, CountAlways, DepthNext, PTL DEF Spec
=============================================================================
